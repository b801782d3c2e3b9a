------------------------------ MODULE MCSlaClock ------------------------------
(* Instances of SlaClock for TLC: days of four hours, weeks of three days. *)
EXTENDS SlaClock

(* UTC, two zones to the east, one that moves its clocks in a night that is *)
(* free, and one to the west. *)
Utc    == [before |-> 0, after |-> 0, at |-> 0]
East   == [before |-> 1, after |-> 1, at |-> 0]
Far    == [before |-> 3, after |-> 3, at |-> 0]
Summer == [before |-> 1, after |-> 2, at |-> 13]
West   == [before |-> -1, after |-> -1, at |-> 0]
MCZones == {Utc, East, Far, Summer, West}

Settings(zones, dates) ==
  {[zone |-> z, open |-> hours[1], close |-> hours[2], days |-> days, holidays |-> h, target |-> n] :
     z \in zones, hours \in {<<1, 3>>, <<0, 4>>, <<3, 4>>}, days \in {{1, 2}, {2}},
     h \in dates, n \in {1, 2, 5}}

(* West of UTC the table is left empty: see HolidayHeld. *)
MCPolicies == Settings(MCZones \ {West}, {{}, {4}, {4, 5}}) \cup Settings({West}, {{}})

AllPolicies == Settings(MCZones, {{4}})

MCBegins == 3 .. 11
=============================================================================
