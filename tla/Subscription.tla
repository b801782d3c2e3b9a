---------------------------- MODULE Subscription ----------------------------
(***************************************************************************)
(* The life of the Graph change-notification subscription                  *)
(* (server/src/graph/subscriptionService.js): the row that is kept, the    *)
(* subscriptions that live at Graph, and ensureSubscription, called at     *)
(* boot and on a timer and by the webhook when Graph tells that it dropped *)
(* one (webhookProcessor.handleLifecycle), awaited step by awaited step.   *)
(***************************************************************************)
EXTENDS Naturals, Sequences

CONSTANTS
  Life,         \* how long a subscription lives (MAX_SUBSCRIPTION_MINUTES)
  RenewBelow,   \* it is renewed when no more is left (RENEW_WHEN_REMAINING_MS)
  Urls,         \* the public addresses the server may be deployed at
  MaxIds,       \* subscriptions that Graph knows at once, live or named here
  MaxMishaps    \* calls that fail, and subscriptions that Graph drops

Callers == {"timer", "webhook"}

Ids   == 1 .. MaxIds
NoId  == 0
Steps == {"idle", "delete", "deleting", "renew", "renewing", "renewed", "clear",
          "create", "purge", "insert"}

ASSUME SubscriptionAssumption ==
  /\ Life \in Nat \ {0} /\ RenewBelow \in 1 .. Life - 1
  /\ MaxIds \in Nat /\ MaxMishaps \in Nat

VARIABLES
  url,      \* WEBHOOK_PUBLIC_URL of this process
  rows,     \* the GraphSubscription rows [id, url, left], newest last
  left,     \* of each subscription at Graph, the time until it expires ...
  gone,     \* ... unless it has been deleted or dropped
  job,      \* of each caller, its step and the subscription it works on
  notified, \* is a `subscriptionRemoved' notification on its way?
  checked,  \* has the timer fired since time last passed?
  mishaps   \* calls that failed or were cut short, and subscriptions dropped

subVars == <<url, rows, left, gone, job, notified, checked, mishaps>>

Live(i) == i \in Ids /\ left[i] > 0 /\ i \notin gone

(* getStored. *)
Stored == rows[Len(rows)]

Subscribed == rows # <<>> /\ Live(Stored.id)

Go(h, step, i) == job' = [job EXCEPT ![h] = [step |-> step, id |-> i]]
At(h, step)    == job[h].step = step
Done(h)        == Go(h, "idle", NoId)

(* A subscription has one row at most: subscriptionId is unique. *)
Without(i) ==
  IF \E n \in DOMAIN rows : rows[n].id = i
  THEN LET n == CHOOSE n \in DOMAIN rows : rows[n].id = i
       IN  SubSeq(rows, 1, n - 1) \o SubSeq(rows, n + 1, Len(rows))
  ELSE rows

Mishap == mishaps < MaxMishaps /\ mishaps' = mishaps + 1

(* Mutants: an expired row passes for current; nothing is renewed early. *)
EnsureBlind(h) ==
  /\ At(h, "idle")
  /\ IF rows = <<>> THEN Go(h, "create", NoId)
     ELSE IF Stored.url # url THEN Go(h, "delete", NoId)
     ELSE IF Stored.left \in 1 .. RenewBelow THEN Go(h, "renew", NoId)
     ELSE UNCHANGED job

EnsureLate(h) ==
  /\ At(h, "idle")
  /\ IF rows = <<>> THEN Go(h, "create", NoId)
     ELSE IF Stored.url # url THEN Go(h, "delete", NoId)
     ELSE IF Stored.left = 0 THEN Go(h, "clear", Stored.id)
     ELSE UNCHANGED job

(* ensureSubscription up to its first call to Graph: create when absent,    *)
(* recreate when pointing elsewhere or expired, renew when close to expiry. *)
Ensure(h) ==
  /\ At(h, "idle")
  /\ IF rows = <<>> THEN Go(h, "create", NoId)
     ELSE IF Stored.url # url THEN Go(h, "delete", NoId)
     ELSE IF Stored.left = 0 THEN Go(h, "clear", Stored.id)
     ELSE IF Stored.left <= RenewBelow THEN Go(h, "renew", NoId)
     ELSE UNCHANGED job

(* The timer fires, or the process has just started. *)
Fire ==
  /\ ~checked /\ checked' = TRUE
  /\ Ensure("timer")
  /\ UNCHANGED <<url, rows, left, gone, notified, mishaps>>

(* A notification counts if a row is stored (verifyClientState). *)
Notification ==
  /\ notified /\ notified' = FALSE
  /\ IF rows # <<>> THEN Ensure("webhook") ELSE UNCHANGED job
  /\ UNCHANGED <<url, rows, left, gone, checked, mishaps>>

(* deleteSubscription and renewSubscription read the row again. *)
Reread(h) ==
  /\ \/ /\ At(h, "delete")
        /\ IF rows = <<>> THEN Go(h, "create", NoId) ELSE Go(h, "deleting", Stored.id)
     \/ /\ At(h, "renew")
        /\ IF rows = <<>> THEN Done(h) ELSE Go(h, "renewing", Stored.id)
  /\ UNCHANGED <<url, rows, left, gone, notified, checked, mishaps>>

(* A subscription that is already gone counts as deleted; any other error   *)
(* is swallowed by ensureSubscription, which creates a new one regardless. *)
DeleteAtGraph(h) ==
  /\ At(h, "deleting")
  /\ \/ gone' = gone \cup {job[h].id} /\ Go(h, "clear", job[h].id) /\ UNCHANGED mishaps
     \/ Mishap /\ Go(h, "create", NoId) /\ UNCHANGED gone
  /\ UNCHANGED <<url, rows, left, notified, checked>>

(* Graph answers 404 for a subscription that lapsed. *)
RenewAtGraph(h) ==
  /\ At(h, "renewing")
  /\ \/ /\ Live(job[h].id)
        /\ left' = [left EXCEPT ![job[h].id] = Life]
        /\ Go(h, "renewed", job[h].id)
        /\ UNCHANGED mishaps
     \/ /\ ~Live(job[h].id)
        /\ Go(h, "clear", job[h].id)
        /\ UNCHANGED <<left, mishaps>>
     \/ Mishap /\ Done(h) /\ UNCHANGED left
  /\ UNCHANGED <<url, rows, gone, notified, checked>>

(* The update fails if the row is not there any more. *)
SaveRenewal(h) ==
  /\ At(h, "renewed")
  /\ \/ /\ rows' = [n \in DOMAIN rows |-> IF rows[n].id = job[h].id
                                         THEN [rows[n] EXCEPT !.left = Life] ELSE rows[n]]
        /\ UNCHANGED mishaps
     \/ Mishap /\ UNCHANGED rows
  /\ Done(h)
  /\ UNCHANGED <<url, left, gone, notified, checked>>

(* clearStored swallows its errors. *)
Clear(h) ==
  /\ \/ At(h, "clear") /\ rows' = Without(job[h].id) /\ Go(h, "create", NoId) /\ UNCHANGED mishaps
     \/ At(h, "purge") /\ rows' = <<>> /\ Go(h, "insert", job[h].id) /\ UNCHANGED mishaps
     \/ /\ Mishap /\ UNCHANGED rows
        /\ \/ At(h, "clear") /\ Go(h, "create", NoId)
           \/ At(h, "purge") /\ Go(h, "insert", job[h].id)
  /\ UNCHANGED <<url, left, gone, notified, checked>>

(* An id that nothing names any more stands for one that is new. *)
Unused == {i \in Ids : /\ ~Live(i)
                       /\ \A n \in DOMAIN rows : rows[n].id # i
                       /\ \A h \in Callers : job[h].id # i}

CreateAtGraph(h) ==
  /\ At(h, "create")
  /\ \/ /\ Unused # {}
        /\ LET i == CHOOSE i \in Unused : \A j \in Unused : i <= j
           IN /\ left' = [left EXCEPT ![i] = Life]
              /\ gone' = gone \ {i}
              /\ Go(h, "purge", i)
        /\ UNCHANGED mishaps
     \/ Mishap /\ Done(h) /\ UNCHANGED <<left, gone>>
  /\ UNCHANGED <<url, rows, notified, checked>>

Insert(h) ==
  /\ At(h, "insert")
  /\ \/ /\ rows' = Append(rows, [id |-> job[h].id, url |-> url, left |-> left[job[h].id]])
        /\ UNCHANGED mishaps
     \/ Mishap /\ UNCHANGED rows
  /\ Done(h)
  /\ UNCHANGED <<url, left, gone, notified, checked>>

Less(n) == IF n = 0 THEN 0 ELSE n - 1

(* Time passes: units in which the timer fires while the server runs, and   *)
(* the calls it makes end. *)
Age(running) ==
  /\ running => checked
  /\ \A h \in Callers : At(h, "idle")
  /\ left' = [i \in Ids |-> Less(left[i])]
  /\ rows' = [n \in DOMAIN rows |-> [rows[n] EXCEPT !.left = Less(@)]]
  /\ checked' = FALSE
  /\ UNCHANGED <<url, gone, job, notified, mishaps>>

(* Graph drops a subscription of its own accord, and says so: the notice    *)
(* may be lost. *)
Drop(i) ==
  /\ Live(i) /\ Mishap
  /\ gone' = gone \cup {i}
  /\ notified' \in {notified, TRUE}
  /\ UNCHANGED <<url, rows, left, job, checked>>

(* The process ends; it may start again under another address. *)
SubscriptionForgets ==
  /\ url' \in Urls
  /\ job' = [h \in Callers |-> [step |-> "idle", id |-> NoId]]
  /\ mishaps' = mishaps + IF \E h \in Callers : ~At(h, "idle") THEN 1 ELSE 0
  /\ checked' = FALSE /\ notified' = FALSE
  /\ UNCHANGED <<rows, left, gone>>

EnsureStep(h) ==
  \/ Reread(h) \/ DeleteAtGraph(h) \/ RenewAtGraph(h) \/ SaveRenewal(h)
  \/ Clear(h) \/ CreateAtGraph(h) \/ Insert(h)

SubscriptionInit ==
  /\ url \in Urls
  /\ rows = <<>> /\ left = [i \in Ids |-> 0] /\ gone = {}
  /\ job = [h \in Callers |-> [step |-> "idle", id |-> NoId]]
  /\ notified = FALSE /\ checked = FALSE /\ mishaps = 0

-----------------------------------------------------------------------------
(* "The subscription vanished ... fixed by the ordinary ensure/renew path"  *)
(* (webhookProcessor.js:97): a removal that is notified has the lost        *)
(* subscription replaced. *)
RemovalFixed ==
  [][notified /\ ~notified' /\ checked' /\ rows # <<>> =>
       Subscribed \/ ~At("webhook", "idle")']_subVars
=============================================================================
