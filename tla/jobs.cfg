SPECIFICATION FairSpec
CONSTANTS
  DayLength = 4
  WeekLength = 3
  MonthLength = 6
  Zones <- MCZones
  SendDay <- MCSendDay
  SendHour = 1
  MaxSlips = 1
  Sources = {imap, graph}
  StallAfter = 2
  Life = 3
  RenewBelow = 1
  Urls = {u1, u2}
  MaxIds = 4
  MaxMishaps = 2
  MaxNow = 27
  MaxStops = 1
  Starts <- MCStarts
INVARIANT MailedOnce
PROPERTIES ReportArrives SilenceIsLoud SubscriptionReturns NeverLapses
CHECK_DEADLOCK FALSE
