SPECIFICATION FairSpec
CONSTANTS
  MaxMail = 2
  ImapPollers = {imap}
  GraphPollers = {graph}
  Webhooks = {hook}
  Starts <- MailStarts
  Chain <- Reply
  Conversation <- OneTalk
  WithFiles = {1}
  MaxFaults = 1
  MaxDeliveries = 2
INVARIANTS TypeOK SeenMeansKept RetriesRecordOnce ClockStarted NoOrphanedBytes
PROPERTIES BytesKept AllHandled
CHECK_DEADLOCK FALSE
