SPECIFICATION FairSpec
CONSTANTS
  Web = {"web"}
  Phones = 2
  MaxQueuedJobs = 2
  MaxEvents = 1
  MaxJobs = 2
  MaxCrashes = 1
INVARIANTS TypeOK PublishedOnce
PROPERTIES CancelledStaysSilent TransactionsEnd
