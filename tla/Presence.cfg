SPECIFICATION Spec
CONSTANTS
  AutoProvision = TRUE
  LiveSeconds = 3
  OfflineSeconds = 1
  Interval = 2
  KeepAlive = 1
  MaxTime = 5
  MaxInbox = 3
  MaxMishaps = 2
  Links <- MCLinks
INVARIANTS DeadIsNotLive HealthyIsShown
