SPECIFICATION Spec
CONSTANTS
  MaxJobs = 3
  MaxEvents = 1
  MaxQueuedJobs = 16
  CallTimeout = 1
  SmsTimeout = 1
  CallPhones = 2
  SmsPhones = 0
  EscalateCalls = TRUE
  EscalateDelay = 0
  Hysteresis = 1
  ClearBySms = FALSE
  Duration = 0
  MaxPublishFails = 0
  MaxMishaps = 0
  MaxTests = 0
  PanelKinds = {}
INVARIANT FinishedByItsResult
