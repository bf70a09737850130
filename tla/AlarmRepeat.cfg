SPECIFICATION FairSpec
CONSTANTS
  MaxJobs = 3
  MaxEvents = 2
  MaxQueuedJobs = 2
  CallTimeout = 0
  SmsTimeout = 0
  CallPhones = 1
  SmsPhones = 0
  EscalateCalls = TRUE
  EscalateDelay = 0
  Hysteresis = 1
  ClearBySms = FALSE
  Duration = 1
  MaxPublishFails = 0
  MaxMishaps = 1
  MaxTests = 0
  PanelKinds = {}
PROPERTIES
  AlarmRepeats
  QueueDrains
