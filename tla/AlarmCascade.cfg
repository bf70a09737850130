SPECIFICATION Spec
CONSTANTS
  MaxJobs = 3
  MaxEvents = 1
  MaxQueuedJobs = 2
  CallTimeout = 1
  SmsTimeout = 1
  CallPhones = 2
  SmsPhones = 1
  EscalateCalls = TRUE
  EscalateDelay = 1
  Hysteresis = 1
  ClearBySms = TRUE
  Duration = 1
  MaxPublishFails = 1
  MaxMishaps = 1
  MaxTests = 1
  PanelKinds = {"ruleTest", "agenda"}
INVARIANTS
  SilencedStaysQuiet
  StillPursued
  CascadeInOrder
PROPERTY NoCommandForSilenced
