SPECIFICATION Spec
CONSTANTS
  DeferredEventMax = 2
  StackFrames = 5
  SmsResults = {sent, failed}
  Reports = {recovery, progress}
  MaxCommands = 2
  MaxReports = 2
INVARIANTS TypeOK NoTwoAlike AcceptedIsTried
