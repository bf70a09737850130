SPECIFICATION Spec
CONSTANTS
  Savers = {s1, s2}
  s1 = s1
  s2 = s2
  Contents = {"plain", "spoken", "refused"}
  Spoken = {"spoken"}
  Refused = {"refused"}
  NoContent = "none"
  MaxVersion = 2
  MaxMishaps = 1
  MaxNest = 2
  MaxReports = 2
INVARIANT SyncedAtRest
PROPERTIES RefinesRegister NoStepBack ReportIsTrue PreparedIsWhole
