SPECIFICATION FairSpec
CONSTANTS
  Bad = {2}
  MaxVersion = 4
  MaxMishaps = 3
INVARIANT ResetIsSafe
PROPERTIES
  UpdatesForward
  NewestArrives
