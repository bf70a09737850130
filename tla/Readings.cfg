SPECIFICATION Spec
CONSTANTS
  Tabs = {t1, t2}
  t1 = t1
  t2 = t2
  Keys = {"temperature_1"}
  Plotted = {"temperature_1"}
  Buckets <- MCBuckets
  GapMinSamples = 2
  GapMultiplier = 1
  GapMinSeconds = 1
  GapMargin = 0
  DefaultSpan = 2
  MaxRange = 4
  PerPage = 2
  CardRows = 2
  CardAge = 2
  MaxTime = 4
  MaxSamples = 3
  MaxWindows = 2
SYMMETRY Symmetry
INVARIANTS OneOwner ShownToItsOwner OutageBreaksTheLine CardIsNewest PagesShowAll
PROPERTY HistoryKept
