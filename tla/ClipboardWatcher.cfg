SPECIFICATION FairSpec
CONSTANTS
  t1 = t1
  t2 = t2
  tiny = tiny
  i1 = i1
  None = None
  Text = {t1, t2, tiny}
  Tiny = {tiny}
  Short = {tiny}
  Image = {i1}
  Item <- MCItem
  Gap = {1, 3}
  Debounce = 2
  Throttle = 3
  MaxFaults = 1
INVARIANTS TypeOK ReportsAreBounded
PROPERTIES NewContentIsReported WatcherStops
CHECK_DEADLOCK FALSE
