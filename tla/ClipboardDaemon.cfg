SPECIFICATION DaemonSpec
CONSTANTS
  h1 = h1
  h2 = h2
  shot = shot
  None = None
  Item = {shot}
  Png = {shot}
  Embeddable = {}
  Handler = {h1, h2}
  Id = {1, 2}
  MaxTime = 2
  HistorySize = 2
  HistoryTTL = 0
  MaxInFlight = 2
  MaxCache = 1
INVARIANTS ExitIsGraceful
CHECK_DEADLOCK FALSE
