SPECIFICATION FairSpec
CONSTANTS
  d1 = d1
  d2 = d2
  b1 = b1
  b2 = b2
  h1 = h1
  h2 = h2
  None = None
  Device = {d1}
  BlobId = {b1}
  Handler = {h1, h2}
  Cleaner = cleaner
  Timestamp = {0}
  TTL = {0, 1, 2}
  MaxInbox = 1
  Second = 2
  MaxDuration = 3
  MaxTime = 2
  ClockAdvances = TRUE
INVARIANT DanglingOnlyExpired
PROPERTIES DropsOnlyExpired RequestsAreAnswered ExpiredBlobsAreRemoved
CHECK_DEADLOCK FALSE
