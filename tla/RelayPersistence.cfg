SPECIFICATION Spec
CONSTANTS
  d1 = d1
  d2 = d2
  b1 = b1
  t1 = t1
  t2 = t2
  h1 = h1
  h2 = h2
  None = None
  Device = {d1}
  BlobId = {b1}
  Token = {t1, t2}
  Handler = {h1}
  Cleaner = cleaner
  Timestamp = {0}
  TTL = {1, 2}
  MaxInbox = 1
  Second = 2
  MaxDuration = 3
  MaxTime = 2
  MaxCrashes = 1
  MaxFailures = 1
SYMMETRY Symmetry
INVARIANTS TypeOK KnownDevicesCanAuthenticate ReferencesAreLive DurableUnlessBehind
