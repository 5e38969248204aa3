SPECIFICATION Spec
CONSTANTS
  p1 = p1
  p2 = p2
  m1 = m1
  m2 = m2
  d1 = d1
  d2 = d2
  d3 = d3
  None = None
  Absent = Absent
  Name = {1}
  Version = {1, 2}
  DataSize <- MCDataSize
  Saver <- MCProc
  Inode = {1, 2, 3, 4, 5}
  MaxSize = 3
  Item = {i1, i2}
  Id = {0, 1, 2, 3}
  HistorySize = 2
  HistoryTTL = 1
  Reader <- MCProc
  MaxClock = 3
  PerSecond = 2
  Machine <- MCMachine
  Device <- MCDevice
  Agent <- MCProc
  Clip <- MCClip
  Argument <- MCArgument
  MaxCommands = 3
SYMMETRY Symmetric
INVARIANTS TypeOK LoneSaveIsKept FilesHoldWhatWasNamed FetchesDecrypt SendsReachTheNamed
CHECK_DEADLOCK FALSE
