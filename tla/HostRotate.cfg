SPECIFICATION Spec
CONSTANTS
  p1 = p1
  p2 = p2
  a1 = a1
  a2 = a2
  user = user
  NoMark = NoMark
  None = None
  Torn = Torn
  Proc = {p1}
  Alias <- MCAlias
  Port = {1, 2}
  Setting = {user}
  DefaultPort = 1
  HasKeychain = {TRUE}
  InitialFile <- MCInitialFile
  MaxCommands = 2
  MaxFaults = 0
INVARIANT RotatedTokenReachesHosts
CHECK_DEADLOCK FALSE
