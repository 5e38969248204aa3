SPECIFICATION Spec
CONSTANTS
  p1 = p1
  p2 = p2
  a1 = a1
  a2 = a2
  user = user
  NoMark = NoMark
  None = None
  Torn = Torn
  Proc <- MCProc
  Alias <- MCAlias
  Port = {1, 2}
  Setting = {user}
  DefaultPort = 1
  HasKeychain = {TRUE, FALSE}
  InitialFile <- MCInitialFile
  MaxCommands = 2
  MaxFaults = 1
SYMMETRY Terminals
INVARIANTS TypeOK HostIsForwarded DeliveredTokenIsAccepted
PROPERTIES UserSettingsKept SuccessMeansHealthy
CHECK_DEADLOCK FALSE
