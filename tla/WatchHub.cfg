SPECIFICATION FairSpec
CONSTANTS
  Client = {c1, c2}
  QueueCap = 2
  MaxNews = 4
INVARIANTS TypeOK NoSendOnClosed ReceivedInOrder GapsOnlyWhenFull
PROPERTIES BrokenAreRemoved QueuedIsReceived
CHECK_DEADLOCK FALSE
