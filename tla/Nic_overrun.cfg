CONSTANTS
  Unit = unit
  Sender = {s1}
  NoTask = none
  Source = {"RX", "RXO"}
  FrameKind = {"good"}
  CookedLength = {}
  RawLength = {}
  RxSlots = 1
  TxMemory = 0
  MaxSessions = 1
SPECIFICATION FairSpec
PROPERTY FramesTaken
CHECK_DEADLOCK FALSE
