CONSTANTS
  Unit = unit
  Sender = {s1}
  NoTask = none
  Source = {"RX", "TX", "LD"}
  FrameKind = {"good", "error"}
  CookedLength = {1500}
  RawLength = {}
  RxSlots = 2
  TxMemory = 2000
  MaxSessions = 1
SPECIFICATION FairSpec
INVARIANT FrameAnnounced
INVARIANT NoSourceForgotten
PROPERTY FramesTaken
