CONSTANTS
  Unit = unit
  Sender = {s1}
  NoTask = none
  Source = {"LC", "RX"}
  FrameKind = {"good"}
  CookedLength = {}
  RawLength = {}
  RxSlots = 2
  TxMemory = 0
  MaxSessions = 1
SPECIFICATION Spec
INVARIANT NoSourceForgotten
