CONSTANTS
  Unit = unit
  Sender = {s1, s2}
  NoTask = none
  Source = {"LC", "RX", "RXO"}
  FrameKind = {"good", "unmarked"}
  CookedLength = {1029}
  RawLength = {1037}
  RxSlots = 2
  TxMemory = 2081
  MaxSessions = 2
SPECIFICATION Spec
INVARIANT TypeOK
INVARIANT DataPortExclusive
INVARIANT CountBacked
INVARIANT TxOverdraftBounded
