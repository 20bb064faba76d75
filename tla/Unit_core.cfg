CONSTANTS
  c1 = c1
  c2 = c2
  r1 = r1
  r2 = r2
  r3 = r3
  Client = {c1, c2}
  Unit = unit
  Request = {r1, r2}
  NoRequest = none
  Owner <- MCOwner
  BmOrder <- MCBmOrder
  Command <- AllCommands
  QuickCommand <- SafeQuick
  EventMask <- TwoMasks
  PacketType = {"ip"}
  FrameKind = {"bcast"}
  ClearWireError = TRUE
SPECIFICATION FairSpec
INVARIANT TypeOK
INVARIANT NeverTwice
INVARIANT NeverLost
INVARIANT AbortFindsRequest
INVARIANT ReadOkHasFrame
INVARIANT NoMissedEvent
INVARIANT TxServed
PROPERTY KeepsContract
PROPERTY PortCommandsReturn
PROPERTY WritesReturn
PROPERTY FlushReturns
