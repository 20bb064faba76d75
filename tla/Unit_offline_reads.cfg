CONSTANTS
  c1 = c1
  c2 = c2
  r1 = r1
  r2 = r2
  r3 = r3
  Client = {c1, c2}
  Unit = unit
  Request = {r1, r2}
  NoRequest = none
  Owner <- MCOwner
  BmOrder <- MCBmOrder
  Command <- OfflineCase
  QuickCommand <- SafeQuick
  EventMask <- EventMasks
  PacketType = {"ip"}
  FrameKind = {"uni"}
  ClearWireError = TRUE
SPECIFICATION Spec
INVARIANT OfflineAbortsReads
