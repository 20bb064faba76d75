CONSTANTS
  w1 = w1
  w2 = w2
  r1 = r1
  r2 = r2
  Address = {fb, own}
  HardwareAddress = fb
  FallbackAddress = fb
  FileAddress = {}
  StackAddress = {own}
  PacketType = {}
  FileEdited = FALSE
  PortBound = 1
  Opener = {w1, w2}
  Request = {r1, r2}
  NoRequest = none
  Owner <- MCOwner
  Forms <- OneForm
  DmaAnswer <- BothCopy
SPECIFICATION Spec
INVARIANT FrameIntact
