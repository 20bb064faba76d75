CONSTANTS
  Address = {hw, fb, own, other}
  HardwareAddress = hw
  FallbackAddress = fb
  FileAddress = {own}
  StackAddress = {own, other}
  PacketType = {"ip", "arp"}
  FileEdited = TRUE
  PortBound = 1
SPECIFICATION FairStationSpec
INVARIANTS StationTypeOK UsedAddress TrackConsistent
PROPERTY NotifyServed
