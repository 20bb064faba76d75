------------------------------- MODULE Station -------------------------------
(***************************************************************************)
(* The unit process of device.c as the keeper of the station address: it   *)
(* takes the address from the hardware layer, lets the configuration file  *)
(* override it, lets S2_CONFIGINTERFACE override that, and reads the file  *)
(* again whenever AmigaDOS notifies it of a change.  S2_ONLINE, S2_OFFLINE *)
(* and the tracking of packet types are the other port commands with state *)
(* of their own; what the rest of the engine does is in Sana2Unit.         *)
(*                                                                         *)
(* An address is copied in pieces while other tasks read it: eu_StAddr is  *)
(* kept as a high half (four bytes) and a low half (two bytes).            *)
(***************************************************************************)
EXTENDS Naturals, Sequences, SequencesExt

CONSTANTS
  Address,         \* Ethernet addresses
  HardwareAddress, \* what getDefaultNetworkAddress() delivers
  FallbackAddress, \* FALLBACK_MAC_ADDRESS
  FileAddress,     \* what the key MAC of the configuration file may be
  StackAddress,    \* what a protocol stack may configure
  FileEdited,      \* whether users change the file while the unit runs
  PacketType,      \* the types for S2_TRACKTYPE; "ip" is 2048
  PortBound        \* commands on the port of the unit at a time

ASSUME AddressAssumption ==
  /\ {HardwareAddress, FallbackAddress} \cup FileAddress \cup StackAddress \subseteq Address
  /\ PortBound \in Nat /\ FileEdited \in BOOLEAN

Half == {"high", "low"}
Whole(a) == [h \in Half |-> a]
NoMac == "no MAC line"

Command == ({"config"} \X StackAddress) \cup ({"track", "untrack"} \X PacketType)
           \cup ({"online", "offline"} \X {"unit"})

VARIABLES
  stAddr,   \* eu_StAddr
  chip,     \* the registers MARH, MARM and MARL of the chip
  state,    \* eu_State: ETHERUF_CONFIG and ETHERUF_ONLINE
  reread,   \* the file was read again after S2_CONFIGINTERFACE
  file,     \* the value of the key MAC in the configuration file
  editing,  \* somebody has the file open for writing
  watching, \* StartNotify() was called
  pending,  \* signals of the unit process
  received, \* what Wait() returned
  port,     \* unit_MsgPort
  command,  \* the command that is performed
  mac,      \* what ReadKeyMacAddress() found
  tracked,  \* eu_Track
  ipTrack,  \* eu_IPTrack # NULL
  upc       \* where the unit process is

netVars  == <<stAddr, chip, state, reread>>
fileVars == <<file, editing, watching>>
loopVars == <<pending, received, port, command>>
trackVars == <<tracked, ipTrack>>
stationVars == <<netVars, fileVars, loopVars, mac, trackVars, upc>>

StationInit ==
  /\ stAddr = Whole(HardwareAddress) /\ chip = Whole(HardwareAddress)
  /\ state = {} /\ reread = FALSE
  /\ file \in FileAddress \cup {NoMac} /\ editing = FALSE /\ watching = FALSE
  /\ pending = {} /\ received = {} /\ port = << >> /\ command = <<"online", "unit">>
  /\ mac = FallbackAddress /\ tracked = << >> /\ ipTrack = FALSE /\ upc = "read"

Go(l) == upc' = l

-----------------------------------------------------------------------------
(* The configuration file *)

\* A user opens the file to rewrite it; nobody else can open it then.
EditBegins ==
  /\ FileEdited /\ ~editing /\ editing' = TRUE
  /\ UNCHANGED <<netVars, file, watching, loopVars, mac, trackVars, upc>>

\* AmigaDOS notifies when the file is closed.
EditEnds ==
  /\ editing /\ editing' = FALSE
  /\ file' \in FileAddress \cup {NoMac}
  /\ pending' = IF watching THEN pending \cup {"config"} ELSE pending
  /\ UNCHANGED <<netVars, watching, received, port, command, mac, trackVars, upc>>

\* RegistryInit and ReadKeyStr: without the file or the key there is a default,
\* which the mutant leaves out.
NoDefault == file
MacKey == IF editing \/ file = NoMac THEN FallbackAddress ELSE file

ReadConfig ==
  /\ upc = "read" /\ mac' = MacKey /\ Go("mac high")
  /\ UNCHANGED <<netVars, fileVars, loopVars, trackVars>>

\* ReadKeyMacAddress stores the bytes one by one in eu_StAddr.
StoreMac(label, h, next) ==
  /\ upc = label
  /\ stAddr' = [stAddr EXCEPT ![h] = mac]
  /\ reread' = (reread \/ "config" \in state)
  /\ Go(next)
  /\ UNCHANGED <<chip, state, fileVars, loopVars, mac, trackVars>>
StoreMacHigh == StoreMac("mac high", "high", "mac low")
StoreMacLow  == StoreMac("mac low", "low", IF watching THEN "wait" ELSE "notify")

StartNotify ==
  /\ upc = "notify" /\ watching' = TRUE /\ Go("wait")
  /\ UNCHANGED <<netVars, file, editing, loopVars, mac, trackVars>>

-----------------------------------------------------------------------------
(* The service loop *)

PutCommand(c) ==
  /\ Len(port) < PortBound
  /\ port' = Append(port, c) /\ pending' = pending \cup {"port"}
  /\ UNCHANGED <<netVars, fileVars, received, command, mac, trackVars, upc>>

\* Wait() returns all signals at once and clears them, and the loop looks at
\* each; the mutant looks at the configuration file in an else branch.
PortFirst(signals) == IF "port" \in signals THEN {"port"} ELSE signals
Received(signals) == signals
WakeUp ==
  /\ upc = "wait" /\ pending # {}
  /\ received' = Received(pending) /\ pending' = {}
  /\ Go(IF "port" \in pending THEN "port" ELSE "file")
  /\ UNCHANGED <<netVars, fileVars, port, command, mac, trackVars>>

GetMsg ==
  /\ upc = "port" /\ port # << >>
  /\ command' = Head(port) /\ port' = Tail(port) /\ Go(Head(port)[1])
  /\ UNCHANGED <<netVars, fileVars, pending, received, mac, trackVars>>

PortEmpty ==
  /\ upc = "port" /\ port = << >> /\ Go("file")
  /\ UNCHANGED <<netVars, fileVars, loopVars, mac, trackVars>>

FileChanged ==
  /\ upc = "file" /\ Go(IF "config" \in received THEN "read" ELSE "wait")
  /\ UNCHANGED <<netVars, fileVars, loopVars, mac, trackVars>>

-----------------------------------------------------------------------------
(* S2_CONFIGINTERFACE, S2_ONLINE, S2_OFFLINE *)

\* We are only configured once; the mutant: once per time online.
ConfigureAgain == "online" \notin state
MayConfigure == "config" \notin state

AlreadyConfigured ==
  /\ upc = "config" /\ ~MayConfigure /\ Go("port")
  /\ UNCHANGED <<netVars, fileVars, loopVars, mac, trackVars>>

ConfigHigh ==
  /\ upc = "config" /\ MayConfigure
  /\ stAddr' = [stAddr EXCEPT !["high"] = command[2]] /\ Go("config low")
  /\ UNCHANGED <<chip, state, reread, fileVars, loopVars, mac, trackVars>>

ConfigLow ==
  /\ upc = "config low"
  /\ stAddr' = [stAddr EXCEPT !["low"] = command[2]] /\ Go("config chip")
  /\ UNCHANGED <<chip, state, reread, fileVars, loopVars, mac, trackVars>>

\* setNetworkAddress() has the chip to itself (Disable).
ConfigChip ==
  /\ upc = "config chip"
  /\ chip' = stAddr /\ state' = state \cup {"config"} /\ Go("online")
  /\ UNCHANGED <<stAddr, reread, fileVars, loopVars, mac, trackVars>>

\* DevCmdOnline: the result of init() is not looked at.
OnlineStays ==
  /\ upc = "online" /\ ("config" \notin state \/ "online" \in state) /\ Go("port")
  /\ UNCHANGED <<netVars, fileVars, loopVars, mac, trackVars>>

Online ==
  /\ upc = "online" /\ "config" \in state /\ "online" \notin state
  /\ state' = state \cup {"online"} /\ Go("port")
  /\ UNCHANGED <<stAddr, chip, reread, fileVars, loopVars, mac, trackVars>>

Offline ==
  /\ upc = "offline"
  /\ state' = state \ {"online"}
  /\ Go(IF "online" \in state THEN "offline flush" ELSE "port")
  /\ UNCHANGED <<stAddr, chip, reread, fileVars, loopVars, mac, trackVars>>

\* DevCmdFlush aborts the writes on eu_Tx; the module of the writers says how.
OfflineFlush ==
  /\ upc = "offline flush" /\ Go("port")
  /\ UNCHANGED <<netVars, fileVars, loopVars, mac, trackVars>>

-----------------------------------------------------------------------------
(* S2_TRACKTYPE, S2_UNTRACKTYPE *)

\* AllocMem may fail; the request is answered without an error all the same.
Track ==
  /\ upc = "track" /\ Go("port")
  /\ LET type == command[2] IN
     IF type \in ToSet(tracked)
     THEN UNCHANGED trackVars
     ELSE \/ tracked' = Append(tracked, type) /\ ipTrack' = (ipTrack \/ type = "ip")
          \/ UNCHANGED trackVars
  /\ UNCHANGED <<netVars, fileVars, loopVars, mac>>

\* FreeMem follows, so eu_IPTrack must not stay; the mutant forgets it.
IpForgotten(type) == ipTrack
IpKept(type) == ipTrack /\ type # "ip"
Untrack ==
  /\ upc = "untrack" /\ Go("port")
  /\ LET type == command[2] IN
     \/ \E i \in DOMAIN tracked :
          /\ tracked[i] = type
          /\ tracked' = RemoveAt(tracked, i) /\ ipTrack' = IpKept(type)
     \/ type \notin ToSet(tracked) /\ UNCHANGED trackVars
  /\ UNCHANGED <<netVars, fileVars, loopVars, mac>>

-----------------------------------------------------------------------------
UnitProcess ==
  \/ ReadConfig \/ StoreMacHigh \/ StoreMacLow \/ StartNotify
  \/ WakeUp \/ GetMsg \/ PortEmpty \/ FileChanged
  \/ AlreadyConfigured \/ ConfigHigh \/ ConfigLow \/ ConfigChip
  \/ OnlineStays \/ Online \/ Offline \/ Track \/ Untrack

Outside == EditBegins \/ EditEnds \/ \E c \in Command : PutCommand(c)

UnitLabel == {"read", "mac high", "mac low", "notify", "wait", "port", "file", "config",
  "config low", "config chip", "online", "offline", "offline flush", "track", "untrack"}

\* Every variable keeps its type.
StationTypeOK ==
  /\ stAddr \in [Half -> Address] /\ chip \in [Half -> Address]
  /\ state \subseteq {"config", "online"} /\ reread \in BOOLEAN
  /\ file \in FileAddress \cup {NoMac} /\ editing \in BOOLEAN /\ watching \in BOOLEAN
  /\ pending \subseteq {"port", "config"} /\ received \subseteq {"port", "config"}
  /\ port \in Seq(Command) /\ command \in Command
  /\ mac \in Address /\ tracked \in Seq(PacketType) /\ ipTrack \in BOOLEAN
  /\ upc \in UnitLabel

-----------------------------------------------------------------------------
(* The unit process by itself *)

StationNext == UnitProcess \/ OfflineFlush \/ Outside
StationSpec == StationInit /\ [][StationNext]_stationVars
\* The unit process is ready to run when it has work, and Exec shares the
\* processor between tasks of one priority.  Users and openers need do nothing.
FairStationSpec == StationSpec /\ WF_stationVars(UnitProcess \/ OfflineFlush)

\* The address the driver uses, eu_StAddr, is the one the chip was told, from
\* S2_CONFIGINTERFACE until the configuration file is read again: the address
\* is set in three places, and only one of them tells the chip.
UsedAddress == "config" \in state /\ ~reread => stAddr = chip

\* eu_Track has a type once, and eu_IPTrack points into the list if, and only
\* if, IP is on it: S2_UNTRACKTYPE frees the entry it points to.
TrackConsistent ==
  /\ IsInjective(tracked)
  /\ ipTrack <=> "ip" \in ToSet(tracked)

\* A change of the configuration file reaches eu_StAddr, unless the file
\* changes once more, also when the notification comes while the file is read.
\* The unit drains its port first, so the openers must let it run dry at times.
NotifyServed ==
  []<>(upc = "wait") =>
    \A a \in FileAddress :
      ("config" \in pending /\ file = a /\ ~editing)
        ~> (stAddr = Whole(a) \/ file # a \/ editing)

=============================================================================
