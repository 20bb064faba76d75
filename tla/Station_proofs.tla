---------------------------- MODULE Station_proofs ----------------------------
(***************************************************************************)
(* The unit process as keeper of the station address, for any addresses,   *)
(* packet types and length of the port.                                    *)
(***************************************************************************)
EXTENDS Station, ListFacts

\* The command that is performed is the one its label names.
CommandOK ==
  /\ upc \in {"config", "config low"} => command[1] = "config"
  /\ upc \in {"track", "untrack"} => command[1] = upc

\* While an address is copied from a request the interface is not configured,
\* and only a configured one goes online.
Configuring ==
  /\ upc \in {"config low", "config chip"} => "config" \notin state
  /\ "online" \in state => "config" \in state

StationInv == StationTypeOK /\ CommandOK /\ Configuring /\ UsedAddress /\ TrackConsistent

USE AddressAssumption DEF Half, netVars, fileVars, loopVars, trackVars, stationVars, Go

\* A command names what it needs: an address, a packet type or nothing.
LEMMA CommandFacts ==
  ASSUME NEW c \in Command
  PROVE  /\ c[1] \in {"config", "track", "untrack", "online", "offline"}
         /\ c[1] = "config" => c[2] \in Address
         /\ c[1] \in {"track", "untrack"} => c[2] \in PacketType
  BY DEF Command

LEMMA StationInitial == StationInit => StationInv
<1>. SUFFICES ASSUME StationInit PROVE StationInv
  OBVIOUS
<1>1. command \in Command
  BY DEF StationInit, Command
<1>2. TrackConsistent
  BY DEF StationInit, TrackConsistent, IsInjective, ToSet
<1>3. stAddr \in [Half -> Address] /\ chip \in [Half -> Address]
  BY DEF StationInit, Whole
<1>4. port \in Seq(Command) /\ tracked \in Seq(PacketType)
  BY DEF StationInit
<1>5. StationTypeOK
  BY <1>1, <1>3, <1>4 DEF StationInit, StationTypeOK, UnitLabel
<1>6. CommandOK /\ Configuring /\ UsedAddress
  BY DEF StationInit, CommandOK, Configuring, UsedAddress
<1>. QED
  BY <1>2, <1>5, <1>6 DEF StationInv

\* The configuration file: users edit it, and the unit reads it.
LEMMA FileStep ==
  ASSUME StationInv,
         EditBegins \/ EditEnds \/ ReadConfig \/ StoreMacHigh \/ StoreMacLow \/ StartNotify
  PROVE  StationInv'
<1>. USE DEF StationInv, StationTypeOK
<1>1. MacKey \in Address
  BY DEF MacKey
<1>2. StationTypeOK'
  <2>1. CASE EditBegins \/ EditEnds
    BY <2>1 DEF EditBegins, EditEnds, UnitLabel
  <2>2. CASE ReadConfig
    BY <1>1, <2>2 DEF ReadConfig, UnitLabel
  <2>3. CASE StoreMacHigh \/ StoreMacLow
    <3>1. stAddr' \in [Half -> Address]
      BY <2>3 DEF StoreMacHigh, StoreMacLow, StoreMac
    <3>. QED
      BY <2>3, <3>1 DEF StoreMacHigh, StoreMacLow, StoreMac, UnitLabel
  <2>4. CASE StartNotify
    BY <2>4 DEF StartNotify, UnitLabel
  <2>. QED
    BY <2>1, <2>2, <2>3, <2>4
<1>3. TrackConsistent'
  <2>1. tracked' = tracked /\ ipTrack' = ipTrack
    BY DEF EditBegins, EditEnds, ReadConfig, StoreMacHigh, StoreMacLow, StoreMac, StartNotify
  <2>. QED
    BY <2>1 DEF TrackConsistent
<1>4. CommandOK' /\ Configuring' /\ UsedAddress'
  BY DEF EditBegins, EditEnds, ReadConfig, StoreMacHigh, StoreMacLow, StoreMac, StartNotify,
         CommandOK, Configuring, UsedAddress
<1>. QED
  BY <1>2, <1>3, <1>4

\* The service loop: commands are put, fetched, and the file is looked at.
LEMMA LoopStep ==
  ASSUME StationInv,
         (\E c \in Command : PutCommand(c)) \/ WakeUp \/ GetMsg \/ PortEmpty \/ FileChanged
  PROVE  StationInv'
<1>. USE DEF StationInv, StationTypeOK
<1>1. CASE \E c \in Command : PutCommand(c)
  <2>1. port' \in Seq(Command)
    BY <1>1 DEF PutCommand
  <2>2. StationTypeOK'
    BY <1>1, <2>1 DEF PutCommand
  <2>3. UNCHANGED <<netVars, trackVars, upc, command>>
    BY <1>1 DEF PutCommand
  <2>. QED
    BY <2>2, <2>3 DEF CommandOK, Configuring, UsedAddress, TrackConsistent
<1>2. CASE GetMsg
  <2>1. Head(port) \in Command /\ Tail(port) \in Seq(Command)
    BY <1>2 DEF GetMsg
  <2>2. upc' \in {"config", "track", "untrack", "online", "offline"}
    BY <1>2, <2>1, CommandFacts DEF GetMsg
  <2>3. StationTypeOK'
    BY <1>2, <2>1, <2>2 DEF GetMsg, UnitLabel
  <2>. QED
    BY <1>2, <2>2, <2>3 DEF GetMsg, CommandOK, Configuring, UsedAddress, TrackConsistent
<1>3. CASE WakeUp
  <2>1. StationTypeOK'
    BY <1>3 DEF WakeUp, Received, UnitLabel
  <2>. QED
    BY <1>3, <2>1 DEF WakeUp, CommandOK, Configuring, UsedAddress, TrackConsistent
<1>4. CASE PortEmpty \/ FileChanged
  <2>1. StationTypeOK'
    BY <1>4 DEF PortEmpty, FileChanged, UnitLabel
  <2>. QED
    BY <1>4, <2>1 DEF PortEmpty, FileChanged, CommandOK, Configuring, UsedAddress,
                      TrackConsistent
<1>. QED
  BY <1>1, <1>2, <1>3, <1>4

\* S2_CONFIGINTERFACE, S2_ONLINE and S2_OFFLINE.
LEMMA InterfaceStep ==
  ASSUME StationInv,
         \/ AlreadyConfigured \/ ConfigHigh \/ ConfigLow \/ ConfigChip
         \/ OnlineStays \/ Online \/ Offline \/ OfflineFlush
  PROVE  StationInv'
<1>. USE DEF StationInv, StationTypeOK
<1>1. CASE ConfigHigh \/ ConfigLow
  <2>1. command[2] \in Address
    BY <1>1, CommandFacts DEF ConfigHigh, ConfigLow, CommandOK
  <2>2. stAddr' \in [Half -> Address]
    BY <1>1, <2>1 DEF ConfigHigh, ConfigLow
  <2>3. StationTypeOK'
    BY <1>1, <2>2 DEF ConfigHigh, ConfigLow, UnitLabel
  <2>. QED
    BY <1>1, <2>3 DEF ConfigHigh, ConfigLow, MayConfigure, CommandOK, Configuring,
                      UsedAddress, TrackConsistent
<1>2. CASE ConfigChip
  <2>1. StationTypeOK'
    BY <1>2 DEF ConfigChip, UnitLabel
  <2>. QED
    BY <1>2, <2>1 DEF ConfigChip, CommandOK, Configuring, UsedAddress, TrackConsistent
<1>3. CASE AlreadyConfigured \/ OnlineStays \/ OfflineFlush
  <2>1. StationTypeOK'
    BY <1>3 DEF AlreadyConfigured, OnlineStays, OfflineFlush, UnitLabel
  <2>. QED
    BY <1>3, <2>1 DEF AlreadyConfigured, OnlineStays, OfflineFlush, CommandOK, Configuring,
                      UsedAddress, TrackConsistent
<1>4. CASE Online \/ Offline
  <2>1. StationTypeOK'
    BY <1>4 DEF Online, Offline, UnitLabel
  <2>. QED
    BY <1>4, <2>1 DEF Online, Offline, CommandOK, Configuring, UsedAddress, TrackConsistent
<1>. QED
  BY <1>1, <1>2, <1>3, <1>4

\* S2_TRACKTYPE and S2_UNTRACKTYPE keep the list and the pointer to IP in step.
LEMMA TrackStep ==
  ASSUME StationInv, Track \/ Untrack
  PROVE  StationInv'
<1>. USE DEF StationInv, StationTypeOK
<1>1. command[2] \in PacketType
  BY CommandFacts DEF Track, Untrack, CommandOK
<1>2. tracked' \in Seq(PacketType) /\ ipTrack' \in BOOLEAN /\ TrackConsistent'
  <2>1. CASE UNCHANGED trackVars
    BY <2>1 DEF TrackConsistent
  <2>2. CASE Track /\ ~UNCHANGED trackVars
    <3>1. /\ command[2] \notin ToSet(tracked)
          /\ tracked' = Append(tracked, command[2])
          /\ ipTrack' = (ipTrack \/ command[2] = "ip")
      BY <2>2 DEF Track
    <3>2. /\ tracked' \in Seq(PacketType)
          /\ ToSet(tracked') = ToSet(tracked) \cup {command[2]}
          /\ IsInjective(tracked')
      BY <1>1, <3>1, AppendFacts DEF TrackConsistent
    <3>. QED
      BY <3>1, <3>2 DEF TrackConsistent
  <2>3. CASE Untrack /\ ~UNCHANGED trackVars
    <3>1. PICK i \in DOMAIN tracked :
            /\ tracked[i] = command[2]
            /\ tracked' = RemoveAt(tracked, i)
            /\ ipTrack' = IpKept(command[2])
      BY <2>3 DEF Untrack
    <3>2. /\ tracked' \in Seq(PacketType)
          /\ ToSet(tracked') = ToSet(tracked) \ {command[2]}
          /\ IsInjective(tracked')
      BY <3>1, RemoveAtFacts DEF TrackConsistent
    <3>. QED
      BY <3>1, <3>2 DEF TrackConsistent, IpKept
  <2>. QED
    BY <2>1, <2>2, <2>3
<1>3. StationTypeOK'
  BY <1>2 DEF Track, Untrack, UnitLabel
<1>. QED
  BY <1>2, <1>3 DEF Track, Untrack, CommandOK, Configuring, UsedAddress

LEMMA StationKeeps ==
  ASSUME StationInv, [StationNext]_stationVars
  PROVE  StationInv'
<1>1. CASE StationNext
  BY <1>1, FileStep, LoopStep, InterfaceStep, TrackStep DEF StationNext, UnitProcess, Outside
<1>2. CASE UNCHANGED stationVars
  BY <1>2 DEF StationInv, StationTypeOK, CommandOK, Configuring, UsedAddress, TrackConsistent
<1>. QED
  BY <1>1, <1>2

LEMMA StationInvariant == StationSpec => []StationInv
  BY StationInitial, StationKeeps, PTL DEF StationSpec

\* Every variable of the unit process keeps its type.
THEOREM StationTypeCorrect == StationSpec => []StationTypeOK
<1>1. StationInv => StationTypeOK
  BY DEF StationInv
<1>. QED
  BY <1>1, StationInvariant, PTL

\* eu_StAddr is what the chip was told, from S2_CONFIGINTERFACE until the
\* configuration file is read again.
THEOREM UsedAddressHolds == StationSpec => []UsedAddress
<1>1. StationInv => UsedAddress
  BY DEF StationInv
<1>. QED
  BY <1>1, StationInvariant, PTL

\* A type is tracked once, and eu_IPTrack never dangles.
THEOREM TrackConsistentHolds == StationSpec => []TrackConsistent
<1>1. StationInv => TrackConsistent
  BY DEF StationInv
<1>. QED
  BY <1>1, StationInvariant, PTL

\* Once configured, the interface stays so, and the chip keeps its address: a
\* step changes eu_StAddr then only by reading the file.
LEMMA AddressKept ==
  ASSUME StationInv, StationNext, "config" \in state
  PROVE  /\ "config" \in state' /\ chip' = chip
         /\ ~reread' => ~reread /\ stAddr' = stAddr
<1>. USE DEF StationInv, StationTypeOK, Configuring
<1>1. CASE Outside
  <2>1. UNCHANGED netVars
    BY <1>1 DEF Outside, EditBegins, EditEnds, PutCommand
  <2>. QED
    BY <2>1
<1>2. CASE ReadConfig \/ StoreMacHigh \/ StoreMacLow \/ StartNotify
  BY <1>2 DEF ReadConfig, StoreMacHigh, StoreMacLow, StoreMac, StartNotify
<1>3. CASE WakeUp \/ GetMsg \/ PortEmpty \/ FileChanged \/ Track \/ Untrack
  BY <1>3 DEF WakeUp, GetMsg, PortEmpty, FileChanged, Track, Untrack
<1>4. CASE \/ AlreadyConfigured \/ ConfigHigh \/ ConfigLow \/ ConfigChip
           \/ OnlineStays \/ Online \/ Offline \/ OfflineFlush
  BY <1>4 DEF AlreadyConfigured, ConfigHigh, ConfigLow, ConfigChip, OnlineStays, Online,
              Offline, OfflineFlush, MayConfigure
<1>. QED
  BY <1>1, <1>2, <1>3, <1>4 DEF StationNext, UnitProcess

-----------------------------------------------------------------------------
(* The notification of a changed file                                        *)

\* What the file says, for a reader that can open it.
KeyInFile == IF file = NoMac THEN FallbackAddress ELSE file

\* The unit process knows that the file has changed: the signal is pending, or it
\* was received and the loop has not come to it, or the file is read next.
InLoop == upc \notin {"wait", "read", "mac high", "mac low", "notify"}
Noticed == \/ "config" \in pending
           \/ InLoop /\ "config" \in received
           \/ upc = "read"

\* eu_StAddr comes from the file, not from S2_CONFIGINTERFACE.
FromFile == \/ reread
            \/ "config" \notin state /\ upc \notin {"config low", "config chip"}

\* An address from the file is the one in the file now, unless the unit process
\* is storing it, somebody is writing it, or a change of it is noticed.
FollowsFile ==
  upc \notin {"mac high", "mac low"} /\ FromFile /\ ~editing /\ ~Noticed =>
    stAddr = Whole(KeyInFile)

\* No file is closed between the first ReadConfig (line 968) and StartNotify
\* (line 977).
NoticedInTime == EditEnds => watching \/ upc = "read"

FileInv ==
  /\ FollowsFile
  /\ upc \in {"mac high", "mac low"} => mac = KeyInFile \/ editing \/ "config" \in pending
  /\ upc = "mac low" => stAddr["high"] = mac
  /\ reread => "config" \in state

LEMMA FileInvKept ==
  ASSUME StationInv, FileInv, NoticedInTime, StationNext
  PROVE  FileInv'
<1>. USE DEF StationInv, StationTypeOK, FileInv, FollowsFile, Noticed, FromFile, KeyInFile,
             InLoop
<1>1. CASE EditBegins
  BY <1>1 DEF EditBegins
<1>2. CASE EditEnds
  <2>1. UNCHANGED <<netVars, received, mac, upc>>
    BY <1>2 DEF EditEnds
  <2>2. "config" \in pending' \/ upc = "read"
    BY <1>2 DEF EditEnds, NoticedInTime
  <2>. QED
    BY <2>1, <2>2
<1>3. ASSUME NEW c \in Command, PutCommand(c)
      PROVE  FileInv'
  BY <1>3 DEF PutCommand
<1>4. CASE ReadConfig
  BY <1>4 DEF ReadConfig, MacKey
<1>5. CASE StoreMacHigh
  BY <1>5 DEF StoreMacHigh, StoreMac
<1>6. CASE StoreMacLow
  <2>1. /\ upc = "mac low" /\ stAddr' = [stAddr EXCEPT !["low"] = mac]
        /\ upc' \in {"wait", "notify"} /\ reread' = (reread \/ "config" \in state)
        /\ UNCHANGED <<state, fileVars, loopVars, mac>>
    BY <1>6 DEF StoreMacLow, StoreMac
  <2>2. stAddr' = Whole(mac)
    BY <2>1 DEF Whole
  <2>. QED
    BY <2>1, <2>2
<1>7. CASE StartNotify \/ WakeUp \/ PortEmpty \/ FileChanged
  <2>1. CASE StartNotify
    BY <2>1 DEF StartNotify
  <2>2. CASE WakeUp
    BY <2>2 DEF WakeUp, Received
  <2>3. CASE PortEmpty
    BY <2>3 DEF PortEmpty
  <2>4. CASE FileChanged
    BY <2>4 DEF FileChanged
  <2>. QED
    BY <1>7, <2>1, <2>2, <2>3, <2>4
<1>8. CASE GetMsg
  <2>1. /\ upc = "port" /\ upc' \in {"config", "track", "untrack", "online", "offline"}
        /\ UNCHANGED <<netVars, fileVars, pending, received, mac>>
    BY <1>8, CommandFacts DEF GetMsg
  <2>. QED
    BY <2>1
<1>9. CASE ConfigHigh \/ ConfigLow \/ ConfigChip
  <2>1. /\ upc \in {"config", "config low", "config chip"} /\ "config" \notin state
        /\ reread' = reread
    BY <1>9 DEF ConfigHigh, ConfigLow, ConfigChip, MayConfigure, Configuring
  <2>2. \/ upc' \in {"config low", "config chip"} /\ state' = state
        \/ upc' = "online" /\ "config" \in state'
    BY <1>9 DEF ConfigHigh, ConfigLow, ConfigChip
  <2>. QED
    BY <2>1, <2>2
<1>10. ASSUME UNCHANGED <<stAddr, reread, fileVars, pending, received, mac>>,
              "config" \in state' <=> "config" \in state,
              upc \in {"config", "online", "offline", "offline flush", "track", "untrack"},
              upc' \in {"port", "offline flush"}
       PROVE  FileInv'
  BY <1>10
<1>11. CASE \/ AlreadyConfigured \/ OnlineStays \/ Online \/ Offline \/ OfflineFlush
            \/ Track \/ Untrack
  <2>1. /\ UNCHANGED <<stAddr, reread, fileVars, pending, received, mac>>
        /\ "config" \in state' <=> "config" \in state
    BY <1>11 DEF AlreadyConfigured, OnlineStays, Online, Offline, OfflineFlush, Track, Untrack
  <2>2. /\ upc \in {"config", "online", "offline", "offline flush", "track", "untrack"}
        /\ upc' \in {"port", "offline flush"}
    BY <1>11 DEF AlreadyConfigured, OnlineStays, Online, Offline, OfflineFlush, Track, Untrack
  <2>. QED
    BY <1>10, <2>1, <2>2
<1>. QED
  BY <1>1, <1>2, <1>3, <1>4, <1>5, <1>6, <1>7, <1>8, <1>9, <1>10, <1>11
     DEF StationNext, Outside, UnitProcess

\* No notification is lost, however it meets the commands on the port, the reading
\* of the file and the next change: a change goes unnoticed only if it comes before
\* the unit has asked to be told (device.c:977).
THEOREM FollowsFileUnless == StationSpec /\ [][NoticedInTime]_stationVars => []FollowsFile
<1>1. StationInit => FileInv
  BY DEF StationInit, FileInv, FollowsFile, Noticed
<1>2. StationInv /\ FileInv /\ [StationNext]_stationVars /\ [NoticedInTime]_stationVars
      => FileInv'
  <2>1. ASSUME FileInv, UNCHANGED stationVars PROVE FileInv'
    BY <2>1 DEF FileInv, FollowsFile, Noticed, FromFile, KeyInFile, InLoop
  <2>. QED
    BY <2>1, FileInvKept
<1>3. FileInv => FollowsFile
  BY DEF FileInv
<1>. QED
  BY <1>1, <1>2, <1>3, StationInvariant, PTL DEF StationSpec
=============================================================================
