---------------------- MODULE Sana2Unit_service_proofs ----------------------
(***************************************************************************)
(* What becomes of a request of the I/O request engine, for every set of   *)
(* openers, requests and commands: no packet is stranded on eu_Tx, no      *)
(* waiting S2_ONEVENT sleeps through the state it waits for, DeviceAbortIO *)
(* looks in the right list, and a read that comes back good has a frame.   *)
(*                                                                         *)
(* All of it rests on IInv of Sana2Unit_proofs: that a request is in one   *)
(* place is why a step that works on one request disturbs no other.        *)
(***************************************************************************)
EXTENDS Sana2Unit_proofs

\* The types the steps below need.
LEMMA Types ==
  ASSUME IInv
  PROVE  /\ pc \in [Task -> ClientLabel \cup UnitLabel]
         /\ pc[Unit] \in UnitLabel
         /\ \A c \in Client : pc[c] \in ClientLabel
         /\ hand \in [Task -> Request \cup {NoRequest}]
         /\ cmd \in [Request -> Command \cup {"none"}]
         /\ wire \in [Request -> WireValue]
         /\ list \in [ListName -> Seq(Request)]
         /\ events \subseteq Request
         /\ app \subseteq Request
  BY DEF IInv, TypeOK, ControlTypes, PlaceTypes, RequestTypes

-----------------------------------------------------------------------------
(* sendAllPackets                                                            *)

\* Only WritePut makes eu_Tx longer, and it puts its task into the loop; a task
\* leaves the loop when it finds eu_Tx empty.
LEMMA TxServedStep ==
  ASSUME IInv, TxServed, Next
  PROVE  TxServed'
<1>. USE Types, NamesDistinct DEF TxServed, Goto, UnitLabel, PortCommand
<1>1. ASSUME list'["eu_Tx"] = list["eu_Tx"] \/ list'["eu_Tx"] = <<>>,
             NEW t \in Task, pc[t] \notin {"send", "sending"},
             \A u \in Task \ {t} : pc'[u] = pc[u]
      PROVE  TxServed'
  BY <1>1
<1>2. ASSUME NEW c \in Client, ClientNext(c)
      PROVE  TxServed'
  <2>1. ASSUME NEW r \in Request, NEW cd \in Command, BeginPort(c, r, cd)
        PROVE  TxServed'
    BY <1>1, <2>1 DEF BeginPort, Push, Submit
  <2>2. ASSUME NEW r \in Request, NEW cd \in Command, BeginNow(c, r, cd)
        PROVE  TxServed'
    <3>1. /\ pc[c] = "idle" /\ list' = list
          /\ pc' = [pc EXCEPT ![c] = NextLabel(cd)] \/ pc' = pc
      BY <2>2 DEF BeginNow, Submit, ReplyUnlessQuick
    <3>. QED
      BY <1>1, <3>1
  <2>3. CASE ReadQueue(c)
    BY <1>1, <2>3 DEF ReadQueue, Push, BackFromBeginIO
  <2>4. CASE OrphanQueue(c)
    BY <1>1, <2>4 DEF OrphanQueue, Push, BackFromBeginIO
  <2>5. CASE ReadBadArgument(c)
    BY <1>1, <2>5 DEF ReadBadArgument
  <2>6. CASE WriteTooLong(c)
    BY <1>1, <2>6 DEF WriteTooLong
  <2>7. CASE WritePut(c)
    BY <2>7 DEF WritePut
  <2>8. CASE SendGet(c)
    BY <2>8 DEF SendGet, NothingToSend
  <2>9. CASE SendDone(c)
    BY <2>9 DEF SendDone
  <2>10. ASSUME NEW r \in Request, AbortIO(c, r)
         PROVE  TxServed'
    <3>1. pc' = pc
      BY <2>10 DEF AbortIO
    <3>2. CASE list["eu_Tx"] # <<>>
      BY <3>1, <3>2
    <3>3. CASE list["eu_Tx"] = <<>>
      <4>1. \A i \in DOMAIN list["eu_Tx"] : FALSE
        BY <3>3
      <4>2. \/ list' = list
            \/ \E n \in AbortList(r) : \E i \in DOMAIN list[n] :
                 list' = [list EXCEPT ![n] = RemoveAt(@, i)]
        BY <2>10, Zenon DEF AbortIO, Unlinked
      <4>3. list'["eu_Tx"] = list["eu_Tx"]
        BY <4>1, <4>2
      <4>. QED
        BY <3>3, <4>3
    <3>. QED
      BY <3>2, <3>3
  <2>. QED
    BY <1>2, <2>1, <2>2, <2>3, <2>4, <2>5, <2>6, <2>7, <2>8, <2>9, <2>10
       DEF ClientNext, ClientStep
<1>3. CASE UnitNext
  <2>1. ASSUME NEW p \in PacketType, NEW d \in FrameKind, Receive(p, d)
        PROVE  TxServed'
    <3>1. list'["eu_Tx"] = list["eu_Tx"]
      BY <2>1 DEF Receive
    <3>2. pc' = pc \/ pc' = [pc EXCEPT ![Unit] = "orphans"]
      BY <2>1 DEF Receive
    <3>. QED
      BY <1>1, <3>1, <3>2
  <2>2. CASE ReceiveOrphan
    BY <1>1, <2>2 DEF ReceiveOrphan
  <2>3. CASE WakeUp
    BY <1>1, <2>3 DEF WakeUp
  <2>4. CASE Drained
    BY <1>1, <2>4 DEF Drained
  <2>5. CASE GetMsg
    BY <1>1, <2>5 DEF GetMsg
  <2>6. CASE Query \/ OnEvent \/ Config
    BY <1>1, <2>6 DEF Query, OnEvent, Config, Reply
  <2>7. CASE Online \/ OnlineEvent
    BY <1>1, <2>7 DEF Online, OnlineEvent, Reply
  <2>8. CASE Offline \/ OfflineEvent \/ OfflineNic
    BY <1>1, <2>8 DEF Offline, OfflineEvent, OfflineNic, Reply
  <2>9. CASE FlushReads
    BY <1>1, <2>9 DEF FlushReads
  <2>10. CASE FlushRest
    BY <1>1, <2>10 DEF FlushRest
  <2>. QED
    BY <1>3, <2>1, <2>2, <2>3, <2>4, <2>5, <2>6, <2>7, <2>8, <2>9, <2>10
       DEF UnitNext, UnitStep
<1>. QED
  BY <1>2, <1>3 DEF Next

\* However the writers, aborts, flushes and going offline interleave, a packet on
\* eu_Tx has a task in the loop of sendAllPackets that will take it.
THEOREM TxServedHolds ==
  ASSUME PoliteOpeners
  PROVE  Spec => []TxServed
<1>1. Init => TxServed
  BY NamesDistinct DEF Init, TxServed
<1>2. IInv /\ TxServed /\ [Next]_vars => TxServed'
  BY TxServedStep DEF vars, TxServed
<1>3. IInv /\ [Next]_vars => IInv'
  BY StepIInv
<1>. QED
  BY <1>1, <1>2, <1>3, InitIInv, PTL DEF Spec

-----------------------------------------------------------------------------
(* DevCmdOnEvent and DoEvent                                                 *)

\* NoMissedEvent, and that the unit process raises ONLINE and OFFLINE while the
\* unit is in that state.
EventInv ==
  /\ NoMissedEvent
  /\ pc[Unit] = "onlineEvent" => "ONLINE" \in state
  /\ pc[Unit] = "offlineEvent" => "ONLINE" \notin state

\* A step that neither changes eu_State nor adds to eu_Events, and leaves the
\* masks of the requests that stay there alone.
LEMMA EventsStay ==
  ASSUME EventInv, events' \subseteq events, state' = state,
         \A r \in events' : wire'[r] = wire[r],
         pc'[Unit] = pc[Unit]
           \/ (pc[Unit] \notin {"onlineEvent", "offlineEvent"} /\
               pc'[Unit] \notin {"onlineEvent", "offlineEvent"})
  PROVE  EventInv'
  BY DEF EventInv, NoMissedEvent, AlreadyTrue

\* The steps of the openers: they write to requests that are not on eu_Events,
\* or wake them.
LEMMA EventClientStep ==
  ASSUME IInv, EventInv, NEW c \in Client, ClientNext(c)
  PROVE  EventInv'
<1>. USE Given, Types, NamesDistinct, PlaceFacts
<1>1. ASSUME NEW r \in Request, r \notin events, events' \subseteq events,
             state' = state, \A x \in events' : x # r => wire'[x] = wire[x],
             pc'[Unit] = pc[Unit]
      PROVE  EventInv'
  BY <1>1, EventsStay
<1>2. ASSUME NEW r \in Request, NEW cd \in Command, BeginPort(c, r, cd)
      PROVE  EventInv'
  BY <1>1, <1>2 DEF BeginPort, Submit
<1>3. ASSUME NEW r \in Request, NEW cd \in Command, BeginNow(c, r, cd)
      PROVE  EventInv'
  <2>1. /\ r \in app /\ events' = events /\ state' = state
        /\ \A x \in events : x # r => wire'[x] = wire[x]
        /\ pc'[Unit] = pc[Unit]
    BY <1>3 DEF BeginNow, Submit, ReplyUnlessQuick, Goto
  <2>. QED
    BY <1>1, <2>1
<1>4. CASE ReadQueue(c) \/ OrphanQueue(c) \/ WritePut(c) \/ SendGet(c)
  <2>1. events' = events /\ state' = state /\ wire' = wire
    BY <1>4 DEF ReadQueue, OrphanQueue, WritePut, SendGet, reqVars
  <2>2. pc' = pc \/ \E l : pc' = [pc EXCEPT ![c] = l]
    BY <1>4, Zenon DEF ReadQueue, OrphanQueue, WritePut, SendGet,
                       BackFromBeginIO, Goto
  <2>. QED
    BY <2>1, <2>2, EventsStay
<1>5. CASE ReadBadArgument(c)
  <2>1. hand[c] \in Request
    BY <1>5 DEF ReadBadArgument
  <2>2. hand[c] \notin events
    BY <2>1
  <2>. QED
    BY <1>1, <1>5, <2>1, <2>2 DEF ReadBadArgument, Goto
<1>6. CASE WriteTooLong(c)
  <2>1. hand[c] \in Request
    BY <1>6 DEF WriteTooLong
  <2>2. hand[c] \notin events
    BY <2>1
  <2>3. PICK W : events' = events \ W
                 /\ wire' = [Update(wire, W, {"TX"}) EXCEPT ![hand[c]] = {}]
    BY <1>6, Zenon DEF WriteTooLong
  <2>4. \A x \in events' : x # hand[c] => wire'[x] = wire[x]
    BY <2>3 DEF Update
  <2>5. state' = state /\ pc'[Unit] = pc[Unit]
    BY <1>6 DEF WriteTooLong, Goto
  <2>. QED
    BY <1>1, <2>1, <2>2, <2>3, <2>4, <2>5
<1>7. CASE SendDone(c)
  <2>1. hand[c] \in Request
    BY <1>7 DEF SendDone
  <2>2. hand[c] \notin events
    BY <2>1
  <2>3. PICK W : events' = events \ W
                 /\ \E w : wire' = [Update(wire, W, {"BUFF"}) EXCEPT ![hand[c]] = w]
    BY <1>7, Zenon DEF SendDone
  <2>4. \A x \in events' : x # hand[c] => wire'[x] = wire[x]
    BY <2>3 DEF Update
  <2>5. state' = state /\ pc'[Unit] = pc[Unit]
    BY <1>7 DEF SendDone, Goto
  <2>. QED
    BY <1>1, <2>1, <2>2, <2>3, <2>4, <2>5
<1>8. ASSUME NEW r \in Request, AbortIO(c, r)
      PROVE  EventInv'
  <2>1. events' \subseteq events /\ state' = state /\ wire' = wire /\ pc' = pc
    BY <1>8 DEF AbortIO
  <2>. QED
    BY <2>1, EventsStay
<1>. QED
  BY <1>2, <1>3, <1>4, <1>5, <1>6, <1>7, <1>8 DEF ClientNext, ClientStep

\* fulfillReadIORequest writes to requests that are on a list, and wakes events.
LEMMA FulfillEvents ==
  ASSUME IInv, NEW offered, NEW taken, NEW failed, NEW d,
         Fulfill(offered, taken, failed, d),
         \A r \in failed : r \notin events
  PROVE  /\ events' \subseteq events
         /\ \A r \in events' : wire'[r] = wire[r]
<1>. DEFINE woken == IF failed = {} THEN {} ELSE Waiting("BUFF")
<1>1. /\ events' = events \ woken
      /\ wire' = Update(Update(wire, failed, {"ERR"}), woken, {"BUFF"})
  BY DEF Fulfill
<1>. HIDE DEF woken
<1>. QED
  BY <1>1, Types DEF Update

\* The loop of onPktReceived over eu_BuffMgmt keeps EventInv: the requests it
\* offers the frame are on read queues.
LEMMA EventReceive ==
  ASSUME IInv, EventInv, NEW p \in PacketType, NEW d \in FrameKind, Receive(p, d)
  PROVE  EventInv'
<1>. USE Given, NamesDistinct
<1>. DEFINE asked == {c \in Client : Matching(c, p) # {}}
            offer == [c \in asked |-> list[c][First(c, p)]]
<1>1. PICK verdict \in [asked -> Verdict] :
        Fulfill({offer[c] : c \in asked},
                {offer[c] : c \in {x \in asked : verdict[x] # "rejected"}},
                {offer[c] : c \in {x \in asked : verdict[x] = "failed"}}, d)
  BY Zenon DEF Receive
<1>2. \A c \in asked : offer[c] \in ToSet(list[c])
  <2>1. \A c \in asked : First(c, p) \in DOMAIN list[c]
    BY FirstIsMatching
  <2>. QED
    BY <2>1 DEF ToSet
<1>3. \A c \in asked : offer[c] \notin events
  BY <1>2, PlaceFacts
<1>4. PICK failed : failed = {offer[c] : c \in {x \in asked : verdict[x] = "failed"}}
  OBVIOUS
<1>5. \A r \in failed : r \notin events
  <2>. HIDE DEF offer
  <2>. QED
    BY <1>3, <1>4
<1>6. events' \subseteq events /\ \A r \in events' : wire'[r] = wire[r]
  BY <1>1, <1>4, <1>5, FulfillEvents
<1>7. /\ state' = state /\ pc[Unit] = "wait"
      /\ pc' = pc \/ pc' = [pc EXCEPT ![Unit] = "orphans"]
  BY DEF Receive, Goto
<1>. QED
  BY <1>6, <1>7, EventsStay, Types

\* So does the offer to the first orphan reader.
LEMMA EventReceiveOrphan ==
  ASSUME IInv, EventInv, ReceiveOrphan
  PROVE  EventInv'
<1>. USE Given, NamesDistinct
<1>. DEFINE q == Head(list["eu_ReadOrphan"])
<1>1. events' \subseteq events /\ \A r \in events' : wire'[r] = wire[r]
  <2>1. CASE list["eu_ReadOrphan"] = <<>>
    BY <2>1 DEF ReceiveOrphan
  <2>2. CASE list["eu_ReadOrphan"] # <<>>
    <3>1. PICK v \in Verdict :
            Fulfill({q}, IF v = "rejected" THEN {} ELSE {q},
                    IF v = "failed" THEN {q} ELSE {}, frame.kind)
      BY <2>2, Zenon DEF ReceiveOrphan
    <3>2. q \notin events
      BY <2>2, TailFacts, PlaceFacts DEF ListsOK
    <3>3. PICK failed : failed = IF v = "failed" THEN {q} ELSE {}
      OBVIOUS
    <3>. QED
      BY <3>1, <3>2, <3>3, FulfillEvents
  <2>. QED
    BY <2>1, <2>2
<1>2. state' = state /\ pc[Unit] = "orphans" /\ pc'[Unit] = "wait"
  BY Types DEF ReceiveOrphan, Goto
<1>. QED
  BY <1>1, <1>2, EventsStay

\* The unit process: it adds a request to eu_Events only if none of its events
\* is true already, and it takes the waiting requests off before it serves the
\* next command.
LEMMA EventUnitStep ==
  ASSUME IInv, EventInv, UnitNext
  PROVE  EventInv'
<1>. USE Types, NamesDistinct
<1>1. CASE WakeUp \/ Drained
  <2>1. events' = events /\ state' = state /\ wire' = wire
    BY <1>1 DEF WakeUp, Drained, reqVars
  <2>2. /\ pc[Unit] \in {"wait", "drain"}
        /\ pc'[Unit] \in {"wait", "drain"}
    BY <1>1 DEF WakeUp, Drained, Goto
  <2>. QED
    BY <2>1, <2>2, EventsStay
<1>2. CASE GetMsg
  <2>1. events' = events /\ state' = state /\ wire' = wire /\ pc[Unit] = "drain"
    BY <1>2 DEF GetMsg
  <2>2. pc'[Unit] \in Command \cup {"none"}
    BY <1>2, TailFacts DEF GetMsg, Goto
  <2>3. pc'[Unit] \notin {"onlineEvent", "offlineEvent"}
    BY <2>2, UnitAssumption DEF UnitAssumption, PortCommand, NowCommand
  <2>. QED
    BY <2>1, <2>3, EventsStay
<1>3. CASE Query
  BY <1>3, EventsStay DEF Query, Reply, Goto
<1>4. CASE OnEvent
  <2>. DEFINE r == hand[Unit]
  <2>1. /\ pc[Unit] = "onevent" /\ pc'[Unit] = "drain" /\ state' = state
    BY <1>4 DEF OnEvent, Goto
  <2>2. r \in Request /\ r \notin events
    BY <2>1, Given, PlaceFacts
  <2>3. CASE AlreadyTrue(wire[r])
    <3>1. events' = events /\ \A x \in events : wire'[x] = wire[x]
      BY <1>4, <2>2, <2>3 DEF OnEvent
    <3>. QED
      BY <2>1, <3>1, EventsStay
  <2>4. CASE ~AlreadyTrue(wire[r])
    <3>1. events' = events \cup {r} /\ wire' = wire
      BY <1>4, <2>4 DEF OnEvent
    <3>. QED
      BY <2>1, <2>4, <3>1 DEF EventInv, NoMissedEvent, AlreadyTrue
  <2>. QED
    BY <2>3, <2>4
<1>5. CASE Config
  <2>1. CASE "CONFIG" \notin state
    BY <1>5, <2>1 DEF Config, Goto, EventInv, NoMissedEvent, AlreadyTrue
  <2>2. CASE "CONFIG" \in state
    <3>1. hand[Unit] \in Request /\ hand[Unit] \notin events
      BY <1>5, Given, PlaceFacts DEF Config
    <3>. QED
      BY <1>5, <2>2, <3>1, EventsStay DEF Config, Reply, Goto
  <2>. QED
    BY <2>1, <2>2
<1>6. CASE Online
  <2>1. pc[Unit] = "online" /\ events' = events
    BY <1>6 DEF Online
  <2>2. hand[Unit] \in Request /\ hand[Unit] \notin events
    BY <2>1, Given, PlaceFacts
  <2>3. \/ /\ state' = state /\ pc'[Unit] = "drain"
           /\ wire' = wire \/ \E w : wire' = [wire EXCEPT ![hand[Unit]] = w]
        \/ /\ state' = state \cup {"ONLINE"} /\ pc'[Unit] = "onlineEvent"
    BY <1>6 DEF Online, Reply, Goto
  <2>. QED
    BY <2>1, <2>2, <2>3, EventsStay DEF EventInv, NoMissedEvent
<1>7. CASE OnlineEvent
  <2>1. /\ pc[Unit] = "onlineEvent" /\ state' = state /\ pc'[Unit] = "drain"
        /\ events' = events \ Waiting("ONLINE")
        /\ wire' = Update(wire, Waiting("ONLINE"), {"ONLINE"})
    BY <1>7 DEF OnlineEvent, Goto
  <2>2. \A x \in events' : "ONLINE" \notin wire[x] /\ wire'[x] = wire[x]
    BY <2>1 DEF Waiting, Update
  <2>3. "ONLINE" \in state
    BY <2>1 DEF EventInv
  <2>. QED
    BY <2>1, <2>2, <2>3 DEF EventInv, NoMissedEvent, AlreadyTrue
<1>8. CASE Offline
  <2>1. pc[Unit] = "offline" /\ events' = events /\ wire' = wire
    BY <1>8 DEF Offline
  <2>2. \/ state' = state /\ pc'[Unit] = "drain"
        \/ state' = state \ {"ONLINE"} /\ pc'[Unit] = "offlineEvent"
    BY <1>8 DEF Offline, Reply, Goto
  <2>. QED
    BY <2>1, <2>2, EventsStay DEF EventInv, NoMissedEvent
<1>9. CASE OfflineEvent
  <2>1. /\ pc[Unit] = "offlineEvent" /\ state' = state
        /\ pc'[Unit] = "offlineFlush"
        /\ events' = events \ Waiting("OFFLINE")
        /\ wire' = Update(wire, Waiting("OFFLINE"), {"OFFLINE"})
    BY <1>9 DEF OfflineEvent, Goto
  <2>2. \A x \in events' : "OFFLINE" \notin wire[x] /\ wire'[x] = wire[x]
    BY <2>1 DEF Waiting, Update
  <2>3. "ONLINE" \notin state
    BY <2>1 DEF EventInv
  <2>. QED
    BY <2>1, <2>2, <2>3 DEF EventInv, NoMissedEvent, AlreadyTrue
<1>10. CASE FlushReads
  BY <1>10, EventsStay DEF FlushReads, Goto
<1>11. CASE FlushRest
  <2>1. /\ pc[Unit] \in {"flushRest", "offlineRest"}
        /\ pc'[Unit] \in {"drain", "offlineNic"}
        /\ state' = state /\ events' \subseteq events /\ wire' = wire
    BY <1>11 DEF FlushRest, Goto
  <2>. QED
    BY <2>1, EventsStay
<1>12. CASE OfflineNic
  BY <1>12, EventsStay DEF OfflineNic, Reply, Goto
<1>. QED
  BY <1>1, <1>2, <1>3, <1>4, <1>5, <1>6, <1>7, <1>8, <1>9, <1>10, <1>11, <1>12,
     EventReceive, EventReceiveOrphan
     DEF UnitNext, UnitStep

\* However S2_ONEVENT, S2_ONLINE, S2_OFFLINE, S2_CONFIGINTERFACE and aborts come
\* after each other, no request waits on eu_Events for a state the unit is in.
THEOREM NoMissedEventHolds ==
  ASSUME PoliteOpeners
  PROVE  Spec => []NoMissedEvent
<1>1. Init => EventInv
  BY NamesDistinct DEF Init, EventInv, NoMissedEvent
<1>2. IInv /\ EventInv /\ [Next]_vars => EventInv'
  <2>1. CASE Next
    BY <2>1, EventClientStep, EventUnitStep DEF Next
  <2>2. CASE UNCHANGED vars
    BY <2>2 DEF vars, reqVars, EventInv, NoMissedEvent, AlreadyTrue
  <2>. QED
    BY <2>1, <2>2
<1>3. IInv /\ [Next]_vars => IInv'
  BY StepIInv
<1>4. EventInv => NoMissedEvent
  BY DEF EventInv
<1>. QED
  BY <1>1, <1>2, <1>3, <1>4, InitIInv, PTL DEF Spec

-----------------------------------------------------------------------------
(* DeviceAbortIO                                                             *)

\* The list a request may be on once it has left the unit port.
Belongs(r, n) == AbortList(r) = {n} \/ (cmd[r] = "multicast" /\ n = "eu_Tx")

\* The requests on the lists, and those on their way there in the hands of an
\* opener's task.
QueuedInv ==
  /\ \A r \in Request : \A n \in OnList(r) \ {"unitPort"} : Belongs(r, n)
  /\ \A c \in Client : /\ pc[c] = "read" => Belongs(hand[c], c)
                       /\ pc[c] = "orphan" => Belongs(hand[c], "eu_ReadOrphan")
                       /\ pc[c] = "put" => Belongs(hand[c], "eu_Tx")

\* A step that puts requests only where they belong, and changes io_Command of
\* none that is pending.
LEMMA QueuedStep ==
  ASSUME IInv, QueuedInv,
         \A r \in Request : \A n \in OnList(r)' \ {"unitPort"} :
           n \in OnList(r) \/ (r \notin app /\ Belongs(r, n)),
         \A r \in Request \ app : cmd'[r] = cmd[r],
         \A c \in Client : \/ pc'[c] = pc[c] /\ hand'[c] = hand[c]
                           \/ pc'[c] \in {"idle", "send", "sending"}
  PROVE  QueuedInv'
<1>. USE Given, Types, NamesDistinct
<1>1. \A r \in Request \ app : \A n : Belongs(r, n)' <=> Belongs(r, n)
  BY DEF Belongs, AbortList
<1>2. \A r \in Request : OnList(r) # {} => r \notin app
  BY PlaceFacts
<1>3. \A c \in Client : pc[c] \in {"read", "orphan", "put"} =>
        hand[c] \in Request \ app
  BY PlaceFacts
<1>4. ASSUME NEW c \in Client, pc'[c] \in {"read", "orphan", "put"}
      PROVE  hand'[c] = hand[c] /\ pc'[c] = pc[c] /\ hand[c] \in Request \ app
  BY <1>3, <1>4
<1>5. \A r \in Request : \A n \in OnList(r)' \ {"unitPort"} : Belongs(r, n)'
  BY <1>1, <1>2 DEF QueuedInv
<1>6. ASSUME NEW c \in Client
      PROVE  /\ pc'[c] = "read" => Belongs(hand[c], c)'
             /\ pc'[c] = "orphan" => Belongs(hand[c], "eu_ReadOrphan")'
             /\ pc'[c] = "put" => Belongs(hand[c], "eu_Tx")'
  <2>1. ASSUME pc'[c] \in {"read", "orphan", "put"}, NEW n, Belongs(hand[c], n)
        PROVE  Belongs(hand[c], n)'
    <3>1. hand'[c] = hand[c] /\ cmd'[hand[c]] = cmd[hand[c]]
      BY <1>4, <2>1
    <3>. QED
      BY <2>1, <3>1, Zenon DEF Belongs, AbortList
  <2>. QED
    BY <1>4, <2>1 DEF QueuedInv
<1>. QED
  BY <1>5, <1>6 DEF QueuedInv

\* The steps that only take requests off lists.
OnlyUnlinks == \A r \in Request : OnList(r)' \subseteq OnList(r)

\* DeviceAbortIO.
LEMMA AbortUnlinks ==
  ASSUME IInv, NEW c \in Client, NEW r \in Request, AbortIO(c, r)
  PROVE  OnlyUnlinks
<1>. USE Given, NamesDistinct
<1>1. CASE list' = list
  BY <1>1, SameFacts DEF OnlyUnlinks
<1>2. CASE \E n \in AbortList(r) : \E i \in DOMAIN list[n] :
             list[n][i] = r /\ list' = [list EXCEPT ![n] = RemoveAt(@, i)]
  <2>1. AbortList(r) \subseteq ListName
    BY UnitAssumption DEF AbortList
  <2>2. PICK n \in ListName : \E i \in DOMAIN list[n] :
          list[n][i] = r /\ list' = [list EXCEPT ![n] = RemoveAt(@, i)]
    BY <1>2, <2>1
  <2>3. \A x \in Request :
          OnList(x)' = IF x = r THEN OnList(x) \ {n} ELSE OnList(x)
    <3>1. ListsOK /\ n \in ListName /\ r \in Request
      OBVIOUS
    <3>. QED
      BY ONLY <2>2, <3>1, RemoveFacts
  <2>. QED
    BY <2>3 DEF OnlyUnlinks
<1>. QED
  BY <1>1, <1>2, Zenon DEF AbortIO, Unlinked

\* onPktReceived.
LEMMA ReceiveUnlinks ==
  ASSUME IInv, NEW p \in PacketType, NEW d \in FrameKind, Receive(p, d)
  PROVE  OnlyUnlinks
<1>. USE Given, NamesDistinct
<1>. DEFINE asked == {c \in Client : Matching(c, p) # {}}
<1>1. PICK takers \in SUBSET asked :
        list' = [n \in ListName |-> IF n \in takers
                   THEN RemoveAt(list[n], First(n, p)) ELSE list[n]]
  BY Zenon DEF Receive
<1>2. PICK at : at = [n \in takers |-> First(n, p)]
  OBVIOUS
<1>3. \A n \in takers : at[n] \in DOMAIN list[n] /\ at[n] = First(n, p)
  BY <1>2, FirstIsMatching
<1>4. list' = [n \in ListName |-> IF n \in takers THEN RemoveAt(list[n], at[n])
                                                  ELSE list[n]]
  BY <1>1, <1>3
<1>5. \A x \in Request :
        OnList(x)' = OnList(x) \ {n \in takers : x = list[n][at[n]]}
  <2>1. ListsOK /\ takers \in SUBSET ListName
    OBVIOUS
  <2>. QED
    BY ONLY <1>3, <1>4, <2>1, RemoveEachFacts
<1>. QED
  BY <1>5 DEF OnlyUnlinks

\* The unit process puts no request on a list.
LEMMA UnitUnlinks ==
  ASSUME IInv, UnitNext
  PROVE  OnlyUnlinks
<1>. USE Given, NamesDistinct
<1>1. ASSUME NEW n \in ListName, list[n] # <<>>,
             list' = [list EXCEPT ![n] = Tail(@)]
      PROVE  OnlyUnlinks
  BY <1>1, PopFacts DEF OnlyUnlinks
<1>2. ASSUME NEW S \in SUBSET ListName,
             list' = [n \in ListName |-> IF n \in S THEN <<>> ELSE list[n]]
      PROVE  OnlyUnlinks
  <2>1. \A x \in Request : OnList(x)' = OnList(x) \ S
    BY <1>2, EmptyFacts
  <2>. QED
    BY <2>1 DEF OnlyUnlinks
<1>3. CASE list' = list
  BY <1>3, SameFacts DEF OnlyUnlinks
<1>4. CASE GetMsg
  BY <1>1, <1>4 DEF GetMsg
<1>5. CASE FlushReads
  BY <1>2, <1>5 DEF FlushReads
<1>6. CASE FlushRest
  <2>1. PICK S \in SUBSET ListName : S = {"eu_Tx"}
    <3>1. {"eu_Tx"} \in SUBSET ListName
      OBVIOUS
    <3>. QED
      BY <3>1
  <2>2. list' = [n \in ListName |-> IF n \in S THEN <<>> ELSE list[n]]
    BY <1>6, <2>1 DEF FlushRest, ListsOK
  <2>. QED
    BY <1>2, <2>2
<1>7. CASE ReceiveOrphan
  <2>1. list' = list \/ (list["eu_ReadOrphan"] # <<>> /\
                         list' = [list EXCEPT !["eu_ReadOrphan"] = Tail(@)])
    BY <1>7 DEF ReceiveOrphan
  <2>. QED
    BY <1>1, <1>3, <2>1
<1>8. CASE WakeUp \/ Drained \/ Query \/ OnEvent \/ Config \/ Online
             \/ OnlineEvent \/ Offline \/ OfflineEvent \/ OfflineNic
  <2>1. list' = list
    BY <1>8 DEF WakeUp, Drained, Query, OnEvent, Config, Online, OnlineEvent,
                Offline, OfflineEvent, OfflineNic
  <2>. QED
    BY <1>3, <2>1
<1>. QED
  BY <1>4, <1>5, <1>6, <1>7, <1>8, ReceiveUnlinks DEF UnitNext, UnitStep

\* The unit process keeps QueuedInv: it touches neither io_Command nor the
\* openers' tasks.
LEMMA QueuedUnitStep ==
  ASSUME IInv, QueuedInv, UnitNext
  PROVE  QueuedInv'
<1>. USE Types, NamesDistinct
<1>1. cmd' = cmd
  BY Zenon DEF UnitNext, UnitStep, WakeUp, Drained, GetMsg, Query, OnEvent, Config,
               Online, OnlineEvent, Offline, OfflineEvent, FlushReads, FlushRest,
               OfflineNic, ReceiveOrphan, Receive, reqVars
<1>2. \/ pc' = pc
      \/ \E l : pc' = [pc EXCEPT ![Unit] = l]
  BY Zenon DEF UnitNext, UnitStep, WakeUp, Drained, GetMsg, Query, OnEvent, Config,
               Online, OnlineEvent, Offline, OfflineEvent, FlushReads, FlushRest,
               OfflineNic, ReceiveOrphan, Receive, Reply, Goto
<1>3. \/ hand' = hand
      \/ \E r : hand' = [hand EXCEPT ![Unit] = r]
  BY Zenon DEF UnitNext, UnitStep, WakeUp, Drained, GetMsg, Query, OnEvent, Config,
               Online, OnlineEvent, Offline, OfflineEvent, FlushReads, FlushRest,
               OfflineNic, ReceiveOrphan, Receive, Reply, Drop, Take
<1>4. \A c \in Client : pc'[c] = pc[c] /\ hand'[c] = hand[c]
  BY <1>2, <1>3
<1>. QED
  BY <1>1, <1>4, UnitUnlinks, QueuedStep DEF OnlyUnlinks

\* The openers put requests on lists; DevCmdReadPacket, DevCmdReadOrphan and
\* DevCmdWritePacket each know the right one.
LEMMA QueuedClientStep ==
  ASSUME IInv, QueuedInv, NEW c \in Client, ClientNext(c)
  PROVE  QueuedInv'
<1>. USE Given, Types, NamesDistinct, PlaceFacts
<1>1. ASSUME NEW r \in Request, NEW cd \in Command, BeginPort(c, r, cd)
      PROVE  QueuedInv'
  <2>1. /\ r \in app /\ pc' = pc /\ hand' = hand
        /\ \A x \in Request \ app : cmd'[x] = cmd[x]
    BY <1>1 DEF BeginPort, Submit
  <2>2. \A x \in Request : OnList(x)' \ {"unitPort"} \subseteq OnList(x)
    <3>1. r \notin ToSet(list["unitPort"])
      BY <2>1
    <3>2. \A x \in Request :
            OnList(x)' = IF x = r THEN OnList(x) \cup {"unitPort"} ELSE OnList(x)
      BY <1>1, <3>1, PushFacts DEF BeginPort
    <3>3. ASSUME NEW x \in Request, NEW n \in OnList(x)', n # "unitPort"
          PROVE  n \in OnList(x)
      <4>1. OnList(x)' \subseteq OnList(x) \cup {"unitPort"}
        BY <3>2
      <4>. QED
        BY <3>3, <4>1
    <3>. QED
      BY <3>3
  <2>. QED
    BY <2>1, <2>2, QueuedStep
<1>2. ASSUME NEW r \in Request, NEW cd \in Command, BeginNow(c, r, cd)
      PROVE  QueuedInv'
  <2>1. /\ r \in app /\ cmd' = [cmd EXCEPT ![r] = cd] /\ list' = list
        /\ Owner[r] = c /\ cd \in NowCommand /\ pc[c] = "idle"
    BY <1>2 DEF BeginNow, Submit
  <2>2. \A x \in Request : OnList(x)' = OnList(x)
    BY <2>1, SameFacts
  <2>3. CASE pc' = pc /\ hand' = hand
    BY <2>1, <2>2, <2>3, QueuedStep
  <2>4. CASE /\ cd # "nsquery" /\ pc' = [pc EXCEPT ![c] = NextLabel(cd)]
             /\ hand' = [hand EXCEPT ![c] = r]
    <3>1. \A x \in Request : \A n \in OnList(x)' \ {"unitPort"} : Belongs(x, n)'
      <4>1. ASSUME NEW x \in Request, NEW n \in OnList(x) \ {"unitPort"}
            PROVE  Belongs(x, n) /\ cmd'[x] = cmd[x]
        BY <2>1, <4>1 DEF QueuedInv
      <4>. QED
        BY <2>2, <4>1, Zenon DEF Belongs, AbortList
    <3>2. ASSUME NEW b \in Client, b # c
          PROVE  /\ pc'[b] = "read" => Belongs(hand[b], b)'
                 /\ pc'[b] = "orphan" => Belongs(hand[b], "eu_ReadOrphan")'
                 /\ pc'[b] = "put" => Belongs(hand[b], "eu_Tx")'
      <4>1. pc'[b] = pc[b] /\ hand'[b] = hand[b]
        BY <2>4, <3>2
      <4>2. ASSUME pc[b] \in {"read", "orphan", "put"}, NEW n, Belongs(hand[b], n)
            PROVE  Belongs(hand[b], n)'
        <5>1. cmd'[hand[b]] = cmd[hand[b]]
          BY <2>1, <4>2
        <5>. QED
          BY <4>1, <4>2, <5>1, Zenon DEF Belongs, AbortList
      <4>. QED
        BY <4>1, <4>2 DEF QueuedInv
    <3>3. /\ pc'[c] = "read" => Belongs(hand[c], c)'
          /\ pc'[c] = "orphan" => Belongs(hand[c], "eu_ReadOrphan")'
          /\ pc'[c] = "put" => Belongs(hand[c], "eu_Tx")'
      BY <2>1, <2>4 DEF NextLabel, NowCommand, Belongs, AbortList
    <3>. QED
      BY <3>1, <3>2, <3>3 DEF QueuedInv
  <2>. QED
    BY <1>2, <2>3, <2>4, Zenon DEF BeginNow, ReplyUnlessQuick, Goto, Take
<1>3. ASSUME NEW n \in ListName, Push(n, hand[c]), cmd' = cmd,
             pc[c] \in {"read", "orphan", "put"}, Belongs(hand[c], n),
             \E l \in {"idle", "send"} : pc' = [pc EXCEPT ![c] = l], Drop(c)
      PROVE  QueuedInv'
  <2>1. hand[c] \in Request /\ hand[c] \notin app /\ hand[c] \notin ToSet(list[n])
    <3>1. c \in Task /\ hand[c] # NoRequest
      BY <1>3
    <3>2. hand[c] \in Request
      BY <3>1
    <3>3. OnList(hand[c]) = {} /\ hand[c] \notin app
      BY <3>1, <3>2
    <3>. QED
      BY <3>2, <3>3, <1>3 DEF OnList
  <2>2. PICK r \in Request : r = hand[c]
    BY <2>1
  <2>3. \A x \in Request :
          OnList(x)' = IF x = r THEN OnList(x) \cup {n} ELSE OnList(x)
    BY <1>3, <2>1, <2>2, PushFacts
  <2>4. \A b \in Client : \/ pc'[b] = pc[b] /\ hand'[b] = hand[b]
                          \/ pc'[b] \in {"idle", "send", "sending"}
    BY <1>3 DEF Drop
  <2>. QED
    BY <1>3, <2>1, <2>2, <2>3, <2>4, QueuedStep
<1>4. CASE ReadQueue(c)
  BY <1>3, <1>4 DEF ReadQueue, BackFromBeginIO, Goto, QueuedInv
<1>5. CASE OrphanQueue(c)
  BY <1>3, <1>5 DEF OrphanQueue, BackFromBeginIO, Goto, QueuedInv
<1>6. CASE WritePut(c)
  BY <1>3, <1>6 DEF WritePut, Goto, QueuedInv
<1>7. ASSUME list' = list, cmd' = cmd, NEW l \in {"idle", "send", "sending"},
             pc' = [pc EXCEPT ![c] = l], \E r : hand' = [hand EXCEPT ![c] = r]
      PROVE  QueuedInv'
  BY <1>7, SameFacts, QueuedStep
<1>8. CASE ReadBadArgument(c)
  BY <1>7, <1>8 DEF ReadBadArgument, Goto, Drop
<1>9. CASE WriteTooLong(c)
  BY <1>7, <1>9 DEF WriteTooLong, Goto, Drop
<1>10. CASE SendDone(c)
  BY <1>7, <1>10 DEF SendDone, Goto, Drop
<1>11. CASE SendGet(c)
  <2>1. CASE NothingToSend
    <3>1. list' = list /\ cmd' = cmd /\ hand' = hand /\ pc' = [pc EXCEPT ![c] = "idle"]
      BY <1>11, <2>1 DEF SendGet, Goto, reqVars
    <3>. QED
      BY <3>1, SameFacts, QueuedStep
  <2>2. CASE ~NothingToSend
    <3>1. /\ list' = [list EXCEPT !["eu_Tx"] = Tail(@)] /\ cmd' = cmd
          /\ pc' = [pc EXCEPT ![c] = "sending"] /\ Take(c, Head(list["eu_Tx"]))
          /\ list["eu_Tx"] # <<>>
      BY <1>11, <2>2 DEF SendGet, Goto, reqVars, NothingToSend
    <3>2. \A x \in Request : OnList(x)' \subseteq OnList(x)
      <4>1. \A x \in Request : OnList(x)' =
              IF x = Head(list["eu_Tx"]) THEN OnList(x) \ {"eu_Tx"} ELSE OnList(x)
        BY <3>1, PopFacts
      <4>. QED
        BY <4>1
    <3>3. \A b \in Client : \/ pc'[b] = pc[b] /\ hand'[b] = hand[b]
                            \/ pc'[b] \in {"idle", "send", "sending"}
      BY <3>1 DEF Take
    <3>. QED
      BY <3>1, <3>2, <3>3, QueuedStep
  <2>. QED
    BY <2>1, <2>2
<1>12. ASSUME NEW r \in Request, AbortIO(c, r)
       PROVE  QueuedInv'
  <2>1. cmd' = cmd /\ pc' = pc /\ hand' = hand
    BY <1>12 DEF AbortIO
  <2>. QED
    BY <1>12, <2>1, AbortUnlinks, QueuedStep DEF OnlyUnlinks
<1>. QED
  BY <1>1, <1>2, <1>4, <1>5, <1>6, <1>8, <1>9, <1>10, <1>11, <1>12
     DEF ClientNext, ClientStep

\* Whatever is sent, answered, aborted and flushed meanwhile, DeviceAbortIO
\* searches the list that a pending read, write or orphan read is on.
THEOREM AbortFindsRequestHolds ==
  ASSUME PoliteOpeners
  PROVE  Spec => []AbortFindsRequest
<1>1. Init => QueuedInv
  <2>1. ASSUME Init
        PROVE  /\ \A n \in ListName : ToSet(list[n]) = {}
               /\ \A c \in Client : pc[c] = "idle"
    BY <2>1, NamesDistinct DEF Init, ToSet
  <2>. QED
    BY <2>1 DEF QueuedInv, OnList
<1>2. IInv /\ QueuedInv /\ [Next]_vars => QueuedInv'
  <2>1. CASE Next
    BY <2>1, QueuedClientStep, QueuedUnitStep DEF Next
  <2>2. CASE UNCHANGED vars
    BY <2>2 DEF vars, reqVars, QueuedInv, OnList, Belongs, AbortList
  <2>. QED
    BY <2>1, <2>2
<1>3. IInv /\ [Next]_vars => IInv'
  BY StepIInv
<1>4. IInv /\ QueuedInv => AbortFindsRequest
  <2>1. ASSUME IInv, QueuedInv, NEW n \in ListName \ {"unitPort"},
               NEW r \in ToSet(list[n])
        PROVE  Belongs(r, n)
    <3>1. r \in Request /\ n \in OnList(r)
      BY <2>1, Given, PlaceFacts
    <3>. QED
      BY <2>1, <3>1 DEF QueuedInv
  <2>. QED
    BY <2>1 DEF AbortFindsRequest, Belongs
<1>. QED
  BY <1>1, <1>2, <1>3, <1>4, InitIInv, PTL DEF Spec

-----------------------------------------------------------------------------
(* Reads                                                                     *)

\* Which commands a step can have in its hands: the rest of what keeps reads
\* apart from the requests that are replied without a frame.
CmdInv ==
  /\ \A r \in events : cmd[r] = "onevent"
  /\ hand[Unit] \in Request => cmd[hand[Unit]] \in PortCommand
  /\ pc[Unit] = "onevent" => cmd[hand[Unit]] = "onevent"
  /\ \A c \in Client : pc[c] = "sending" => cmd[hand[c]] \in {"write", "multicast"}

\* A step that takes no new request into hands that CmdInv speaks of.
LEMMA CmdStep ==
  ASSUME IInv, CmdInv,
         \A r \in Request \ app : cmd'[r] = cmd[r],
         events' \subseteq events,
         \/ hand'[Unit] = hand[Unit] /\ pc'[Unit] = pc[Unit]
         \/ hand'[Unit] = hand[Unit] /\ pc'[Unit] # "onevent"
         \/ hand'[Unit] = NoRequest /\ pc'[Unit] # "onevent",
         \A c \in Client : pc'[c] = "sending" =>
           pc[c] = "sending" /\ hand'[c] = hand[c]
  PROVE  CmdInv'
<1>. USE Given, Types, NamesDistinct, PlaceFacts
<1>1. \A r \in events' : cmd'[r] = "onevent"
  BY DEF CmdInv
<1>2. /\ hand'[Unit] \in Request => cmd'[hand'[Unit]] \in PortCommand
      /\ pc'[Unit] = "onevent" => cmd'[hand'[Unit]] = "onevent"
  BY DEF CmdInv
<1>3. \A c \in Client : pc'[c] = "sending" =>
        cmd'[hand'[c]] \in {"write", "multicast"}
  BY DEF CmdInv
<1>. QED
  BY <1>1, <1>2, <1>3 DEF CmdInv

\* What the openers do to CmdInv: a task takes from eu_Tx only what belongs
\* there.
LEMMA CmdClientStep ==
  ASSUME IInv, QueuedInv, CmdInv, NEW c \in Client, ClientNext(c)
  PROVE  CmdInv'
<1>. USE Given, Types, NamesDistinct, PlaceFacts
<1>1. ASSUME \A r \in Request \ app : cmd'[r] = cmd[r], events' \subseteq events,
             \/ pc' = pc /\ hand' = hand
             \/ \E l \in ClientLabel \ {"sending"} : \E r :
                  pc' = [pc EXCEPT ![c] = l] /\ hand' = [hand EXCEPT ![c] = r]
      PROVE  CmdInv'
  BY <1>1, CmdStep
<1>2. ASSUME NEW r \in Request, NEW cd \in Command,
             BeginPort(c, r, cd) \/ BeginNow(c, r, cd)
      PROVE  CmdInv'
  <2>1. /\ \A x \in Request \ app : cmd'[x] = cmd[x]
        /\ events' = events
    BY <1>2 DEF BeginPort, BeginNow, Submit
  <2>2. \/ pc' = pc /\ hand' = hand
        \/ /\ cd \in NowCommand /\ pc' = [pc EXCEPT ![c] = NextLabel(cd)]
           /\ hand' = [hand EXCEPT ![c] = r]
    BY <1>2, Zenon DEF BeginPort, BeginNow, ReplyUnlessQuick, Goto, Take
  <2>3. NextLabel(cd) \in ClientLabel \ {"sending"}
    BY DEF NextLabel, ClientLabel
  <2>. QED
    BY <1>1, <2>1, <2>2, <2>3
<1>3. CASE ReadQueue(c) \/ OrphanQueue(c)
  <2>1. /\ cmd' = cmd /\ events' = events
        /\ pc' = [pc EXCEPT ![c] = "idle"] /\ hand' = [hand EXCEPT ![c] = NoRequest]
    BY <1>3, Zenon DEF ReadQueue, OrphanQueue, BackFromBeginIO, Goto, Drop
  <2>. QED
    BY <1>1, <2>1 DEF ClientLabel
<1>4. CASE ReadBadArgument(c) \/ WriteTooLong(c) \/ WritePut(c) \/ SendDone(c)
  <2>1. /\ cmd' = cmd /\ events' \subseteq events
        /\ hand' = [hand EXCEPT ![c] = NoRequest]
    BY <1>4 DEF ReadBadArgument, WriteTooLong, WritePut, SendDone, Drop
  <2>2. \E l \in {"idle", "send"} : pc' = [pc EXCEPT ![c] = l]
    BY <1>4, Zenon DEF ReadBadArgument, WriteTooLong, WritePut, SendDone, Goto
  <2>. QED
    BY <1>1, <2>1, <2>2 DEF ClientLabel
<1>5. CASE SendGet(c)
  <2>1. CASE NothingToSend
    <3>1. /\ cmd' = cmd /\ events' = events /\ hand' = hand
          /\ pc' = [pc EXCEPT ![c] = "idle"]
      BY <1>5, <2>1 DEF SendGet, Goto, reqVars
    <3>. QED
      BY <3>1, CmdStep
  <2>2. CASE ~NothingToSend
    <3>. DEFINE q == Head(list["eu_Tx"])
    <3>1. /\ list["eu_Tx"] # <<>> /\ cmd' = cmd /\ events' = events
          /\ list' = [list EXCEPT !["eu_Tx"] = Tail(@)]
          /\ pc' = [pc EXCEPT ![c] = "sending"] /\ hand' = [hand EXCEPT ![c] = q]
      BY <1>5, <2>2 DEF SendGet, Goto, Take, reqVars, NothingToSend
    <3>2. q \in ToSet(list["eu_Tx"])
      BY <3>1, PopFacts
    <3>. HIDE DEF q
    <3>3. Belongs(q, "eu_Tx") /\ q \in Request
      BY <3>2 DEF QueuedInv
    <3>4. cmd[q] \in {"write", "multicast"}
      BY <3>3, UnitAssumption DEF UnitAssumption, Belongs, AbortList, UnitList
    <3>5. /\ hand'[c] = q
          /\ \A t \in Task \ {c} : pc'[t] = pc[t] /\ hand'[t] = hand[t]
      BY <3>1
    <3>6. \A b \in Client : pc'[b] = "sending" =>
            cmd'[hand'[b]] \in {"write", "multicast"}
      BY <3>1, <3>4, <3>5 DEF CmdInv, Task
    <3>7. pc'[Unit] = pc[Unit] /\ hand'[Unit] = hand[Unit]
      BY <3>5, UnitAssumption DEF Task
    <3>. QED
      BY <3>1, <3>6, <3>7 DEF CmdInv
  <2>. QED
    BY <2>1, <2>2
<1>6. ASSUME NEW r \in Request, AbortIO(c, r)
      PROVE  CmdInv'
  <2>1. cmd' = cmd /\ events' \subseteq events /\ pc' = pc /\ hand' = hand
    BY <1>6 DEF AbortIO
  <2>. QED
    BY <1>1, <2>1
<1>. QED
  BY <1>2, <1>3, <1>4, <1>5, <1>6 DEF ClientNext, ClientStep

\* What the unit process does to CmdInv: it goes where io_Command sends it, and
\* puts on eu_Events only the request of an S2_ONEVENT.
LEMMA CmdUnitStep ==
  ASSUME IInv, CmdInv, UnitNext
  PROVE  CmdInv'
<1>. USE Given, Types, NamesDistinct
<1>1. ASSUME cmd' = cmd, events' \subseteq events,
             NEW l \in UnitLabel \ {"onevent"}, pc' = pc \/ pc' = [pc EXCEPT ![Unit] = l],
             hand' = hand \/ (pc' # pc /\ Drop(Unit))
      PROVE  CmdInv'
  <2>1. \A c \in Client : pc'[c] = pc[c] /\ hand'[c] = hand[c]
    BY <1>1 DEF Drop
  <2>2. \/ hand'[Unit] = hand[Unit] /\ pc'[Unit] = pc[Unit]
        \/ hand'[Unit] = hand[Unit] /\ pc'[Unit] # "onevent"
        \/ hand'[Unit] = NoRequest /\ pc'[Unit] # "onevent"
    BY <1>1 DEF Drop
  <2>. QED
    BY <1>1, <2>1, <2>2, CmdStep
<1>2. CASE WakeUp \/ Drained
  <2>1. /\ cmd' = cmd /\ events' = events /\ hand' = hand
        /\ \E l \in {"wait", "drain"} : pc' = [pc EXCEPT ![Unit] = l]
    BY <1>2 DEF WakeUp, Drained, Goto, reqVars
  <2>. QED
    BY <1>1, <2>1 DEF UnitLabel, PortCommand
<1>3. CASE GetMsg
  <2>. DEFINE q == Head(list["unitPort"])
  <2>1. /\ list["unitPort"] # <<>> /\ cmd' = cmd /\ events' = events
        /\ list' = [list EXCEPT !["unitPort"] = Tail(@)]
        /\ pc' = [pc EXCEPT ![Unit] = cmd[q]] /\ hand' = [hand EXCEPT ![Unit] = q]
    BY <1>3 DEF GetMsg, Goto, Take
  <2>2. q \in ToSet(list["unitPort"])
    BY <2>1, PopFacts
  <2>. HIDE DEF q
  <2>3. cmd[q] \in PortCommand
    BY <2>2 DEF IInv, PortInv
  <2>4. /\ pc'[Unit] = cmd[q] /\ hand'[Unit] = q
        /\ \A c \in Client : pc'[c] = pc[c] /\ hand'[c] = hand[c]
    BY <2>1
  <2>. QED
    BY <2>1, <2>3, <2>4 DEF CmdInv
<1>4. CASE OnEvent
  <2>1. /\ pc[Unit] = "onevent" /\ cmd' = cmd /\ events' \subseteq events \cup {hand[Unit]}
        /\ pc' = [pc EXCEPT ![Unit] = "drain"]
        /\ hand' = [hand EXCEPT ![Unit] = NoRequest]
    BY <1>4 DEF OnEvent, Goto, Drop
  <2>2. /\ pc'[Unit] = "drain" /\ hand'[Unit] = NoRequest
        /\ \A c \in Client : pc'[c] = pc[c] /\ hand'[c] = hand[c]
    BY <2>1
  <2>. QED
    BY <2>1, <2>2 DEF CmdInv
<1>5. CASE Query \/ Config \/ Online \/ OnlineEvent \/ Offline \/ OfflineEvent
             \/ FlushReads \/ FlushRest \/ OfflineNic
  <2>1. cmd' = cmd /\ events' \subseteq events
    BY <1>5 DEF Query, Config, Online, OnlineEvent, Offline, OfflineEvent,
                FlushReads, FlushRest, OfflineNic
  <2>2. \E l \in UnitLabel \ {"onevent", pc[Unit]} :
          /\ pc' = [pc EXCEPT ![Unit] = l]
          /\ hand' = hand \/ Drop(Unit)
    BY <1>5 DEF Query, Config, Online, OnlineEvent, Offline, OfflineEvent,
                FlushReads, FlushRest, OfflineNic, Reply, Goto, UnitLabel, PortCommand
  <2>. QED
    BY <1>1, <2>1, <2>2
<1>6. CASE ReceiveOrphan
  <2>1. cmd' = cmd /\ hand' = hand /\ pc' = [pc EXCEPT ![Unit] = "wait"]
    BY <1>6 DEF ReceiveOrphan, Goto
  <2>2. events' \subseteq events
    <3>1. events' = events \/ \E E \in SUBSET events : events' = events \ E
      BY <1>6, FulfillMoves, Zenon DEF ReceiveOrphan
    <3>. QED
      BY <3>1
  <2>. QED
    BY <1>1, <2>1, <2>2 DEF UnitLabel
<1>7. ASSUME NEW p \in PacketType, NEW d \in FrameKind, Receive(p, d)
      PROVE  CmdInv'
  <2>1. /\ cmd' = cmd /\ hand' = hand
        /\ pc' = pc \/ pc' = [pc EXCEPT ![Unit] = "orphans"]
    BY <1>7 DEF Receive, Goto
  <2>2. events' \subseteq events
    <3>1. \E E \in SUBSET events : events' = events \ E
      BY <1>7, FulfillMoves, Zenon DEF Receive
    <3>. QED
      BY <3>1
  <2>. QED
    BY <1>1, <2>1, <2>2 DEF UnitLabel
<1>. QED
  BY <1>2, <1>3, <1>4, <1>5, <1>6, <1>7 DEF UnitNext, UnitStep

\* What is returned without an error is no read, or it has been offered a frame.
Good(r) == cmd[r] \in {"read", "orphan"} /\ err[r] = "ok" => dst[r] # "none"

FrameInv ==
  /\ \A r \in Request : dst[r] = "none" \/ KindFlag(dst[r]) \subseteq flags[r]
  /\ \A r \in app : Good(r)
  /\ pc[Unit] = "orphans" => frame.kind # "none"

\* A step that returns no read but with an error.
LEMMA FrameStep ==
  ASSUME FrameInv, cmd' = cmd, dst' = dst, flags' = flags,
         \A r \in app : err'[r] = err[r],
         \A r \in app' \ app : cmd[r] \notin {"read", "orphan"} \/ err'[r] # "ok",
         pc'[Unit] = "orphans" => pc[Unit] = "orphans" /\ frame' = frame
  PROVE  FrameInv'
<1>1. \A r \in app' : Good(r)'
  BY DEF FrameInv, Good
<1>2. \A r \in Request : dst'[r] = "none" \/ KindFlag(dst'[r]) \subseteq flags'[r]
  BY DEF FrameInv
<1>. QED
  BY <1>1, <1>2 DEF FrameInv, KindFlag

\* The openers: a new request has no frame yet, and is returned at once only
\* with an error or if it is no read; aborted reads have an error too.
LEMMA FrameClientStep ==
  ASSUME IInv, QueuedInv, CmdInv, FrameInv, NEW c \in Client, ClientNext(c)
  PROVE  FrameInv'
<1>. USE Given, Types, NamesDistinct, PlaceFacts
<1>0. err \in [Request -> ErrorCode] /\ dst \in [Request -> DstKind \cup {"none"}]
      /\ flags \in [Request -> SUBSET {"BCAST", "MCAST"}]
  BY DEF IInv, TypeOK, RequestTypes
<1>1. ASSUME NEW r \in Request, NEW cd \in Command,
             BeginPort(c, r, cd) \/ BeginNow(c, r, cd)
      PROVE  FrameInv'
  <2>1. /\ cmd' = [cmd EXCEPT ![r] = cd] /\ dst' = [dst EXCEPT ![r] = "none"]
        /\ flags' = [flags EXCEPT ![r] = {}] /\ frame' = frame
        /\ app' \subseteq app /\ r \in app /\ pc'[Unit] = pc[Unit]
    BY <1>1 DEF BeginPort, BeginNow, Submit, Goto, ReplyUnlessQuick
  <2>2. \A x \in Request \ {r} : err'[x] = err[x]
    BY <1>0, <1>1 DEF BeginPort, BeginNow
  <2>3. r \in app' => cd \notin {"read", "orphan"} \/ err'[r] # "ok"
    <3>1. CASE BeginPort(c, r, cd)
      BY <3>1 DEF BeginPort
    <3>2. CASE BeginNow(c, r, cd)
      BY <1>0, <3>2 DEF BeginNow
    <3>. QED
      BY <1>1, <3>1, <3>2
  <2>4. \A x \in app' : Good(x)'
    BY <1>0, <2>1, <2>2, <2>3 DEF FrameInv, Good
  <2>5. \A x \in Request : dst'[x] = "none" \/ KindFlag(dst'[x]) \subseteq flags'[x]
    BY <1>0, <2>1 DEF FrameInv
  <2>. QED
    BY <2>1, <2>4, <2>5 DEF FrameInv, KindFlag
<1>2. CASE ReadQueue(c) \/ OrphanQueue(c)
  <2>1. /\ cmd' = cmd /\ dst' = dst /\ flags' = flags /\ err' = err /\ frame' = frame
        /\ pc'[Unit] = pc[Unit] /\ ~quick[hand[c]]
        /\ app' = IF quick[hand[c]] THEN app \cup {hand[c]} ELSE app
    BY <1>2 DEF ReadQueue, OrphanQueue, BackFromBeginIO, Goto
  <2>. QED
    BY <2>1, FrameStep
<1>3. CASE ReadBadArgument(c)
  <2>1. /\ cmd' = cmd /\ dst' = dst /\ flags' = flags /\ frame' = frame
        /\ pc'[Unit] = pc[Unit] /\ hand[c] \in Request /\ hand[c] \notin app
        /\ app' = app \cup {hand[c]} /\ err' = [err EXCEPT ![hand[c]] = "badarg"]
    BY <1>3 DEF ReadBadArgument, Goto
  <2>. QED
    BY <1>0, <2>1, FrameStep
<1>4. CASE WriteTooLong(c)
  <2>1. /\ cmd' = cmd /\ dst' = dst /\ flags' = flags /\ frame' = frame
        /\ pc'[Unit] = pc[Unit] /\ hand[c] \in Request /\ hand[c] \notin app
    BY <1>4 DEF WriteTooLong, Goto
  <2>2. PICK W \in SUBSET events :
          /\ app' = app \cup W \cup {hand[c]}
          /\ err' = [Update(err, W, "ok") EXCEPT ![hand[c]] = "mtu"]
    <3>1. Waiting("TX") \in SUBSET events
      BY DEF Waiting
    <3>. QED
      BY <1>4, <3>1 DEF WriteTooLong
  <2>3. \A x \in app : err'[x] = err[x]
    BY <1>0, <2>1, <2>2 DEF Update
  <2>4. err'[hand[c]] = "mtu"
    BY <1>0, <2>1, <2>2 DEF Update
  <2>5. \A x \in app' \ app : cmd[x] \notin {"read", "orphan"} \/ err'[x] # "ok"
    BY <2>2, <2>4 DEF CmdInv
  <2>. QED
    BY <2>1, <2>3, <2>5, FrameStep
<1>5. CASE WritePut(c) \/ SendGet(c)
  <2>1. /\ cmd' = cmd /\ dst' = dst /\ flags' = flags /\ frame' = frame
        /\ pc'[Unit] = pc[Unit] /\ app' = app /\ err' = err
    BY <1>5 DEF WritePut, SendGet, Goto, reqVars
  <2>. QED
    BY <2>1, FrameStep
<1>6. CASE SendDone(c)
  <2>1. /\ cmd' = cmd /\ dst' = dst /\ flags' = flags /\ frame' = frame
        /\ pc'[Unit] = pc[Unit] /\ hand[c] \in Request /\ hand[c] \notin app
        /\ cmd[hand[c]] \in {"write", "multicast"}
    BY <1>6 DEF SendDone, Goto, CmdInv
  <2>2. PICK W \in SUBSET events : \E e :
          /\ app' \subseteq app \cup W \cup {hand[c]}
          /\ err' = [Update(err, W, "ok") EXCEPT ![hand[c]] = e]
    <3>1. Waiting("BUFF") \in SUBSET events
      BY DEF Waiting
    <3>2. PICK copied \in BOOLEAN, W \in {{}, Waiting("BUFF")} :
            /\ err' = [Update(err, W, "ok") EXCEPT
                         ![hand[c]] = IF copied THEN @ ELSE "nores"]
            /\ TermIO(W \cup {hand[c]})
      BY <1>6, Zenon DEF SendDone
    <3>3. app' \subseteq app \cup W \cup {hand[c]}
      BY <3>2 DEF TermIO
    <3>. QED
      BY <3>1, <3>2, <3>3
  <2>3. \A x \in app : err'[x] = err[x]
    BY <1>0, <2>1, <2>2 DEF Update
  <2>4. \A x \in app' \ app : cmd[x] \notin {"read", "orphan"}
    BY <2>1, <2>2 DEF CmdInv
  <2>. QED
    BY <2>1, <2>3, <2>4, FrameStep
<1>7. ASSUME NEW r \in Request, AbortIO(c, r)
      PROVE  FrameInv'
  <2>1. /\ cmd' = cmd /\ dst' = dst /\ flags' = flags /\ frame' = frame
        /\ pc' = pc /\ err' = Update(err, {r}, "aborted") /\ TermIO({r})
    BY <1>7 DEF AbortIO, Aborted
  <2>2. r \notin app
    <3>1. \/ r \in events
          \/ \E n \in AbortList(r) : \E i \in DOMAIN list[n] : list[n][i] = r
      BY <1>7 DEF AbortIO
    <3>2. AbortList(r) \subseteq ListName
      BY UnitAssumption DEF UnitAssumption, AbortList
    <3>. QED
      BY <3>1, <3>2 DEF ToSet
  <2>3. \A x \in app : err'[x] = err[x]
    BY <1>0, <2>1, <2>2 DEF Update
  <2>4. app' \subseteq app \cup {r} /\ err'[r] = "aborted"
    BY <1>0, <2>1 DEF Update, TermIO
  <2>. QED
    BY <2>1, <2>3, <2>4, FrameStep
<1>. QED
  BY <1>1, <1>2, <1>3, <1>4, <1>5, <1>6, <1>7 DEF ClientNext, ClientStep

\* fulfillReadIORequest: what it returns, and what it has offered a frame, has
\* the address and the flags of the frame.
LEMMA FrameFulfill ==
  ASSUME IInv, CmdInv, FrameInv, NEW offered, NEW taken, NEW failed,
         NEW d \in DstKind, Fulfill(offered, taken, failed, d),
         taken \subseteq offered, failed \subseteq taken,
         \A r \in offered : r \in Request /\ r \notin app,
         cmd' = cmd, pc'[Unit] = "orphans" => frame'.kind # "none"
  PROVE  FrameInv'
<1>. USE Given, Types, PlaceFacts
<1>0. /\ err \in [Request -> ErrorCode] /\ dst \in [Request -> DstKind \cup {"none"}]
      /\ flags \in [Request -> SUBSET {"BCAST", "MCAST"}] /\ d # "none"
  BY DEF IInv, TypeOK, RequestTypes, DstKind
<1>1. \A x \in Request : /\ dst'[x] = IF x \in offered THEN d ELSE dst[x]
                         /\ flags'[x] = IF x \in offered
                              THEN flags[x] \cup KindFlag(d) ELSE flags[x]
  BY <1>0 DEF Fulfill, Update
<1>2. PICK W \in SUBSET events :
        /\ err' = Update(Update(err, failed, "nores"), W, "ok")
        /\ TermIO(taken \cup W)
  <2>1. Waiting("BUFF") \in SUBSET events
    BY DEF Waiting
  <2>. QED
    BY <2>1 DEF Fulfill
<1>3. \A x \in app : err'[x] = err[x]
  BY <1>0, <1>2 DEF Update
<1>4. app' \subseteq app \cup taken \cup W
  BY <1>2 DEF TermIO
<1>5. \A x \in app' : Good(x)'
  <2>1. \A x \in app : Good(x)'
    BY <1>1, <1>3 DEF FrameInv, Good
  <2>2. \A x \in W : Good(x)'
    BY <1>2 DEF CmdInv, Good
  <2>3. \A x \in taken : Good(x)'
    BY <1>0, <1>1 DEF Good
  <2>. QED
    BY <1>4, <2>1, <2>2, <2>3
<1>6. \A x \in Request : dst'[x] = "none" \/ KindFlag(dst'[x]) \subseteq flags'[x]
  BY <1>1 DEF FrameInv
<1>. QED
  BY <1>5, <1>6 DEF FrameInv, KindFlag

\* onPktReceived, up to the orphan readers.
LEMMA FrameReceive ==
  ASSUME IInv, CmdInv, FrameInv, NEW p \in PacketType, NEW d \in FrameKind,
         Receive(p, d)
  PROVE  FrameInv'
<1>. USE Given, Types, NamesDistinct
<1>. DEFINE asked == {c \in Client : Matching(c, p) # {}}
            offer == [c \in asked |-> list[c][First(c, p)]]
<1>1. PICK verdict \in [asked -> Verdict] :
        Fulfill({offer[c] : c \in asked},
                {offer[c] : c \in {x \in asked : verdict[x] # "rejected"}},
                {offer[c] : c \in {x \in asked : verdict[x] = "failed"}}, d)
  BY Zenon DEF Receive
<1>2. \A c \in asked : offer[c] \in Request /\ offer[c] \notin app
  <2>1. \A c \in asked : First(c, p) \in DOMAIN list[c]
    BY FirstIsMatching
  <2>2. \A c \in asked : offer[c] \in ToSet(list[c])
    BY <2>1 DEF ToSet
  <2>. QED
    BY <2>2, PlaceFacts
<1>3. PICK offered, taken, failed :
        /\ offered = {offer[c] : c \in asked}
        /\ taken = {offer[c] : c \in {x \in asked : verdict[x] # "rejected"}}
        /\ failed = {offer[c] : c \in {x \in asked : verdict[x] = "failed"}}
  OBVIOUS
<1>4. Fulfill(offered, taken, failed, d)
  BY <1>1, <1>3
<1>5. /\ cmd' = cmd /\ d \in DstKind
      /\ pc[Unit] = "wait"
      /\ \/ pc' = pc
         \/ frame'.kind = d
  <2>1. cmd' = cmd /\ pc[Unit] = "wait"
    BY Zenon DEF Receive
  <2>2. pc' = pc \/ \E S : frame' = [kind |-> d, copiedTo |-> S]
    BY Zenon DEF Receive
  <2>3. d \in DstKind
    BY UnitAssumption DEF UnitAssumption
  <2>. QED
    BY <2>1, <2>2, <2>3
<1>. HIDE DEF offer, asked
<1>6. /\ taken \subseteq offered /\ failed \subseteq taken
      /\ \A r \in offered : r \in Request /\ r \notin app
  BY <1>2, <1>3
<1>7. pc'[Unit] = "orphans" => frame'.kind # "none"
  BY <1>5 DEF DstKind
<1>. QED
  BY <1>4, <1>5, <1>6, <1>7, FrameFulfill

\* onPktReceived, the orphan readers.
LEMMA FrameReceiveOrphan ==
  ASSUME IInv, CmdInv, FrameInv, ReceiveOrphan
  PROVE  FrameInv'
<1>. USE Given, Types, NamesDistinct
<1>. DEFINE q == Head(list["eu_ReadOrphan"])
<1>1. cmd' = cmd /\ pc[Unit] = "orphans" /\ pc'[Unit] = "wait"
  BY DEF ReceiveOrphan, Goto
<1>2. CASE list["eu_ReadOrphan"] = <<>>
  <2>1. app' = app /\ dst' = dst /\ flags' = flags /\ err' = err
    BY <1>2 DEF ReceiveOrphan
  <2>. QED
    BY <1>1, <2>1, FrameStep
<1>3. CASE list["eu_ReadOrphan"] # <<>>
  <2>1. PICK v \in Verdict :
          Fulfill({q}, IF v = "rejected" THEN {} ELSE {q},
                  IF v = "failed" THEN {q} ELSE {}, frame.kind)
    BY <1>3, Zenon DEF ReceiveOrphan
  <2>2. q \in ToSet(list["eu_ReadOrphan"])
    BY <1>3, TailFacts DEF ListsOK
  <2>3. q \in Request /\ q \notin app
    BY <2>2, PlaceFacts
  <2>4. PICK taken, failed : /\ taken = IF v = "rejected" THEN {} ELSE {q}
                             /\ failed = IF v = "failed" THEN {q} ELSE {}
    OBVIOUS
  <2>5. frame.kind \in DstKind
    BY <1>1 DEF FrameInv, IInv, TypeOK, ControlTypes
  <2>6. PICK offered : offered = {q}
    OBVIOUS
  <2>7. Fulfill(offered, taken, failed, frame.kind)
    BY <2>1, <2>4, <2>6
  <2>8. /\ taken \subseteq offered /\ failed \subseteq taken
        /\ \A r \in offered : r \in Request /\ r \notin app
    BY <2>3, <2>4, <2>6
  <2>. QED
    BY <1>1, <2>5, <2>7, <2>8, FrameFulfill
<1>. QED
  BY <1>2, <1>3

\* The unit process replies its own commands, events, flushed requests with
\* IOERR_ABORTED, and reads it has filled.
LEMMA FrameUnitStep ==
  ASSUME IInv, CmdInv, FrameInv, UnitNext
  PROVE  FrameInv'
<1>. USE Given, Types, NamesDistinct, PlaceFacts
<1>0. err \in [Request -> ErrorCode]
  BY DEF IInv, TypeOK, RequestTypes
<1>1. ASSUME cmd' = cmd, dst' = dst, flags' = flags, pc'[Unit] # "orphans",
             NEW W \in SUBSET events, TermIO(W \cup {hand[Unit]}),
             hand[Unit] \in Request,
             err' = Update(err, W, "ok") \/ \E e : err' = [err EXCEPT ![hand[Unit]] = e]
      PROVE  FrameInv'
  <2>1. \A x \in app : err'[x] = err[x]
    BY <1>0, <1>1 DEF Update
  <2>2. \A x \in app' \ app : cmd[x] \notin {"read", "orphan"}
    <3>1. app' \subseteq app \cup W \cup {hand[Unit]}
      BY <1>1 DEF TermIO
    <3>2. cmd[hand[Unit]] \notin {"read", "orphan"}
      BY <1>1 DEF CmdInv, PortCommand
    <3>. QED
      BY <3>1, <3>2 DEF CmdInv
  <2>. QED
    BY <1>1, <2>1, <2>2, FrameStep
<1>2. CASE WakeUp \/ Drained
  BY <1>2, FrameStep DEF WakeUp, Drained, Goto, reqVars
<1>3. CASE GetMsg
  <2>. DEFINE q == Head(list["unitPort"])
  <2>1. /\ list["unitPort"] # <<>> /\ cmd' = cmd /\ dst' = dst /\ flags' = flags
        /\ list' = [list EXCEPT !["unitPort"] = Tail(@)] /\ app' = app
        /\ pc' = [pc EXCEPT ![Unit] = cmd[q]] /\ err' = [err EXCEPT ![q] = "ok"]
    BY <1>3 DEF GetMsg, Goto
  <2>2. q \in ToSet(list["unitPort"])
    BY <2>1, PopFacts
  <2>. HIDE DEF q
  <2>3. cmd[q] \in PortCommand /\ q \notin app /\ q \in Request
    BY <2>2 DEF IInv, PortInv
  <2>4. /\ pc'[Unit] # "orphans" /\ \A x \in app : err'[x] = err[x]
    BY <1>0, <2>1, <2>3 DEF PortCommand
  <2>. QED
    BY <2>1, <2>4, FrameStep
<1>4. ASSUME cmd' = cmd, dst' = dst, flags' = flags, pc'[Unit] # "orphans",
             app' = app, err' = err
      PROVE  FrameInv'
  BY <1>4, FrameStep
<1>5. ASSUME cmd' = cmd, dst' = dst, flags' = flags, Reply(hand[Unit]),
             hand[Unit] \in Request,
             err' = err \/ \E e : err' = [err EXCEPT ![hand[Unit]] = e]
      PROVE  FrameInv'
  <2>1. PICK W \in SUBSET events : W = {}
    OBVIOUS
  <2>2. TermIO(W \cup {hand[Unit]}) /\ pc'[Unit] # "orphans"
    BY <1>5, <2>1 DEF Reply, Goto
  <2>3. err' = Update(err, W, "ok") \/ \E e : err' = [err EXCEPT ![hand[Unit]] = e]
    BY <1>0, <1>5, <2>1 DEF Update
  <2>. QED
    BY <1>1, <1>5, <2>2, <2>3
<1>6. CASE Query \/ OfflineNic
  <2>1. /\ cmd' = cmd /\ dst' = dst /\ flags' = flags /\ err' = err
        /\ Reply(hand[Unit]) /\ pc[Unit] \in {"query", "offlineNic"}
    BY <1>6 DEF Query, OfflineNic
  <2>. QED
    BY <1>5, <2>1
<1>7. CASE OnEvent
  <2>1. /\ cmd' = cmd /\ dst' = dst /\ flags' = flags /\ err' = err
        /\ pc'[Unit] # "orphans" /\ pc[Unit] = "onevent"
        /\ app' = app \/ TermIO({hand[Unit]})
    BY <1>7 DEF OnEvent, Goto
  <2>2. CASE app' = app
    BY <1>4, <2>1, <2>2
  <2>3. CASE TermIO({hand[Unit]})
    <3>1. PICK W \in SUBSET events : W = {}
      OBVIOUS
    <3>2. TermIO(W \cup {hand[Unit]}) /\ err' = Update(err, W, "ok")
      BY <1>0, <2>1, <2>3, <3>1 DEF Update
    <3>. QED
      BY <1>1, <2>1, <3>2
  <2>. QED
    BY <2>1, <2>2, <2>3
<1>8. CASE Config
  <2>1. /\ cmd' = cmd /\ dst' = dst /\ flags' = flags /\ pc[Unit] = "config"
        /\ \/ app' = app /\ err' = err /\ pc'[Unit] # "orphans"
           \/ Reply(hand[Unit]) /\ \E e : err' = [err EXCEPT ![hand[Unit]] = e]
    <3>1. cmd' = cmd /\ dst' = dst /\ flags' = flags /\ pc[Unit] = "config"
      BY <1>8 DEF Config
    <3>2. CASE "CONFIG" \notin state
      BY <1>8, <3>1, <3>2 DEF Config, Goto
    <3>3. CASE "CONFIG" \in state
      <4>1. Reply(hand[Unit]) /\ err' = [err EXCEPT ![hand[Unit]] = "badstate"]
        BY <1>8, <3>3 DEF Config
      <4>. QED
        BY <3>1, <4>1
    <3>. QED
      BY <3>2, <3>3
  <2>. QED
    BY <1>4, <1>5, <2>1
<1>9. CASE Online
  <2>1. /\ cmd' = cmd /\ dst' = dst /\ flags' = flags /\ pc[Unit] = "online"
        /\ \/ app' = app /\ err' = err /\ pc'[Unit] # "orphans"
           \/ /\ Reply(hand[Unit])
              /\ err' = err \/ \E e : err' = [err EXCEPT ![hand[Unit]] = e]
    BY <1>9 DEF Online, Goto
  <2>. QED
    BY <1>4, <1>5, <2>1
<1>10. CASE OnlineEvent
  <2>1. Waiting("ONLINE") \in SUBSET events
    BY DEF Waiting
  <2>2. /\ cmd' = cmd /\ dst' = dst /\ flags' = flags /\ pc[Unit] = "onlineEvent"
        /\ pc'[Unit] # "orphans" /\ err' = Update(err, Waiting("ONLINE"), "ok")
        /\ TermIO(Waiting("ONLINE") \cup {hand[Unit]})
    BY <1>10 DEF OnlineEvent, Goto
  <2>. QED
    BY <1>1, <2>1, <2>2
<1>11. CASE Offline
  <2>1. /\ cmd' = cmd /\ dst' = dst /\ flags' = flags /\ pc[Unit] = "offline"
        /\ err' = err
        /\ (app' = app /\ pc'[Unit] # "orphans") \/ Reply(hand[Unit])
    BY <1>11 DEF Offline, Goto
  <2>. QED
    BY <1>4, <1>5, <2>1
<1>12. CASE OfflineEvent
  <2>1. PICK W \in SUBSET events :
          TermIO(W) /\ err' = Update(err, W, "ok")
    BY <1>12 DEF OfflineEvent, Waiting
  <2>2. /\ cmd' = cmd /\ dst' = dst /\ flags' = flags /\ pc'[Unit] # "orphans"
    BY <1>12 DEF OfflineEvent, Goto
  <2>3. \A x \in app : err'[x] = err[x]
    BY <1>0, <2>1 DEF Update
  <2>4. \A x \in app' \ app : cmd[x] \notin {"read", "orphan"}
    BY <2>1 DEF TermIO, CmdInv
  <2>. QED
    BY <2>2, <2>3, <2>4, FrameStep
<1>13. ASSUME NEW S, \A x \in S : x \in Request /\ x \notin app,
              err' = Update(err, S, "aborted"), NEW T, TermIO(S \cup T),
              \A x \in T : cmd[x] \in PortCommand,
              cmd' = cmd, dst' = dst, flags' = flags, pc'[Unit] # "orphans"
       PROVE  FrameInv'
  <2>1. \A x \in app : err'[x] = err[x]
    BY <1>0, <1>13 DEF Update
  <2>2. \A x \in S : err'[x] = "aborted"
    BY <1>0, <1>13 DEF Update
  <2>3. \A x \in app' \ app : cmd[x] \notin {"read", "orphan"} \/ err'[x] # "ok"
    BY <1>13, <2>2 DEF TermIO, PortCommand
  <2>. QED
    BY <1>13, <2>1, <2>3, FrameStep
<1>14. CASE FlushReads
  <2>. DEFINE S == UNION {ToSet(list[c]) : c \in Client}
  <2>1. /\ cmd' = cmd /\ dst' = dst /\ flags' = flags /\ pc'[Unit] # "orphans"
        /\ err' = Update(err, S, "aborted") /\ TermIO(S)
    BY <1>14 DEF FlushReads, Aborted, Goto
  <2>2. \A x \in S : x \in Request /\ x \notin app
    OBVIOUS
  <2>. HIDE DEF S
  <2>3. TermIO(S \cup {})
    BY <2>1
  <2>. QED
    BY <1>13, <2>1, <2>2, <2>3
<1>15. CASE FlushRest
  <2>1. /\ cmd' = cmd /\ dst' = dst /\ flags' = flags /\ pc'[Unit] # "orphans"
        /\ err' = Update(err, Flushed, "aborted")
        /\ pc[Unit] \in {"flushRest", "offlineRest"}
        /\ TermIO(Flushed) \/ TermIO(Flushed \cup {hand[Unit]})
    BY <1>15 DEF FlushRest, Aborted, Goto
  <2>2. \A x \in Flushed : x \in Request /\ x \notin app
    BY DEF Flushed
  <2>3. PICK T : T \subseteq {hand[Unit]} /\ TermIO(Flushed \cup T)
    <3>1. CASE TermIO(Flushed \cup {hand[Unit]})
      BY <3>1
    <3>2. CASE TermIO(Flushed)
      <4>1. TermIO(Flushed \cup {})
        BY <3>2
      <4>. QED
        BY <4>1
    <3>. QED
      BY <2>1, <3>1, <3>2
  <2>4. \A x \in T : cmd[x] \in PortCommand
    BY <2>1, <2>3 DEF CmdInv
  <2>. QED
    BY <1>13, <2>1, <2>2, <2>3, <2>4
<1>. QED
  BY <1>2, <1>3, <1>6, <1>7, <1>8, <1>9, <1>10, <1>11, <1>12, <1>14, <1>15,
     FrameReceive, FrameReceiveOrphan DEF UnitNext, UnitStep

\* However a pending read is received, aborted, flushed or refused, one that its
\* opener gets back without an error has a frame in it, with the frame's flags.
THEOREM ReadOkHasFrameHolds ==
  ASSUME PoliteOpeners
  PROVE  Spec => []ReadOkHasFrame
<1>. DEFINE Inv == QueuedInv /\ CmdInv /\ FrameInv
<1>1. Init => Inv
  <2>. SUFFICES ASSUME Init
                PROVE  Inv
    OBVIOUS
  <2>1. \A n \in ListName : ToSet(list[n]) = {}
    BY DEF Init, ToSet
  <2>2. \A c \in Client : pc[c] = "idle" /\ c # Unit
    BY NamesDistinct DEF Init
  <2>3. pc[Unit] = "wait" /\ hand[Unit] = NoRequest /\ events = {}
    BY NamesDistinct DEF Init
  <2>4. QueuedInv
    BY <2>1, <2>2 DEF QueuedInv, OnList
  <2>5. CmdInv
    BY <2>2, <2>3, NamesDistinct DEF CmdInv
  <2>6. FrameInv
    BY <2>3 DEF Init, FrameInv, Good
  <2>. QED
    BY <2>4, <2>5, <2>6
<1>2. IInv /\ Inv /\ [Next]_vars => Inv'
  <2>1. CASE Next
    BY <2>1, QueuedClientStep, QueuedUnitStep, CmdClientStep, CmdUnitStep,
       FrameClientStep, FrameUnitStep DEF Next
  <2>2. ASSUME UNCHANGED vars, Inv
        PROVE  Inv'
    <3>1. QueuedInv'
      BY <2>2 DEF vars, reqVars, QueuedInv, OnList, Belongs, AbortList
    <3>2. CmdInv'
      BY <2>2 DEF vars, reqVars, CmdInv
    <3>3. FrameInv'
      BY <2>2 DEF vars, reqVars, FrameInv, Good, KindFlag
    <3>. QED
      BY <3>1, <3>2, <3>3
  <2>. QED
    BY <2>1, <2>2
<1>3. IInv /\ [Next]_vars => IInv'
  BY StepIInv
<1>4. IInv /\ Inv => ReadOkHasFrame
  BY Types DEF FrameInv, Good, ReadOkHasFrame
<1>. HIDE DEF Inv
<1>. QED
  BY <1>1, <1>2, <1>3, <1>4, InitIInv, PTL DEF Spec

-----------------------------------------------------------------------------
(* DevCmdOffline and the reads                                               *)

\* The unit is offline, and DevCmdOffline has been through the read queues.
ReadsFlushed == /\ "ONLINE" \notin state
                /\ pc[Unit] \notin {"offlineEvent", "offlineFlush"}

OfflineInv == ReadsFlushed => \A c \in Client : list[c] = <<>>

\* No opener is between the test of ETHERUF_ONLINE (device.c:1099) and the read
\* queue then.
NoLateRead == ReadsFlushed => \A c \in Client : pc[c] # "read"

LEMMA OfflineClientStep ==
  ASSUME IInv, OfflineInv, NoLateRead, NEW c \in Client, ClientNext(c)
  PROVE  OfflineInv'
<1>. USE Types, NamesDistinct DEF OfflineInv, ReadsFlushed, Goto
<1>1. ASSUME \A d \in Client : list[d] = <<>> => list'[d] = <<>>,
             state' = state, pc'[Unit] = pc[Unit]
      PROVE  OfflineInv'
  BY <1>1
<1>2. ASSUME NEW r \in Request, NEW cd \in Command, BeginPort(c, r, cd) \/ BeginNow(c, r, cd)
      PROVE  OfflineInv'
  BY <1>1, <1>2 DEF BeginPort, BeginNow, Submit, Push, ReplyUnlessQuick
<1>3. CASE ReadQueue(c)
  BY <1>3 DEF ReadQueue, BackFromBeginIO, NoLateRead
<1>4. CASE OrphanQueue(c) \/ WritePut(c)
  BY <1>1, <1>4 DEF OrphanQueue, WritePut, BackFromBeginIO, Push
<1>5. CASE ReadBadArgument(c) \/ WriteTooLong(c) \/ SendGet(c) \/ SendDone(c)
  BY <1>1, <1>5 DEF ReadBadArgument, WriteTooLong, SendGet, SendDone
<1>6. ASSUME NEW r \in Request, AbortIO(c, r)
      PROVE  OfflineInv'
  <2>1. \/ list' = list
        \/ \E n \in AbortList(r) : \E i \in DOMAIN list[n] :
             list' = [list EXCEPT ![n] = RemoveAt(@, i)]
    BY <1>6, Zenon DEF AbortIO, Unlinked
  <2>2. state' = state /\ pc' = pc
    BY <1>6 DEF AbortIO
  <2>3. ASSUME NEW d \in Client, list[d] = <<>>
        PROVE  list'[d] = <<>>
    <3>1. \A i \in DOMAIN list[d] : FALSE
      BY <2>3
    <3>. QED
      BY <2>1, <2>3, <3>1
  <2>. QED
    BY <1>1, <2>2, <2>3
<1>. QED
  BY <1>2, <1>3, <1>4, <1>5, <1>6 DEF ClientNext, ClientStep

LEMMA OfflineUnitStep ==
  ASSUME IInv, OfflineInv, UnitNext
  PROVE  OfflineInv'
<1>. USE Types, NamesDistinct DEF OfflineInv, ReadsFlushed, Goto
<1>1. ASSUME \A d \in Client : list[d] = <<>> => list'[d] = <<>>,
             state' = state \/ "ONLINE" \in state',
             pc[Unit] \notin {"offlineEvent", "offlineFlush"}
      PROVE  OfflineInv'
  BY <1>1
<1>2. CASE WakeUp \/ Drained \/ GetMsg
  BY <1>1, <1>2 DEF WakeUp, Drained, GetMsg
<1>3. CASE Query \/ OnEvent \/ Config \/ Online \/ OnlineEvent
  BY <1>1, <1>3 DEF Query, OnEvent, Config, Online, OnlineEvent, Reply
<1>4. CASE Offline \/ OfflineEvent
  BY <1>4 DEF Offline, OfflineEvent, Reply
<1>5. CASE FlushReads
  BY <1>5 DEF FlushReads
<1>6. CASE FlushRest \/ OfflineNic
  BY <1>1, <1>6 DEF FlushRest, OfflineNic, Reply
<1>7. CASE ReceiveOrphan
  BY <1>1, <1>7 DEF ReceiveOrphan
<1>8. ASSUME NEW p \in PacketType, NEW d \in FrameKind, Receive(p, d)
      PROVE  OfflineInv'
  <2>1. PICK S \in SUBSET {c \in Client : Matching(c, p) # {}} :
          list' = [n \in ListName |-> IF n \in S
                     THEN RemoveAt(list[n], First(n, p)) ELSE list[n]]
    BY <1>8 DEF Receive
  <2>2. \A c \in Client : list[c] = <<>> => Matching(c, p) = {}
    BY DEF Matching
  <2>3. \A c \in Client : list[c] = <<>> => list'[c] = <<>>
    BY <2>1, <2>2
  <2>. QED
    BY <1>1, <1>8, <2>3 DEF Receive
<1>. QED
  BY <1>2, <1>3, <1>4, <1>5, <1>6, <1>7, <1>8 DEF UnitNext, UnitStep

\* S2_OFFLINE leaves a read behind in one way only: its BeginIO had passed the test
\* of ETHERUF_ONLINE before, and queues it after the read queues were emptied.
\* What device.c:1514 says is kept by every behaviour without that race.
THEOREM OfflineAbortsUnlessLate ==
  ASSUME PoliteOpeners
  PROVE  Spec /\ []NoLateRead => []OfflineAbortsReads
<1>1. Init => OfflineInv
  BY NamesDistinct DEF Init, OfflineInv
<1>2. IInv /\ OfflineInv /\ NoLateRead /\ [Next]_vars => OfflineInv'
  <2>1. ASSUME IInv, OfflineInv, NoLateRead, Next
        PROVE  OfflineInv'
    BY <2>1, OfflineClientStep, OfflineUnitStep DEF Next
  <2>2. ASSUME OfflineInv, UNCHANGED vars
        PROVE  OfflineInv'
    BY <2>2 DEF vars, OfflineInv, ReadsFlushed
  <2>. QED
    BY <2>1, <2>2
<1>3. OfflineInv => OfflineAbortsReads
  BY DEF OfflineInv, ReadsFlushed, OfflineAbortsReads
<1>4. IInv /\ [Next]_vars => IInv'
  BY StepIInv
<1>. QED
  BY <1>1, <1>2, <1>3, <1>4, InitIInv, PTL DEF Spec

-----------------------------------------------------------------------------
(* The orphan readers                                                        *)

\* eu_BuffMgmt has every opener once.
EachListed == IsInjective(BmOrder) /\ ToSet(BmOrder) = Client

\* No two openers have a read pending for the same packet type.
OneReader ==
  \A p \in PacketType : \A c, d \in Client :
    Matching(c, p) # {} /\ Matching(d, p) # {} => c = d

LEMMA LastOfOne ==
  ASSUME EachListed, NEW c \in Client
  PROVE  LastAsked({c}) = c
<1>. DEFINE Newest(i) == /\ BmOrder[i] \in {c}
                         /\ \A j \in DOMAIN BmOrder : BmOrder[j] \in {c} => j <= i
<1>1. PICK i \in DOMAIN BmOrder : BmOrder[i] = c
  BY DEF EachListed, ToSet
<1>2. i \in Int
  BY UnitAssumption, <1>1 DEF UnitAssumption
<1>3. \A j \in DOMAIN BmOrder : BmOrder[j] = c => j = i
  BY <1>1 DEF EachListed, IsInjective
<1>4. Newest(i)
  BY <1>1, <1>2, <1>3
<1>5. Newest(CHOOSE k \in DOMAIN BmOrder : Newest(k))
  BY <1>1, <1>4
<1>. QED
  BY <1>5 DEF LastAsked

LEMMA UnwantedStep ==
  ASSUME EachListed, IInv, OrphanOnlyUnwanted, OneReader, Next
  PROVE  OrphanOnlyUnwanted'
<1>. USE Types, NamesDistinct DEF OrphanOnlyUnwanted, Goto
<1>1. ASSUME frame' = frame, pc'[Unit] = pc[Unit] \/ pc'[Unit] # "orphans"
      PROVE  OrphanOnlyUnwanted'
  BY <1>1
<1>2. ASSUME NEW c \in Client, ClientNext(c)
      PROVE  OrphanOnlyUnwanted'
  <2>1. frame' = frame
    BY <1>2 DEF ClientNext, ClientStep, BeginPort, BeginNow, ReadQueue, OrphanQueue,
       ReadBadArgument, WriteTooLong, WritePut, SendGet, SendDone, AbortIO
  <2>2. \A t \in Task \ {c} : pc'[t] = pc[t]
    BY <1>2 DEF ClientNext, ClientStep, BeginPort, BeginNow, ReplyUnlessQuick, ReadQueue,
       OrphanQueue, BackFromBeginIO, ReadBadArgument, WriteTooLong, WritePut, SendGet,
       SendDone, AbortIO
  <2>. QED
    BY <1>1, <2>1, <2>2
<1>3. ASSUME NEW p \in PacketType, NEW d \in FrameKind, Receive(p, d)
      PROVE  OrphanOnlyUnwanted'
  <2>. DEFINE asked == {c \in Client : Matching(c, p) # {}}
  <2>1. PICK verdict \in [asked -> Verdict] :
          IF asked # {} /\ verdict[LastAsked(asked)] = "copied"
          THEN UNCHANGED <<pc, frame>>
          ELSE frame' = [kind |-> d, copiedTo |-> {c \in asked : verdict[c] = "copied"}]
    BY <1>3 DEF Receive
  <2>2. CASE asked # {} /\ verdict[LastAsked(asked)] = "copied"
    BY <2>1, <2>2
  <2>3. CASE ~(asked # {} /\ verdict[LastAsked(asked)] = "copied")
    <3>1. ASSUME NEW c \in asked
          PROVE  verdict[c] # "copied"
      <4>1. asked = {c}
        BY <3>1 DEF OneReader
      <4>. QED
        BY <2>3, <4>1, LastOfOne
    <3>2. frame' = [kind |-> d, copiedTo |-> {c \in asked : verdict[c] = "copied"}]
      BY <2>1, <2>3, Zenon
    <3>3. frame'.copiedTo = {c \in asked : verdict[c] = "copied"}
      BY <3>2
    <3>. QED
      BY <3>1, <3>3
  <2>. QED
    BY <2>2, <2>3
<1>4. CASE GetMsg
  <2>1. pc'[Unit] \in Command \cup {"none"}
    BY <1>4, TailFacts DEF GetMsg
  <2>2. pc'[Unit] # "orphans"
    BY <2>1, UnitAssumption DEF UnitAssumption, PortCommand, NowCommand
  <2>. QED
    BY <1>1, <1>4, <2>2 DEF GetMsg
<1>5. CASE ReceiveOrphan
  BY <1>5 DEF ReceiveOrphan
<1>6. CASE WakeUp \/ Drained \/ Query \/ OnEvent \/ Config
  BY <1>1, <1>6 DEF WakeUp, Drained, Query, OnEvent, Config, Reply
<1>7. CASE Online \/ OnlineEvent \/ Offline \/ OfflineEvent
  BY <1>1, <1>7 DEF Online, OnlineEvent, Offline, OfflineEvent, Reply
<1>8. CASE FlushReads \/ FlushRest \/ OfflineNic
  BY <1>1, <1>8 DEF FlushReads, FlushRest, OfflineNic, Reply
<1>. QED
  BY <1>2, <1>3, <1>4, <1>5, <1>6, <1>7, <1>8 DEF Next, UnitNext, UnitStep

\* Two openers that read the same packet type are what it takes to give a frame
\* away twice: as long as every type has one reader, the orphan readers are asked
\* only for frames that nobody has taken (device.c:1434), whatever is rejected,
\* aborted or flushed.
THEOREM OrphanUnlessTwoReaders ==
  ASSUME PoliteOpeners, EachListed
  PROVE  Spec /\ []OneReader => []OrphanOnlyUnwanted
<1>1. Init => OrphanOnlyUnwanted
  BY NamesDistinct DEF Init, OrphanOnlyUnwanted
<1>2. IInv /\ OrphanOnlyUnwanted /\ OneReader /\ [Next]_vars => OrphanOnlyUnwanted'
  BY UnwantedStep DEF vars, OrphanOnlyUnwanted
<1>3. IInv /\ [Next]_vars => IInv'
  BY StepIInv
<1>. QED
  BY <1>1, <1>2, <1>3, InitIInv, PTL DEF Spec
=============================================================================
