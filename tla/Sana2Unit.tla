------------------------------ MODULE Sana2Unit ------------------------------
(***************************************************************************)
(* The I/O request engine of ksz8851.device (devicedriver/device.c): what  *)
(* DeviceBeginIO, DeviceAbortIO, the unit process and the receive callback *)
(* of the NIC driver do to the IOSana2Req structures of the openers.       *)
(*                                                                         *)
(* One task per opener (Client) runs DeviceBeginIO and DeviceAbortIO; the  *)
(* unit process (Unit) runs everything that goes through the unit port,    *)
(* and the receive callback.  A step is a stretch of code between two      *)
(* points where another task can get in: what is done under a semaphore,   *)
(* or between Forbid() and Permit(), is one step; the unlocked tests of    *)
(* eu_State are steps of their own.                                        *)
(*                                                                         *)
(* list[n] is an Exec list: the unit port, eu_Tx, eu_ReadOrphan, and for   *)
(* an opener c the bm_RxQueue of its BufferManagement.  eu_Events is a set *)
(* because nothing depends on its order.  app holds the requests the       *)
(* openers own, replied or never sent.                                     *)
(***************************************************************************)
EXTENDS Naturals, FiniteSets, SequencesExt

CONSTANTS Client,        \* the openers, one task and one BufferManagement each
          Unit,          \* the unit process
          Request,       \* the IOSana2Req structures
          NoRequest,     \* "no request in the task's hands"
          Owner,         \* the opener each request belongs to
          BmOrder,       \* the openers in the order of eu_BuffMgmt
          Command,       \* the commands the openers use
          QuickCommand,  \* those they may send with IOF_QUICK set
          EventMask,     \* the event sets S2_ONEVENT is called with
          PacketType,    \* classes of packet types (all 802.3 lengths are one)
          FrameKind,     \* the kinds of destination address frames arrive with
          ClearWireError \* whether the openers clear ios2_WireError themselves

PortCommand == {"onevent", "online", "offline", "config", "flush", "query"}
NowCommand  == {"read", "orphan", "write", "multicast", "nsquery"}
Event       == {"ONLINE", "OFFLINE", "BUFF", "TX"}
UnitList    == {"unitPort", "eu_Tx", "eu_ReadOrphan"}
DstKind     == {"uni", "bcast", "mcast"}

ASSUME UnitAssumption ==
  /\ Unit \notin Client
  /\ Client \cap UnitList = {}
  /\ NoRequest \notin Request
  /\ Owner \in [Request -> Client]
  /\ BmOrder \in Seq(Client)
  /\ Command \subseteq PortCommand \cup NowCommand
  /\ EventMask \subseteq SUBSET Event
  /\ FrameKind \subseteq DstKind
  /\ PacketType # {}
  /\ ClearWireError \in BOOLEAN

Task == Client \cup {Unit}
ListName == UnitList \cup Client

VARIABLES
  app,     \* the requests that are in the hands of the openers
  cmd,     \* io_Command
  quick,   \* IOF_QUICK
  lnType,  \* ln_Type: NT_MESSAGE or NT_REPLYMSG
  err,     \* io_Error
  wire,    \* ios2_WireError, as the set of its bits; "ERR": a code, not a mask
  ptype,   \* ios2_PacketType
  dst,     \* the kind of ios2_DstAddr of the frame last put in the request
  flags,   \* SANA2IOF_BCAST and SANA2IOF_MCAST
  list,    \* the Exec lists of the unit
  events,  \* eu_Events
  state,   \* eu_State: "CONFIG", "ONLINE"
  nicOn,   \* the NIC driver delivers frames: online, or a signal left over
  pc,      \* where each task is
  hand,    \* the request each task works on
  frame    \* the frame in the unit process and the openers that copied it

reqVars == <<cmd, quick, lnType, err, wire, ptype, dst, flags>>
vars == <<app, reqVars, list, events, state, nicOn, pc, hand, frame>>

-----------------------------------------------------------------------------
Update(f, S, v) == [x \in DOMAIN f |-> IF x \in S THEN v ELSE f[x]]

\* Mutant of TermIO: the test of IOF_QUICK the wrong way round.
TermIOSwapped(S) ==
  LET replied == {r \in S : quick[r]}
  IN  /\ app' = app \cup replied
      /\ lnType' = Update(lnType, replied, "reply")

\* TermIO: a request without IOF_QUICK goes back to its opener, one with it
\* does not (its opener takes it back when BeginIO returns).
TermIO(S) ==
  LET replied == {r \in S : ~quick[r]}
  IN  /\ app' = app \cup replied
      /\ lnType' = Update(lnType, replied, "reply")

\* AbortRequestAndRemove and AbortReqList: io_Error of the removed requests.
\* In the mutant it keeps the value it has.
AbortedKeepsError(S) == err
Aborted(S) == Update(err, S, "aborted")

\* AbortRequestAndRemove: Remove() of the request that is the i-th of list n.
\* The mutant forgets it.
StillLinked(n, i) == list
Unlinked(n, i) == [list EXCEPT ![n] = RemoveAt(@, i)]

\* DoEvent: every waiting S2_ONEVENT whose mask has the event is replied.  In
\* the mutant the mask has to be that event alone.
WaitingForOnly(e) == {r \in events : wire[r] = {e}}
Waiting(e) == {r \in events : e \in wire[r]}

Goto(t, l) == pc' = [pc EXCEPT ![t] = l]
Take(t, r) == hand' = [hand EXCEPT ![t] = r]
Drop(t) == hand' = [hand EXCEPT ![t] = NoRequest]
Push(n, r) == list' = [list EXCEPT ![n] = Append(@, r)]

-----------------------------------------------------------------------------
(* The openers' side: DeviceBeginIO, the PERFORM_NOW commands, DeviceAbortIO *)

\* An opener fills in one of its own requests and calls BeginIO.  PerformIO
\* resets io_Error but not ios2_WireError: what an earlier command left there
\* stays, unless the opener clears it.
WireAtStart(r) == IF ClearWireError THEN {} ELSE wire[r]

Submit(c, r, cd) ==
  /\ cd \in Command
  /\ pc[c] = "idle"
  /\ r \in app
  /\ Owner[r] = c
  /\ cmd' = [cmd EXCEPT ![r] = cd]
  /\ dst' = [dst EXCEPT ![r] = "none"]
  /\ flags' = [flags EXCEPT ![r] = {}]

\* DeviceBeginIO for the commands that the unit process performs.
BeginPort(c, r, cd) ==
  /\ Submit(c, r, cd)
  /\ cd \in PortCommand
  /\ \E mask \in IF cd = "onevent" THEN EventMask ELSE {WireAtStart(r)} :
        wire' = [wire EXCEPT ![r] = mask]
  /\ quick' = [quick EXCEPT ![r] = FALSE]
  /\ lnType' = [lnType EXCEPT ![r] = "message"]
  /\ app' = app \ {r}
  /\ Push("unitPort", r)
  /\ UNCHANGED <<err, ptype, events, state, nicOn, pc, hand, frame>>

\* DeviceBeginIO and PerformIO for the commands performed in the opener's
\* task, up to the test of ETHERUF_ONLINE.  A failed request is replied; with
\* IOF_QUICK the opener sees the flag and owns the request just the same.
NextLabelUnknown(cd) == cd  \* mutant: no case for CMD_WRITE and S2_MULTICAST
NextLabel(cd) == CASE cd = "read" -> "read"
                   [] cd = "orphan" -> "orphan"
                   [] OTHER -> "put"

\* TermIO of a request that never left its opener's task.
ReplyUnlessQuick(r) ==
  /\ lnType' = [lnType EXCEPT ![r] = IF quick'[r] THEN @ ELSE "reply"]
  /\ UNCHANGED <<app, pc, hand>>

BeginNow(c, r, cd) ==
  /\ Submit(c, r, cd)
  /\ cd \in NowCommand
  /\ \E q \in BOOLEAN : /\ q => cd \in QuickCommand
                        /\ quick' = [quick EXCEPT ![r] = q]
  /\ IF cd = "read" THEN \E p \in PacketType : ptype' = [ptype EXCEPT ![r] = p]
                    ELSE UNCHANGED ptype
  /\ \/ /\ cd # "nsquery"
        /\ "ONLINE" \in state
        /\ err' = [err EXCEPT ![r] = "ok"]
        /\ app' = app \ {r}
        /\ Goto(c, NextLabel(cd))
        /\ Take(c, r)
        /\ wire' = [wire EXCEPT ![r] = WireAtStart(r)]
        /\ UNCHANGED lnType
     \/ /\ cd # "nsquery"
        /\ "ONLINE" \notin state
        /\ err' = [err EXCEPT ![r] = "offline"]
        /\ wire' = [wire EXCEPT ![r] = {"ERR"}]
        /\ ReplyUnlessQuick(r)
     \/ /\ cd = "nsquery"
        /\ err' = [err EXCEPT ![r] = "ok"]
        /\ wire' = [wire EXCEPT ![r] = WireAtStart(r)]
        /\ ReplyUnlessQuick(r)
  /\ UNCHANGED <<list, events, state, nicOn, frame>>

\* The opener leaves BeginIO: a request it still finds with IOF_QUICK set is
\* done as far as it can tell, whatever the device did with it.
BackFromBeginIO(c, r) ==
  /\ app' = IF quick[r] THEN app \cup {r} ELSE app
  /\ Goto(c, "idle")
  /\ Drop(c)

\* DevCmdReadPacket, under eu_BuffMgmtLock and bm_RxQueueLock.
ReadQueue(c) ==
  LET r == hand[c]
  IN  /\ pc[c] = "read"
      /\ Push(c, r)
      /\ lnType' = [lnType EXCEPT ![r] = "message"]
      /\ BackFromBeginIO(c, r)
      /\ UNCHANGED <<cmd, quick, err, wire, ptype, dst, flags, events, state,
                     nicOn, frame>>

\* DevCmdReadPacket for a BufferManagement that is not in eu_BuffMgmt.
ReadBadArgument(c) ==
  LET r == hand[c]
  IN  /\ pc[c] = "read"
      /\ err' = [err EXCEPT ![r] = "badarg"]
      /\ wire' = [wire EXCEPT ![r] = {}]
      /\ lnType' = IF quick[r] THEN lnType ELSE [lnType EXCEPT ![r] = "reply"]
      /\ app' = app \cup {r}
      /\ Goto(c, "idle")
      /\ Drop(c)
      /\ UNCHANGED <<cmd, quick, ptype, dst, flags, list, events, state, nicOn,
                     frame>>

\* DevCmdReadOrphan, under eu_ReadOrphanLock.
OrphanQueue(c) ==
  LET r == hand[c]
  IN  /\ pc[c] = "orphan"
      /\ Push("eu_ReadOrphan", r)
      /\ lnType' = [lnType EXCEPT ![r] = "message"]
      /\ BackFromBeginIO(c, r)
      /\ UNCHANGED <<cmd, quick, err, wire, ptype, dst, flags, events, state,
                     nicOn, frame>>

\* DevCmdWritePacket: a packet longer than eu_MTU is refused ...
WriteTooLong(c) ==
  LET r == hand[c]
      woken == Waiting("TX")
  IN  /\ pc[c] = "put"
      /\ err' = [Update(err, woken, "ok") EXCEPT ![r] = "mtu"]
      /\ wire' = [Update(wire, woken, {"TX"}) EXCEPT ![r] = {}]
      /\ events' = events \ woken
      /\ app' = app \cup woken \cup {r}
      /\ lnType' = Update(lnType, woken \cup {x \in {r} : ~quick[x]}, "reply")
      /\ Goto(c, "idle")
      /\ Drop(c)
      /\ UNCHANGED <<cmd, quick, ptype, dst, flags, list, state, nicOn, frame>>

\* ... and any other one is put on eu_Tx.
WritePut(c) ==
  LET r == hand[c]
  IN  /\ pc[c] = "put"
      /\ quick' = [quick EXCEPT ![r] = FALSE]
      /\ lnType' = [lnType EXCEPT ![r] = "message"]
      /\ Push("eu_Tx", r)
      /\ Goto(c, "send")
      /\ Drop(c)
      /\ UNCHANGED <<app, cmd, err, wire, ptype, dst, flags, events, state,
                     nicOn, frame>>

\* sendAllPackets, run by every writer at the same time: GetMsg(eu_Tx).  The
\* mutant also stops when the unit is offline.
StopSendingOffline == list["eu_Tx"] = <<>> \/ "ONLINE" \notin state
NothingToSend == list["eu_Tx"] = <<>>

SendGet(c) ==
  /\ pc[c] = "send"
  /\ IF NothingToSend
     THEN /\ Goto(c, "idle")
          /\ UNCHANGED <<list, hand>>
     ELSE /\ Goto(c, "sending")
          /\ Take(c, Head(list["eu_Tx"]))
          /\ list' = [list EXCEPT !["eu_Tx"] = Tail(@)]
  /\ UNCHANGED <<app, reqVars, events, state, nicOn, frame>>

\* sendAllPackets: copy and send the packet; a buffer-management function that
\* fails, or anything left in ios2_WireError, raises S2EVENT_BUFF.
SendDone(c) ==
  LET r == hand[c]
  IN  /\ pc[c] = "sending"
      /\ \E copied \in BOOLEAN :
           LET w == IF copied THEN wire[r] ELSE {"ERR"}
               woken == IF w = {} THEN {} ELSE Waiting("BUFF")
           IN  /\ err' = [Update(err, woken, "ok") EXCEPT
                             ![r] = IF copied THEN @ ELSE "nores"]
               /\ wire' = [Update(wire, woken, {"BUFF"}) EXCEPT ![r] = w]
               /\ events' = events \ woken
               /\ TermIO(woken \cup {r})
      /\ Goto(c, "send")
      /\ Drop(c)
      /\ UNCHANGED <<cmd, quick, ptype, dst, flags, list, state, nicOn, frame>>

\* Mutant of AbortList: orphan reads are looked for in the opener's read queue.
AbortListOneQueue(r) ==
  CASE cmd[r] \in {"read", "orphan"} -> {Owner[r]}
    [] cmd[r] = "write"             -> {"eu_Tx"}
    [] OTHER                        -> {}

\* The list DeviceAbortIO looks in; it knows none for the other commands, and
\* does nothing to a request it does not find.
AbortList(r) ==
  CASE cmd[r] = "read"   -> {Owner[r]}
    [] cmd[r] = "write"  -> {"eu_Tx"}
    [] cmd[r] = "orphan" -> {"eu_ReadOrphan"}
    [] OTHER             -> {}

AbortIO(c, r) ==
  /\ pc[c] = "idle"
  /\ Owner[r] = c
  /\ lnType[r] = "message"
  /\ \/ /\ \E n \in AbortList(r) : \E i \in DOMAIN list[n] :
             /\ list[n][i] = r
             /\ list' = Unlinked(n, i)
        /\ UNCHANGED events
     \/ /\ cmd[r] = "onevent"
        /\ r \in events
        /\ events' = events \ {r}
        /\ UNCHANGED list
  /\ err' = Aborted({r})
  /\ TermIO({r})
  /\ UNCHANGED <<cmd, quick, wire, ptype, dst, flags, state, nicOn, pc, hand,
                 frame>>

-----------------------------------------------------------------------------
(* The unit process: DevProcEntry's service loop and its commands            *)

\* Wait() returns with the signal of the unit port.  The signal of the NIC is
\* served before it, so one that was left over from before S2_OFFLINE is gone.
WakeUp ==
  /\ pc[Unit] = "wait"
  /\ list["unitPort"] # <<>>
  /\ Goto(Unit, "drain")
  /\ nicOn' = (nicOn /\ "ONLINE" \in state)
  /\ UNCHANGED <<app, reqVars, list, events, state, hand, frame>>

Drained ==
  /\ pc[Unit] = "drain"
  /\ list["unitPort"] = <<>>
  /\ Goto(Unit, "wait")
  /\ UNCHANGED <<app, reqVars, list, events, state, nicOn, hand, frame>>

\* GetMsg and PerformIO up to the command.
GetMsg ==
  LET r == Head(list["unitPort"])
  IN  /\ pc[Unit] = "drain"
      /\ list["unitPort"] # <<>>
      /\ list' = [list EXCEPT !["unitPort"] = Tail(@)]
      /\ err' = [err EXCEPT ![r] = "ok"]
      /\ Take(Unit, r)
      /\ Goto(Unit, cmd[r])
      /\ UNCHANGED <<app, cmd, quick, lnType, wire, ptype, dst, flags, events,
                     state, nicOn, frame>>

\* The end of a command: TermIO, and back to the loop.  The mutant forgets the
\* TermIO.
NoReply(r) ==
  /\ UNCHANGED <<app, lnType>>
  /\ Drop(Unit)
  /\ Goto(Unit, "drain")
Reply(r) ==
  /\ TermIO({r})
  /\ Drop(Unit)
  /\ Goto(Unit, "drain")

\* The commands that only read or fill in the request.
Query ==
  /\ pc[Unit] = "query"
  /\ Reply(hand[Unit])
  /\ UNCHANGED <<cmd, quick, err, wire, ptype, dst, flags, list, events, state,
                 nicOn, frame>>

\* DevCmdOnEvent: ONLINE and OFFLINE come back at once if already true.
AlreadyTrue(mask) == \/ "ONLINE" \in mask /\ "ONLINE" \in state
                     \/ "OFFLINE" \in mask /\ "ONLINE" \notin state

OnEvent ==
  LET r == hand[Unit]
  IN  /\ pc[Unit] = "onevent"
      /\ IF AlreadyTrue(wire[r])
         THEN /\ wire' = [wire EXCEPT ![r] = @ \cap {"ONLINE", "OFFLINE"}]
              /\ TermIO({r})
              /\ UNCHANGED events
         ELSE /\ events' = events \cup {r}
              /\ UNCHANGED <<app, lnType, wire>>
      /\ Drop(Unit)
      /\ Goto(Unit, "drain")
      /\ UNCHANGED <<cmd, quick, err, ptype, dst, flags, list, state, nicOn,
                     frame>>

\* DevCmdConfigInterface: configured once, and then straight to DevCmdOnline.
Config ==
  LET r == hand[Unit]
  IN  /\ pc[Unit] = "config"
      /\ IF "CONFIG" \notin state
         THEN /\ state' = state \cup {"CONFIG"}
              /\ Goto(Unit, "online")
              /\ UNCHANGED <<app, lnType, hand, err, wire>>
         ELSE /\ err' = [err EXCEPT ![r] = "badstate"]
              /\ wire' = [wire EXCEPT ![r] = {"ERR"}]
              /\ Reply(r)
              /\ UNCHANGED state
      /\ UNCHANGED <<cmd, quick, ptype, dst, flags, list, events, nicOn, frame>>

\* DevCmdOnline up to the DoEvent.
Online ==
  LET r == hand[Unit]
  IN  /\ pc[Unit] = "online"
      /\ \/ /\ "CONFIG" \notin state
            /\ err' = [err EXCEPT ![r] = "badstate"]
            /\ wire' = [wire EXCEPT ![r] = {"ERR"}]
            /\ Reply(r)
            /\ UNCHANGED <<state, nicOn>>
         \/ /\ "CONFIG" \in state
            /\ "ONLINE" \in state
            /\ Reply(r)
            /\ UNCHANGED <<err, wire, state, nicOn>>
         \/ /\ "CONFIG" \in state
            /\ "ONLINE" \notin state
            /\ nicOn' = TRUE
            /\ state' = state \cup {"ONLINE"}
            /\ Goto(Unit, "onlineEvent")
            /\ UNCHANGED <<app, lnType, hand, err, wire>>
      /\ UNCHANGED <<cmd, quick, ptype, dst, flags, list, events, frame>>

\* DevCmdOnline: DoEvent(S2EVENT_ONLINE) and TermIO.
OnlineEvent ==
  LET woken == Waiting("ONLINE")
  IN  /\ pc[Unit] = "onlineEvent"
      /\ events' = events \ woken
      /\ err' = Update(err, woken, "ok")
      /\ wire' = Update(wire, woken, {"ONLINE"})
      /\ TermIO(woken \cup {hand[Unit]})
      /\ Drop(Unit)
      /\ Goto(Unit, "drain")
      /\ UNCHANGED <<cmd, quick, ptype, dst, flags, list, state, nicOn, frame>>

\* DevCmdOffline: clear ETHERUF_ONLINE ...
Offline ==
  /\ pc[Unit] = "offline"
  /\ IF "ONLINE" \in state
     THEN /\ state' = state \ {"ONLINE"}
          /\ Goto(Unit, "offlineEvent")
          /\ UNCHANGED <<app, lnType, hand>>
     ELSE /\ Reply(hand[Unit])
          /\ UNCHANGED state
  /\ UNCHANGED <<cmd, quick, err, wire, ptype, dst, flags, list, events, nicOn,
                 frame>>

\* ... DoEvent(S2EVENT_OFFLINE) ...
OfflineEvent ==
  LET woken == Waiting("OFFLINE")
  IN  /\ pc[Unit] = "offlineEvent"
      /\ events' = events \ woken
      /\ err' = Update(err, woken, "ok")
      /\ wire' = Update(wire, woken, {"OFFLINE"})
      /\ TermIO(woken)
      /\ Goto(Unit, "offlineFlush")
      /\ UNCHANGED <<cmd, quick, ptype, dst, flags, list, state, nicOn, hand,
                     frame>>

\* ... DevCmdFlush, which S2_FLUSH starts at once: AbortReqList of the read
\* queues under the locks, ...
FlushReads ==
  LET reads == UNION {ToSet(list[c]) : c \in Client}
  IN  /\ pc[Unit] \in {"flush", "offlineFlush"}
      /\ list' = [n \in ListName |-> IF n \in Client THEN <<>> ELSE list[n]]
      /\ err' = Aborted(reads)
      /\ TermIO(reads)
      /\ Goto(Unit, IF pc[Unit] = "flush" THEN "flushRest" ELSE "offlineRest")
      /\ UNCHANGED <<cmd, quick, wire, ptype, dst, flags, events, state, nicOn,
                     hand, frame>>

\* ... then of eu_Tx and eu_Events between Forbid() and Permit() (the mutant
\* leaves eu_Events alone) ...
FlushedTx == ToSet(list["eu_Tx"])
Flushed == ToSet(list["eu_Tx"]) \cup events

FlushRest ==
  LET rest == Flushed
  IN  /\ pc[Unit] \in {"flushRest", "offlineRest"}
      /\ list' = [list EXCEPT !["eu_Tx"] = <<>>]
      /\ events' = events \ rest
      /\ err' = Aborted(rest)
      /\ IF pc[Unit] = "flushRest"
         THEN /\ TermIO(rest \cup {hand[Unit]})
              /\ Drop(Unit)
              /\ Goto(Unit, "drain")
         ELSE /\ TermIO(rest)
              /\ Goto(Unit, "offlineNic")
              /\ UNCHANGED hand
      /\ UNCHANGED <<cmd, quick, wire, ptype, dst, flags, state, nicOn, frame>>

\* ... and at last the NIC goes offline.  Its driver does not take back a
\* signal it has already sent to the unit process, so frames that wait in the
\* chip may still be delivered, in the next pass of the service loop.
OfflineNic ==
  /\ pc[Unit] = "offlineNic"
  /\ nicOn' \in BOOLEAN
  /\ Reply(hand[Unit])
  /\ UNCHANGED <<cmd, quick, err, wire, ptype, dst, flags, list, events, state,
                 frame>>

-----------------------------------------------------------------------------
(* onPktReceived, called by the NIC driver in the unit process               *)

\* The first request of an opener's queue whose type matches: the only one the
\* opener is offered the frame for.
Matching(c, p) == {i \in DOMAIN list[c] : ptype[list[c][i]] = p}
First(c, p) == CHOOSE i \in Matching(c, p) : \A j \in Matching(c, p) : i <= j

KindFlag(d) == CASE d = "bcast" -> {"BCAST"}
                 [] d = "mcast" -> {"MCAST"}
                 [] OTHER       -> {}

\* fulfillReadIORequest for the requests in offered: addresses and flags are
\* written before the packet filter is asked; taken are those it lets through,
\* failed those of them whose CopyToBuffer fails.
Fulfill(offered, taken, failed, d) ==
  LET woken == IF failed = {} THEN {} ELSE Waiting("BUFF")
  IN  /\ dst' = Update(dst, offered, d)
      /\ flags' = [r \in Request |-> IF r \in offered
                                     THEN flags[r] \cup KindFlag(d) ELSE flags[r]]
      /\ err' = Update(Update(err, failed, "nores"), woken, "ok")
      /\ wire' = Update(Update(wire, failed, {"ERR"}), woken, {"BUFF"})
      /\ events' = events \ woken
      /\ TermIO(taken \cup woken)

\* The loop over eu_BuffMgmt.  The result of each opener that was offered the
\* frame overwrites the one before, so the last of them decides whether the
\* orphan readers are asked too.
Verdict == {"rejected", "copied", "failed"}

LastAsked(asked) ==
  BmOrder[CHOOSE i \in DOMAIN BmOrder :
            /\ BmOrder[i] \in asked
            /\ \A j \in DOMAIN BmOrder : BmOrder[j] \in asked => j <= i]

Receive(p, d) ==
  LET asked == {c \in Client : Matching(c, p) # {}}
      offer == [c \in asked |-> list[c][First(c, p)]]
  IN  /\ pc[Unit] = "wait"
      /\ nicOn
      /\ \E verdict \in [asked -> Verdict] :
           LET takers == {c \in asked : verdict[c] # "rejected"}
           IN  /\ list' = [n \in ListName |-> IF n \in takers
                             THEN RemoveAt(list[n], First(n, p)) ELSE list[n]]
               /\ Fulfill({offer[c] : c \in asked},
                          {offer[c] : c \in takers},
                          {offer[c] : c \in {x \in asked : verdict[x] = "failed"}},
                          d)
               /\ IF asked # {} /\ verdict[LastAsked(asked)] = "copied"
                  THEN UNCHANGED <<pc, frame>>
                  ELSE /\ Goto(Unit, "orphans")
                       /\ frame' = [kind |-> d, copiedTo |->
                                     {c \in asked : verdict[c] = "copied"}]
      /\ UNCHANGED <<cmd, quick, ptype, state, nicOn, hand>>

\* The first orphan reader is offered a frame that was not delivered.
NoFrame == [kind |-> "none", copiedTo |-> {}]

ReceiveOrphan ==
  LET orphans == list["eu_ReadOrphan"]
  IN  /\ pc[Unit] = "orphans"
      /\ IF orphans = <<>>
         THEN UNCHANGED <<app, dst, flags, err, wire, events, lnType, list>>
         ELSE \E v \in Verdict :
                /\ list' = IF v = "rejected" THEN list
                           ELSE [list EXCEPT !["eu_ReadOrphan"] = Tail(@)]
                /\ Fulfill({Head(orphans)},
                           IF v = "rejected" THEN {} ELSE {Head(orphans)},
                           IF v = "failed" THEN {Head(orphans)} ELSE {},
                           frame.kind)
      /\ Goto(Unit, "wait")
      /\ frame' = NoFrame
      /\ UNCHANGED <<cmd, quick, ptype, state, nicOn, hand>>

-----------------------------------------------------------------------------
Init ==
  /\ app = Request
  /\ cmd = [r \in Request |-> "none"]
  /\ quick = [r \in Request |-> FALSE]
  /\ lnType = [r \in Request |-> "reply"]
  /\ err = [r \in Request |-> "ok"]
  /\ wire = [r \in Request |-> {}]
  /\ ptype = [r \in Request |-> CHOOSE p \in PacketType : TRUE]
  /\ dst = [r \in Request |-> "none"]
  /\ flags = [r \in Request |-> {}]
  /\ list = [n \in ListName |-> <<>>]
  /\ events = {}
  /\ state = {}
  /\ nicOn = FALSE
  /\ pc = [t \in Task |-> IF t = Unit THEN "wait" ELSE "idle"]
  /\ hand = [t \in Task |-> NoRequest]
  /\ frame = NoFrame

ClientStep(c) == ReadQueue(c) \/ OrphanQueue(c) \/ WritePut(c) \/ SendGet(c)
                   \/ SendDone(c)

ClientNext(c) ==
  \/ \E r \in Request, cd \in Command : BeginPort(c, r, cd) \/ BeginNow(c, r, cd)
  \/ ClientStep(c)
  \/ ReadBadArgument(c)
  \/ WriteTooLong(c)
  \/ \E r \in Request : AbortIO(c, r)

UnitStep ==
  \/ Drained \/ GetMsg \/ Query \/ OnEvent \/ Config \/ Online \/ OnlineEvent
  \/ Offline \/ OfflineEvent \/ FlushReads \/ FlushRest \/ OfflineNic
  \/ ReceiveOrphan

UnitNext ==
  \/ WakeUp
  \/ UnitStep
  \/ \E p \in PacketType, d \in FrameKind : Receive(p, d)

Next == UnitNext \/ \E c \in Client : ClientNext(c)

Spec == Init /\ [][Next]_vars

\* Exec gives every ready task the processor; an opener need not send anything,
\* and no frame need arrive, but a call that was entered runs to its end.  The
\* unit process tests the signal of its port in every pass of its loop, so it
\* cannot put a message off for ever by receiving frames.
Fairness == /\ WF_vars(UnitStep)
            /\ SF_vars(WakeUp)
            /\ \A c \in Client : WF_vars(ClientStep(c))

FairSpec == Spec /\ Fairness
-----------------------------------------------------------------------------
(* Correctness                                                               *)

ClientLabel == {"idle", "read", "orphan", "put", "send", "sending"}
UnitLabel   == PortCommand \cup
               {"wait", "drain", "onlineEvent", "offlineEvent", "offlineFlush",
                "offlineRest", "offlineNic", "flushRest", "orphans"}
WireValue   == SUBSET (Event \cup {"ERR"})
ErrorCode   == {"ok", "offline", "badarg", "badstate", "mtu", "nores", "aborted"}

\* Every variable keeps its type.
RequestTypes ==
  /\ cmd \in [Request -> Command \cup {"none"}]
  /\ quick \in [Request -> BOOLEAN]
  /\ lnType \in [Request -> {"message", "reply"}]
  /\ err \in [Request -> ErrorCode]
  /\ wire \in [Request -> WireValue]
  /\ ptype \in [Request -> PacketType]
  /\ dst \in [Request -> DstKind \cup {"none"}]
  /\ flags \in [Request -> SUBSET {"BCAST", "MCAST"}]

PlaceTypes ==
  /\ app \subseteq Request
  /\ events \subseteq Request
  /\ list \in [ListName -> Seq(Request)]
  /\ hand \in [Task -> Request \cup {NoRequest}]

ControlTypes ==
  /\ state \subseteq {"CONFIG", "ONLINE"}
  /\ nicOn \in BOOLEAN
  /\ pc \in [Task -> ClientLabel \cup UnitLabel]
  /\ pc[Unit] \in UnitLabel
  /\ \A c \in Client : pc[c] \in ClientLabel
  /\ frame \in [kind : DstKind \cup {"none"}, copiedTo : SUBSET Client]

TypeOK == RequestTypes /\ PlaceTypes /\ ControlTypes

\* A request is never in two places: with its opener, on a list, on eu_Events,
\* or in the hands of a task.  Exec lists are intrusive, so a request that is
\* added twice, or replied while it is still linked, wrecks the list; nothing
\* in device.c tests for it, it must follow from how the commands interleave.
OnList(r) == {n \in ListName : r \in ToSet(list[n])}
InHand(r) == {t \in Task : hand[t] = r}

NeverTwice ==
  /\ \A n \in ListName : IsInjective(list[n])
  /\ \A n, m \in ListName : n # m => ToSet(list[n]) \cap ToSet(list[m]) = {}
  /\ \A t, u \in Task : t # u /\ hand[t] = hand[u] => hand[t] = NoRequest
  /\ \A n \in ListName, t \in Task : hand[t] \notin ToSet(list[n])
  /\ events \cap app = {}
  /\ \A r \in events \cup app : OnList(r) = {} /\ InHand(r) = {}

\* A request is always somewhere: none that its opener waits for is forgotten,
\* unreachable for DoEvent, the receive callback, a flush and AbortIO alike.
NeverLost ==
  \A r \in Request : r \in app \cup events \/ OnList(r) # {} \/ InHand(r) # {}

\* A request on a list is on the one DeviceAbortIO searches for its command,
\* so a pending read, write or orphan read can always be aborted (S2_MULTICAST
\* is the exception in the code), and no list has a foreign command on it.
AbortFindsRequest ==
  \A n \in ListName \ {"unitPort"} : \A r \in ToSet(list[n]) :
    AbortList(r) = {n} \/ (cmd[r] = "multicast" /\ n = "eu_Tx")

\* A waiting S2_ONEVENT never sleeps through ONLINE or OFFLINE: between two
\* commands of the unit process none waits for a state the unit is in.
NoMissedEvent ==
  pc[Unit] \notin {"onlineEvent", "offlineEvent"} =>
    \A r \in events : ~AlreadyTrue(wire[r])

\* No write is stranded on eu_Tx: while one is there, some task is still in the
\* loop of sendAllPackets.  Nothing else would ever take it off the list.
TxServed ==
  list["eu_Tx"] # <<>> => \E c \in Client : pc[c] \in {"send", "sending"}

\* A read that comes back without an error has a frame in it, and the flags of
\* that frame, whatever was aborted, flushed, refused or taken offline while it
\* was pending.
ReadOkHasFrame ==
  \A r \in app : cmd[r] \in {"read", "orphan"} /\ err[r] = "ok" =>
    dst[r] # "none" /\ KindFlag(dst[r]) \subseteq flags[r]

\* Every command sent through the unit port comes back, except S2_ONEVENT.
PortCommandsReturn ==
  \A r \in Request :
    (r \notin app /\ cmd[r] \in PortCommand \ {"onevent"}) ~> (r \in app)

\* Every write comes back, whichever task ends up sending it.
WritesReturn ==
  \A r \in Request :
    (r \notin app /\ cmd[r] \in {"write", "multicast"}) ~> (r \in app)

\* Every read, write or event request that is pending when a flush begins comes
\* back; the requests on eu_ReadOrphan are not among them.
FlushReturns ==
  \A r \in Request :
    (/\ pc[Unit] \in {"flush", "offlineFlush"}
     /\ r \in events \/ OnList(r) \cap (Client \cup {"eu_Tx"}) # {}) ~> (r \in app)

\* The openers own what is in app; the rest of a request is its content.
Contract == INSTANCE RequestContract WITH
  owner   <- [r \in Request |-> IF r \in app THEN "opener" ELSE "device"],
  content <- [r \in Request |-> <<cmd[r], quick[r], lnType[r], err[r], wire[r],
                                  ptype[r], dst[r], flags[r]>>]

\* A request the device has given back is the opener's: no late frame, abort,
\* flush, event or writer in another task writes into it, takes it up again or
\* gives it back once more, until its opener sends it again.
KeepsContract == Contract!Spec

-----------------------------------------------------------------------------
(* What comments in the source say and the code does not do                  *)

\* device.c:1514 "Alle evtl. ReadRequests abbrechen": an offline unit, between
\* two commands, has no read pending.
OfflineAbortsReads ==
  pc[Unit] \in {"wait", "drain"} /\ "ONLINE" \notin state =>
    \A c \in Client : list[c] = <<>>

\* device.c:1434 "If nobody wants that packet": the orphan readers are asked
\* only for a frame that no opener has taken.
OrphanOnlyUnwanted == pc[Unit] = "orphans" => frame.copiedTo = {}
=============================================================================
