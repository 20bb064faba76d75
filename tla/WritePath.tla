------------------------------ MODULE WritePath ------------------------------
(***************************************************************************)
(* How a packet gets from a CMD_WRITE request to the chip: DevCmdWrite-    *)
(* Packet and sendAllPackets in device.c, which every opener runs in its   *)
(* own task, and the two send functions of the NIC driver.  The writers    *)
(* share eu_Tx and the one static sendBuffer, and read the station address *)
(* that the unit process (Station) may be writing.                         *)
(*                                                                         *)
(* A frame is what each of its fields was filled from: the request for     *)
(* destination, type and payload, an address for the source of a cooked    *)
(* packet (in halves, as it is copied), the request again for a raw one.   *)
(* Sana2Unit has AbortIO, events and the rest of the engine.               *)
(***************************************************************************)
EXTENDS Station

CONSTANTS
  Opener,    \* the tasks that write
  Request,   \* their IOSana2Req structures
  Owner,     \* who uses which request
  Forms,     \* what is sent with it: SANA2IOF_RAW or not, and ios2_DataLength
  DmaAnswer, \* whether CopyFromBufferDMA may give an opener's requests an address
  NoRequest

ASSUME WriteAssumption ==
  /\ Owner \in [Request -> Opener] /\ NoRequest \notin Request
  /\ \A r \in Request : Forms[r] # {} /\ Forms[r] \subseteq {"cooked", "raw"} \X Nat
  /\ DmaAnswer \in [Opener -> SUBSET BOOLEAN]
  /\ Address \cap Request = {}

ETHERNET_MTU == 1500
HEAD_SIZE == 14

VARIABLES
  at,     \* the device has a request, or its opener, with this answer
  form,   \* kind and length of a request
  frame,  \* the frame that went to the chip for a request
  tx,     \* eu_Tx
  buffer, \* sendBuffer
  wpc,    \* where a task is in DevCmdWritePacket and sendAllPackets
  taken,  \* the request a task works on
  filled  \* fields of sendBuffer it has written

requestVars == <<at, form, frame>>
taskVars == <<wpc, taken, filled>>
writeVars == <<requestVars, tx, buffer, taskVars>>
vars == <<stationVars, writeVars>>

\* In the order they are filled; the packet type is counted to the payload.
Fields == <<"dst", "high", "low", "payload">>
Field == {"dst", "high", "low", "payload"}
NoFrame == [f \in Field |-> NoRequest]

WriteInit ==
  /\ at = [r \in Request |-> "ok"]
  /\ form = [r \in Request |-> CHOOSE fm \in Forms[r] : TRUE]
  /\ frame = [r \in Request |-> NoFrame]
  /\ tx = << >> /\ buffer = NoFrame
  /\ wpc = [w \in Opener |-> "idle"]
  /\ taken = [w \in Opener |-> NoRequest] /\ filled = [w \in Opener |-> 0]

Cooked(r) == form[r][1] = "cooked"
Length(r) == form[r][2]

-----------------------------------------------------------------------------
(* DevCmdWritePacket *)

\* TermIO: the request goes back to its opener.
TermIO(r, error) == at' = [at EXCEPT ![r] = error]

Write(w, r) ==
  /\ wpc[w] = "idle" /\ Owner[r] = w /\ at[r] # "device"
  /\ at' = [at EXCEPT ![r] = "device"]
  /\ \E fm \in Forms[r] : form' = [form EXCEPT ![r] = fm]
  /\ frame' = [frame EXCEPT ![r] = NoFrame]
  /\ taken' = [taken EXCEPT ![w] = r] /\ wpc' = [wpc EXCEPT ![w] = "test"]
  /\ UNCHANGED <<tx, buffer, filled>>

\* ETHERUF_ONLINE; the mutant does not test it.
OnlineUntested == TRUE
MaySend == "online" \in state

Refuse(w) ==
  /\ wpc[w] = "test" /\ (~MaySend \/ Length(taken[w]) > ETHERNET_MTU)
  /\ TermIO(taken[w], IF MaySend THEN "mtu" ELSE "offline")
  /\ taken' = [taken EXCEPT ![w] = NoRequest] /\ wpc' = [wpc EXCEPT ![w] = "idle"]
  /\ UNCHANGED <<form, frame, tx, buffer, filled>>

Accept(w) ==
  /\ wpc[w] = "test" /\ MaySend /\ Length(taken[w]) =< ETHERNET_MTU
  /\ wpc' = [wpc EXCEPT ![w] = "put"]
  /\ UNCHANGED <<requestVars, tx, buffer, taken, filled>>

Put(w) ==
  /\ wpc[w] = "put"
  /\ tx' = Append(tx, taken[w])
  /\ taken' = [taken EXCEPT ![w] = NoRequest] /\ wpc' = [wpc EXCEPT ![w] = "get"]
  /\ UNCHANGED <<requestVars, buffer, filled>>

-----------------------------------------------------------------------------
(* sendAllPackets *)

TxEmpty(w) ==
  /\ wpc[w] = "get" /\ tx = << >>
  /\ wpc' = [wpc EXCEPT ![w] = "idle"]
  /\ UNCHANGED <<requestVars, tx, buffer, taken, filled>>

\* A packet of another opener is taken as well.  CopyFromBufferDMA is asked for
\* raw packets too, but only a cooked one makes use of the address.  The
\* mutants: the request stays on the list while it is sent, and
\* CopyFromBufferDMA is not used.
StillOnTx == IF Len(tx) > 1 THEN Tail(tx) ELSE tx
AfterGet == Tail(tx)
DmaUnused(r, dma) == "fill"
Route(r, dma) == IF dma /\ Cooked(r) THEN "send dma" ELSE "fill"
GetPacket(w) ==
  /\ wpc[w] = "get" /\ tx # << >>
  /\ tx' = AfterGet
  /\ taken' = [taken EXCEPT ![w] = Head(tx)]
  /\ \E dma \in DmaAnswer[Owner[Head(tx)]] :
       wpc' = [wpc EXCEPT ![w] = Route(Head(tx), dma)]
  /\ UNCHANGED <<requestVars, buffer, filled>>

TooShort(r) == ~Cooked(r) /\ Length(r) =< HEAD_SIZE

RawTooShort(w) ==
  /\ wpc[w] = "fill" /\ filled[w] = 0 /\ TooShort(taken[w])
  /\ TermIO(taken[w], "mtu")
  /\ taken' = [taken EXCEPT ![w] = NoRequest] /\ wpc' = [wpc EXCEPT ![w] = "get"]
  /\ UNCHANGED <<form, frame, tx, buffer, filled>>

\* What is copied to a field of sendBuffer: the source address of a cooked
\* packet comes from eu_StAddr, everything else from the request.
SourceHalf(h) == stAddr[h]
Content(r, f) == IF Cooked(r) /\ f \in Half THEN SourceHalf(f) ELSE r

\* The next field, and none is filled when the last one was; the mutant goes on.
FieldsCounted(i) == i + 1
NextField(i) == (i + 1) % Len(Fields)
Fill(w) ==
  /\ wpc[w] = "fill" /\ ~TooShort(taken[w])
  /\ LET f == Fields[filled[w] + 1]
     IN  buffer' = [buffer EXCEPT ![f] = Content(taken[w], f)]
  /\ filled' = [filled EXCEPT ![w] = NextField(@)]
  /\ wpc' = [wpc EXCEPT ![w] = IF filled[w] + 1 = Len(Fields) THEN "send" ELSE "fill"]
  /\ UNCHANGED <<requestVars, tx, taken>>

\* CopyFromBuffer of the opener fails: for the payload, or for a whole raw frame.
CopyFails(w) ==
  /\ wpc[w] = "fill" /\ ~TooShort(taken[w])
  /\ Cooked(taken[w]) => filled[w] + 1 = Len(Fields)
  /\ TermIO(taken[w], "no resources")
  /\ taken' = [taken EXCEPT ![w] = NoRequest] /\ wpc' = [wpc EXCEPT ![w] = "get"]
  /\ filled' = [filled EXCEPT ![w] = 0]
  /\ UNCHANGED <<form, frame, tx, buffer>>

\* ksz8851SendPacket and ksz8851SendPacketCooked, under Disable().  Without room
\* in the transmit memory, or with a raw frame under 46 bytes, nothing is sent,
\* and the caller does not look at the result.
Sent(r, content) ==
  \/ /\ Cooked(r) \/ Length(r) >= 46
     /\ frame' = [frame EXCEPT ![r] = content]
  \/ UNCHANGED frame

Send(w) ==
  /\ wpc[w] = "send"
  /\ Sent(taken[w], buffer)
  /\ wpc' = [wpc EXCEPT ![w] = "done"]
  /\ UNCHANGED <<at, form, tx, buffer, taken, filled>>

SendDma(w) ==
  /\ wpc[w] = "send dma"
  /\ Sent(taken[w], [f \in Field |-> Content(taken[w], f)])
  /\ wpc' = [wpc EXCEPT ![w] = "done"]
  /\ UNCHANGED <<at, form, tx, buffer, taken, filled>>

SendDone(w) ==
  /\ wpc[w] = "done"
  /\ TermIO(taken[w], "ok")
  /\ taken' = [taken EXCEPT ![w] = NoRequest] /\ wpc' = [wpc EXCEPT ![w] = "get"]
  /\ UNCHANGED <<form, frame, tx, buffer, filled>>

WriterStep(w) ==
  \/ \E r \in Request : Write(w, r)
  \/ Refuse(w) \/ Accept(w) \/ Put(w) \/ TxEmpty(w) \/ GetPacket(w)
  \/ RawTooShort(w) \/ Fill(w) \/ CopyFails(w) \/ Send(w) \/ SendDma(w) \/ SendDone(w)

\* DevCmdOffline calls DevCmdFlush: AbortReqList on eu_Tx, under Forbid().
FlushTx ==
  /\ at' = [r \in Request |-> IF r \in ToSet(tx) THEN "aborted" ELSE at[r]]
  /\ tx' = << >>
  /\ UNCHANGED <<form, frame, buffer, taskVars>>

UnitStep == (UnitProcess /\ UNCHANGED writeVars) \/ (OfflineFlush /\ FlushTx)
OutsideStep == Outside /\ UNCHANGED writeVars

WriterNext == (\E w \in Opener : WriterStep(w)) /\ UNCHANGED stationVars
Next == UnitStep \/ OutsideStep \/ WriterNext

Spec == StationInit /\ WriteInit /\ [][Next]_vars
-----------------------------------------------------------------------------
(* Properties *)

\* Every variable keeps its type, and a task in the loop of sendAllPackets has
\* a request exactly where the code uses one.
TypeOK ==
  /\ StationTypeOK
  /\ at \in [Request -> {"device", "ok", "mtu", "offline", "no resources", "aborted"}]
  /\ form \in [Request -> {"cooked", "raw"} \X Nat]
  /\ frame \in [Request -> [Field -> Address \cup Request \cup {NoRequest}]]
  /\ tx \in Seq(Request)
  /\ buffer \in [Field -> Address \cup Request \cup {NoRequest}]
  /\ wpc \in [Opener -> {"idle", "test", "put", "get", "fill", "send", "send dma", "done"}]
  /\ taken \in [Opener -> Request \cup {NoRequest}]
  /\ \A w \in Opener : taken[w] = NoRequest <=> wpc[w] \in {"idle", "get"}
  /\ filled \in [Opener -> 0 .. Len(Fields) - 1]

\* sendAllPackets builds "a raw ethernet packet (with a temp buffer)" from a
\* request: destination, type and payload of a frame come from one and the same
\* request, and so does the source of a raw frame.  It needs the one sendBuffer
\* to hold the packet of one request from the first byte to the Disable() of the
\* NIC driver.
FrameIntact ==
  \A r \in Request : frame[r] # NoFrame =>
    \A f \in Field : (Cooked(r) => f \notin Half) => frame[r][f] = r

\* A cooked frame carries the address the chip was told to listen to, whole,
\* although tasks read eu_StAddr in two moves and without a lock; until the
\* configuration file is read again, which the chip is not told.
SourceIsOurs ==
  \A r \in Request : frame[r] # NoFrame /\ Cooked(r) /\ ~reread =>
    \A h \in Half : frame[r][h] = chip[h]

\* A request is sent at most once, and only while the device has it: no task
\* still sends a packet that S2_OFFLINE aborted or another task answered.
SendsOwned ==
  \A r \in Request : frame'[r] # frame[r] /\ frame'[r] # NoFrame
    => at[r] = "device" /\ frame[r] = NoFrame
SentOnce == [][SendsOwned]_vars

\* What an opener relies on (RequestContract) for its writes, the frame on the
\* wire included: a request that was given back is not taken up again, neither
\* by the task that answered it nor by the one whose loop had it on eu_Tx.
Contract == INSTANCE RequestContract WITH
  owner   <- [r \in Request |-> IF at[r] = "device" THEN "device" ELSE "opener"],
  content <- [r \in Request |-> <<at[r], form[r], frame[r]>>]
WritesKeepContract == Contract!Spec

=============================================================================
