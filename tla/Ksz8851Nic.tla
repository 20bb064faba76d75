------------------------------ MODULE Ksz8851Nic -----------------------------
(***************************************************************************)
(* The driver of the KSZ8851 Ethernet controller (servicetool/ksz8851.c)   *)
(* and its interrupt server (servicetool/isr.c): how the interrupt handler *)
(* and the event handler share the interrupt registers, and how the unit   *)
(* process and the senders share the data port.                            *)
(*                                                                         *)
(* Disable() stops interrupts and task switching, so intOff has at most    *)
(* one owner; the chip does not stop, and may raise an event between any   *)
(* two register accesses.  A step is therefore one register access that    *)
(* the chip can get in front of, or a stretch of them that it cannot       *)
(* disturb.  An interrupt source has the same name in ISR and IER; the     *)
(* bits of P1SR have the names of the ISR bits at the same position.       *)
(***************************************************************************)
EXTENDS Integers, FiniteSets, SequencesExt

CONSTANTS Unit,        \* the unit process: online, offline, processEvents
          Sender,      \* the tasks that send packets
          NoTask,      \* "interrupts are enabled"
          Source,      \* the interrupt sources that occur
          FrameKind,   \* the kinds of frames that arrive
          CookedLength, \* the payload lengths of ksz8851SendPacketCooked
          RawLength,   \* the packet lengths of ksz8851SendPacket
          RxSlots,     \* bound: frames that fit in the receive queue
          TxMemory,    \* bytes of transmit memory
          MaxSessions  \* bound: how often the driver goes online

AllSources == {"LC", "RX", "RXO", "TX", "LD"}

ASSUME NicAssumption ==
  /\ Unit \notin Sender
  /\ NoTask \notin Sender \cup {Unit}
  /\ Source \subseteq AllSources
  /\ FrameKind \subseteq {"good", "error", "unmarked"}
  /\ CookedLength \subseteq Nat
  /\ RawLength \subseteq 46..1518
  /\ RxSlots \in 1..255
  /\ TxMemory \in Nat
  /\ MaxSessions \in Nat

Task == Sender \cup {Unit}

\* P1SR_REVERSED_POLARITY is at the bit of RXIS, P1SR_PARTNER_ADV_100_FD at
\* the bit of IER_LDIE; no other bit of P1SR meets one the driver tests.
PhyAlias == {"RX", "LD"}

VARIABLES
  isr,      \* ISR: the events the chip has pending
  ier,      \* IER: the sources that may interrupt
  rxq,      \* the frames in the receive queue of the chip
  txq,      \* the bytes each frame in the transmit queue takes
  txmir,    \* TXMIR: free bytes of transmit memory
  running,  \* TXE and RXE
  sda,      \* RXQCR_SDA: the data port is in transfer mode
  server,   \* the interrupt server is installed
  sessions, \* how often the driver went online
  signal,   \* the signal of the driver is pending at the unit process
  intOff,   \* the task between Disable() and Enable(), or NoTask
  pc,       \* where each task is
  job,      \* the packet each sender writes
  status,   \* ksz8851EventHandler: status
  count,    \* ksz8851EventHandler: frameCount
  mask,     \* ksz8851EventHandler: enableMask
  back      \* ksz8851SetBit(ISR): the value read back

chip == <<isr, ier, rxq, txq, txmir, running, sda>>
handler == <<status, count, mask, back>>
vars == <<chip, server, sessions, signal, intOff, pc, job, handler>>

Goto(t, l) == pc' = [pc EXCEPT ![t] = l]

-----------------------------------------------------------------------------
(* The chip                                                                  *)

\* A frame arrives; a full queue drops it and reports an overrun.
FrameArrives(k) ==
  /\ running
  /\ \/ /\ Len(rxq) < RxSlots
        /\ rxq' = Append(rxq, k)
        /\ isr' = isr \cup {"RX"}
     \/ /\ Len(rxq) = RxSlots
        /\ "RXO" \in Source
        /\ isr' = isr \cup {"RXO"}
        /\ UNCHANGED rxq
  /\ UNCHANGED <<ier, txq, txmir, running, sda, server, sessions, signal, intOff,
                 pc, job, handler>>

\* The first frame of the transmit queue is on the wire.
FrameSent ==
  /\ running
  /\ txq # <<>>
  /\ txmir' = txmir + Head(txq)
  /\ txq' = Tail(txq)
  /\ isr' = isr \cup ({"TX"} \cap Source)
  /\ UNCHANGED <<ier, rxq, running, sda, server, sessions, signal, intOff, pc,
                 job, handler>>

\* The link changes, or comes up.
LinkEvent(s) ==
  /\ s \in Source \cap {"LC", "LD"}
  /\ isr' = isr \cup {s}
  /\ UNCHANGED <<ier, rxq, txq, txmir, running, sda, server, sessions, signal,
                 intOff, pc, job, handler>>

-----------------------------------------------------------------------------
(* isr() and ksz8851IrqHandler                                               *)

\* Every source that is pending is masked; TXIS is acknowledged, and LDIS with
\* PMECR.
Irq ==
  /\ intOff = NoTask
  /\ server
  /\ isr \cap ier # {}
  /\ ier' = ier \ isr
  /\ isr' = isr \ {"TX", "LD"}
  /\ signal' = TRUE
  /\ UNCHANGED <<rxq, txq, txmir, running, sda, server, sessions, intOff, pc,
                 job, handler>>

-----------------------------------------------------------------------------
(* ksz8851EventHandler and ksz8851ReceivePacket, in the unit process         *)

\* The unit process calls processEvents when the signal has come; Disable(),
\* read ISR, and acknowledge a link change.
EventHandler ==
  /\ pc[Unit] = "wait"
  /\ signal
  /\ intOff = NoTask
  /\ signal' = FALSE
  /\ intOff' = Unit
  /\ status' = isr
  /\ mask' = {}
  /\ isr' = isr \ {"LC"}
  /\ Goto(Unit, IF "LC" \in isr THEN "link" ELSE "rx")
  /\ UNCHANGED <<ier, rxq, txq, txmir, running, sda, server, sessions, job, count,
                 back>>

\* A link change: P1SR is read into the variable that held ISR.
LinkStatus ==
  /\ pc[Unit] = "link"
  /\ \E p1sr \in SUBSET PhyAlias : status' = p1sr
  /\ mask' = mask \cup {"LC"}
  /\ Goto(Unit, "rx")
  /\ UNCHANGED <<chip, server, sessions, signal, intOff, job, count, back>>

\* The receive interrupt is acknowledged before the frames are counted.
ReceiveStatus ==
  /\ pc[Unit] = "rx"
  /\ IF "RX" \in status
     THEN /\ isr' = isr \ {"RX"}
          /\ Goto(Unit, "count")
     ELSE /\ Goto(Unit, "overrun")
          /\ UNCHANGED isr
  /\ UNCHANGED <<ier, rxq, txq, txmir, running, sda, server, sessions, signal,
                 intOff, job, handler>>

\* RXFCTR.  In one mutant a frame that is still being received counts too, in
\* the other one the last frame does not.
FramesAndOne == Len(rxq) + 1
FramesButOne == IF rxq = <<>> THEN 0 ELSE Len(rxq) - 1
Frames == Len(rxq)

\* Mutant of RxHandled: the receive interrupt is not enabled again.
RxForgotten == mask
RxHandled == mask \cup {"RX"}

CountFrames ==
  /\ pc[Unit] = "count"
  /\ count' = Frames
  /\ mask' = RxHandled
  /\ Goto(Unit, "frames")
  /\ UNCHANGED <<chip, server, sessions, signal, intOff, job, status, back>>

\* ksz8851ReceivePacket: a valid frame is read through the data port ...
ReadFrame ==
  /\ pc[Unit] = "frames"
  /\ count > 0
  /\ rxq # <<>>
  /\ Head(rxq) = "good"
  /\ sda' = TRUE
  /\ Goto(Unit, "dma")
  /\ UNCHANGED <<isr, ier, rxq, txq, txmir, running, server, sessions, signal,
                 intOff, job, handler>>

\* ... and delivered between Enable() and Disable(); ...
Deliver ==
  /\ pc[Unit] = "dma"
  /\ rxq' = Tail(rxq)
  /\ sda' = FALSE
  /\ intOff' = NoTask
  /\ Goto(Unit, "deliver")
  /\ UNCHANGED <<isr, ier, txq, txmir, running, server, sessions, signal, job,
                 handler>>

Delivered ==
  /\ pc[Unit] = "deliver"
  /\ intOff = NoTask
  /\ intOff' = Unit
  /\ count' = count - 1
  /\ Goto(Unit, "frames")
  /\ UNCHANGED <<chip, server, sessions, signal, job, status, mask, back>>

\* ... a frame with an error, or of a bad size, is released; one that is not
\* valid but has no error bit stays where it is.
SkipFrame ==
  /\ pc[Unit] = "frames"
  /\ count > 0
  /\ rxq # <<>>
  /\ \/ /\ Head(rxq) = "error"
        /\ rxq' = Tail(rxq)
     \/ /\ Head(rxq) = "unmarked"
        /\ UNCHANGED rxq
  /\ count' = count - 1
  /\ UNCHANGED <<isr, ier, txq, txmir, running, sda, server, sessions, signal,
                 intOff, pc, job, status, mask, back>>

NoMoreFrames ==
  /\ pc[Unit] = "frames"
  /\ count = 0
  /\ Goto(Unit, "overrun")
  /\ UNCHANGED <<chip, server, sessions, signal, intOff, job, handler>>

\* An overrun is acknowledged with ksz8851SetBit(ISR): ISR is read ...
Overrun ==
  /\ pc[Unit] = "overrun"
  /\ IF "RXO" \in status
     THEN /\ back' = isr
          /\ Goto(Unit, "ackOverrun")
     ELSE /\ Goto(Unit, "enable")
          /\ UNCHANGED back
  /\ UNCHANGED <<chip, server, sessions, signal, intOff, job, status, count, mask>>

\* ... and written back, and every bit written as one is cleared.
AckOverrun ==
  /\ pc[Unit] = "ackOverrun"
  /\ isr' = isr \ (back \cup {"RXO"})
  /\ mask' = mask \cup {"RXO"}
  /\ Goto(Unit, "enable")
  /\ UNCHANGED <<ier, rxq, txq, txmir, running, sda, server, sessions, signal,
                 intOff, job, status, count, back>>

\* The handled sources are enabled again: ksz8851SetBit(IER), Enable().
EnableHandled ==
  /\ pc[Unit] = "enable"
  /\ ier' = ier \cup mask \cup (status \cap {"LD", "TX"})
  /\ intOff' = NoTask
  /\ Goto(Unit, "wait")
  /\ UNCHANGED <<isr, rxq, txq, txmir, running, sda, server, sessions, signal, job,
                 handler>>

-----------------------------------------------------------------------------
(* Going online and offline, in the unit process                             *)

\* ksz8851Init: ksz8851SoftReset returns when it finds the chip, so the receive
\* queue keeps its frames.  TXCR, RXCR1 and RXQCR are written without TXE, RXE
\* and SDA.  Then installInterruptHandler: AllocSignal clears the signal.
InitNic ==
  /\ pc[Unit] = "wait"
  /\ ~server
  /\ intOff = NoTask
  /\ sessions < MaxSessions
  /\ sessions' = sessions + 1
  /\ running' = FALSE
  /\ sda' = FALSE
  /\ server' = TRUE
  /\ signal' = FALSE
  /\ Goto(Unit, "online")
  /\ UNCHANGED <<isr, ier, rxq, txq, txmir, intOff, job, handler>>

\* ksz8851Online: clear every flag in ISR, enable LCIE, RXIE and RXOIE, and
\* start the transmitter and the receiver.
Online ==
  /\ pc[Unit] = "online"
  /\ intOff = NoTask
  /\ isr' = {}
  /\ ier' = ier \cup {"LC", "RX", "RXO"}
  /\ running' = TRUE
  /\ Goto(Unit, "wait")
  /\ UNCHANGED <<rxq, txq, txmir, sda, server, sessions, signal, intOff, job,
                 handler>>

\* ksz8851Offline and uninstallInterruptHandler.  The signal stays pending.
Offline ==
  /\ pc[Unit] = "wait"
  /\ server
  /\ intOff = NoTask
  /\ ier' = {}
  /\ running' = FALSE
  /\ server' = FALSE
  /\ UNCHANGED <<isr, rxq, txq, txmir, sda, sessions, signal, intOff, pc, job,
                 handler>>

-----------------------------------------------------------------------------
(* ksz8851SendPacket and ksz8851SendPacketCooked, in any task                *)

\* ksz8851WriteFifoWordAlign: the words it writes, and what it returns: the
\* counter of words is a uint16_t, and it has wrapped when the loop is left.
WordsWritten(n) == ((n + 1) \div 2) % 65536
ReturnedBytes(n) == (2 * 65535) % 65536

Padded(n) == IF n < 46 THEN 46 ELSE n

\* The bytes that go through the data port: the header of four bytes, the two
\* addresses, the packet type, the payload, and a word to fill the last DWORD.
CookedBytes(n) ==
  4 + 6 + 6 + 2 + 2 * WordsWritten(Padded(n))
    + (IF (ReturnedBytes(Padded(n)) + 14) % 4 # 0 THEN 2 ELSE 0)

\* ksz8851WriteFifo: whole DWORDs.
RawBytes(n) == 4 + 4 * ((n + 3) \div 4)

Job == [kind : {"cooked"}, len : CookedLength] \cup [kind : {"raw"}, len : RawLength]
NoJob == [kind |-> "none", len |-> 0]

Bytes(j) == IF j.kind = "cooked" THEN CookedBytes(j.len) ELSE RawBytes(j.len)

\* The test against TXMIR; the mutant forgets the header and the checksum.
NeededWithoutHeader(j) == j.len
Needed(j) == (IF j.kind = "cooked" THEN Padded(j.len) ELSE j.len) + 8

\* Disable(), the test (a packet that does not fit is refused, and nothing
\* changes), and the transfer through the data port.  The mutant has no
\* Disable(), so it also runs where another task was preempted.
AnyTime == TRUE
Exclusive == intOff = NoTask

SendPacket(t, j) ==
  /\ pc[t] = "idle"
  /\ Exclusive
  /\ Needed(j) <= txmir
  /\ intOff' = t
  /\ sda' = TRUE
  /\ job' = [job EXCEPT ![t] = j]
  /\ Goto(t, "dma")
  /\ UNCHANGED <<isr, ier, rxq, txq, txmir, running, server, sessions, signal,
                 handler>>

\* The end of the transfer, TXQCR_METFE, Enable().
PacketWritten(t) ==
  /\ pc[t] = "dma"
  /\ sda' = FALSE
  /\ txq' = Append(txq, Bytes(job[t]))
  /\ txmir' = txmir - Bytes(job[t])
  /\ intOff' = NoTask
  /\ job' = [job EXCEPT ![t] = NoJob]
  /\ Goto(t, "idle")
  /\ UNCHANGED <<isr, ier, rxq, running, server, sessions, signal, handler>>

-----------------------------------------------------------------------------
Init ==
  /\ isr = {}
  /\ ier = {}
  /\ rxq = <<>>
  /\ txq = <<>>
  /\ txmir = TxMemory
  /\ running = FALSE
  /\ sda = FALSE
  /\ server = FALSE
  /\ sessions = 0
  /\ signal = FALSE
  /\ intOff = NoTask
  /\ pc = [t \in Task |-> IF t = Unit THEN "wait" ELSE "idle"]
  /\ job = [t \in Sender |-> NoJob]
  /\ status = {}
  /\ count = 0
  /\ mask = {}
  /\ back = {}

ChipNext ==
  \/ \E k \in FrameKind : FrameArrives(k)
  \/ FrameSent
  \/ \E s \in Source : LinkEvent(s)

\* The rest of a call of ksz8851EventHandler.
HandlerStep ==
  \/ LinkStatus \/ ReceiveStatus \/ CountFrames \/ ReadFrame \/ Deliver
  \/ SkipFrame \/ NoMoreFrames \/ Overrun \/ AckOverrun \/ EnableHandled

UnitNext ==
  EventHandler \/ HandlerStep \/ Delivered \/ InitNic \/ Online \/ Offline

SenderNext(t) == (\E j \in Job : SendPacket(t, j)) \/ PacketWritten(t)

Next == ChipNext \/ Irq \/ UnitNext \/ \E t \in Sender : SenderNext(t)

Spec == Init /\ [][Next]_vars

\* A task with interrupts disabled is the only one that runs.  Disable() does
\* not wait: what asks for it is only delayed by the tasks that were faster.
Fairness ==
  /\ WF_vars(HandlerStep)
  /\ SF_vars(EventHandler)
  /\ SF_vars(Delivered)
  /\ SF_vars(Irq)
  /\ \A t \in Sender : WF_vars(PacketWritten(t))

FairSpec == Spec /\ Fairness
-----------------------------------------------------------------------------
(* Correctness                                                               *)

UnitLabel == {"wait", "link", "rx", "count", "frames", "dma", "deliver",
              "overrun", "ackOverrun", "enable", "online"}

\* Every variable keeps its type.
TypeOK ==
  /\ isr \subseteq AllSources
  /\ ier \subseteq AllSources
  /\ rxq \in Seq(FrameKind)
  /\ Len(rxq) <= RxSlots
  /\ txq \in Seq(Nat)
  /\ txmir \in Int
  /\ running \in BOOLEAN
  /\ sda \in BOOLEAN
  /\ server \in BOOLEAN
  /\ sessions \in 0..MaxSessions
  /\ signal \in BOOLEAN
  /\ intOff \in Task \cup {NoTask}
  /\ pc \in [Task -> UnitLabel \cup {"idle"}]
  /\ pc[Unit] \in UnitLabel
  /\ \A t \in Sender : pc[t] \in {"idle", "dma"}
  /\ job \in [Sender -> Job \cup {NoJob}]
  /\ status \subseteq AllSources
  /\ count \in 0..RxSlots
  /\ mask \subseteq AllSources
  /\ back \subseteq AllSources

\* No interrupt source of an online driver stays masked with nobody left to
\* unmask it: the interrupt handler masks what is pending, whatever the event
\* handler is doing at that moment, and when the event handler is done and was
\* not signalled again each source it needs is enabled.
NoSourceForgotten ==
  server /\ pc[Unit] = "wait" /\ ~signal => {"LC", "RX", "RXO"} \subseteq ier

\* The data port and the command register of the chip belong to one task at a
\* time: nobody else is in a transfer, and no interrupt (which reads ISR through
\* the same registers) can occur in one, although the receive loop enables
\* interrupts in its middle.
Transferring == {t \in Task : pc[t] = "dma"}

DataPortExclusive ==
  /\ Cardinality(Transferring) <= 1
  /\ sda <=> Transferring # {}
  /\ intOff # NoTask => Transferring \subseteq {intOff}
  /\ intOff = NoTask => Transferring = {}

\* A frame in the receive queue that the running receive loop will not take is
\* announced by RXIS, so the frame that arrives between the reading of the count
\* and the end of the loop is not left behind.
InLoop == IF pc[Unit] \in {"frames", "dma"} THEN count
          ELSE IF pc[Unit] = "deliver" THEN count - 1 ELSE 0

FrameAnnounced ==
  "RX" \in isr \/ pc[Unit] = "count" \/ Len(rxq) <= InLoop

\* The receive loop never reads from an empty queue.
CountBacked == pc[Unit] \in {"frames", "dma"} => count <= Len(rxq)

\* While the driver is online a frame in the queue does not wait for ever: the
\* receive loop gets to it.  ksz8851.c:486 says "ACK receiver overrun status by
\* writing "1" to status": an overrun, too, must leave the other events alone.
FramesTaken ==
  (rxq # <<>> /\ server) ~> ((pc[Unit] \in {"frames", "dma"} /\ count > 0) \/ ~server)

\* "Make sure enough memory is available" (ksz8851.c:552 and :632): a raw packet
\* fits in the free transmit memory, also behind cooked ones.  The test of a
\* cooked packet (633) does not count its Ethernet header, so that one may not fit:
\* it exceeds the free memory by eleven bytes at most, and the errors of several
\* packets do not add up.
Overdraft(j) == IF j.kind = "cooked" THEN 11 ELSE 0

TxOverdraftBounded ==
  /\ txmir + 11 >= 0
  /\ \A t \in Sender : pc[t] = "dma" => Bytes(job[t]) <= txmir + Overdraft(job[t])
=============================================================================
