-------------------------- MODULE Ksz8851Nic_proofs --------------------------
(***************************************************************************)
(* Theorems about the NIC driver, for any number of senders, any queue     *)
(* length, any transmit memory and any number of sessions.                 *)
(*                                                                         *)
(* DataPortExclusive is not inductive: whether a step may touch the port   *)
(* follows from where its task is between Disable() and Enable()           *)
(* (PortInv).  NoSourceForgotten needs an account of who enables each      *)
(* masked source again (SourceInv).  It and FrameAnnounced are proved of   *)
(* every behaviour that avoids the few lines that can break them           *)
(* (LinkHandled, LinkKept, NoneLeft), and follow for the constants with    *)
(* which those lines do no harm.                                           *)
(***************************************************************************)
EXTENDS Ksz8851Nic, SequenceTheorems, FiniteSetTheorems, TLAPS

\* Where the unit process is between Disable() and Enable().
Disabled == {"link", "rx", "count", "frames", "dma", "overrun", "ackOverrun",
             "enable"}

\* Interrupts are disabled by the task that the program counters say, and the
\* data port is in transfer mode while that task transfers.
PortInv ==
  /\ intOff = Unit <=> pc[Unit] \in Disabled
  /\ \A t \in Sender : intOff = t <=> pc[t] = "dma"
  /\ \A t \in Sender : pc[t] = "dma" => job[t] \in Job
  /\ sda <=> \E t \in Task : pc[t] = "dma"

\* What the receive loop still wants to read is in the queue.
CountInv ==
  /\ pc[Unit] \in {"frames", "dma"} => count <= Len(rxq)
  /\ pc[Unit] \in {"dma", "deliver"} => count > 0
  /\ pc[Unit] = "deliver" => count - 1 <= Len(rxq)

\* The inductive invariant.
IInv == TypeOK /\ PortInv /\ CountInv

LEMMA NicFacts ==
  /\ Unit \in Task /\ Sender \subseteq Task /\ Unit \notin Sender
  /\ NoTask \notin Task
  /\ \A t \in Task : t = Unit \/ t \in Sender
  /\ RxSlots \in Nat /\ TxMemory \in Nat /\ MaxSessions \in Nat
  /\ CookedLength \subseteq Nat /\ RawLength \subseteq Nat
  BY NicAssumption DEF Task

\* Every packet takes a number of bytes.
LEMMA BytesType ==
  ASSUME NEW j \in Job
  PROVE  Bytes(j) \in Nat
<1>1. CASE j.kind = "cooked"
  <2>1. j.len \in Nat
    <3>1. j \in [kind : {"cooked"}, len : CookedLength]
      BY <1>1 DEF Job
    <3>2. j.len \in CookedLength
      BY <3>1
    <3>3. QED  BY <3>2, NicFacts
  <2> DEFINE n == Padded(j.len)
  <2>2. n \in Nat
    BY <2>1 DEF Padded
  <2> HIDE DEF n
  <2>3. WordsWritten(n) \in Nat
    BY <2>2, SMT DEF WordsWritten
  <2>4. CookedBytes(j.len) \in Nat
    <3>1. PICK w \in Nat : w = WordsWritten(n)
      BY <2>3
    <3>2. PICK f \in {0, 2} :
             f = IF (ReturnedBytes(n) + 14) % 4 # 0 THEN 2 ELSE 0
      OBVIOUS
    <3>3. CookedBytes(j.len) = 4 + 6 + 6 + 2 + 2 * w + f
      BY <3>1, <3>2 DEF CookedBytes, n
    <3>4. QED  BY <3>3
  <2>5. QED  BY <1>1, <2>4 DEF Bytes
<1>2. CASE j.kind = "raw"
  <2>1. j.len \in Nat
    <3>1. j \in [kind : {"raw"}, len : RawLength]
      BY <1>2 DEF Job
    <3>2. j.len \in RawLength
      BY <3>1
    <3>3. QED  BY <3>2, NicFacts
  <2>2. RawBytes(j.len) \in Nat
    BY <2>1, SMT DEF RawBytes
  <2>3. QED  BY <1>2, <2>2 DEF Bytes
<1>3. QED  BY <1>1, <1>2 DEF Job

\* What appending to a queue and taking its head does to length and type.
LEMMA QueueFacts ==
  ASSUME NEW S, NEW q \in Seq(S)
  PROVE  /\ Len(q) \in Nat
         /\ (q # <<>> => /\ Head(q) \in S /\ Tail(q) \in Seq(S)
                         /\ Len(Tail(q)) = Len(q) - 1 /\ Len(q) > 0)
         /\ (q = <<>> => Len(q) = 0)
         /\ \A x \in S : Append(q, x) \in Seq(S) /\ Len(Append(q, x)) = Len(q) + 1
<1>1. q # <<>> => Head(q) \in S /\ Tail(q) \in Seq(S) /\ Len(Tail(q)) = Len(q) - 1
  BY HeadTailProperties
<1>2. \A x \in S : Append(q, x) \in Seq(S) /\ Len(Append(q, x)) = Len(q) + 1
  BY AppendProperties
<1>3. QED  BY <1>1, <1>2, EmptySeq, LenProperties

LEMMA InitInv == Init => IInv
<1> SUFFICES ASSUME Init PROVE IInv
  OBVIOUS
<1>1. TypeOK
  <2>1. /\ <<>> \in Seq(FrameKind) /\ <<>> \in Seq(Nat)
        /\ Len(<<>>) = 0
    BY EmptySeq
  <2>2. pc \in [Task -> UnitLabel \cup {"idle"}] /\ pc[Unit] \in UnitLabel
    BY NicFacts DEF Init, UnitLabel
  <2>3. /\ sessions \in 0..MaxSessions /\ count \in 0..RxSlots
        /\ txmir \in Int /\ intOff \in Task \cup {NoTask}
    BY NicFacts DEF Init
  <2>4. job \in [Sender -> Job \cup {NoJob}]
    BY DEF Init
  <2>5. \A t \in Sender : pc[t] \in {"idle", "dma"}
    BY NicFacts DEF Init
  <2>6. Len(rxq) <= RxSlots
    BY NicFacts, <2>1 DEF Init
  <2>7. QED  BY <2>1, <2>2, <2>3, <2>4, <2>5, <2>6 DEF Init, TypeOK
<1>2. PortInv /\ CountInv
  BY NicFacts DEF Init, PortInv, CountInv, Disabled, Task
<1>3. QED  BY <1>1, <1>2 DEF IInv

LEMMA TypeStep ==
  ASSUME IInv, [Next]_vars
  PROVE  TypeOK'
<1> USE NicFacts DEF IInv, chip, handler
<1>1. ASSUME NEW k \in FrameKind, FrameArrives(k) PROVE TypeOK'
  <2>1. rxq' \in Seq(FrameKind) /\ Len(rxq') <= RxSlots
    <3>1. Len(rxq) \in Nat
      BY QueueFacts DEF TypeOK
    <3>2. Append(rxq, k) \in Seq(FrameKind) /\ Len(Append(rxq, k)) = Len(rxq) + 1
      BY QueueFacts DEF TypeOK
    <3>3. \/ rxq' = rxq
          \/ Len(rxq) < RxSlots /\ rxq' = Append(rxq, k)
      BY <1>1 DEF FrameArrives
    <3>4. rxq \in Seq(FrameKind) /\ Len(rxq) <= RxSlots
      BY DEF TypeOK
    <3>5. QED  BY <3>1, <3>2, <3>3, <3>4
  <2>2. isr' \subseteq AllSources
    BY <1>1 DEF FrameArrives, TypeOK, AllSources
  <2>3. QED  BY <1>1, <2>1, <2>2 DEF FrameArrives, TypeOK
<1>2. CASE FrameSent
  <2>1. Head(txq) \in Nat /\ Tail(txq) \in Seq(Nat)
    BY <1>2, QueueFacts DEF FrameSent, TypeOK
  <2>2. txmir' \in Int /\ txq' \in Seq(Nat)
    BY <1>2, <2>1 DEF FrameSent, TypeOK
  <2>3. isr' \subseteq AllSources
    BY <1>2 DEF FrameSent, TypeOK, AllSources
  <2>4. QED  BY <1>2, <2>2, <2>3 DEF FrameSent, TypeOK
<1>3. ASSUME NEW s \in Source, LinkEvent(s) PROVE TypeOK'
  BY <1>3 DEF LinkEvent, TypeOK, AllSources
<1>4. CASE Irq
  BY <1>4 DEF Irq, TypeOK
<1>5. CASE EventHandler
  BY <1>5 DEF EventHandler, TypeOK, Goto, UnitLabel
<1>6. CASE LinkStatus
  BY <1>6 DEF LinkStatus, TypeOK, Goto, UnitLabel, PhyAlias, AllSources, chip
<1>7. CASE ReceiveStatus
  BY <1>7 DEF ReceiveStatus, TypeOK, Goto, UnitLabel, handler
<1>8. CASE CountFrames
  <2>1. count' \in 0..RxSlots
    BY <1>8, QueueFacts DEF CountFrames, Frames, TypeOK
  <2>2. QED
    BY <1>8, <2>1 DEF CountFrames, RxHandled, TypeOK, Goto, UnitLabel, AllSources, chip
<1>9. CASE ReadFrame
  BY <1>9 DEF ReadFrame, TypeOK, Goto, UnitLabel, handler
<1>10. CASE Deliver
  <2>1. rxq' \in Seq(FrameKind) /\ Len(rxq') <= RxSlots
    <3>1. rxq # <<>>
      BY <1>10, QueueFacts DEF Deliver, TypeOK, CountInv
    <3>2. QED  BY <1>10, <3>1, QueueFacts DEF Deliver, TypeOK
  <2>2. QED  BY <1>10, <2>1 DEF Deliver, TypeOK, Goto, UnitLabel, handler
<1>11. CASE Delivered
  BY <1>11 DEF Delivered, TypeOK, CountInv, Goto, UnitLabel, chip
<1>12. CASE SkipFrame
  <2>1. rxq' \in Seq(FrameKind) /\ Len(rxq') <= RxSlots
    <3>1. Tail(rxq) \in Seq(FrameKind) /\ Len(Tail(rxq)) <= RxSlots
      BY <1>12, QueueFacts DEF SkipFrame, TypeOK
    <3>2. QED  BY <1>12, <3>1 DEF SkipFrame, TypeOK
  <2>2. QED  BY <1>12, <2>1 DEF SkipFrame, TypeOK
<1>13. CASE NoMoreFrames
  BY <1>13 DEF NoMoreFrames, TypeOK, Goto, UnitLabel, chip, handler
<1>14. CASE Overrun
  BY <1>14 DEF Overrun, TypeOK, Goto, UnitLabel, chip
<1>15. CASE AckOverrun
  BY <1>15 DEF AckOverrun, TypeOK, Goto, UnitLabel, AllSources
<1>16. CASE EnableHandled
  BY <1>16 DEF EnableHandled, TypeOK, Goto, UnitLabel, handler
<1>17. CASE InitNic
  <2>1. sessions' \in 0..MaxSessions
    BY <1>17 DEF InitNic, TypeOK
  <2>2. QED  BY <1>17, <2>1 DEF InitNic, TypeOK, Goto, UnitLabel
<1>18. CASE Online
  BY <1>18 DEF Online, TypeOK, Goto, UnitLabel, AllSources, handler
<1>19. CASE Offline
  BY <1>19 DEF Offline, TypeOK, handler
<1>20. ASSUME NEW t \in Sender, NEW j \in Job, SendPacket(t, j) PROVE TypeOK'
  BY <1>20 DEF SendPacket, TypeOK, Goto, UnitLabel, handler
<1>21. ASSUME NEW t \in Sender, PacketWritten(t) PROVE TypeOK'
  <2>1. Bytes(job[t]) \in Nat
    BY <1>21, BytesType DEF PacketWritten, PortInv
  <2>2. txq' \in Seq(Nat) /\ txmir' \in Int
    BY <1>21, <2>1, QueueFacts DEF PacketWritten, TypeOK
  <2>3. QED
    BY <1>21, <2>2 DEF PacketWritten, TypeOK, Goto, UnitLabel, handler
<1>22. CASE UNCHANGED vars
  BY <1>22 DEF vars, chip, handler, TypeOK
<1>23. QED
  BY <1>1, <1>2, <1>3, <1>4, <1>5, <1>6, <1>7, <1>8, <1>9, <1>10, <1>11, <1>12,
     <1>13, <1>14, <1>15, <1>16, <1>17, <1>18, <1>19, <1>20, <1>21, <1>22
     DEF Next, ChipNext, HandlerStep, UnitNext, SenderNext
-------------------------------------------------------------------------
\* Only the task that disabled interrupts moves the port in or out of transfer.
LEMMA PortStep ==
  ASSUME IInv, [Next]_vars
  PROVE  PortInv'
<1> USE NicFacts DEF IInv, PortInv, Disabled, Goto, chip, handler
<1>t. /\ pc \in [Task -> UnitLabel \cup {"idle"}]
      /\ job \in [Sender -> Job \cup {NoJob}]
      /\ intOff \in Task \cup {NoTask}
      /\ \A t \in Sender : pc[t] \in {"idle", "dma"}
  BY DEF TypeOK
<1>1. ASSUME NEW k \in FrameKind, FrameArrives(k) PROVE PortInv'
  BY <1>t, <1>1 DEF FrameArrives, Exclusive
<1>2. CASE FrameSent
  BY <1>t, <1>2 DEF FrameSent, Exclusive
<1>3. ASSUME NEW s \in Source, LinkEvent(s) PROVE PortInv'
  BY <1>t, <1>3 DEF LinkEvent, Exclusive
<1>4. CASE Irq
  BY <1>t, <1>4 DEF Irq, Exclusive
<1>5. CASE EventHandler
  BY <1>t, <1>5 DEF EventHandler, Exclusive
<1>6. CASE LinkStatus
  BY <1>t, <1>6 DEF LinkStatus, Exclusive
<1>7. CASE ReceiveStatus
  BY <1>t, <1>7 DEF ReceiveStatus, Exclusive
<1>8. CASE CountFrames
  BY <1>t, <1>8 DEF CountFrames, Exclusive
<1>9. CASE ReadFrame
  BY <1>t, <1>9 DEF ReadFrame, Exclusive
<1>10. CASE Deliver
  BY <1>t, <1>10 DEF Deliver, Exclusive
<1>11. CASE Delivered
  BY <1>t, <1>11 DEF Delivered, Exclusive
<1>12. CASE SkipFrame
  BY <1>t, <1>12 DEF SkipFrame, Exclusive
<1>13. CASE NoMoreFrames
  BY <1>t, <1>13 DEF NoMoreFrames, Exclusive
<1>14. CASE Overrun
  BY <1>t, <1>14 DEF Overrun, Exclusive
<1>15. CASE AckOverrun
  BY <1>t, <1>15 DEF AckOverrun, Exclusive
<1>16. CASE EnableHandled
  BY <1>t, <1>16 DEF EnableHandled, Exclusive
<1>17. CASE InitNic
  BY <1>t, <1>17 DEF InitNic, Exclusive
<1>18. CASE Online
  BY <1>t, <1>18 DEF Online, Exclusive
<1>19. CASE Offline
  BY <1>t, <1>19 DEF Offline, Exclusive
<1>20. ASSUME NEW t \in Sender, NEW j \in Job, SendPacket(t, j) PROVE PortInv'
  BY <1>t, <1>20 DEF SendPacket, Exclusive
<1>21. ASSUME NEW t \in Sender, PacketWritten(t) PROVE PortInv'
  BY <1>t, <1>21 DEF PacketWritten, Exclusive
<1>22. CASE UNCHANGED vars
  BY <1>t, <1>22 DEF vars, Exclusive
<1>23. QED
  BY <1>1, <1>2, <1>3, <1>4, <1>5, <1>6, <1>7, <1>8, <1>9, <1>10, <1>11, <1>12,
     <1>13, <1>14, <1>15, <1>16, <1>17, <1>18, <1>19, <1>20, <1>21, <1>22
     DEF Next, ChipNext, HandlerStep, UnitNext, SenderNext

\* Frames only join the queue behind those that were counted.
LEMMA CountStep ==
  ASSUME IInv, [Next]_vars
  PROVE  CountInv'
<1> USE NicFacts DEF IInv, CountInv, Goto, chip, handler
<1>t. /\ pc \in [Task -> UnitLabel \cup {"idle"}]
      /\ count \in Nat /\ Len(rxq) \in Nat
      /\ \A k \in FrameKind : Len(Append(rxq, k)) = Len(rxq) + 1
      /\ rxq # <<>> => Len(Tail(rxq)) = Len(rxq) - 1
  BY QueueFacts DEF TypeOK
<1>1. ASSUME NEW k \in FrameKind, FrameArrives(k) PROVE CountInv'
  BY <1>t, <1>1 DEF FrameArrives, Frames
<1>2. CASE FrameSent
  BY <1>t, <1>2 DEF FrameSent, Frames
<1>3. ASSUME NEW s \in Source, LinkEvent(s) PROVE CountInv'
  BY <1>t, <1>3 DEF LinkEvent, Frames
<1>4. CASE Irq
  BY <1>t, <1>4 DEF Irq, Frames
<1>5. CASE EventHandler
  BY <1>t, <1>5 DEF EventHandler, Frames
<1>6. CASE LinkStatus
  BY <1>t, <1>6 DEF LinkStatus, Frames
<1>7. CASE ReceiveStatus
  BY <1>t, <1>7 DEF ReceiveStatus, Frames
<1>8. CASE CountFrames
  BY <1>t, <1>8 DEF CountFrames, Frames
<1>9. CASE ReadFrame
  BY <1>t, <1>9 DEF ReadFrame, Frames
<1>10. CASE Deliver
  BY <1>t, <1>10 DEF Deliver, Frames
<1>11. CASE Delivered
  BY <1>t, <1>11 DEF Delivered, Frames
<1>12. CASE SkipFrame
  BY <1>t, <1>12 DEF SkipFrame, Frames
<1>13. CASE NoMoreFrames
  BY <1>t, <1>13 DEF NoMoreFrames, Frames
<1>14. CASE Overrun
  BY <1>t, <1>14 DEF Overrun, Frames
<1>15. CASE AckOverrun
  BY <1>t, <1>15 DEF AckOverrun, Frames
<1>16. CASE EnableHandled
  BY <1>t, <1>16 DEF EnableHandled, Frames
<1>17. CASE InitNic
  BY <1>t, <1>17 DEF InitNic, Frames
<1>18. CASE Online
  BY <1>t, <1>18 DEF Online, Frames
<1>19. CASE Offline
  BY <1>t, <1>19 DEF Offline, Frames
<1>20. ASSUME NEW t \in Sender, NEW j \in Job, SendPacket(t, j) PROVE CountInv'
  BY <1>t, <1>20 DEF SendPacket, Frames
<1>21. ASSUME NEW t \in Sender, PacketWritten(t) PROVE CountInv'
  BY <1>t, <1>21 DEF PacketWritten, Frames
<1>22. CASE UNCHANGED vars
  BY <1>t, <1>22 DEF vars, Frames
<1>23. QED
  BY <1>1, <1>2, <1>3, <1>4, <1>5, <1>6, <1>7, <1>8, <1>9, <1>10, <1>11, <1>12,
     <1>13, <1>14, <1>15, <1>16, <1>17, <1>18, <1>19, <1>20, <1>21, <1>22
     DEF Next, ChipNext, HandlerStep, UnitNext, SenderNext
-------------------------------------------------------------------------
\* The invariant is inductive.
LEMMA NextInv == IInv /\ [Next]_vars => IInv'
  BY TypeStep, PortStep, CountStep DEF IInv

LEMMA Invariant == Spec => []IInv
<1>1. Init => IInv
  BY InitInv
<1>2. IInv /\ [Next]_vars => IInv'
  BY NextInv
<1>3. QED  BY <1>1, <1>2, PTL DEF Spec

\* Every variable keeps its type, whatever the bounds.
THEOREM TypeCorrect == Spec => []TypeOK
<1>1. IInv => TypeOK
  BY DEF IInv
<1>2. QED  BY <1>1, Invariant, PTL

\* ksz8851ReceivePacket, ksz8851SendPacket, ksz8851IrqHandler: the data port and
\* the command register belong to one task at a time.
THEOREM DataPortExclusiveHolds == Spec => []DataPortExclusive
<1>1. ASSUME IInv PROVE DataPortExclusive
  <2> USE NicFacts
  <2>1. Transferring \subseteq {intOff} /\ (intOff = NoTask => Transferring = {})
    BY <1>1 DEF IInv, PortInv, Disabled, Transferring
  <2>2. sda <=> Transferring # {}
    BY <1>1 DEF IInv, PortInv, Transferring
  <2>3. Transferring = {} \/ Transferring = {intOff}
    BY <2>1
  <2>4. Cardinality(Transferring) <= 1
    <3>1. Cardinality({}) = 0 /\ Cardinality({intOff}) = 1
      BY FS_EmptySet, FS_Singleton
    <3>2. QED  BY <2>3, <3>1
  <2>5. QED  BY <2>1, <2>2, <2>4 DEF DataPortExclusive
<1>2. QED  BY <1>1, Invariant, PTL

\* ksz8851EventHandler reads RXFCTR, then that many frames: the receive loop never
\* reads from an empty queue.
THEOREM CountBackedHolds == Spec => []CountBacked
<1>1. IInv => CountBacked
  BY DEF IInv, CountInv, CountBacked
<1>2. QED  BY <1>1, Invariant, PTL

-----------------------------------------------------------------------------
(* The test of TXMIR before a packet is written                              *)

\* The free memory is a number, and only grows between the test and the transfer.
MemoryInv == txmir \in Int /\ TxOverdraftBounded

\* ksz8851SendPacket tests for every byte it writes.
LEMMA RawFits ==
  ASSUME NEW j \in Job, j.kind = "raw"
  PROVE  Bytes(j) <= Needed(j)
<1>1. j \in [kind : {"raw"}, len : RawLength]
  BY DEF Job
<1>2. j.len \in Nat
  BY <1>1, NicFacts
<1>3. RawBytes(j.len) <= j.len + 8
  BY <1>2, SMT DEF RawBytes
<1>4. QED  BY <1>3 DEF Bytes, Needed

\* ksz8851SendPacketCooked forgets the Ethernet header, which goes through the data
\* port as well, and the odd byte; its alignment test never finds anything to
\* align, because ksz8851WriteFifoWordAlign returns the same for every packet.
LEMMA CookedFits ==
  ASSUME NEW j \in Job, j.kind = "cooked"
  PROVE  Bytes(j) <= Needed(j) + 11
<1>1. j \in [kind : {"cooked"}, len : CookedLength]
  BY DEF Job
<1>. DEFINE n == Padded(j.len)
<1>2. n \in Nat
  BY <1>1, NicFacts DEF Padded
<1>3. Needed(j) = n + 8 /\ Bytes(j) = CookedBytes(j.len)
  BY DEF Needed, Bytes
<1>4. (ReturnedBytes(n) + 14) % 4 = 0
  BY SMT DEF ReturnedBytes
<1>5. CookedBytes(j.len) = 18 + 2 * WordsWritten(n)
  <2>1. CookedBytes(j.len) = 4 + 6 + 6 + 2 + 2 * WordsWritten(n) + 0
    BY <1>4 DEF CookedBytes
  <2>2. WordsWritten(n) \in Nat
    <3>. HIDE DEF n
    <3>. QED
      BY <1>2, SMT DEF WordsWritten
  <2>. QED
    BY <2>1, <2>2
<1>6. 2 * WordsWritten(n) <= n + 1 /\ WordsWritten(n) \in Nat
  <2>. HIDE DEF n
  <2>. QED
    BY <1>2, SMT DEF WordsWritten
<1>. QED
  <2>. HIDE DEF n
  <2>. QED
    BY <1>2, <1>3, <1>5, <1>6

LEMMA JobLength == ASSUME NEW j \in Job PROVE j.len \in Nat
  BY NicFacts DEF Job

\* What the test of either function asks for, and what it leaves out.
LEMMA PacketFits ==
  ASSUME NEW j \in Job
  PROVE  Bytes(j) <= Needed(j) + Overdraft(j)
<1>1. Needed(j) \in Int /\ Bytes(j) \in Nat
  BY JobLength, BytesType DEF Needed, Padded
<1>2. j.kind \in {"raw", "cooked"}
  BY DEF Job
<1>. QED
  BY <1>1, <1>2, RawFits, CookedFits DEF Overdraft

LEMMA MemoryStep ==
  ASSUME IInv, MemoryInv, [Next]_vars
  PROVE  MemoryInv'
<1> USE NicFacts DEF IInv, MemoryInv, TxOverdraftBounded, Overdraft, Goto, chip, handler
<1>t. /\ pc \in [Task -> UnitLabel \cup {"idle"}]
      /\ job \in [Sender -> Job \cup {NoJob}]
      /\ txq # <<>> => Head(txq) \in Nat
  BY QueueFacts DEF TypeOK
<1>u. \A t \in Sender : pc[t] = "dma" => Bytes(job[t]) \in Nat
  BY BytesType DEF PortInv
<1>v. \A s, t \in Sender : pc[s] = "dma" /\ pc[t] = "dma" => s = t
  BY DEF PortInv
<1>1. ASSUME NEW f \in FrameKind, FrameArrives(f) PROVE MemoryInv'
  BY <1>t, <1>u, <1>v, <1>1 DEF FrameArrives
<1>2. CASE FrameSent
  BY <1>t, <1>u, <1>v, <1>2 DEF FrameSent
<1>3. ASSUME NEW s \in Source, LinkEvent(s) PROVE MemoryInv'
  BY <1>t, <1>u, <1>v, <1>3 DEF LinkEvent
<1>4. CASE Irq
  BY <1>t, <1>u, <1>v, <1>4 DEF Irq
<1>5. CASE EventHandler
  BY <1>t, <1>u, <1>v, <1>5 DEF EventHandler
<1>6. CASE LinkStatus
  BY <1>t, <1>u, <1>v, <1>6 DEF LinkStatus
<1>7. CASE ReceiveStatus
  BY <1>t, <1>u, <1>v, <1>7 DEF ReceiveStatus
<1>8. CASE CountFrames
  BY <1>t, <1>u, <1>v, <1>8 DEF CountFrames
<1>9. CASE ReadFrame
  BY <1>t, <1>u, <1>v, <1>9 DEF ReadFrame
<1>10. CASE Deliver
  BY <1>t, <1>u, <1>v, <1>10 DEF Deliver
<1>11. CASE Delivered
  BY <1>t, <1>u, <1>v, <1>11 DEF Delivered
<1>12. CASE SkipFrame
  BY <1>t, <1>u, <1>v, <1>12 DEF SkipFrame
<1>13. CASE NoMoreFrames
  BY <1>t, <1>u, <1>v, <1>13 DEF NoMoreFrames
<1>14. CASE Overrun
  BY <1>t, <1>u, <1>v, <1>14 DEF Overrun
<1>15. CASE AckOverrun
  BY <1>t, <1>u, <1>v, <1>15 DEF AckOverrun
<1>16. CASE EnableHandled
  BY <1>t, <1>u, <1>v, <1>16 DEF EnableHandled
<1>17. CASE InitNic
  BY <1>t, <1>u, <1>v, <1>17 DEF InitNic
<1>18. CASE Online
  BY <1>t, <1>u, <1>v, <1>18 DEF Online
<1>19. CASE Offline
  BY <1>t, <1>u, <1>v, <1>19 DEF Offline
<1>20. ASSUME NEW t \in Sender, NEW j \in Job, SendPacket(t, j) PROVE MemoryInv'
  <2>1. Bytes(j) \in Nat /\ Bytes(j) <= Needed(j) + Overdraft(j) /\ Needed(j) <= txmir
    BY <1>20, BytesType, PacketFits DEF SendPacket
  <2>2. Needed(j) \in Int
    BY JobLength DEF Needed, Padded
  <2>3. Bytes(j) <= txmir + Overdraft(j)
    BY <2>1, <2>2
  <2>4. \A s \in Sender : s # t => pc[s] # "dma"
    BY <1>20 DEF SendPacket, Exclusive, PortInv, TypeOK
  <2>. QED
    BY <1>t, <1>20, <2>3, <2>4 DEF SendPacket
<1>21. ASSUME NEW t \in Sender, PacketWritten(t) PROVE MemoryInv'
  BY <1>t, <1>u, <1>v, <1>21 DEF PacketWritten
<1>22. CASE UNCHANGED vars
  BY <1>t, <1>u, <1>v, <1>22 DEF vars
<1>23. QED
  BY <1>1, <1>2, <1>3, <1>4, <1>5, <1>6, <1>7, <1>8, <1>9, <1>10, <1>11, <1>12,
     <1>13, <1>14, <1>15, <1>16, <1>17, <1>18, <1>19, <1>20, <1>21, <1>22
     DEF Next, ChipNext, HandlerStep, UnitNext, SenderNext

\* With raw and cooked packets of any length and any size of the memory: the test
\* of ksz8851SendPacket is right, that of ksz8851SendPacketCooked wrong by eleven
\* bytes at most, and the transmit memory is never overdrawn by more.
THEOREM TxOverdraftBoundedHolds == Spec => []TxOverdraftBounded
<1>1. Init => MemoryInv
  BY NicFacts DEF Init, MemoryInv, TxOverdraftBounded
<1>2. IInv /\ MemoryInv /\ [Next]_vars => MemoryInv'
  BY MemoryStep
<1>3. MemoryInv => TxOverdraftBounded
  BY DEF MemoryInv
<1>. QED
  BY <1>1, <1>2, <1>3, Invariant, PTL DEF Spec

-----------------------------------------------------------------------------
(* Every masked source has somebody who enables it again                     *)

\* Line 427 reads P1SR into the variable that holds ISR.  A link change is
\* harmless when the sources that were pending with it are still enabled, and so
\* will interrupt once more.
LinkHandled == pc[Unit] = "link" => status \cap {"RX", "RXO"} \subseteq ier

\* Line 487 writes back all of ISR.  That is harmless for a link change that came
\* while a frame was delivered, unless its source is masked by now.
LinkKept == pc[Unit] = "ackOverrun" /\ "LC" \in back => "LC" \in ier \cup mask

\* Who enables each source.
SourceInv ==
  server /\ pc[Unit] # "online" =>
    /\ \/ "LC" \in ier \/ pc[Unit] = "link"
       \/ signal /\ "LC" \in isr
       \/ "LC" \in mask /\ pc[Unit] # "wait"
    /\ pc[Unit] = "wait" => "RX" \in ier \/ (signal /\ "RX" \in isr)
    /\ pc[Unit] \in {"link", "rx"} => "RX" \in ier \/ "RX" \in status
    /\ pc[Unit] = "count" => "RX" \in status
    /\ pc[Unit] \in {"frames", "dma", "deliver"} => "RX" \in mask
    /\ pc[Unit] \in {"overrun", "ackOverrun", "enable"} => "RX" \in ier \/ "RX" \in mask
    /\ \/ "RXO" \in ier
       \/ signal /\ "RXO" \in isr
       \/ "RXO" \in status /\ pc[Unit] \notin {"wait", "enable"}
       \/ "RXO" \in mask /\ pc[Unit] = "enable"

LEMMA SourceStep ==
  ASSUME LinkHandled, LinkKept, IInv, SourceInv, [Next]_vars
  PROVE  SourceInv'
<1> USE NicFacts DEF IInv, LinkHandled, LinkKept, SourceInv, Goto, chip, handler
<1>t. /\ pc \in [Task -> UnitLabel \cup {"idle"}]
      /\ pc[Unit] \in UnitLabel
  BY DEF TypeOK
<1>1. ASSUME NEW k \in FrameKind, FrameArrives(k) PROVE SourceInv'
  BY <1>t, <1>1 DEF FrameArrives, UnitLabel, RxHandled
<1>2. CASE FrameSent
  BY <1>t, <1>2 DEF FrameSent, UnitLabel, RxHandled
<1>3. ASSUME NEW s \in Source, LinkEvent(s) PROVE SourceInv'
  BY <1>t, <1>3 DEF LinkEvent, UnitLabel, RxHandled
<1>4. CASE Irq
  <2>1. pc[Unit] \in {"wait", "deliver", "online"}
    BY <1>t, <1>4 DEF Irq, UnitLabel, PortInv, Disabled
  <2>. QED
    BY <1>4, <2>1 DEF Irq
<1>5. CASE EventHandler
  BY <1>t, <1>5 DEF EventHandler, UnitLabel, RxHandled
<1>6. CASE LinkStatus
  BY <1>t, <1>6 DEF LinkStatus, UnitLabel, RxHandled
<1>7. CASE ReceiveStatus
  BY <1>t, <1>7 DEF ReceiveStatus, UnitLabel, RxHandled
<1>8. CASE CountFrames
  BY <1>t, <1>8 DEF CountFrames, UnitLabel, RxHandled
<1>9. CASE ReadFrame
  BY <1>t, <1>9 DEF ReadFrame, UnitLabel, RxHandled
<1>10. CASE Deliver
  BY <1>t, <1>10 DEF Deliver, UnitLabel, RxHandled
<1>11. CASE Delivered
  BY <1>t, <1>11 DEF Delivered, UnitLabel, RxHandled
<1>12. CASE SkipFrame
  BY <1>t, <1>12 DEF SkipFrame, UnitLabel, RxHandled
<1>13. CASE NoMoreFrames
  BY <1>t, <1>13 DEF NoMoreFrames, UnitLabel, RxHandled
<1>14. CASE Overrun
  BY <1>t, <1>14 DEF Overrun, UnitLabel, RxHandled
<1>15. CASE AckOverrun
  BY <1>t, <1>15 DEF AckOverrun, UnitLabel, RxHandled
<1>16. CASE EnableHandled
  BY <1>t, <1>16 DEF EnableHandled, UnitLabel, RxHandled
<1>17. CASE InitNic
  BY <1>t, <1>17 DEF InitNic, UnitLabel, RxHandled
<1>18. CASE Online
  BY <1>t, <1>18 DEF Online, UnitLabel, RxHandled
<1>19. CASE Offline
  BY <1>t, <1>19 DEF Offline, UnitLabel, RxHandled
<1>20. ASSUME NEW t \in Sender, NEW j \in Job, SendPacket(t, j) PROVE SourceInv'
  BY <1>t, <1>20 DEF SendPacket, UnitLabel, RxHandled
<1>21. ASSUME NEW t \in Sender, PacketWritten(t) PROVE SourceInv'
  BY <1>t, <1>21 DEF PacketWritten, UnitLabel, RxHandled
<1>22. CASE UNCHANGED vars
  BY <1>t, <1>22 DEF vars, UnitLabel, RxHandled
<1>23. QED
  BY <1>1, <1>2, <1>3, <1>4, <1>5, <1>6, <1>7, <1>8, <1>9, <1>10, <1>11, <1>12,
     <1>13, <1>14, <1>15, <1>16, <1>17, <1>18, <1>19, <1>20, <1>21, <1>22
     DEF Next, ChipNext, HandlerStep, UnitNext, SenderNext

\* ksz8851IrqHandler masks what is pending, whatever ksz8851EventHandler does at
\* that moment, and every source is enabled again.  Only two lines can break that,
\* each by losing what was pending at the same time as a link change.
THEOREM SourcesKeptUnless ==
  Spec /\ [](LinkHandled /\ LinkKept) => []NoSourceForgotten
<1>1. Init => SourceInv
  BY NicFacts DEF Init, SourceInv
<1>2. IInv /\ LinkHandled /\ LinkKept /\ SourceInv /\ [Next]_vars => SourceInv'
  BY SourceStep
<1>3. SourceInv => NoSourceForgotten
  BY DEF SourceInv, NoSourceForgotten
<1>4. QED  BY <1>1, <1>2, <1>3, Invariant, PTL DEF Spec

\* Without link changes there is none at these lines.
NoLinkChange ==
  /\ pc[Unit] # "link" /\ "LC" \notin isr
  /\ pc[Unit] = "ackOverrun" => "LC" \notin back

LEMMA NoLinkStep ==
  ASSUME "LC" \notin Source, IInv, NoLinkChange, [Next]_vars
  PROVE  NoLinkChange'
<1>. USE NicFacts DEF IInv, TypeOK, NoLinkChange, Goto, chip, handler
<1>1. CASE ChipNext \/ Irq
  BY <1>1 DEF ChipNext, FrameArrives, FrameSent, LinkEvent, Irq
<1>2. CASE EventHandler \/ HandlerStep \/ Delivered
  BY <1>2 DEF EventHandler, HandlerStep, LinkStatus, ReceiveStatus, CountFrames,
     ReadFrame, Deliver, SkipFrame, NoMoreFrames, Overrun, AckOverrun, EnableHandled,
     Delivered
<1>3. CASE InitNic \/ Online \/ Offline \/ UNCHANGED vars
  BY <1>3 DEF InitNic, Online, Offline, vars
<1>4. ASSUME NEW t \in Sender, SenderNext(t) PROVE NoLinkChange'
  BY <1>4 DEF SenderNext, SendPacket, PacketWritten
<1>. QED
  BY <1>1, <1>2, <1>3, <1>4 DEF Next, UnitNext

\* So without link changes no source stays masked.
THEOREM NoSourceForgottenHolds ==
  ASSUME "LC" \notin Source
  PROVE  Spec => []NoSourceForgotten
<1>1. Init => NoLinkChange
  BY NicFacts DEF Init, NoLinkChange
<1>2. IInv /\ NoLinkChange /\ [Next]_vars => NoLinkChange'
  BY NoLinkStep
<1>3. NoLinkChange => LinkHandled /\ LinkKept
  BY DEF NoLinkChange, LinkHandled, LinkKept
<1>4. QED  BY <1>1, <1>2, <1>3, Invariant, SourcesKeptUnless, PTL DEF Spec

-----------------------------------------------------------------------------
(* No frame is left behind unannounced                                       *)

\* The three lines that can leave a frame behind: line 269 goes online with the
\* frames of an earlier session, line 487 acknowledges a frame that came after
\* the count, and line 704 leaves a frame in its place.
NoneLeft ==
  /\ pc[Unit] = "online" => rxq = <<>>
  /\ pc[Unit] = "ackOverrun" => "RX" \notin back
  /\ pc[Unit] = "frames" /\ count > 0 => Head(rxq) # "unmarked"

FrameInv == FrameAnnounced /\ (pc[Unit] = "online" => ~running)

LEMMA FrameStep ==
  ASSUME NoneLeft, IInv, FrameInv, [Next]_vars
  PROVE  FrameInv'
<1> USE NicFacts DEF IInv, NoneLeft, FrameInv, FrameAnnounced, InLoop, CountInv, Goto,
                     chip, handler
<1>t. /\ pc \in [Task -> UnitLabel \cup {"idle"}] /\ pc[Unit] \in UnitLabel
      /\ count \in Nat /\ Len(rxq) \in Nat
      /\ rxq = <<>> => Len(rxq) = 0
      /\ \A k \in FrameKind : Len(Append(rxq, k)) = Len(rxq) + 1
      /\ rxq # <<>> => Len(Tail(rxq)) = Len(rxq) - 1
  BY QueueFacts DEF TypeOK
<1>1. ASSUME NEW k \in FrameKind, FrameArrives(k) PROVE FrameInv'
  BY <1>t, <1>1 DEF FrameArrives, UnitLabel
<1>2. CASE FrameSent
  BY <1>t, <1>2 DEF FrameSent, UnitLabel
<1>3. ASSUME NEW s \in Source, LinkEvent(s) PROVE FrameInv'
  BY <1>t, <1>3 DEF LinkEvent, UnitLabel
<1>4. CASE Irq
  BY <1>t, <1>4 DEF Irq, UnitLabel
<1>5. CASE EventHandler
  BY <1>t, <1>5 DEF EventHandler, UnitLabel
<1>6. CASE LinkStatus
  BY <1>t, <1>6 DEF LinkStatus, UnitLabel, PhyAlias
<1>7. CASE ReceiveStatus
  BY <1>t, <1>7 DEF ReceiveStatus, UnitLabel
<1>8. CASE CountFrames
  BY <1>t, <1>8 DEF CountFrames, Frames, UnitLabel
<1>9. CASE ReadFrame
  BY <1>t, <1>9 DEF ReadFrame, UnitLabel
<1>10. CASE Deliver
  BY <1>t, <1>10 DEF Deliver, UnitLabel
<1>11. CASE Delivered
  BY <1>t, <1>11 DEF Delivered, UnitLabel
<1>12. CASE SkipFrame
  <2>1. Head(rxq) = "error" /\ rxq # <<>> /\ rxq' = Tail(rxq) /\ count' = count - 1
    BY <1>t, <1>12 DEF SkipFrame
  <2>2. pc[Unit] = "frames" /\ UNCHANGED <<pc, isr>>
    BY <1>12 DEF SkipFrame
  <2>3. Len(rxq') = Len(rxq) - 1
    BY <1>t, <2>1
  <2>. QED
    BY <1>t, <2>1, <2>2, <2>3
<1>13. CASE NoMoreFrames
  BY <1>t, <1>13 DEF NoMoreFrames, UnitLabel
<1>14. CASE Overrun
  BY <1>t, <1>14 DEF Overrun, UnitLabel
<1>15. CASE AckOverrun
  BY <1>t, <1>15 DEF AckOverrun, UnitLabel
<1>16. CASE EnableHandled
  BY <1>t, <1>16 DEF EnableHandled, UnitLabel
<1>17. CASE InitNic
  BY <1>t, <1>17 DEF InitNic, UnitLabel
<1>18. CASE Online
  BY <1>t, <1>18 DEF Online, UnitLabel
<1>19. CASE Offline
  BY <1>t, <1>19 DEF Offline, UnitLabel
<1>20. ASSUME NEW t \in Sender, NEW j \in Job, SendPacket(t, j) PROVE FrameInv'
  BY <1>t, <1>20 DEF SendPacket, UnitLabel
<1>21. ASSUME NEW t \in Sender, PacketWritten(t) PROVE FrameInv'
  BY <1>t, <1>21 DEF PacketWritten, UnitLabel
<1>22. CASE UNCHANGED vars
  BY <1>t, <1>22 DEF vars, UnitLabel
<1>23. QED
  BY <1>1, <1>2, <1>3, <1>4, <1>5, <1>6, <1>7, <1>8, <1>9, <1>10, <1>11, <1>12,
     <1>13, <1>14, <1>15, <1>16, <1>17, <1>18, <1>19, <1>20, <1>21, <1>22
     DEF Next, ChipNext, HandlerStep, UnitNext, SenderNext

\* ksz8851EventHandler acknowledges RXIS, counts, then reads: a frame that arrives
\* at any of these moments is announced by RXIS or counted.  Whatever else the
\* chip, the senders and the unit process do, a frame is left behind unannounced
\* only by the three lines.
THEOREM AnnouncedUnlessLeft == Spec /\ []NoneLeft => []FrameAnnounced
<1>1. Init => FrameInv
  BY NicFacts, EmptySeq DEF Init, FrameInv, FrameAnnounced, InLoop
<1>2. IInv /\ NoneLeft /\ FrameInv /\ [Next]_vars => FrameInv'
  BY FrameStep
<1>3. FrameInv => FrameAnnounced
  BY DEF FrameInv
<1>4. QED  BY <1>1, <1>2, <1>3, Invariant, PTL DEF Spec

\* Without overruns and in the first session the lines do no harm.
FirstSession ==
  /\ "RXO" \notin isr /\ "RXO" \notin status /\ pc[Unit] # "ackOverrun"
  /\ sessions = 0 \/ pc[Unit] = "online" => rxq = <<>> /\ ~running
  /\ pc[Unit] = "online" => sessions > 0

LEMMA FirstStep ==
  ASSUME "RXO" \notin Source, MaxSessions <= 1, IInv, FirstSession, [Next]_vars
  PROVE  FirstSession'
<1>. USE NicFacts DEF IInv, FirstSession, Goto, chip, handler
<1>t. pc \in [Task -> UnitLabel \cup {"idle"}] /\ sessions \in Nat
  BY DEF TypeOK
<1>1. CASE ChipNext \/ Irq
  BY <1>t, <1>1 DEF ChipNext, FrameArrives, FrameSent, LinkEvent, Irq
<1>2. CASE EventHandler \/ LinkStatus \/ ReceiveStatus \/ CountFrames \/ ReadFrame
  BY <1>t, <1>2 DEF EventHandler, LinkStatus, PhyAlias, ReceiveStatus, CountFrames, ReadFrame
<1>3. CASE NoMoreFrames \/ Overrun \/ AckOverrun \/ EnableHandled \/ Delivered
  BY <1>t, <1>3 DEF NoMoreFrames, Overrun, AckOverrun, EnableHandled, Delivered
<1>4. CASE Deliver \/ SkipFrame
  <2>1. rxq # <<>>
    BY <1>4, QueueFacts DEF Deliver, SkipFrame, CountInv, TypeOK
  <2>2. pc'[Unit] # "online" /\ pc'[Unit] # "ackOverrun" /\ UNCHANGED <<isr, status, sessions>>
    BY <1>t, <1>4 DEF Deliver, SkipFrame
  <2>. QED
    BY <2>1, <2>2
<1>5. CASE InitNic \/ Online \/ Offline \/ UNCHANGED vars
  BY <1>t, <1>5 DEF InitNic, Online, Offline, vars
<1>6. ASSUME NEW t \in Sender, SenderNext(t) PROVE FirstSession'
  BY <1>t, <1>6 DEF SenderNext, SendPacket, PacketWritten
<1>. QED
  BY <1>1, <1>2, <1>3, <1>4, <1>5, <1>6 DEF Next, UnitNext, HandlerStep

\* So every frame is announced, as long as no overrun is acknowledged, the chip
\* leaves no frame at the head of the queue, and this is the first session.
THEOREM FrameAnnouncedHolds ==
  ASSUME "RXO" \notin Source, "unmarked" \notin FrameKind, MaxSessions <= 1
  PROVE  Spec => []FrameAnnounced
<1>1. Init => FirstSession
  BY NicFacts, EmptySeq DEF Init, FirstSession
<1>2. IInv /\ FirstSession /\ [Next]_vars => FirstSession'
  BY FirstStep
<1>3. IInv /\ FirstSession => NoneLeft
  <2>. SUFFICES ASSUME IInv, FirstSession, pc[Unit] = "frames", count > 0
                PROVE  Head(rxq) # "unmarked"
    BY DEF FirstSession, NoneLeft
  <2>1. rxq # <<>>
    BY QueueFacts DEF IInv, CountInv, TypeOK
  <2>. QED
    BY <2>1, QueueFacts DEF IInv, TypeOK
<1>4. QED  BY <1>1, <1>2, <1>3, Invariant, AnnouncedUnlessLeft, PTL DEF Spec
=============================================================================
