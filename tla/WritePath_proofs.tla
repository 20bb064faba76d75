--------------------------- MODULE WritePath_proofs ---------------------------
(***************************************************************************)
(* The writers and the unit process together, for any openers, requests    *)
(* and addresses.  That a frame comes from one request needs the one thing *)
(* the code does not enforce: only one task at a time is between its first *)
(* byte in the static sendBuffer and the Disable() of the NIC driver.      *)
(***************************************************************************)
EXTENDS WritePath, Station_proofs

\* A request needs sendBuffer if it may be raw, or if CopyFromBufferDMA may
\* give no address for it.
NeedsBuffer(r) ==
  (\E n \in Nat : <<"raw", n>> \in Forms[r]) \/ FALSE \in DmaAnswer[Owner[r]]
OneBufferUserOnly ==
  \A r, s \in Request : NeedsBuffer(r) /\ NeedsBuffer(s) => r = s

\* One task at a time builds a packet in sendBuffer or has one there.
OneFilling ==
  \A v, w \in Opener : wpc[v] \in {"fill", "send"} /\ wpc[w] \in {"fill", "send"} => v = w

WriteTypeOK ==
  /\ at \in [Request -> {"device", "ok", "mtu", "offline", "no resources", "aborted"}]
  /\ form \in [Request -> {"cooked", "raw"} \X Nat]
  /\ frame \in [Request -> [Field -> Address \cup Request \cup {NoRequest}]]
  /\ tx \in Seq(Request)
  /\ buffer \in [Field -> Address \cup Request \cup {NoRequest}]
  /\ wpc \in [Opener -> {"idle", "test", "put", "get", "fill", "send", "send dma", "done"}]
  /\ taken \in [Opener -> Request \cup {NoRequest}]
  /\ \A w \in Opener : taken[w] = NoRequest <=> wpc[w] \in {"idle", "get"}
  /\ filled \in [Opener -> 0 .. 3]

\* A request with the device is on eu_Tx or with one task, never both or twice.
Held ==
  /\ \A w \in Opener : taken[w] # NoRequest => at[taken[w]] = "device" /\ taken[w] \notin ToSet(tx)
  /\ \A v, w \in Opener : taken[v] = taken[w] /\ taken[v] # NoRequest => v = w
  /\ \A r \in ToSet(tx) : at[r] = "device"
  /\ IsInjective(tx)

\* What is still to be sent was not sent before.
Unsent ==
  /\ \A r \in ToSet(tx) : frame[r] = NoFrame
  /\ \A w \in Opener : wpc[w] \notin {"idle", "get", "done"} => frame[taken[w]] = NoFrame

\* A task that fills sendBuffer has a request that needs it.
Routed ==
  /\ \A r \in Request : form[r] \in Forms[r]
  /\ \A w \in Opener : wpc[w] \in {"fill", "send"} => NeedsBuffer(taken[w])
  /\ \A w \in Opener : wpc[w] = "send dma" => Cooked(taken[w])
  /\ \A w \in Opener : wpc[w] # "fill" => filled[w] = 0

\* Packets are taken and sent only once the interface was configured.
Configured ==
  /\ \A w \in Opener : wpc[w] \notin {"idle", "test"} => "config" \in state
  /\ \A r \in Request : frame[r] # NoFrame => "config" \in state

WriteInv == WriteTypeOK /\ Held /\ Unsent /\ Routed /\ Configured

USE DEF netVars, fileVars, loopVars, trackVars, stationVars, requestVars, taskVars

LEMMA ElementsFacts ==
  ASSUME NEW R, NEW s \in Seq(R)
  PROVE  ToSet(s) \subseteq R
  BY DEF ToSet

\* What the steps below need of the types.
LEMMA Shape ==
  ASSUME WriteTypeOK
  PROVE  /\ tx \in Seq(Request) /\ ToSet(tx) \subseteq Request
         /\ \A w \in Opener : taken[w] \in Request \cup {NoRequest}
         /\ \A w \in Opener : taken[w] = NoRequest => wpc[w] \in {"idle", "get"}
         /\ \A w \in Opener : wpc[w] \in {"idle", "get"} => taken[w] = NoRequest
         /\ \A w \in Opener : filled[w] \in 0 .. 3
         /\ NoRequest \notin Request
  BY ElementsFacts, WriteAssumption DEF WriteTypeOK

LEMMA FieldFacts ==
  /\ Len(Fields) = 4
  /\ \A i \in 1 .. 4 : Fields[i] \in Field
  /\ \A i, j \in 1 .. 4 : Fields[i] = Fields[j] => i = j
  /\ \A f \in Field : \E i \in 1 .. 4 : f = Fields[i]
  /\ Half \subseteq Field
  BY DEF Fields, Field, Half

LEMMA NextFieldFacts ==
  ASSUME NEW i \in 0 .. 3
  PROVE  /\ i < 3 => NextField(i) = i + 1
         /\ i = 3 => NextField(i) = 0
         /\ NextField(i) \in 0 .. 3
         /\ 0 \in 0 .. 3
  BY FieldFacts DEF NextField

LEMMA WriteInitial == WriteInit /\ StationInit => WriteInv
<1>. SUFFICES ASSUME WriteInit, StationInit PROVE WriteInv
  OBVIOUS
<1>1. \A r \in Request : form[r] \in Forms[r]
  BY WriteAssumption DEF WriteInit
<1>2. form \in [Request -> {"cooked", "raw"} \X Nat]
  BY <1>1, WriteAssumption DEF WriteInit
<1>3. WriteTypeOK
  BY <1>2 DEF WriteInit, WriteTypeOK, NoFrame
<1>4. ToSet(tx) = {} /\ IsInjective(tx)
  BY DEF WriteInit, ToSet, IsInjective
<1>5. Held /\ Unsent
  BY <1>4 DEF WriteInit, Held, Unsent
<1>6. Routed /\ Configured
  BY <1>1 DEF WriteInit, Routed, Configured
<1>. QED
  BY <1>3, <1>5, <1>6 DEF WriteInv

\* DevCmdWritePacket up to the loop.
LEMMA WriteKeeps ==
  ASSUME WriteInv, StationInv, UNCHANGED stationVars, NEW w \in Opener,
         NEW r \in Request, Write(w, r)
  PROVE  WriteInv'
<1>. USE DEF WriteInv
<1>1. PICK fm \in Forms[r] : form' = [form EXCEPT ![r] = fm]
  BY DEF Write
<1>2. WriteTypeOK'
  <2>1. fm \in {"cooked", "raw"} \X Nat /\ r # NoRequest
    BY WriteAssumption
  <2>2. \A v \in Opener : taken'[v] = NoRequest <=> wpc'[v] \in {"idle", "get"}
    BY <2>1 DEF Write, WriteTypeOK
  <2>. QED
    BY <1>1, <2>1, <2>2 DEF Write, NoFrame, WriteTypeOK
<1>3. (\A v \in Opener : taken[v] # r) /\ r \notin ToSet(tx)
  BY WriteAssumption DEF Write, Held
<1>4. \A v \in Opener : v # w => taken'[v] = taken[v] /\ wpc'[v] = wpc[v] /\ filled'[v] = filled[v]
  BY DEF Write, WriteTypeOK
<1>5. taken'[w] = r /\ wpc'[w] = "test" /\ filled'[w] = filled[w] /\ wpc[w] = "idle"
  BY DEF Write, WriteTypeOK
<1>6. /\ at'[r] = "device" /\ frame'[r] = NoFrame /\ tx' = tx
      /\ \A s \in Request : s # r => at'[s] = at[s] /\ frame'[s] = frame[s] /\ form'[s] = form[s]
  BY <1>1 DEF Write, WriteTypeOK
<1>7. Held'
  BY <1>3, <1>4, <1>5, <1>6, Shape DEF Held
<1>8. Unsent'
  BY <1>3, <1>4, <1>5, <1>6, Shape DEF Unsent
<1>9. Routed'
  <2>1. \A s \in Request : form'[s] \in Forms[s]
    BY <1>1, <1>6 DEF Routed, WriteTypeOK
  <2>2. \A v \in Opener : v # w /\ wpc[v] = "send dma" => form'[taken[v]] = form[taken[v]]
    BY <1>3, <1>6, Shape
  <2>3. \A v \in Opener : wpc'[v] \in {"fill", "send"} => NeedsBuffer(taken'[v])
    BY <1>4, <1>5 DEF Routed
  <2>4. \A v \in Opener : wpc'[v] = "send dma" => form'[taken'[v]][1] = "cooked"
    <3>. SUFFICES ASSUME NEW v \in Opener, wpc'[v] = "send dma"
                  PROVE  form'[taken'[v]][1] = "cooked"
      OBVIOUS
    <3>1. v # w /\ taken'[v] = taken[v] /\ wpc[v] = "send dma"
      BY <1>4, <1>5
    <3>. QED
      BY <2>2, <3>1 DEF Routed, Cooked
  <2>5. \A v \in Opener : wpc'[v] # "fill" => filled'[v] = 0
    BY <1>4, <1>5 DEF Routed
  <2>. QED
    BY <2>1, <2>3, <2>4, <2>5 DEF Routed, Cooked, NeedsBuffer
<1>10. Configured'
  BY <1>4, <1>5, <1>6 DEF Configured
<1>. QED
  BY <1>2, <1>7, <1>8, <1>9, <1>10

\* A task gets on without touching anything but its label.
LEMMA RelabelKeeps ==
  ASSUME WriteInv, NEW w \in Opener, NEW l \in {"put", "idle"},
         UNCHANGED <<state, requestVars, tx, buffer, taken, filled>>,
         wpc' = [wpc EXCEPT ![w] = l],
         l = "put" => wpc[w] = "test" /\ "config" \in state,
         l = "idle" => wpc[w] = "get"
  PROVE  WriteInv'
<1>. USE DEF WriteInv
<1>1. /\ \A v \in Opener : v # w => wpc'[v] = wpc[v]
      /\ wpc'[w] = l
  BY DEF WriteTypeOK
<1>2. WriteTypeOK'
  <2>1. wpc' \in [Opener -> {"idle", "test", "put", "get", "fill", "send", "send dma", "done"}]
    BY DEF WriteTypeOK
  <2>2. \A v \in Opener : taken'[v] = NoRequest <=> wpc'[v] \in {"idle", "get"}
    BY <1>1 DEF WriteTypeOK
  <2>. QED
    BY <2>1, <2>2 DEF WriteTypeOK
<1>3. Held'
  BY DEF Held
<1>4. Unsent'
  BY <1>1 DEF Unsent
<1>5. Routed'
  <2>1. \A v \in Opener : wpc'[v] \in {"fill", "send", "send dma"} => wpc'[v] = wpc[v]
    BY <1>1
  <2>2. wpc'[w] # "fill" /\ wpc[w] # "fill"
    BY <1>1
  <2>3. \A v \in Opener : wpc'[v] # "fill" => filled'[v] = 0
    BY <1>1, <2>2 DEF Routed
  <2>. QED
    BY <2>1, <2>3 DEF Routed, Cooked, NeedsBuffer
<1>6. Configured'
  BY <1>1 DEF Configured
<1>. QED
  BY <1>2, <1>3, <1>4, <1>5, <1>6

LEMMA TestKeeps ==
  ASSUME WriteInv, StationInv, UNCHANGED stationVars, NEW w \in Opener,
         Accept(w) \/ Put(w) \/ TxEmpty(w)
  PROVE  WriteInv'
<1>. USE DEF WriteInv
<1>1. CASE Accept(w)
  <2>1. "config" \in state
    BY <1>1 DEF Accept, MaySend, StationInv, Configuring
  <2>2. /\ wpc[w] = "test" /\ wpc' = [wpc EXCEPT ![w] = "put"]
        /\ UNCHANGED <<state, requestVars, tx, buffer, taken, filled>>
    BY <1>1 DEF Accept
  <2>. QED
    BY <2>1, <2>2, RelabelKeeps
<1>2. CASE Put(w)
  <2>. DEFINE r == taken[w]
  <2>1. r \in Request /\ r # NoRequest
    BY <1>2, Shape DEF Put
  <2>2. r \notin ToSet(tx) /\ at[r] = "device" /\ frame[r] = NoFrame
    BY <1>2, <2>1 DEF Put, Held, Unsent
  <2>3. /\ tx' \in Seq(Request)
        /\ ToSet(tx') = ToSet(tx) \cup {r}
        /\ IsInjective(tx')
    <3>1. tx' = Append(tx, r)
      BY <1>2 DEF Put
    <3>. QED
      BY <2>1, <2>2, <3>1, Shape, AppendFacts DEF Held
  <2>4. UNCHANGED <<at, form, frame, buffer, filled>> /\ wpc[w] = "put"
    BY <1>2 DEF Put
  <2>5. /\ taken' = [taken EXCEPT ![w] = NoRequest]
        /\ wpc' = [wpc EXCEPT ![w] = "get"]
    BY <1>2 DEF Put
  <2>6. WriteTypeOK'
    BY <2>3, <2>4, <2>5 DEF WriteTypeOK
  <2>7. /\ \A v \in Opener : v # w => taken'[v] = taken[v] /\ wpc'[v] = wpc[v]
        /\ taken'[w] = NoRequest /\ wpc'[w] = "get"
    BY <2>5 DEF WriteTypeOK
  <2>8. Held' /\ Unsent'
    BY <2>1, <2>2, <2>3, <2>4, <2>7 DEF Held, Unsent
  <2>9. Routed' /\ Configured'
    BY <2>4, <2>7 DEF Routed, Configured, Cooked
  <2>. QED
    BY <2>6, <2>8, <2>9
<1>3. CASE TxEmpty(w)
  <2>1. /\ wpc[w] = "get" /\ wpc' = [wpc EXCEPT ![w] = "idle"]
        /\ UNCHANGED <<state, requestVars, tx, buffer, taken, filled>>
    BY <1>3 DEF TxEmpty
  <2>. QED
    BY <2>1, RelabelKeeps
<1>. QED
  BY <1>1, <1>2, <1>3

LEMMA GetKeeps ==
  ASSUME WriteInv, StationInv, UNCHANGED stationVars, NEW w \in Opener, GetPacket(w)
  PROVE  WriteInv'
<1>. USE DEF WriteInv
<1>. DEFINE r == Head(tx)
<1>1. /\ r \in ToSet(tx) /\ r \in Request
      /\ tx' \in Seq(Request) /\ IsInjective(tx')
      /\ ToSet(tx') = ToSet(tx) \ {r}
  <2>1. tx' = Tail(tx) /\ tx # << >>
    BY DEF GetPacket, AfterGet
  <2>. QED
    BY <2>1, Shape, TailFacts DEF Held
<1>. HIDE DEF r
<1>2. PICK dma \in DmaAnswer[Owner[r]] : wpc' = [wpc EXCEPT ![w] = Route(r, dma)]
  BY DEF GetPacket, r
<1>3. /\ taken' = [taken EXCEPT ![w] = r] /\ wpc[w] = "get"
      /\ UNCHANGED <<at, form, frame, buffer, filled>>
  BY DEF GetPacket, r
<1>4. Route(r, dma) \in {"fill", "send dma"}
  BY DEF Route
<1>5. WriteTypeOK'
  <2>1. r # NoRequest
    BY <1>1, WriteAssumption
  <2>2. \A v \in Opener : taken'[v] = NoRequest <=> wpc'[v] \in {"idle", "get"}
    BY <1>2, <1>3, <1>4, <2>1 DEF WriteTypeOK
  <2>. QED
    BY <1>1, <1>2, <1>3, <1>4, <2>2 DEF WriteTypeOK
<1>6. /\ \A v \in Opener : v # w => taken'[v] = taken[v] /\ wpc'[v] = wpc[v]
      /\ taken'[w] = r /\ wpc'[w] = Route(r, dma) /\ taken[w] = NoRequest
  BY <1>2, <1>3 DEF WriteTypeOK
<1>7. \A v \in Opener : taken[v] # r
  BY <1>1, Shape DEF Held
<1>8. Held'
  BY <1>1, <1>3, <1>6, <1>7 DEF Held
<1>9. Unsent'
  BY <1>1, <1>3, <1>6 DEF Unsent
<1>10. Route(r, dma) = "fill" => NeedsBuffer(r)
  <2>1. dma \in BOOLEAN
    BY <1>1, WriteAssumption
  <2>2. form[r] \in Forms[r] /\ form[r] \in {"cooked", "raw"} \X Nat
    BY <1>1 DEF Routed, WriteTypeOK
  <2>3. ~Cooked(r) => \E n \in Nat : form[r] = <<"raw", n>>
    BY <2>2 DEF Cooked
  <2>. QED
    BY <2>1, <2>2, <2>3 DEF Route, NeedsBuffer
<1>11. Route(r, dma) = "send dma" => Cooked(r)
  BY DEF Route
<1>12. Routed'
  <2>1. \A v \in Opener : wpc'[v] \in {"fill", "send"} => NeedsBuffer(taken'[v])
    BY <1>4, <1>6, <1>10 DEF Routed
  <2>2. \A v \in Opener : wpc'[v] = "send dma" => form[taken'[v]][1] = "cooked"
    BY <1>4, <1>6, <1>11 DEF Routed, Cooked
  <2>. QED
    BY <1>3, <1>6, <2>1, <2>2 DEF Routed, Cooked, NeedsBuffer
<1>13. Configured'
  BY <1>3, <1>6 DEF Configured
<1>. QED
  BY <1>5, <1>8, <1>9, <1>12, <1>13

LEMMA FillKeeps ==
  ASSUME WriteInv, StationInv, UNCHANGED stationVars, NEW w \in Opener, Fill(w)
  PROVE  WriteInv'
<1>. USE DEF WriteInv
<1>. DEFINE f == Fields[filled[w] + 1]
<1>1. /\ UNCHANGED <<at, form, frame, tx, taken>> /\ wpc[w] = "fill"
      /\ wpc' = [wpc EXCEPT ![w] = IF filled[w] + 1 = 4 THEN "send" ELSE "fill"]
      /\ filled' = [filled EXCEPT ![w] = NextField(filled[w])]
      /\ buffer' = [buffer EXCEPT ![f] = Content(taken[w], f)]
  BY FieldFacts DEF Fill
<1>2. filled[w] \in 0 .. 3
  BY Shape
<1>3. /\ NextField(filled[w]) \in 0 .. 3
      /\ filled[w] + 1 = 4 => NextField(filled[w]) = 0
  BY <1>2, NextFieldFacts
<1>4. taken[w] \in Request
  BY <1>1, Shape
<1>5. Content(taken[w], f) \in Address \cup Request \cup {NoRequest}
  BY <1>4 DEF Content, SourceHalf, StationInv, StationTypeOK, Half
<1>. HIDE DEF f
<1>6. WriteTypeOK'
  BY <1>1, <1>3, <1>5 DEF WriteTypeOK
<1>7. /\ \A v \in Opener : v # w => wpc'[v] = wpc[v] /\ filled'[v] = filled[v]
      /\ wpc'[w] \in {"send", "fill"}
      /\ wpc'[w] = "send" => filled'[w] = 0
  BY <1>1, <1>2, <1>3 DEF WriteTypeOK
<1>8. Held' /\ Unsent'
  BY <1>1, <1>7 DEF Held, Unsent
<1>9. Routed' /\ Configured'
  BY <1>1, <1>7 DEF Routed, Cooked, Configured
<1>. QED
  BY <1>6, <1>8, <1>9

LEMMA SendKeeps ==
  ASSUME WriteInv, StationInv, UNCHANGED stationVars, NEW w \in Opener,
         Send(w) \/ SendDma(w)
  PROVE  WriteInv'
<1>. USE DEF WriteInv
<1>1. wpc[w] \in {"send", "send dma"} /\ wpc[w] \notin {"idle", "get"}
  BY DEF Send, SendDma
<1>2. taken[w] \in Request
  BY <1>1, Shape
<1>3. \A f \in Field : Content(taken[w], f) \in Address \cup Request \cup {NoRequest}
  BY <1>2 DEF Content, SourceHalf, StationInv, StationTypeOK
<1>4. PICK c \in [Field -> Address \cup Request \cup {NoRequest}] : Sent(taken[w], c)
  <2>1. [f \in Field |-> Content(taken[w], f)] \in [Field -> Address \cup Request \cup {NoRequest}]
    BY <1>3
  <2>2. buffer \in [Field -> Address \cup Request \cup {NoRequest}]
    BY DEF WriteTypeOK
  <2>. QED
    BY <2>1, <2>2 DEF Send, SendDma
<1>5. frame' = frame \/ frame' = [frame EXCEPT ![taken[w]] = c]
  BY <1>4 DEF Sent
<1>6. /\ UNCHANGED <<at, form, tx, buffer, taken, filled>>
      /\ wpc' = [wpc EXCEPT ![w] = "done"]
  BY DEF Send, SendDma
<1>7. WriteTypeOK'
  BY <1>1, <1>2, <1>5, <1>6 DEF WriteTypeOK
<1>8. /\ \A s \in Request : s # taken[w] => frame'[s] = frame[s]
      /\ \A v \in Opener : v # w => wpc'[v] = wpc[v]
      /\ wpc'[w] = "done"
  BY <1>2, <1>5, <1>6 DEF WriteTypeOK
<1>9. Held'
  BY <1>6 DEF Held
<1>10. Unsent'
  <2>1. taken[w] \notin ToSet(tx) /\ taken[w] # NoRequest
    BY <1>2, WriteAssumption DEF Held
  <2>2. \A v \in Opener : v # w => taken[v] # taken[w]
    BY <2>1 DEF Held
  <2>3. \A s \in ToSet(tx) : frame'[s] = frame[s]
    BY <1>8, <2>1, Shape
  <2>4. \A v \in Opener : wpc'[v] \notin {"idle", "get", "done"} => frame'[taken[v]] = frame[taken[v]]
    <3>. SUFFICES ASSUME NEW v \in Opener, wpc'[v] \notin {"idle", "get", "done"}
                  PROVE  frame'[taken[v]] = frame[taken[v]]
      OBVIOUS
    <3>1. v # w /\ wpc[v] = wpc'[v]
      BY <1>8
    <3>2. taken[v] \in Request
      BY <3>1, Shape
    <3>. QED
      BY <1>8, <2>2, <3>1, <3>2
  <2>. QED
    BY <1>6, <1>8, <2>3, <2>4 DEF Unsent
<1>11. Routed' /\ Configured'
  BY <1>1, <1>2, <1>6, <1>8 DEF Routed, Configured, Cooked
<1>. QED
  BY <1>7, <1>9, <1>10, <1>11

\* TermIO of a request a task has, with or without a frame sent.
LEMMA AnswerKeeps ==
  ASSUME WriteInv, StationInv, UNCHANGED stationVars, NEW w \in Opener,
         Refuse(w) \/ RawTooShort(w) \/ CopyFails(w) \/ SendDone(w)
  PROVE  WriteInv'
<1>. USE DEF WriteInv
<1>1. PICK e \in {"ok", "mtu", "offline", "no resources", "aborted"} :
        at' = [at EXCEPT ![taken[w]] = e]
  BY DEF Refuse, RawTooShort, CopyFails, SendDone, TermIO
<1>2. PICK l \in {"idle", "get"} :
        wpc' = [wpc EXCEPT ![w] = l] /\ (l = "get" => wpc[w] \in {"fill", "done"})
  BY DEF Refuse, RawTooShort, CopyFails, SendDone
<1>3. /\ taken' = [taken EXCEPT ![w] = NoRequest] /\ wpc[w] \notin {"idle", "get"}
      /\ UNCHANGED <<form, frame, tx, buffer>>
  BY DEF Refuse, RawTooShort, CopyFails, SendDone
<1>4. taken[w] \in Request /\ taken[w] # NoRequest
  BY <1>3, Shape
<1>5. filled' = [filled EXCEPT ![w] = 0]
  <2>1. CASE CopyFails(w)
    BY <2>1 DEF CopyFails
  <2>2. CASE Refuse(w) \/ RawTooShort(w) \/ SendDone(w)
    <3>1. filled' = filled /\ filled[w] = 0
      BY <2>2 DEF Refuse, RawTooShort, SendDone, Routed
    <3>. QED
      BY <3>1 DEF WriteTypeOK
  <2>. QED
    BY <2>1, <2>2
<1>6. WriteTypeOK'
  <2>1. \A v \in Opener : taken'[v] = NoRequest <=> wpc'[v] \in {"idle", "get"}
    BY <1>2, <1>3 DEF WriteTypeOK
  <2>2. at' \in [Request -> {"device", "ok", "mtu", "offline", "no resources", "aborted"}]
    BY <1>1, <1>4 DEF WriteTypeOK
  <2>3. /\ taken' \in [Opener -> Request \cup {NoRequest}]
        /\ filled' \in [Opener -> 0 .. 3]
    <3>1. filled \in [Opener -> 0 .. 3] /\ taken \in [Opener -> Request \cup {NoRequest}]
      BY DEF WriteTypeOK
    <3>. QED
      BY <1>3, <1>5, <3>1, NextFieldFacts
  <2>4. wpc' \in [Opener -> {"idle", "test", "put", "get", "fill", "send", "send dma", "done"}]
    BY <1>2 DEF WriteTypeOK
  <2>. QED
    BY <1>3, <2>1, <2>2, <2>3, <2>4 DEF WriteTypeOK
<1>7. /\ \A v \in Opener : v # w => taken'[v] = taken[v] /\ wpc'[v] = wpc[v] /\ filled'[v] = filled[v]
      /\ taken'[w] = NoRequest /\ wpc'[w] = l /\ filled'[w] = 0
      /\ \A s \in Request : s # taken[w] => at'[s] = at[s]
  BY <1>1, <1>2, <1>3, <1>4, <1>5 DEF WriteTypeOK
<1>8. Held'
  <2>1. \A v \in Opener : v # w => taken[v] # taken[w]
    BY <1>4 DEF Held
  <2>2. taken[w] \notin ToSet(tx)
    BY <1>4 DEF Held
  <2>3. \A v \in Opener : taken'[v] # NoRequest => at'[taken'[v]] = "device" /\ taken'[v] \notin ToSet(tx)
    <3>. SUFFICES ASSUME NEW v \in Opener, taken'[v] # NoRequest
                  PROVE  at'[taken'[v]] = "device" /\ taken'[v] \notin ToSet(tx)
      OBVIOUS
    <3>1. v # w /\ taken'[v] = taken[v]
      BY <1>7
    <3>2. taken[v] \in Request /\ taken[v] # taken[w]
      BY <2>1, <3>1, Shape
    <3>3. at[taken[v]] = "device" /\ taken[v] \notin ToSet(tx)
      BY <3>1 DEF Held
    <3>4. at'[taken[v]] = at[taken[v]]
      BY <1>7, <3>2
    <3>. QED
      BY <3>1, <3>3, <3>4
  <2>4. ASSUME NEW s \in ToSet(tx)
        PROVE  at'[s] = "device"
    <3>1. s \in Request /\ s # taken[w]
      BY <2>2, Shape
    <3>2. at[s] = "device"
      BY DEF Held
    <3>3. at'[s] = at[s]
      BY <1>7, <3>1
    <3>. QED
      BY <3>2, <3>3
  <2>5. \A u, v \in Opener : taken'[u] = taken'[v] /\ taken'[u] # NoRequest => u = v
    <3>. SUFFICES ASSUME NEW u \in Opener, NEW v \in Opener,
                         taken'[u] = taken'[v], taken'[u] # NoRequest
                  PROVE  u = v
      OBVIOUS
    <3>1. u # w /\ v # w
      BY <1>7
    <3>2. taken[u] = taken[v] /\ taken[u] # NoRequest
      BY <1>7, <3>1
    <3>. QED
      BY <3>2 DEF Held
  <2>6. IsInjective(tx)
    BY DEF Held
  <2>. QED
    BY <1>3, <2>3, <2>4, <2>5, <2>6 DEF Held
<1>9. Unsent'
  <2>1. \A v \in Opener : wpc'[v] \notin {"idle", "get", "done"} => frame[taken'[v]] = NoFrame
    BY <1>7, <1>2 DEF Unsent
  <2>. QED
    BY <1>3, <2>1 DEF Unsent
<1>10. Routed'
  <2>1. wpc'[w] \in {"idle", "get"}
    BY <1>2, <1>7
  <2>2. \A v \in Opener : wpc'[v] \in {"fill", "send"} => NeedsBuffer(taken'[v])
    BY <1>7, <2>1 DEF Routed
  <2>3. ASSUME NEW v \in Opener, wpc'[v] = "send dma"
        PROVE  form[taken'[v]][1] = "cooked"
    <3>1. taken'[v] = taken[v] /\ wpc[v] = "send dma"
      BY <1>7, <2>1, <2>3
    <3>. QED
      BY <3>1 DEF Routed, Cooked
  <2>4. \A v \in Opener : wpc'[v] # "fill" => filled'[v] = 0
    BY <1>7 DEF Routed
  <2>. QED
    BY <1>3, <2>2, <2>3, <2>4 DEF Routed, Cooked, NeedsBuffer
<1>11. Configured'
  BY <1>2, <1>3, <1>7 DEF Configured
<1>. QED
  BY <1>6, <1>8, <1>9, <1>10, <1>11

\* The unit process: it changes no packet, except that it aborts those on eu_Tx.
LEMMA UnitKeeps ==
  ASSUME WriteInv, StationInv, UnitStep \/ OutsideStep
  PROVE  WriteInv'
<1>. USE DEF WriteInv
<1>1. StationNext
  BY DEF UnitStep, OutsideStep, StationNext
<1>2. Configured'
  <2>1. "config" \in state => "config" \in state'
    BY <1>1, AddressKept
  <2>2. UNCHANGED <<wpc, frame>>
    BY DEF UnitStep, OutsideStep, FlushTx, writeVars
  <2>. QED
    BY <2>1, <2>2 DEF Configured
<1>3. CASE UNCHANGED writeVars
  BY <1>2, <1>3 DEF writeVars, WriteTypeOK, Held, Unsent, Routed, Cooked
<1>4. CASE FlushTx
  <2>1. /\ UNCHANGED <<form, frame, buffer, taskVars>>
        /\ tx' = << >> /\ tx' \in Seq(Request) /\ ToSet(tx') = {} /\ IsInjective(tx')
        /\ \A r \in Request : at'[r] = IF r \in ToSet(tx) THEN "aborted" ELSE at[r]
    BY <1>4 DEF FlushTx, ToSet, IsInjective
  <2>2. at' \in [Request -> {"device", "ok", "mtu", "offline", "no resources", "aborted"}]
    BY <1>4 DEF FlushTx, WriteTypeOK
  <2>3. WriteTypeOK'
    BY <2>1, <2>2 DEF WriteTypeOK
  <2>4. \A w \in Opener : taken[w] # NoRequest => at'[taken[w]] = "device"
    BY <2>1, Shape DEF Held
  <2>5. Held'
    BY <2>1, <2>4 DEF Held
  <2>6. Unsent' /\ Routed'
    BY <2>1 DEF Unsent, Routed, Cooked
  <2>. QED
    BY <1>2, <2>3, <2>5, <2>6
<1>. QED
  BY <1>3, <1>4 DEF UnitStep, OutsideStep

LEMMA WriterKeeps ==
  ASSUME WriteInv, StationInv, WriterNext
  PROVE  WriteInv'
<1>1. PICK w \in Opener : WriterStep(w)
  BY DEF WriterNext
<1>2. UNCHANGED stationVars
  BY DEF WriterNext
<1>3. CASE \E r \in Request : Write(w, r)
  BY <1>2, <1>3, WriteKeeps
<1>4. CASE Accept(w) \/ Put(w) \/ TxEmpty(w)
  BY <1>2, <1>4, TestKeeps
<1>5. CASE GetPacket(w)
  BY <1>2, <1>5, GetKeeps
<1>6. CASE Fill(w)
  BY <1>2, <1>6, FillKeeps
<1>7. CASE Send(w) \/ SendDma(w)
  BY <1>2, <1>7, SendKeeps
<1>8. CASE Refuse(w) \/ RawTooShort(w) \/ CopyFails(w) \/ SendDone(w)
  BY <1>2, <1>8, AnswerKeeps
<1>. QED
  BY <1>1, <1>3, <1>4, <1>5, <1>6, <1>7, <1>8 DEF WriterStep

\* To the unit process, the writers are not there.
LEMMA StationSteps == [Next]_vars => [StationNext]_stationVars
  BY DEF Next, vars, UnitStep, OutsideStep, WriterNext, StationNext

LEMMA WriteInvariant == Spec => [](StationInv /\ WriteInv)
<1>1. StationInit /\ WriteInit => StationInv /\ WriteInv
  BY StationInitial, WriteInitial
<1>2. ASSUME StationInv, WriteInv, [Next]_vars
      PROVE  StationInv' /\ WriteInv'
  <2>1. StationInv'
    BY <1>2, StationSteps, StationKeeps
  <2>2. CASE UnitStep \/ OutsideStep
    BY <1>2, <2>1, <2>2, UnitKeeps
  <2>3. CASE WriterNext
    BY <1>2, <2>1, <2>3, WriterKeeps
  <2>4. CASE UNCHANGED vars
    <3>1. UNCHANGED <<at, form, frame, tx, buffer, wpc, taken, filled, state>>
      BY <2>4 DEF vars, writeVars
    <3>2. WriteTypeOK' /\ Held' /\ Unsent'
      BY <1>2, <3>1 DEF WriteInv, WriteTypeOK, Held, Unsent
    <3>3. Routed' /\ Configured'
      BY <1>2, <3>1 DEF WriteInv, Routed, Configured, Cooked
    <3>. QED
      BY <2>1, <3>2, <3>3 DEF WriteInv
  <2>. QED
    BY <1>2, <2>1, <2>2, <2>3, <2>4 DEF Next
<1>. QED
  BY <1>1, <1>2, PTL DEF Spec

\* Every variable keeps its type, and a task has a request where it uses one.
THEOREM WriteTypeCorrect == Spec => []TypeOK
<1>1. StationInv /\ WriteInv => TypeOK
  <2>1. Len(Fields) - 1 = 3
    BY FieldFacts
  <2>. QED
    BY <2>1 DEF StationInv, WriteInv, WriteTypeOK, TypeOK
<1>. QED
  BY <1>1, WriteInvariant, PTL

\* A request is sent at most once, and only while the device has it, whatever
\* the openers and the unit process do.
THEOREM SentOnceHolds == Spec => SentOnce
<1>1. ASSUME StationInv, WriteInv, [Next]_vars
      PROVE  [SendsOwned]_vars
  <2>. SUFFICES ASSUME NEW r \in Request, frame'[r] # frame[r], frame'[r] # NoFrame
                PROVE  at[r] = "device" /\ frame[r] = NoFrame
    BY DEF SendsOwned
  <2>1. PICK w \in Opener : WriterStep(w)
    BY <1>1 DEF Next, vars, UnitStep, OutsideStep, WriterNext, FlushTx, writeVars
  <2>2. Send(w) \/ SendDma(w) \/ \E q \in Request : Write(w, q)
    BY <2>1 DEF WriterStep, Refuse, Accept, Put, TxEmpty, GetPacket, RawTooShort, Fill,
                CopyFails, SendDone
  <2>3. Send(w) \/ SendDma(w)
    <3>. SUFFICES ASSUME NEW q \in Request, Write(w, q) PROVE FALSE
      BY <2>2
    <3>1. frame' = [frame EXCEPT ![q] = NoFrame]
      BY DEF Write
    <3>. QED
      BY <1>1, <3>1 DEF WriteInv, WriteTypeOK
  <2>4. wpc[w] \in {"send", "send dma"} /\ wpc[w] \notin {"idle", "get", "done"}
    BY <2>3 DEF Send, SendDma
  <2>5. r = taken[w]
    <3>1. PICK c : Sent(taken[w], c)
      BY <2>3 DEF Send, SendDma
    <3>2. frame' = [frame EXCEPT ![taken[w]] = c]
      BY <3>1 DEF Sent
    <3>. QED
      BY <1>1, <3>2 DEF WriteInv, WriteTypeOK
  <2>6. taken[w] # NoRequest
    BY <1>1, <2>4, Shape DEF WriteInv
  <2>. QED
    BY <1>1, <2>4, <2>5, <2>6 DEF WriteInv, Held, Unsent
<1>. QED
  BY <1>1, WriteInvariant, PTL DEF Spec, SentOnce

\* What a field holds is what it was filled from: the address of the chip in the
\* source of a cooked packet, as long as the file is not read again, and the
\* request everywhere else.
Good(r, f, v) ==
  IF Cooked(r) /\ f \in Half THEN ~reread => v = chip[f] ELSE v = r

Intact ==
  /\ \A w \in Opener : wpc[w] = "fill" =>
       \A i \in 1 .. filled[w] : Good(taken[w], Fields[i], buffer[Fields[i]])
  /\ \A w \in Opener : wpc[w] = "send" =>
       \A f \in Field : Good(taken[w], f, buffer[f])
  /\ \A r \in Request : frame[r] # NoFrame =>
       \A f \in Field : Good(r, f, frame[r][f])

\* The unit process may rewrite eu_StAddr, but the frames stay good.
LEMMA UnitKeepsIntact ==
  ASSUME Intact, WriteInv, StationInv, UnitStep \/ OutsideStep
  PROVE  Intact'
<1>1. UNCHANGED <<form, frame, buffer, wpc, taken, filled>>
  BY DEF UnitStep, OutsideStep, FlushTx, writeVars
<1>2. StationNext
  BY DEF UnitStep, OutsideStep, StationNext
<1>3. ASSUME "config" \in state, NEW r, NEW f, NEW v, Good(r, f, v)
      PROVE  Good(r, f, v)'
  <2>1. chip' = chip /\ (~reread' => ~reread)
    BY <1>2, <1>3, AddressKept
  <2>. QED
    BY <1>1, <1>3, <2>1 DEF Good, Cooked
<1>4. ASSUME NEW w \in Opener, wpc[w] = "fill", NEW i \in 1 .. filled[w]
      PROVE  Good(taken[w], Fields[i], buffer[Fields[i]])'
  <2>1. "config" \in state /\ Good(taken[w], Fields[i], buffer[Fields[i]])
    BY <1>4 DEF Intact, WriteInv, Configured
  <2>. QED
    BY <1>1, <1>3, <2>1 DEF Good, Cooked
<1>5. ASSUME NEW w \in Opener, wpc[w] = "send", NEW f \in Field
      PROVE  Good(taken[w], f, buffer[f])'
  <2>1. "config" \in state /\ Good(taken[w], f, buffer[f])
    BY <1>5 DEF Intact, WriteInv, Configured
  <2>. QED
    BY <1>1, <1>3, <2>1 DEF Good, Cooked
<1>6. ASSUME NEW r \in Request, frame[r] # NoFrame, NEW f \in Field
      PROVE  Good(r, f, frame[r][f])'
  <2>1. "config" \in state /\ Good(r, f, frame[r][f])
    BY <1>6 DEF Intact, WriteInv, Configured
  <2>. QED
    BY <1>1, <1>3, <2>1 DEF Good, Cooked
<1>. QED
  BY <1>1, <1>4, <1>5, <1>6 DEF Intact

\* A field is filled as it should be.
LEMMA ContentGood ==
  ASSUME WriteInv, StationInv, NEW w \in Opener, wpc[w] \in {"fill", "send dma"}, NEW f
  PROVE  Good(taken[w], f, Content(taken[w], f))
<1>1. "config" \in state
  BY DEF WriteInv, Configured
<1>2. ~reread => stAddr = chip
  BY <1>1 DEF StationInv, UsedAddress
<1>. QED
  BY <1>2 DEF Good, Content, SourceHalf

\* With one request that needs sendBuffer, its task has it alone.
LEMMA BufferOwner ==
  ASSUME OneBufferUserOnly, WriteInv
  PROVE  OneFilling
<1>. SUFFICES ASSUME NEW v \in Opener, NEW w \in Opener,
                     wpc[v] \in {"fill", "send"}, wpc[w] \in {"fill", "send"}
              PROVE  v = w
  BY DEF OneFilling
<1>1. NeedsBuffer(taken[v]) /\ NeedsBuffer(taken[w])
  BY DEF WriteInv, Routed
<1>2. taken[v] \in Request /\ taken[w] \in Request /\ taken[v] # NoRequest
  BY Shape DEF WriteInv
<1>3. taken[v] = taken[w]
  BY <1>1, <1>2 DEF OneBufferUserOnly
<1>. QED
  BY <1>2, <1>3 DEF WriteInv, Held

LEMMA FillIntact ==
  ASSUME OneFilling, Intact, WriteInv, StationInv, UNCHANGED stationVars,
         NEW w \in Opener, Fill(w)
  PROVE  Intact'
<1>. DEFINE k == filled[w] + 1
            g == Fields[k]
<1>1. /\ UNCHANGED <<at, form, frame, tx, taken>> /\ wpc[w] = "fill"
      /\ wpc' = [wpc EXCEPT ![w] = IF k = 4 THEN "send" ELSE "fill"]
      /\ filled' = [filled EXCEPT ![w] = NextField(filled[w])]
      /\ buffer' = [buffer EXCEPT ![g] = Content(taken[w], g)]
  BY FieldFacts DEF Fill
<1>2. filled[w] \in 0 .. 3
  BY Shape DEF WriteInv
<1>3. k \in 1 .. 4 /\ g \in Field
  BY <1>2, FieldFacts
<1>4. UNCHANGED <<chip, reread>>
  OBVIOUS
<1>5. Good(taken[w], g, Content(taken[w], g))
  BY <1>1, ContentGood
<1>6. \A i \in 1 .. k : Good(taken[w], Fields[i], buffer'[Fields[i]])
  <2>. SUFFICES ASSUME NEW i \in 1 .. k
                PROVE  Good(taken[w], Fields[i], buffer'[Fields[i]])
    OBVIOUS
  <2>0. buffer \in [Field -> Address \cup Request \cup {NoRequest}]
    BY DEF WriteInv, WriteTypeOK
  <2>1. CASE i = k
    <3>1. buffer'[g] = Content(taken[w], g)
      BY <1>1, <1>3, <2>0
    <3>. QED
      BY <1>5, <2>1, <3>1
  <2>2. CASE i # k
    <3>1. i \in 1 .. filled[w] /\ i \in 1 .. 4
      BY <1>2, <2>2
    <3>2. Fields[i] # g /\ Fields[i] \in Field
      BY <1>3, <2>2, <3>1, FieldFacts
    <3>3. buffer'[Fields[i]] = buffer[Fields[i]]
      BY <1>1, <2>0, <3>2
    <3>. QED
      BY <1>1, <3>1, <3>3 DEF Intact
  <2>. QED
    BY <2>1, <2>2
<1>7. \A v \in Opener : v # w => wpc'[v] = wpc[v] /\ wpc[v] \notin {"fill", "send"}
  BY <1>1 DEF OneFilling, WriteInv, WriteTypeOK
<1>8. wpc'[w] = (IF k = 4 THEN "send" ELSE "fill") /\ filled'[w] = NextField(filled[w])
  BY <1>1 DEF WriteInv, WriteTypeOK
<1>9. \A r, f, v : Good(r, f, v)' <=> Good(r, f, v)
  BY <1>1, <1>4 DEF Good, Cooked
<1>10. CASE k = 4
  <2>1. wpc'[w] = "send"
    BY <1>8, <1>10
  <2>2. \A f \in Field : Good(taken[w], f, buffer'[f])
    BY <1>6, <1>10, FieldFacts
  <2>. QED
    BY <1>1, <1>7, <1>9, <2>1, <2>2 DEF Intact
<1>11. CASE k # 4
  <2>1. wpc'[w] = "fill" /\ filled'[w] = k
    BY <1>2, <1>8, <1>11, NextFieldFacts
  <2>. QED
    BY <1>1, <1>6, <1>7, <1>9, <2>1 DEF Intact
<1>. QED
  BY <1>10, <1>11

LEMMA SendIntact ==
  ASSUME Intact, WriteInv, StationInv, UNCHANGED stationVars,
         NEW w \in Opener, Send(w) \/ SendDma(w)
  PROVE  Intact'
<1>1. taken[w] \in Request
  BY Shape DEF Send, SendDma, WriteInv
<1>2. PICK c : /\ Sent(taken[w], c)
               /\ \A f \in Field : Good(taken[w], f, c[f])
  <2>1. CASE Send(w)
    BY <2>1 DEF Send, Intact
  <2>2. CASE SendDma(w)
    <3>1. \A f \in Field : Good(taken[w], f, Content(taken[w], f))
      BY <2>2, ContentGood DEF SendDma
    <3>2. \A f \in Field : [g \in Field |-> Content(taken[w], g)][f] = Content(taken[w], f)
      OBVIOUS
    <3>3. Sent(taken[w], [g \in Field |-> Content(taken[w], g)])
      BY <2>2 DEF SendDma
    <3>. QED
      BY <3>1, <3>2, <3>3
  <2>. QED
    BY <2>1, <2>2
<1>3. UNCHANGED <<form, buffer, taken, filled, chip, reread>>
  BY DEF Send, SendDma
<1>4. \A v \in Opener : wpc'[v] \in {"fill", "send"} => wpc[v] = wpc'[v]
  BY DEF Send, SendDma, WriteInv, WriteTypeOK
<1>5. \A r \in Request : frame'[r] # frame[r] => r = taken[w] /\ frame'[r] = c
  BY <1>1, <1>2 DEF Sent, WriteInv, WriteTypeOK
<1>6. \A r, f, v : Good(r, f, v)' <=> Good(r, f, v)
  BY <1>3 DEF Good, Cooked
<1>7. \A r \in Request : frame'[r] # NoFrame => \A f \in Field : Good(r, f, frame'[r][f])
  BY <1>2, <1>5 DEF Intact
<1>. QED
  BY <1>3, <1>4, <1>6, <1>7 DEF Intact

\* The other steps of a writer touch neither sendBuffer nor a frame.
LEMMA OtherIntact ==
  ASSUME Intact, WriteInv, StationInv, UNCHANGED stationVars, NEW w \in Opener,
         \/ \E r \in Request : Write(w, r)
         \/ Refuse(w) \/ Accept(w) \/ Put(w) \/ TxEmpty(w) \/ GetPacket(w)
         \/ RawTooShort(w) \/ CopyFails(w) \/ SendDone(w)
  PROVE  Intact'
<1>1. UNCHANGED <<buffer, chip, reread>>
  BY DEF Write, Refuse, Accept, Put, TxEmpty, GetPacket, RawTooShort, CopyFails, SendDone
<1>2. \A v \in Opener : v # w => UNCHANGED <<wpc[v], taken[v], filled[v]>>
  <2>1. \E x : wpc' = [wpc EXCEPT ![w] = x]
    BY DEF Write, Refuse, Accept, Put, TxEmpty, GetPacket, RawTooShort, CopyFails, SendDone
  <2>2. taken' = taken \/ \E x : taken' = [taken EXCEPT ![w] = x]
    BY DEF Write, Refuse, Accept, Put, TxEmpty, GetPacket, RawTooShort, CopyFails, SendDone
  <2>3. filled' = filled \/ \E x : filled' = [filled EXCEPT ![w] = x]
    BY DEF Write, Refuse, Accept, Put, TxEmpty, GetPacket, RawTooShort, CopyFails, SendDone
  <2>. QED
    BY <2>1, <2>2, <2>3 DEF WriteInv, WriteTypeOK
<1>3. wpc'[w] # "send" /\ (wpc'[w] = "fill" => filled'[w] = 0)
  <2>1. CASE GetPacket(w)
    <3>1. filled[w] = 0 /\ filled' = filled
      BY <2>1 DEF GetPacket, WriteInv, Routed
    <3>2. wpc'[w] \in {"fill", "send dma"}
      BY <2>1 DEF GetPacket, Route, WriteInv, WriteTypeOK
    <3>. QED
      BY <3>1, <3>2
  <2>2. CASE ~GetPacket(w)
    <3>1. PICK l \in {"idle", "test", "put", "get"} : wpc' = [wpc EXCEPT ![w] = l]
      BY <2>2 DEF Write, Refuse, Accept, Put, TxEmpty, RawTooShort, CopyFails, SendDone
    <3>. QED
      BY <3>1 DEF WriteInv, WriteTypeOK
  <2>. QED
    BY <2>1, <2>2
<1>4. CASE \E r \in Request : Write(w, r)
  <2>1. PICK r \in Request : Write(w, r)
    BY <1>4
  <2>2. frame'[r] = NoFrame
    BY <2>1 DEF Write, WriteInv, WriteTypeOK
  <2>3. \A s \in Request : s # r => frame'[s] = frame[s] /\ form'[s] = form[s]
    BY <2>1 DEF Write, WriteInv, WriteTypeOK
  <2>4. \A s \in Request : \A f, v : s # r => (Good(s, f, v)' <=> Good(s, f, v))
    BY <1>1, <2>3 DEF Good, Cooked
  <2>5. \A s \in Request : frame'[s] # NoFrame => \A f \in Field : Good(s, f, frame[s][f])'
    BY <2>2, <2>3, <2>4 DEF Intact
  <2>6. \A v \in Opener : v # w /\ wpc[v] \in {"fill", "send"} => taken[v] \in Request /\ taken[v] # r
    <3>. SUFFICES ASSUME NEW v \in Opener, wpc[v] \in {"fill", "send"}
                  PROVE  taken[v] \in Request /\ taken[v] # r
      OBVIOUS
    <3>1. taken[v] \in Request /\ taken[v] # NoRequest
      BY Shape DEF WriteInv
    <3>2. at[taken[v]] = "device" /\ at[r] # "device"
      BY <2>1, <3>1 DEF Write, WriteInv, Held
    <3>. QED
      BY <3>1, <3>2
  <2>7. \A v \in Opener : wpc'[v] = "send" =>
          v # w /\ wpc[v] = "send" /\ \A f, b : Good(taken[v], f, b)' <=> Good(taken[v], f, b)
    BY <1>2, <1>3, <2>4, <2>6
  <2>8. \A v \in Opener : wpc'[v] = "fill" /\ v # w =>
          wpc[v] = "fill" /\ \A f, b : Good(taken[v], f, b)' <=> Good(taken[v], f, b)
    BY <1>2, <2>4, <2>6
  <2>9. ASSUME NEW v \in Opener, wpc'[v] = "fill", NEW i \in 1 .. filled'[v]
        PROVE  Good(taken[v], Fields[i], buffer[Fields[i]])'
    <3>1. v # w
      BY <1>3, <2>9
    <3>2. wpc[v] = "fill" /\ taken'[v] = taken[v] /\ i \in 1 .. filled[v]
      BY <1>2, <2>8, <2>9, <3>1
    <3>3. Good(taken[v], Fields[i], buffer[Fields[i]])
      BY <3>2 DEF Intact
    <3>. QED
      BY <1>1, <2>8, <2>9, <3>1, <3>2, <3>3
  <2>10. ASSUME NEW v \in Opener, wpc'[v] = "send", NEW f \in Field
         PROVE  Good(taken[v], f, buffer[f])'
    <3>1. v # w /\ wpc[v] = "send"
      BY <2>7, <2>10
    <3>2. taken'[v] = taken[v]
      BY <1>2, <3>1
    <3>3. Good(taken[v], f, buffer[f])
      BY <3>1 DEF Intact
    <3>. QED
      BY <1>1, <2>7, <2>10, <3>2, <3>3
  <2>. QED
    BY <2>5, <2>9, <2>10 DEF Intact
<1>5. CASE ~ \E r \in Request : Write(w, r)
  <2>1. UNCHANGED <<form, frame>>
    BY <1>5 DEF Refuse, Accept, Put, TxEmpty, GetPacket, RawTooShort, CopyFails, SendDone
  <2>2. \A r, f, v : Good(r, f, v)' <=> Good(r, f, v)
    BY <1>1, <2>1 DEF Good, Cooked
  <2>. QED
    BY <1>1, <1>2, <1>3, <2>1, <2>2 DEF Intact
<1>. QED
  BY <1>4, <1>5

LEMMA IntactInvariant == Spec /\ []OneFilling => []Intact
<1>1. StationInit /\ WriteInit => Intact
  BY DEF WriteInit, Intact
<1>2. ASSUME Intact, OneFilling, StationInv, WriteInv, [Next]_vars
      PROVE  Intact'
  <2>1. CASE UnitStep \/ OutsideStep
    BY <1>2, <2>1, UnitKeepsIntact
  <2>2. CASE WriterNext
    <3>1. PICK w \in Opener : WriterStep(w)
      BY <2>2 DEF WriterNext
    <3>2. UNCHANGED stationVars
      BY <2>2 DEF WriterNext
    <3>. QED
      BY <1>2, <3>1, <3>2, FillIntact, SendIntact, OtherIntact DEF WriterStep
  <2>3. CASE UNCHANGED vars
    BY <1>2, <2>3 DEF vars, writeVars, Intact, Good, Cooked
  <2>. QED
    BY <1>2, <2>1, <2>2, <2>3 DEF Next
<1>. QED
  BY <1>1, <1>2, WriteInvariant, PTL DEF Spec

\* Destination, type and payload of a frame come from one request, as long as no
\* two tasks are in the part of sendAllPackets that uses sendBuffer at once:
\* whatever else the openers do, this is the only thing a lock would have to
\* prevent.
THEOREM IntactUnlessShared == Spec /\ []OneFilling => []FrameIntact
<1>1. Intact => FrameIntact
  BY DEF Intact, FrameIntact, Good
<1>. QED
  BY <1>1, IntactInvariant, PTL

\* The same for the source address: no lock is needed around eu_StAddr, although
\* the unit process writes it and the tasks read it in two moves.
THEOREM OursUnlessShared == Spec /\ []OneFilling => []SourceIsOurs
<1>1. Intact => SourceIsOurs
  BY FieldFacts DEF Intact, SourceIsOurs, Good
<1>. QED
  BY <1>1, IntactInvariant, PTL

\* That is so if at most one request needs the static sendBuffer, because the
\* others are sent with CopyFromBufferDMA.
THEOREM FrameIntactHolds == ASSUME OneBufferUserOnly PROVE Spec => []FrameIntact
<1>1. StationInv /\ WriteInv => OneFilling
  BY BufferOwner
<1>. QED
  BY <1>1, WriteInvariant, IntactUnlessShared, PTL

\* And a cooked frame then carries the address the chip was told to listen to,
\* whole.
THEOREM SourceIsOursHolds == ASSUME OneBufferUserOnly PROVE Spec => []SourceIsOurs
<1>1. StationInv /\ WriteInv => OneFilling
  BY BufferOwner
<1>. QED
  BY <1>1, WriteInvariant, OursUnlessShared, PTL

-----------------------------------------------------------------------------
(* What the module implements                                                *)

\* The composition keeps whatever the unit process does by itself: to Station,
\* a step of a writer is a step in which nothing happens, and the flush of
\* S2_OFFLINE is the one it allows for.
THEOREM ImplementsStation == Spec => StationSpec
<1>1. StationInit /\ WriteInit => StationInit
  OBVIOUS
<1>2. [Next]_vars => [StationNext]_stationVars
  BY StationSteps
<1>. QED
  BY <1>1, <1>2, PTL DEF Spec, StationSpec

OwnerOf == [r \in Request |-> IF at[r] = "device" THEN "device" ELSE "opener"]
ContentOf == [r \in Request |-> <<at[r], form[r], frame[r]>>]

\* A step in which nobody touches a request that its opener has is one in which
\* the device works.
LEMMA LeftAloneIsServe ==
  ASSUME \A r \in Request : at[r] # "device" =>
           at'[r] = at[r] /\ form'[r] = form[r] /\ frame'[r] = frame[r]
  PROVE  Contract!Serve
<1>1. OwnerOf' \in [Request -> {"opener", "device"}]
  BY DEF OwnerOf
<1>2. ASSUME NEW r \in Request, OwnerOf[r] = "opener"
      PROVE  OwnerOf'[r] = "opener" /\ ContentOf'[r] = ContentOf[r]
  BY <1>2 DEF OwnerOf, ContentOf
<1>. QED
  BY <1>1, <1>2 DEF Contract!Serve, Contract!Party, OwnerOf, ContentOf

LEMMA WriteIsSend ==
  ASSUME WriteInv, NEW w \in Opener, NEW r \in Request, Write(w, r)
  PROVE  Contract!Send(r)
<1>1. OwnerOf' \in [Request -> {"opener", "device"}] /\ OwnerOf[r] = "opener"
  BY DEF OwnerOf, Write
<1>2. \A s \in Request \ {r} : at'[s] = at[s] /\ form'[s] = form[s] /\ frame'[s] = frame[s]
  BY DEF Write, WriteInv, WriteTypeOK
<1>3. \A s \in Request \ {r} : OwnerOf'[s] = OwnerOf[s] /\ ContentOf'[s] = ContentOf[s]
  BY <1>2 DEF OwnerOf, ContentOf
<1>. QED
  BY <1>1, <1>3 DEF Contract!Send, Contract!Party, OwnerOf, ContentOf

\* The other steps of a task concern the request it has taken, if any.
LEMMA OnlyTheTaken ==
  ASSUME WriteInv, NEW w \in Opener, WriterStep(w),
         ~ \E r \in Request : Write(w, r)
  PROVE  \A r \in Request : at[r] # "device" =>
           at'[r] = at[r] /\ form'[r] = form[r] /\ frame'[r] = frame[r]
<1>1. form' = form
  BY DEF WriterStep, Refuse, Accept, Put, TxEmpty, GetPacket, RawTooShort, Fill, CopyFails,
         Send, SendDma, SendDone
<1>2. UNCHANGED <<at, frame>> \/ wpc[w] \notin {"idle", "get"}
  BY DEF WriterStep, Accept, Put, TxEmpty, GetPacket, Fill, Refuse, RawTooShort, CopyFails,
         Send, SendDma, SendDone
<1>3. at' = at \/ \E e : at' = [at EXCEPT ![taken[w]] = e]
  BY DEF WriterStep, Refuse, Accept, Put, TxEmpty, GetPacket, RawTooShort, Fill, CopyFails,
         Send, SendDma, SendDone, TermIO
<1>4. frame' = frame \/ \E c : frame' = [frame EXCEPT ![taken[w]] = c]
  BY DEF WriterStep, Refuse, Accept, Put, TxEmpty, GetPacket, RawTooShort, Fill, CopyFails,
         Send, SendDma, SendDone, Sent
<1>5. CASE wpc[w] \notin {"idle", "get"}
  <2>1. at[taken[w]] = "device"
    BY <1>5, Shape DEF WriteInv, Held
  <2>2. \A r \in Request : r # taken[w] => at'[r] = at[r] /\ frame'[r] = frame[r]
    BY <1>3, <1>4 DEF WriteInv, WriteTypeOK
  <2>. QED
    BY <1>1, <2>1, <2>2
<1>. QED
  BY <1>1, <1>2, <1>5

\* Writing keeps the contract between openers and device, for any number of
\* both and without any assumption on sendBuffer: a task never answers, sends or
\* rewrites a request that was given back, although the loop of one task sends
\* the packets of another and S2_OFFLINE empties the list between two steps.
THEOREM WritesKeepContractHolds == Spec => WritesKeepContract
<1>1. WriteInit => Contract!Init
  BY DEF WriteInit, Contract!Init
<1>2. ASSUME StationInv, WriteInv, [Next]_vars
      PROVE  [Contract!Next]_<<OwnerOf, ContentOf>>
  <2>1. CASE OutsideStep \/ UNCHANGED vars \/ (UnitProcess /\ UNCHANGED writeVars)
    BY <2>1 DEF OutsideStep, vars, writeVars, OwnerOf, ContentOf
  <2>2. CASE FlushTx
    <3>1. \A r \in Request : at[r] # "device" => r \notin ToSet(tx)
      BY <1>2 DEF WriteInv, Held
    <3>. QED
      BY <2>2, <3>1, LeftAloneIsServe DEF FlushTx, Contract!Next
  <2>3. ASSUME NEW w \in Opener, WriterStep(w)
        PROVE  Contract!Next
    <3>1. ASSUME NEW r \in Request, Write(w, r)
          PROVE  Contract!Next
      BY <1>2, <3>1, WriteIsSend DEF Contract!Next
    <3>2. CASE ~ \E r \in Request : Write(w, r)
      BY <1>2, <2>3, <3>2, OnlyTheTaken, LeftAloneIsServe DEF Contract!Next
    <3>. QED
      BY <3>1, <3>2
  <2>. QED
    BY <1>2, <2>1, <2>2, <2>3 DEF Next, UnitStep, WriterNext
<1>. QED
  BY <1>1, <1>2, WriteInvariant, PTL DEF Spec, WritesKeepContract, Contract!Spec, OwnerOf, ContentOf
=============================================================================
