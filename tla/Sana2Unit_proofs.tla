-------------------------- MODULE Sana2Unit_proofs --------------------------
(***************************************************************************)
(* Type correctness of the I/O request engine, and that a request is never *)
(* in two places and never lost, for every set of openers, requests and    *)
(* commands, and lists of any length.                                      *)
(*                                                                         *)
(* NeverTwice and NeverLost are not inductive.  TermIO decides by          *)
(* IOF_QUICK, so no request on a list may have it set (QuickInv); which    *)
(* request a step replies is told by where its task is in the code         *)
(* (HandInv); and the unit process goes where io_Command sends it, so only *)
(* its own commands may be on its port (PortInv).  OnePlace is NeverTwice  *)
(* and NeverLost for one request at a time: a step moves a few requests    *)
(* and its proof says from where to where; all others stay.                *)
(***************************************************************************)
EXTENDS Sana2Unit, ListFacts

\* Which tasks have a request in hand.
HandInv ==
  /\ \A c \in Client : hand[c] = NoRequest <=> pc[c] \in {"idle", "send"}
  /\ hand[Unit] = NoRequest <=> pc[Unit] \in {"wait", "drain", "orphans"}

\* Only commands for the unit process are on its port.
PortInv ==
  \A r \in ToSet(list["unitPort"]) : cmd[r] \in PortCommand

\* A request with IOF_QUICK set is with its opener or on its way to eu_Tx, where
\* the flag is cleared.
QuickInv ==
  \A r \in Request :
    quick[r] => r \in app \/ \E t \in Task : hand[t] = r /\ pc[t] = "put"

\* What the theorems assume of the openers: with IOF_QUICK set, a read that has
\* to wait is on a list and with its opener at the same time.
PoliteOpeners == QuickCommand \cap {"read", "orphan"} = {}

\* No list has a request twice.
ListsOK == /\ list \in [ListName -> Seq(Request)]
           /\ \A n \in ListName : IsInjective(list[n])

\* Request r is in exactly one place.
One(r) ==
  \/ /\ r \in app /\ r \notin events
     /\ OnList(r) = {} /\ InHand(r) = {}
  \/ /\ r \notin app /\ r \in events
     /\ OnList(r) = {} /\ InHand(r) = {}
  \/ /\ r \notin app /\ r \notin events
     /\ InHand(r) = {} /\ \E n \in ListName : OnList(r) = {n}
  \/ /\ r \notin app /\ r \notin events
     /\ OnList(r) = {} /\ \E t \in Task : InHand(r) = {t}

OnePlace == \A r \in Request : One(r)

\* What the steps are shown to preserve together.
Places == PlaceTypes /\ ListsOK /\ OnePlace

\* The inductive invariant.
IInv == TypeOK /\ HandInv /\ PortInv /\ QuickInv /\ ListsOK /\ OnePlace

\* Tasks and lists are told apart by their names.
LEMMA NamesDistinct ==
  /\ Unit \notin Client /\ Client \subseteq Task /\ Unit \in Task
  /\ Client \subseteq ListName /\ UnitList \subseteq ListName
  /\ {"unitPort", "eu_Tx", "eu_ReadOrphan"} \cap Client = {}
  /\ "unitPort" \in ListName /\ "eu_Tx" \in ListName
  /\ "eu_ReadOrphan" \in ListName
  /\ NoRequest \notin Request
  BY UnitAssumption DEF Task, ListName, UnitList

\* The values that the code stores in io_Error and ios2_WireError.
LEMMA FieldFacts ==
  /\ "ok" \in ErrorCode /\ "offline" \in ErrorCode /\ "badarg" \in ErrorCode
  /\ "badstate" \in ErrorCode /\ "mtu" \in ErrorCode /\ "nores" \in ErrorCode
  /\ "aborted" \in ErrorCode
  /\ {} \in WireValue /\ {"ERR"} \in WireValue
  /\ \A e \in Event : {e} \in WireValue
  /\ {"ONLINE"} \in WireValue /\ {"OFFLINE"} \in WireValue
  /\ {"BUFF"} \in WireValue /\ {"TX"} \in WireValue
  /\ EventMask \subseteq WireValue
  /\ \A w \in WireValue : \A S : w \cap S \in WireValue
  BY UnitAssumption DEF WireValue, Event, ErrorCode

\* One field of one request is set.
LEMMA SetField ==
  ASSUME NEW V, NEW f \in [Request -> V], NEW r, NEW v \in V
  PROVE  [f EXCEPT ![r] = v] \in [Request -> V]
  OBVIOUS

\* TermIO keeps ln_Type a node type, whatever set of requests it is given.
LEMMA TermIOTypes ==
  ASSUME RequestTypes, NEW S, TermIO(S)
  PROVE  lnType' \in [Request -> {"message", "reply"}]
  BY DEF RequestTypes, TermIO, Update

\* fulfillReadIORequest keeps the fields it writes in range.
LEMMA FulfillTypes ==
  ASSUME RequestTypes, NEW offered, NEW taken, NEW failed,
         NEW d \in DstKind \cup {"none"}, Fulfill(offered, taken, failed, d)
  PROVE  /\ lnType' \in [Request -> {"message", "reply"}]
         /\ err' \in [Request -> ErrorCode]
         /\ wire' \in [Request -> WireValue]
         /\ dst' \in [Request -> DstKind \cup {"none"}]
         /\ flags' \in [Request -> SUBSET {"BCAST", "MCAST"}]
<1>. DEFINE woken == IF failed = {} THEN {} ELSE Waiting("BUFF")
<1>1. lnType' \in [Request -> {"message", "reply"}]
  BY TermIOTypes DEF Fulfill
<1>2. err' = Update(Update(err, failed, "nores"), woken, "ok")
  BY DEF Fulfill
<1>3. wire' = Update(Update(wire, failed, {"ERR"}), woken, {"BUFF"})
  BY DEF Fulfill
<1>. HIDE DEF woken
<1>4. err' \in [Request -> ErrorCode]
  BY <1>2, FieldFacts DEF Update, RequestTypes
<1>5. wire' \in [Request -> WireValue]
  <2>1. Update(wire, failed, {"ERR"}) \in [Request -> WireValue]
    BY FieldFacts DEF Update, RequestTypes
  <2>. QED
    BY <1>3, <2>1, FieldFacts DEF Update
<1>6. dst' \in [Request -> DstKind \cup {"none"}]
  BY DEF Fulfill, Update, RequestTypes
<1>7. flags' \in [Request -> SUBSET {"BCAST", "MCAST"}]
  <2>1. KindFlag(d) \in SUBSET {"BCAST", "MCAST"}
    BY DEF KindFlag
  <2>2. flags' = [r \in Request |-> IF r \in offered
                                    THEN flags[r] \cup KindFlag(d) ELSE flags[r]]
    BY DEF Fulfill
  <2>. QED
    BY <2>1, <2>2 DEF RequestTypes
<1>. QED
  BY <1>1, <1>4, <1>5, <1>6, <1>7


\* What follows for a request once one of its places is known.
LEMMA PlaceFacts ==
  ASSUME Places
  PROVE  /\ \A q \in Request : q \in app =>
              q \notin events /\ OnList(q) = {} /\ InHand(q) = {}
         /\ \A q \in Request : q \in events =>
              q \notin app /\ OnList(q) = {} /\ InHand(q) = {}
         /\ \A n \in ListName : \A q \in ToSet(list[n]) :
              /\ q \in Request /\ q \notin app /\ q \notin events
              /\ OnList(q) = {n} /\ InHand(q) = {}
         /\ \A t \in Task : hand[t] \in Request =>
              /\ hand[t] \notin app /\ hand[t] \notin events
              /\ OnList(hand[t]) = {} /\ InHand(hand[t]) = {t}
<1>1. \A n \in ListName : \A q \in ToSet(list[n]) : q \in Request /\ n \in OnList(q)
  BY DEF Places, ListsOK, ToSet, OnList
<1>2. \A t \in Task : t \in InHand(hand[t])
  BY DEF InHand
<1>. QED
  BY <1>1, <1>2 DEF Places, OnePlace, One

\* AddTail.
LEMMA PushFacts ==
  ASSUME ListsOK, NEW n \in ListName, NEW r \in Request,
         r \notin ToSet(list[n]), Push(n, r)
  PROVE  /\ ListsOK'
         /\ \A x \in Request :
              OnList(x)' = IF x = r THEN OnList(x) \cup {n} ELSE OnList(x)
<1>1. list' = [list EXCEPT ![n] = Append(list[n], r)]
  BY DEF Push
<1>2. /\ Append(list[n], r) \in Seq(Request)
      /\ ToSet(Append(list[n], r)) = ToSet(list[n]) \cup {r}
      /\ IsInjective(Append(list[n], r))
  BY AppendFacts DEF ListsOK
<1>3. \A m \in ListName : ToSet(list'[m]) =
        IF m = n THEN ToSet(list[m]) \cup {r} ELSE ToSet(list[m])
  BY <1>1, <1>2 DEF ListsOK
<1>4. ListsOK'
  BY <1>1, <1>2 DEF ListsOK
<1>. QED
  BY <1>3, <1>4 DEF OnList

\* GetMsg.
LEMMA PopFacts ==
  ASSUME ListsOK, NEW n \in ListName, list[n] # <<>>,
         list' = [list EXCEPT ![n] = Tail(@)]
  PROVE  /\ ListsOK'
         /\ Head(list[n]) \in ToSet(list[n])
         /\ \A x \in Request :
              OnList(x)' = IF x = Head(list[n]) THEN OnList(x) \ {n} ELSE OnList(x)
<1>1. list' = [list EXCEPT ![n] = Tail(list[n])]
  OBVIOUS
<1>2. /\ Tail(list[n]) \in Seq(Request)
      /\ ToSet(Tail(list[n])) = ToSet(list[n]) \ {Head(list[n])}
      /\ IsInjective(Tail(list[n]))
      /\ Head(list[n]) \in ToSet(list[n])
  BY TailFacts DEF ListsOK
<1>3. \A m \in ListName : ToSet(list'[m]) =
        IF m = n THEN ToSet(list[m]) \ {Head(list[m])} ELSE ToSet(list[m])
  BY <1>1, <1>2 DEF ListsOK
<1>4. ListsOK'
  BY <1>1, <1>2 DEF ListsOK
<1>. QED
  BY <1>2, <1>3, <1>4 DEF OnList

\* How the lists a request is on follow from the elements of the lists.
LEMMA Removed ==
  ASSUME NEW n \in ListName, NEW r \in Request,
         \A m \in ListName : ToSet(list'[m]) =
           IF m = n THEN ToSet(list[m]) \ {r} ELSE ToSet(list[m])
  PROVE  \A x \in Request :
           OnList(x)' = IF x = r THEN OnList(x) \ {n} ELSE OnList(x)
  BY DEF OnList

\* Remove().
LEMMA RemoveFacts ==
  ASSUME ListsOK, NEW n \in ListName, NEW r \in Request,
         \E i \in DOMAIN list[n] :
           list[n][i] = r /\ list' = [list EXCEPT ![n] = RemoveAt(@, i)]
  PROVE  /\ ListsOK'
         /\ r \in ToSet(list[n])
         /\ \A x \in Request :
              OnList(x)' = IF x = r THEN OnList(x) \ {n} ELSE OnList(x)
<1>1. PICK i \in DOMAIN list[n] :
        list[n][i] = r /\ list' = [list EXCEPT ![n] = RemoveAt(list[n], i)]
  OBVIOUS
<1>2. /\ RemoveAt(list[n], i) \in Seq(Request)
      /\ ToSet(RemoveAt(list[n], i)) = ToSet(list[n]) \ {r}
      /\ IsInjective(RemoveAt(list[n], i))
  BY <1>1, RemoveAtFacts DEF ListsOK
<1>3. \A m \in ListName : ToSet(list'[m]) =
        IF m = n THEN ToSet(list[m]) \ {r} ELSE ToSet(list[m])
  BY <1>1, <1>2 DEF ListsOK
<1>4. ListsOK'
  BY <1>1, <1>2 DEF ListsOK
<1>5. r \in ToSet(list[n])
  BY <1>1 DEF ListsOK, ToSet
<1>6. \A x \in Request :
        OnList(x)' = IF x = r THEN OnList(x) \ {n} ELSE OnList(x)
  BY <1>3, Removed
<1>. QED
  BY <1>4, <1>5, <1>6

\* Remove() of one request from each of some lists.
LEMMA RemoveEachFacts ==
  ASSUME ListsOK, NEW S \in SUBSET ListName, NEW at,
         \A n \in S : at[n] \in DOMAIN list[n],
         list' = [n \in ListName |-> IF n \in S THEN RemoveAt(list[n], at[n])
                                                ELSE list[n]]
  PROVE  /\ ListsOK'
         /\ \A n \in S : list[n][at[n]] \in ToSet(list[n])
         /\ \A x \in Request :
              OnList(x)' = OnList(x) \ {n \in S : x = list[n][at[n]]}
<1>1. \A n \in S : /\ RemoveAt(list[n], at[n]) \in Seq(Request)
                   /\ ToSet(RemoveAt(list[n], at[n])) =
                        ToSet(list[n]) \ {list[n][at[n]]}
                   /\ IsInjective(RemoveAt(list[n], at[n]))
  BY RemoveAtFacts DEF ListsOK
<1>2. \A n \in S : list[n][at[n]] \in ToSet(list[n])
  BY DEF ListsOK, ToSet
<1>3. \A m \in ListName : ToSet(list'[m]) =
        IF m \in S THEN ToSet(list[m]) \ {list[m][at[m]]} ELSE ToSet(list[m])
  BY <1>1
<1>4. ListsOK'
  BY <1>1 DEF ListsOK
<1>. QED
  BY <1>2, <1>3, <1>4 DEF OnList

\* A list or several are emptied.
LEMMA EmptyFacts ==
  ASSUME ListsOK, NEW S \in SUBSET ListName,
         list' = [n \in ListName |-> IF n \in S THEN <<>> ELSE list[n]]
  PROVE  /\ ListsOK'
         /\ \A x \in Request : OnList(x)' = OnList(x) \ S
<1>1. ToSet(<<>>) = {} /\ IsInjective(<<>>) /\ <<>> \in Seq(Request)
  BY DEF ToSet, IsInjective
<1>2. ListsOK'
  BY <1>1 DEF ListsOK
<1>3. \A m \in ListName : ToSet(list'[m]) = IF m \in S THEN {} ELSE ToSet(list[m])
  BY <1>1
<1>. QED
  BY <1>2, <1>3 DEF OnList

\* A task lets go of its request.
LEMMA DropFacts ==
  ASSUME PlaceTypes, NEW t \in Task, Drop(t)
  PROVE  /\ hand' \in [Task -> Request \cup {NoRequest}]
         /\ \A x \in Request : InHand(x)' = InHand(x) \ {t}
  BY NamesDistinct DEF PlaceTypes, Drop, InHand

\* A task with empty hands takes a request.
LEMMA TakeFacts ==
  ASSUME PlaceTypes, NEW t \in Task, NEW r \in Request, hand[t] = NoRequest,
         Take(t, r)
  PROVE  /\ hand' \in [Task -> Request \cup {NoRequest}]
         /\ \A x \in Request :
              InHand(x)' = IF x = r THEN InHand(x) \cup {t} ELSE InHand(x)
  BY NamesDistinct DEF PlaceTypes, Take, InHand

\* TermIO of requests that have no IOF_QUICK gives all of them back.
LEMMA TermIOFacts ==
  ASSUME NEW S, TermIO(S), \A r \in S : ~quick[r]
  PROVE  app' = app \cup S
  BY DEF TermIO

\* A step that leaves the lists or the hands alone.
LEMMA SameFacts ==
  /\ list' = list /\ ListsOK => ListsOK' /\ \A x : OnList(x)' = OnList(x)
  /\ hand' = hand => \A x : InHand(x)' = InHand(x)
  BY DEF ListsOK, OnList, InHand

\* What the invariant says of lists, hands and IOF_QUICK, the facts each step
\* below rests on.
LEMMA Given ==
  ASSUME IInv
  PROVE  /\ Places /\ PlaceTypes /\ ListsOK
         /\ \A t \in Task : hand[t] \in Request \/ hand[t] = NoRequest
         /\ \A c \in Client : hand[c] = NoRequest <=> pc[c] \in {"idle", "send"}
         /\ hand[Unit] = NoRequest <=> pc[Unit] \in {"wait", "drain", "orphans"}
         /\ \A r \in events : ~quick[r]
         /\ \A n \in ListName : \A r \in ToSet(list[n]) : ~quick[r]
         /\ \A t \in Task : hand[t] \in Request /\ quick[hand[t]] => pc[t] = "put"
<1>1. Places /\ PlaceTypes /\ ListsOK
  BY DEF IInv, TypeOK, Places
<1>2. ASSUME NEW t \in Task, hand[t] \in Request, quick[hand[t]]
      PROVE  pc[t] = "put"
  <2>1. PICK u \in Task : hand[u] = hand[t] /\ pc[u] = "put"
    BY <1>1, <1>2, PlaceFacts DEF IInv, QuickInv
  <2>2. InHand(hand[t]) = {t} /\ u \in InHand(hand[t])
    BY <1>1, <1>2, <2>1, PlaceFacts DEF InHand
  <2>. QED
    BY <2>1, <2>2
<1>3. ASSUME NEW r \in Request, quick[r], InHand(r) = {}
      PROVE  r \in app
  BY <1>3 DEF IInv, QuickInv, InHand
<1>4. /\ \A r \in events : ~quick[r]
      /\ \A n \in ListName : \A r \in ToSet(list[n]) : ~quick[r]
  BY <1>1, <1>3, PlaceFacts DEF PlaceTypes
<1>. QED
  BY <1>1, <1>2, <1>4 DEF IInv, PlaceTypes, HandInv

\* The steps of DeviceBeginIO, sendAllPackets and DeviceAbortIO.
LEMMA PlacesClientStep ==
  ASSUME IInv, PoliteOpeners, NEW c \in Client, ClientNext(c)
  PROVE  Places'
<1>. USE Given, NamesDistinct, PlaceFacts
<1>1. ASSUME NEW r \in Request, NEW cd \in Command, BeginPort(c, r, cd)
      PROVE  Places'
  <2>1. r \in app /\ app' = app \ {r} /\ events' = events /\ hand' = hand
    BY <1>1 DEF BeginPort, Submit
  <2>2. /\ ListsOK'
        /\ \A x \in Request : OnList(x)' =
             IF x = r THEN OnList(x) \cup {"unitPort"} ELSE OnList(x)
    <3>1. r \notin ToSet(list["unitPort"])
      BY <2>1
    <3>. QED
      BY <1>1, <3>1, PushFacts DEF BeginPort
  <2>3. \A x \in Request : InHand(x)' = InHand(x)
    BY <2>1, SameFacts
  <2>4. ASSUME NEW x \in Request
        PROVE  One(x)'
    BY <2>1, <2>2, <2>3 DEF Places, OnePlace, One
  <2>. QED
    BY <2>1, <2>2, <2>4 DEF Places, OnePlace, PlaceTypes, ListsOK
<1>2. ASSUME NEW r \in Request, NEW cd \in Command, BeginNow(c, r, cd)
      PROVE  Places'
  <2>1. r \in app /\ events' = events /\ list' = list /\ hand[c] = NoRequest
    BY <1>2 DEF BeginNow, Submit
  <2>2. \/ app' = app \ {r} /\ Take(c, r)
        \/ app' = app /\ hand' = hand
    BY <1>2 DEF BeginNow, ReplyUnlessQuick
  <2>3. ListsOK' /\ \A x \in Request : OnList(x)' = OnList(x)
    BY <2>1, SameFacts
  <2>4. CASE app' = app \ {r} /\ Take(c, r)
    <3>1. /\ hand' \in [Task -> Request \cup {NoRequest}]
          /\ \A x \in Request :
               InHand(x)' = IF x = r THEN InHand(x) \cup {c} ELSE InHand(x)
      BY <2>1, <2>4, TakeFacts
    <3>2. ASSUME NEW x \in Request
          PROVE  One(x)'
      BY <2>1, <2>3, <2>4, <3>1 DEF Places, OnePlace, One
    <3>. QED
      BY <2>1, <2>3, <2>4, <3>1, <3>2 DEF Places, OnePlace, PlaceTypes, ListsOK
  <2>5. CASE app' = app /\ hand' = hand
    <3>1. \A x \in Request : InHand(x)' = InHand(x)
      BY <2>5, SameFacts
    <3>2. ASSUME NEW x \in Request
          PROVE  One(x)'
      BY <2>1, <2>3, <2>5, <3>1 DEF Places, OnePlace, One
    <3>. QED
      BY <2>1, <2>3, <2>5, <3>2 DEF Places, OnePlace, PlaceTypes
  <2>. QED
    BY <2>2, <2>4, <2>5
<1>3. ASSUME NEW n \in ListName, ~quick[hand[c]], hand[c] \in Request,
             Push(n, hand[c]), Drop(c), app' = app, events' = events
      PROVE  Places'
  <2>1. PICK q \in Request : q = hand[c]
    BY <1>3
  <2>2. OnList(q) = {} /\ InHand(q) = {c} /\ q \notin app /\ q \notin events
    BY <2>1
  <2>3. q \notin ToSet(list[n])
    BY <2>2
  <2>4. /\ ListsOK'
        /\ \A x \in Request :
             OnList(x)' = IF x = q THEN OnList(x) \cup {n} ELSE OnList(x)
    BY <1>3, <2>1, <2>3, PushFacts
  <2>5. /\ hand' \in [Task -> Request \cup {NoRequest}]
        /\ \A x \in Request : InHand(x)' = InHand(x) \ {c}
    BY <1>3, DropFacts
  <2>6. ASSUME NEW x \in Request
        PROVE  One(x)'
    <3>1. CASE x = q
      BY <1>3, <2>2, <2>4, <2>5, <3>1 DEF One
    <3>2. CASE x # q
      <4>1. c \notin InHand(x)
        BY <2>1, <3>2 DEF InHand
      <4>. QED
        BY <1>3, <2>4, <2>5, <3>2, <4>1 DEF Places, OnePlace, One
    <3>. QED
      BY <3>1, <3>2
  <2>. QED
    BY <1>3, <2>4, <2>5, <2>6 DEF Places, OnePlace, PlaceTypes, ListsOK
<1>4. ASSUME ReadQueue(c)
      PROVE  Places'
  <2>1. hand[c] \in Request /\ ~quick[hand[c]]
    BY <1>4 DEF ReadQueue
  <2>. QED
    BY <1>3, <1>4, <2>1 DEF ReadQueue, BackFromBeginIO
<1>5. ASSUME OrphanQueue(c)
      PROVE  Places'
  <2>1. hand[c] \in Request /\ ~quick[hand[c]]
    BY <1>5 DEF OrphanQueue
  <2>. QED
    BY <1>3, <1>5, <2>1 DEF OrphanQueue, BackFromBeginIO
<1>6. ASSUME NEW S \in SUBSET (events \cup {hand[c]}), hand[c] \in Request,
             hand[c] \in S, app' = app \cup S, events' = events \ S,
             list' = list, Drop(c)
      PROVE  Places'
  <2>1. PICK q \in Request : q = hand[c]
    BY <1>6
  <2>2. OnList(q) = {} /\ InHand(q) = {c} /\ q \notin app /\ q \notin events
    BY <2>1
  <2>3. ListsOK' /\ \A x \in Request : OnList(x)' = OnList(x)
    BY <1>6, SameFacts
  <2>4. /\ hand' \in [Task -> Request \cup {NoRequest}]
        /\ \A x \in Request : InHand(x)' = InHand(x) \ {c}
    BY <1>6, DropFacts
  <2>5. ASSUME NEW x \in Request
        PROVE  One(x)'
    <3>1. CASE x = q
      BY <1>6, <2>1, <2>2, <2>3, <2>4, <3>1 DEF One
    <3>2. CASE x # q /\ x \in events
      BY <1>6, <2>1, <2>3, <2>4, <3>2 DEF One
    <3>3. CASE x # q /\ x \notin events
      <4>1. c \notin InHand(x)
        BY <2>1, <3>3 DEF InHand
      <4>. QED
        BY <1>6, <2>1, <2>3, <2>4, <3>3, <4>1 DEF Places, OnePlace, One
    <3>. QED
      BY <3>1, <3>2, <3>3
  <2>. QED
    BY <1>6, <2>3, <2>4, <2>5 DEF Places, OnePlace, PlaceTypes
<1>7. ASSUME ReadBadArgument(c)
      PROVE  Places'
  <2>1. hand[c] \in Request
    BY <1>7 DEF ReadBadArgument
  <2>2. hand[c] \notin events
    BY <2>1
  <2>3. PICK S \in SUBSET (events \cup {hand[c]}) : S = {hand[c]}
    OBVIOUS
  <2>4. /\ hand[c] \in S /\ app' = app \cup S /\ events' = events \ S
        /\ list' = list /\ Drop(c)
    BY <1>7, <2>2, <2>3 DEF ReadBadArgument
  <2>. QED
    BY <1>6, <2>1, <2>4
<1>8. ASSUME WriteTooLong(c)
      PROVE  Places'
  <2>1. hand[c] \in Request
    BY <1>8 DEF WriteTooLong
  <2>2. hand[c] \notin events
    BY <2>1
  <2>3. Waiting("TX") \subseteq events
    BY DEF Waiting
  <2>4. PICK S \in SUBSET (events \cup {hand[c]}) : S = Waiting("TX") \cup {hand[c]}
    BY <2>3
  <2>5. /\ hand[c] \in S /\ app' = app \cup S /\ events' = events \ S
        /\ list' = list /\ Drop(c)
    BY <1>8, <2>2, <2>4 DEF WriteTooLong
  <2>. QED
    BY <1>6, <2>1, <2>5
<1>9. ASSUME WritePut(c)
      PROVE  Places'
  <2>1. PICK q \in Request : q = hand[c]
    BY <1>9 DEF WritePut
  <2>2. OnList(q) = {} /\ InHand(q) = {c} /\ q \notin app /\ q \notin events
    BY <2>1
  <2>3. /\ app' = app /\ events' = events
        /\ Push("eu_Tx", q) /\ Drop(c)
    BY <1>9, <2>1 DEF WritePut
  <2>4. /\ ListsOK'
        /\ \A x \in Request :
             OnList(x)' = IF x = q THEN OnList(x) \cup {"eu_Tx"} ELSE OnList(x)
    <3>1. q \notin ToSet(list["eu_Tx"])
      BY <2>2
    <3>. QED
      BY <2>3, <3>1, PushFacts
  <2>5. /\ hand' \in [Task -> Request \cup {NoRequest}]
        /\ \A x \in Request : InHand(x)' = InHand(x) \ {c}
    BY <2>3, DropFacts
  <2>6. ASSUME NEW x \in Request
        PROVE  One(x)'
    <3>1. CASE x = q
      BY <2>2, <2>3, <2>4, <2>5, <3>1 DEF One
    <3>2. CASE x # q
      <4>1. c \notin InHand(x)
        BY <2>1, <3>2 DEF InHand
      <4>. QED
        BY <2>3, <2>4, <2>5, <3>2, <4>1 DEF Places, OnePlace, One
    <3>. QED
      BY <3>1, <3>2
  <2>. QED
    BY <2>3, <2>4, <2>5, <2>6 DEF Places, OnePlace, PlaceTypes, ListsOK
<1>10. ASSUME SendGet(c)
      PROVE  Places'
  <2>1. app' = app /\ events' = events /\ hand[c] = NoRequest
    BY <1>10 DEF SendGet
  <2>2. CASE list["eu_Tx"] = <<>>
    <3>1. list' = list /\ hand' = hand
      BY <1>10, <2>2 DEF SendGet, NothingToSend
    <3>2. ASSUME NEW x \in Request
          PROVE  One(x)'
      BY <2>1, <3>1, SameFacts DEF Places, OnePlace, One
    <3>. QED
      BY <2>1, <3>1, <3>2, SameFacts DEF Places, OnePlace, PlaceTypes
  <2>3. CASE list["eu_Tx"] # <<>>
    <3>1. PICK q : q = Head(list["eu_Tx"])
      OBVIOUS
    <3>2. Take(c, q) /\ list' = [list EXCEPT !["eu_Tx"] = Tail(@)]
      BY <1>10, <2>3, <3>1 DEF SendGet, NothingToSend
    <3>3. /\ ListsOK' /\ q \in ToSet(list["eu_Tx"])
          /\ \A x \in Request :
               OnList(x)' = IF x = q THEN OnList(x) \ {"eu_Tx"} ELSE OnList(x)
      BY <2>3, <3>1, <3>2, PopFacts
    <3>4. /\ q \in Request /\ q \notin app /\ q \notin events
          /\ OnList(q) = {"eu_Tx"} /\ InHand(q) = {}
      BY <3>3
    <3>5. /\ hand' \in [Task -> Request \cup {NoRequest}]
          /\ \A x \in Request :
               InHand(x)' = IF x = q THEN InHand(x) \cup {c} ELSE InHand(x)
      BY <2>1, <3>2, <3>4, TakeFacts
    <3>6. ASSUME NEW x \in Request
          PROVE  One(x)'
      BY <2>1, <3>3, <3>4, <3>5 DEF Places, OnePlace, One
    <3>. QED
      BY <2>1, <3>3, <3>5, <3>6 DEF Places, OnePlace, PlaceTypes, ListsOK
  <2>. QED
    BY <2>2, <2>3
<1>11. ASSUME SendDone(c)
      PROVE  Places'
  <2>1. PICK S \in SUBSET events : /\ events' = events \ S
                                   /\ TermIO(S \cup {hand[c]})
    <3>1. Waiting("BUFF") \subseteq events
      BY DEF Waiting
    <3>. QED
      BY <1>11, <3>1 DEF SendDone
  <2>2. pc[c] = "sending"
    BY <1>11 DEF SendDone
  <2>3. hand[c] \in Request /\ ~quick[hand[c]]
    BY <2>2
  <2>4. app' = app \cup (S \cup {hand[c]})
    BY <2>1, <2>3, TermIOFacts
  <2>5. hand[c] \notin events
    BY <2>3
  <2>6. events' = events \ (S \cup {hand[c]})
    BY <2>1, <2>5
  <2>. QED
    BY <1>6, <1>11, <2>3, <2>4, <2>6 DEF SendDone
<1>12. ASSUME NEW r \in Request, AbortIO(c, r)
      PROVE  Places'
  <2>1. TermIO({r}) /\ hand' = hand
    BY <1>12 DEF AbortIO
  <2>2. CASE events' = events /\ \E n \in AbortList(r) : \E i \in DOMAIN list[n] :
               list[n][i] = r /\ list' = [list EXCEPT ![n] = RemoveAt(@, i)]
    <3>0. PICK n \in ListName : \E i \in DOMAIN list[n] :
            list[n][i] = r /\ list' = [list EXCEPT ![n] = RemoveAt(@, i)]
      <4>1. AbortList(r) \subseteq ListName
        BY UnitAssumption DEF AbortList
      <4>. QED
        BY <2>2, <4>1
    <3>3. /\ ListsOK' /\ r \in ToSet(list[n])
          /\ \A x \in Request : OnList(x)' = IF x = r THEN OnList(x) \ {n} ELSE OnList(x)
      <4>1. ListsOK /\ n \in ListName /\ r \in Request
        OBVIOUS
      <4>. QED
        BY ONLY <3>0, <4>1, RemoveFacts
    <3>4. /\ r \notin app /\ r \notin events /\ OnList(r) = {n} /\ InHand(r) = {}
          /\ ~quick[r]
      BY <3>3
    <3>5. app' = app \cup {r}
      BY <2>1, <3>4, TermIOFacts
    <3>6. ASSUME NEW x \in Request
          PROVE  One(x)'
      BY <2>1, <2>2, <3>3, <3>4, <3>5, SameFacts DEF Places, OnePlace, One
    <3>. QED
      BY <2>1, <2>2, <3>3, <3>5, <3>6 DEF Places, OnePlace, PlaceTypes, ListsOK
  <2>3. CASE r \in events /\ events' = events \ {r} /\ list' = list
    <3>1. r \notin app /\ OnList(r) = {} /\ InHand(r) = {} /\ ~quick[r]
      BY <2>3
    <3>2. app' = app \cup {r}
      BY <2>1, <3>1, TermIOFacts
    <3>3. ASSUME NEW x \in Request
          PROVE  One(x)'
      BY <2>1, <2>3, <3>1, <3>2, SameFacts DEF Places, OnePlace, One
    <3>. QED
      BY <2>1, <2>3, <3>2, <3>3, SameFacts DEF Places, OnePlace, PlaceTypes
  <2>. QED
    BY <1>12, <2>2, <2>3, Zenon DEF AbortIO, Unlinked
<1>. QED
  BY <1>1, <1>2, <1>4, <1>5, <1>7, <1>8, <1>9, <1>10, <1>11, <1>12
     DEF ClientNext, ClientStep

\* What TermIO in the unit process does to the places: it gives back waiting
\* events and, when a command is done, the request of the command.
LEMMA UnitReplies ==
  ASSUME IInv, NEW S \in SUBSET events, TermIO(S \cup {hand[Unit]}),
         hand[Unit] \in Request, pc[Unit] # "put", events' = events \ S,
         list' = list, Drop(Unit)
  PROVE  Places'
<1>. USE Given, NamesDistinct, PlaceFacts
<1>1. PICK q \in Request : q = hand[Unit]
  OBVIOUS
<1>2. /\ OnList(q) = {} /\ InHand(q) = {Unit} /\ q \notin app /\ q \notin events
      /\ ~quick[q]
  BY <1>1
<1>3. app' = app \cup (S \cup {q})
  BY <1>1, <1>2, TermIOFacts
<1>4. ListsOK' /\ \A x \in Request : OnList(x)' = OnList(x)
  BY SameFacts
<1>5. /\ hand' \in [Task -> Request \cup {NoRequest}]
      /\ \A x \in Request : InHand(x)' = InHand(x) \ {Unit}
  BY DropFacts
<1>6. ASSUME NEW x \in Request
      PROVE  One(x)'
  <2>1. CASE x = q
    BY <1>2, <1>3, <1>4, <1>5, <2>1 DEF One
  <2>2. CASE x # q
    <3>1. Unit \notin InHand(x)
      BY <1>1, <2>2 DEF InHand
    <3>. QED
      BY <1>3, <1>4, <1>5, <2>2, <3>1 DEF Places, OnePlace, One
  <2>. QED
    BY <2>1, <2>2
<1>. QED
  BY <1>3, <1>4, <1>5, <1>6 DEF Places, OnePlace, PlaceTypes

\* A command of the unit process that gives its own request back.
LEMMA UnitReply ==
  ASSUME IInv, Reply(hand[Unit]), hand[Unit] \in Request, pc[Unit] # "put",
         events' = events, list' = list
  PROVE  Places'
<1>1. PICK S \in SUBSET events : S = {}
  OBVIOUS
<1>2. S \cup {hand[Unit]} = {hand[Unit]} /\ events' = events \ S
  BY <1>1
<1>3. TermIO(S \cup {hand[Unit]}) /\ Drop(Unit)
  BY <1>2 DEF Reply
<1>. QED
  BY <1>2, <1>3, UnitReplies

\* Nothing moves.
LEMMA NothingMoves ==
  ASSUME IInv, app' = app, events' = events, list' = list, hand' = hand
  PROVE  Places'
<1>1. ASSUME NEW x \in Request
      PROVE  One(x)'
  BY Given, SameFacts DEF Places, OnePlace, One
<1>. QED
  BY <1>1, Given, SameFacts DEF Places, OnePlace, PlaceTypes

\* Waiting events are replied, from lists that are emptied or not.
LEMMA Replied ==
  ASSUME IInv, NEW L \in SUBSET ListName, NEW E \in SUBSET events, NEW S,
         S = E \cup UNION {ToSet(list[n]) : n \in L},
         TermIO(S), events' = events \ E,
         list' = [n \in ListName |-> IF n \in L THEN <<>> ELSE list[n]],
         hand' = hand
  PROVE  Places'
<1>. USE Given, NamesDistinct, PlaceFacts
<1>1. \A r \in S : ~quick[r] /\ r \in Request
  BY DEF PlaceTypes
<1>2. app' = app \cup S
  BY <1>1, TermIOFacts
<1>3. ListsOK' /\ \A x \in Request : OnList(x)' = OnList(x) \ L
  BY EmptyFacts
<1>4. \A x \in Request : InHand(x)' = InHand(x)
  BY SameFacts
<1>5. ASSUME NEW x \in Request
      PROVE  One(x)'
  <2>1. CASE x \in E
    BY <1>2, <1>3, <1>4, <2>1 DEF One
  <2>2. CASE \E n \in L : x \in ToSet(list[n])
    <3>1. PICK n \in L : x \in ToSet(list[n])
      BY <2>2
    <3>2. OnList(x) = {n} /\ InHand(x) = {} /\ x \notin app /\ x \notin events
      BY <3>1
    <3>3. x \in S /\ OnList(x)' = {}
      BY <1>3, <3>1, <3>2
    <3>. QED
      BY <1>2, <1>4, <3>2, <3>3 DEF One
  <2>3. CASE x \notin E /\ \A n \in L : x \notin ToSet(list[n])
    <3>1. OnList(x)' = OnList(x) /\ x \notin S
      BY <1>3, <2>3 DEF OnList
    <3>. QED
      BY <1>2, <1>4, <2>3, <3>1 DEF Places, OnePlace, One
  <2>. QED
    BY <2>1, <2>2, <2>3
<1>. QED
  BY <1>1, <1>2, <1>3, <1>5 DEF Places, OnePlace, PlaceTypes, ListsOK

\* The steps of the service loop and its commands.
LEMMA PlacesUnitStep ==
  ASSUME IInv, UnitStep \/ WakeUp, ~ReceiveOrphan
  PROVE  Places'
<1>. USE Given, NamesDistinct, PlaceFacts
<1>1. ASSUME WakeUp
      PROVE  Places'
  BY <1>1, NothingMoves DEF WakeUp
<1>2. ASSUME Drained
      PROVE  Places'
  BY <1>2, NothingMoves DEF Drained
<1>3. ASSUME GetMsg
      PROVE  Places'
  <2>1. PICK q : q = Head(list["unitPort"])
    OBVIOUS
  <2>2. /\ Take(Unit, q) /\ list' = [list EXCEPT !["unitPort"] = Tail(@)]
        /\ list["unitPort"] # <<>> /\ app' = app /\ events' = events
        /\ hand[Unit] = NoRequest
    BY <1>3, <2>1 DEF GetMsg
  <2>3. /\ ListsOK' /\ q \in ToSet(list["unitPort"])
        /\ \A x \in Request :
             OnList(x)' = IF x = q THEN OnList(x) \ {"unitPort"} ELSE OnList(x)
    BY <2>1, <2>2, PopFacts
  <2>4. /\ q \in Request /\ q \notin app /\ q \notin events
        /\ OnList(q) = {"unitPort"} /\ InHand(q) = {}
    BY <2>3
  <2>5. /\ hand' \in [Task -> Request \cup {NoRequest}]
        /\ \A x \in Request :
             InHand(x)' = IF x = q THEN InHand(x) \cup {Unit} ELSE InHand(x)
    BY <2>2, <2>4, TakeFacts
  <2>6. ASSUME NEW x \in Request
        PROVE  One(x)'
    BY <2>2, <2>3, <2>4, <2>5 DEF Places, OnePlace, One
  <2>. QED
    BY <2>2, <2>3, <2>5, <2>6 DEF Places, OnePlace, PlaceTypes, ListsOK
<1>4. ASSUME Query
      PROVE  Places'
  BY <1>4, UnitReply DEF Query
<1>5. ASSUME OnEvent
      PROVE  Places'
  <2>1. pc[Unit] = "onevent" /\ list' = list /\ Drop(Unit) /\ hand[Unit] \in Request
    BY <1>5 DEF OnEvent
  <2>2. \/ TermIO({hand[Unit]}) /\ events' = events
        \/ events' = events \cup {hand[Unit]} /\ app' = app
    BY <1>5 DEF OnEvent
  <2>3. CASE TermIO({hand[Unit]}) /\ events' = events
    <3>2. PICK S \in SUBSET events : S = {}
      OBVIOUS
    <3>3. S \cup {hand[Unit]} = {hand[Unit]} /\ events' = events \ S
      BY <2>3, <3>2
    <3>. QED
      BY <2>1, <2>3, <3>3, UnitReplies
  <2>4. CASE events' = events \cup {hand[Unit]} /\ app' = app
    <3>1. PICK q \in Request : q = hand[Unit]
      BY <2>1
    <3>2. OnList(q) = {} /\ InHand(q) = {Unit} /\ q \notin app /\ q \notin events
      BY <3>1
    <3>3. /\ hand' \in [Task -> Request \cup {NoRequest}]
          /\ \A x \in Request : InHand(x)' = InHand(x) \ {Unit}
      BY <2>1, DropFacts
    <3>4. ASSUME NEW x \in Request
          PROVE  One(x)'
      <4>1. CASE x = q
        BY <2>1, <2>4, <3>1, <3>2, <3>3, <4>1, SameFacts DEF One
      <4>2. CASE x # q
        <5>1. Unit \notin InHand(x)
          BY <3>1, <4>2 DEF InHand
        <5>. QED
          BY <2>1, <2>4, <3>1, <3>3, <4>2, <5>1, SameFacts DEF Places, OnePlace, One
      <4>. QED
        BY <4>1, <4>2
    <3>. QED
      BY <2>1, <2>4, <3>3, <3>4, SameFacts DEF Places, OnePlace, PlaceTypes
  <2>. QED
    BY <2>2, <2>3, <2>4
<1>6. ASSUME Config
      PROVE  Places'
  <2>1. /\ pc[Unit] = "config" /\ list' = list /\ events' = events
        /\ Reply(hand[Unit]) \/ (app' = app /\ hand' = hand)
    BY <1>6 DEF Config
  <2>. QED
    BY <2>1, UnitReply, NothingMoves
<1>7. ASSUME Online
      PROVE  Places'
  <2>1. /\ pc[Unit] = "online" /\ list' = list /\ events' = events
        /\ Reply(hand[Unit]) \/ (app' = app /\ hand' = hand)
    BY <1>7 DEF Online
  <2>. QED
    BY <2>1, UnitReply, NothingMoves
<1>8. ASSUME OnlineEvent
      PROVE  Places'
  <2>1. PICK S \in SUBSET events : S = Waiting("ONLINE")
    BY DEF Waiting
  <2>. QED
    BY <1>8, <2>1, UnitReplies DEF OnlineEvent
<1>9. ASSUME Offline
      PROVE  Places'
  <2>1. /\ pc[Unit] = "offline" /\ list' = list /\ events' = events
        /\ Reply(hand[Unit]) \/ (app' = app /\ hand' = hand)
    BY <1>9 DEF Offline
  <2>. QED
    BY <2>1, UnitReply, NothingMoves
<1>10. ASSUME OfflineEvent
      PROVE  Places'
  <2>1. PICK E \in SUBSET events : E = Waiting("OFFLINE")
    BY DEF Waiting
  <2>2. PICK L \in SUBSET ListName : L = {}
    OBVIOUS
  <2>3. /\ E = E \cup UNION {ToSet(list[n]) : n \in L}
        /\ list' = [n \in ListName |-> IF n \in L THEN <<>> ELSE list[n]]
    BY <1>10, <2>2 DEF OfflineEvent, ListsOK
  <2>. QED
    BY <1>10, <2>1, <2>3, Replied DEF OfflineEvent
<1>11. ASSUME FlushReads
      PROVE  Places'
  <2>1. PICK E \in SUBSET events : E = {}
    OBVIOUS
  <2>2. PICK L \in SUBSET ListName : L = Client
    OBVIOUS
  <2>3. PICK S : S = UNION {ToSet(list[c]) : c \in Client}
    OBVIOUS
  <2>4. /\ S = E \cup UNION {ToSet(list[n]) : n \in L}
        /\ TermIO(S) /\ events' = events \ E /\ hand' = hand
        /\ list' = [n \in ListName |-> IF n \in L THEN <<>> ELSE list[n]]
    BY <1>11, <2>1, <2>2, <2>3 DEF FlushReads
  <2>. QED
    BY <2>4, Replied
<1>12. ASSUME OfflineNic
      PROVE  Places'
  BY <1>12, UnitReply DEF OfflineNic
<1>13. ASSUME FlushRest
      PROVE  Places'
  <2>1. /\ pc[Unit] \in {"flushRest", "offlineRest"}
        /\ list' = [list EXCEPT !["eu_Tx"] = <<>>]
        /\ events' = events \ Flushed
    BY <1>13 DEF FlushRest
  <2>2. hand[Unit] \in Request
    BY <2>1
  <2>3. CASE TermIO(Flushed) /\ hand' = hand
    <3>1. PICK E \in SUBSET events : E = events
      OBVIOUS
    <3>2. PICK L \in SUBSET ListName : L = {"eu_Tx"}
      <4>1. {"eu_Tx"} \in SUBSET ListName
        OBVIOUS
      <4>. QED
        BY <4>1
    <3>3. PICK S : S = Flushed
      OBVIOUS
    <3>4. S = E \cup UNION {ToSet(list[n]) : n \in L}
      <4>1. UNION {ToSet(list[n]) : n \in {"eu_Tx"}} = ToSet(list["eu_Tx"])
        OBVIOUS
      <4>. QED
        BY <3>1, <3>2, <3>3, <4>1 DEF Flushed
    <3>5. TermIO(S) /\ events' = events \ E
      BY <2>1, <2>3, <3>1, <3>3 DEF Flushed
    <3>6. list' = [n \in ListName |-> IF n \in L THEN <<>> ELSE list[n]]
      BY <2>1, <3>2 DEF ListsOK
    <3>. QED
      BY <2>3, <3>4, <3>5, <3>6, Replied
  <2>4. CASE TermIO(Flushed \cup {hand[Unit]}) /\ Drop(Unit)
    <3>1. PICK q \in Request : q = hand[Unit]
      BY <2>2
    <3>2. /\ OnList(q) = {} /\ InHand(q) = {Unit} /\ q \notin app /\ q \notin events
          /\ ~quick[q]
      BY <2>1, <3>1
    <3>3. \A r \in Flushed \cup {q} : ~quick[r] /\ r \in Request
      BY <3>2 DEF Flushed, PlaceTypes
    <3>4. app' = app \cup (Flushed \cup {q})
      BY <2>4, <3>1, <3>3, TermIOFacts
    <3>5. PICK L \in SUBSET ListName : L = {"eu_Tx"}
      <4>1. {"eu_Tx"} \in SUBSET ListName
        OBVIOUS
      <4>. QED
        BY <4>1
    <3>6. list' = [n \in ListName |-> IF n \in L THEN <<>> ELSE list[n]]
      BY <2>1, <3>5 DEF ListsOK
    <3>7. ListsOK' /\ \A x \in Request : OnList(x)' = OnList(x) \ L
      BY <3>6, EmptyFacts
    <3>8. /\ hand' \in [Task -> Request \cup {NoRequest}]
          /\ \A x \in Request : InHand(x)' = InHand(x) \ {Unit}
      BY <2>4, DropFacts
    <3>9. ASSUME NEW x \in Request
          PROVE  One(x)'
      <4>1. CASE x = q
        BY <2>1, <3>2, <3>4, <3>7, <3>8, <4>1 DEF One
      <4>2. CASE x # q /\ x \in ToSet(list["eu_Tx"])
        <5>1. OnList(x) = {"eu_Tx"} /\ InHand(x) = {} /\ x \notin events /\ x \in Flushed
          BY <4>2 DEF Flushed
        <5>. QED
          BY <2>1, <3>4, <3>5, <3>7, <3>8, <5>1 DEF One
      <4>3. CASE x # q /\ x \in events
        <5>1. x \in Flushed
          BY <4>3 DEF Flushed
        <5>. QED
          BY <2>1, <3>4, <3>7, <3>8, <4>3, <5>1 DEF One
      <4>4. CASE x # q /\ x \notin events /\ x \notin ToSet(list["eu_Tx"])
        <5>1. x \notin Flushed
          BY <4>4 DEF Flushed
        <5>2. Unit \notin InHand(x)
          BY <3>1, <4>4 DEF InHand
        <5>3. OnList(x)' = OnList(x)
          BY <3>5, <3>7, <4>4 DEF OnList
        <5>. QED
          BY <2>1, <3>4, <3>8, <4>4, <5>1, <5>2, <5>3 DEF Places, OnePlace, One
      <4>. QED
        BY <4>1, <4>2, <4>3, <4>4
    <3>. QED
      BY <2>1, <3>3, <3>4, <3>7, <3>8, <3>9 DEF Places, OnePlace, PlaceTypes, ListsOK
  <2>. QED
    BY <1>13, <2>3, <2>4 DEF FlushRest
<1>. QED
  BY <1>1, <1>2, <1>3, <1>4, <1>5, <1>6, <1>7, <1>8, <1>9, <1>10, <1>11, <1>12,
     <1>13 DEF UnitStep

\* The receive callback gives back the reads T it took off their lists and the
\* events E it woke.
LEMMA Received ==
  ASSUME IInv, NEW T, NEW E \in SUBSET events,
         \A x \in T : \E n \in ListName : x \in ToSet(list[n]),
         TermIO(T \cup E), events' = events \ E, ListsOK',
         \A x \in Request : OnList(x)' = IF x \in T THEN {} ELSE OnList(x),
         hand' = hand
  PROVE  Places'
<1>. USE Given, NamesDistinct, PlaceFacts
<1>1. \A x \in T \cup E : ~quick[x] /\ x \in Request
  BY DEF PlaceTypes
<1>2. app' = app \cup (T \cup E)
  BY <1>1, TermIOFacts
<1>3. \A x \in Request : InHand(x)' = InHand(x)
  BY SameFacts
<1>4. ASSUME NEW x \in Request
      PROVE  One(x)'
  <2>1. CASE x \in E
    BY <1>2, <1>3, <2>1 DEF One
  <2>2. CASE x \in T
    <3>1. InHand(x) = {} /\ x \notin app /\ x \notin events
      BY <2>2
    <3>. QED
      BY <1>2, <1>3, <2>2, <3>1 DEF One
  <2>3. CASE x \notin E /\ x \notin T
    BY <1>2, <1>3, <2>3 DEF Places, OnePlace, One
  <2>. QED
    BY <2>1, <2>2, <2>3
<1>. QED
  BY <1>1, <1>2, <1>4 DEF Places, OnePlace, PlaceTypes, ListsOK

\* The events fulfillReadIORequest wakes.
LEMMA FulfillMoves ==
  ASSUME NEW offered, NEW taken, NEW failed, NEW d,
         Fulfill(offered, taken, failed, d)
  PROVE  \E E \in SUBSET events : TermIO(taken \cup E) /\ events' = events \ E
<1>1. (IF failed = {} THEN {} ELSE Waiting("BUFF")) \in SUBSET events
  BY DEF Waiting
<1>. QED
  BY <1>1 DEF Fulfill

\* The orphan reader that is offered a frame.
LEMMA PlacesReceiveOrphan ==
  ASSUME IInv, ReceiveOrphan
  PROVE  Places'
<1>. USE Given, NamesDistinct
<1>1. hand' = hand
  BY DEF ReceiveOrphan
<1>2. CASE list["eu_ReadOrphan"] = <<>>
  <2>1. app' = app /\ events' = events /\ list' = list
    BY <1>2 DEF ReceiveOrphan
  <2>. QED
    BY <1>1, <2>1, NothingMoves
<1>3. CASE list["eu_ReadOrphan"] # <<>>
  <2>1. PICK q : q = Head(list["eu_ReadOrphan"])
    OBVIOUS
  <2>2. PICK v \in Verdict :
          /\ list' = IF v = "rejected" THEN list
                     ELSE [list EXCEPT !["eu_ReadOrphan"] = Tail(@)]
          /\ Fulfill({Head(list["eu_ReadOrphan"])},
                     IF v = "rejected" THEN {} ELSE {Head(list["eu_ReadOrphan"])},
                     IF v = "failed" THEN {Head(list["eu_ReadOrphan"])} ELSE {},
                     frame.kind)
    BY <1>3, Zenon DEF ReceiveOrphan
  <2>3. CASE v = "rejected"
    <3>1. PICK T : T = {}
      OBVIOUS
    <3>2. PICK E \in SUBSET events : TermIO(T \cup E) /\ events' = events \ E
      BY <2>2, <2>3, <3>1, FulfillMoves
    <3>3. ListsOK' /\ \A x \in Request : OnList(x)' = OnList(x)
      BY <2>2, <2>3, SameFacts
    <3>4. /\ \A x \in T : \E n \in ListName : x \in ToSet(list[n])
          /\ \A x \in Request : OnList(x)' = IF x \in T THEN {} ELSE OnList(x)
      BY <3>1, <3>3
    <3>. QED
      BY <1>1, <3>2, <3>3, <3>4, Received
  <2>4. CASE v # "rejected"
    <3>1. PICK T : T = {q}
      OBVIOUS
    <3>2. PICK E \in SUBSET events : TermIO(T \cup E) /\ events' = events \ E
      BY <2>1, <2>2, <2>4, <3>1, FulfillMoves
    <3>3. /\ ListsOK' /\ q \in ToSet(list["eu_ReadOrphan"])
          /\ \A x \in Request :
               OnList(x)' = IF x = q THEN OnList(x) \ {"eu_ReadOrphan"} ELSE OnList(x)
      BY <1>3, <2>1, <2>2, <2>4, PopFacts
    <3>4. OnList(q) = {"eu_ReadOrphan"}
      BY <3>3, PlaceFacts
    <3>5. /\ \A x \in T : \E n \in ListName : x \in ToSet(list[n])
          /\ \A x \in Request : OnList(x)' = IF x \in T THEN {} ELSE OnList(x)
      BY <3>1, <3>3, <3>4
    <3>. QED
      BY <1>1, <3>2, <3>3, <3>5, Received
  <2>. QED
    BY <2>3, <2>4
<1>. QED
  BY <1>2, <1>3

\* The search for a read that fits the frame finds one if there is one.
LEMMA FirstIsMatching ==
  ASSUME ListsOK, NEW c \in Client, NEW p, Matching(c, p) # {}
  PROVE  First(c, p) \in DOMAIN list[c]
<1>1. Matching(c, p) \in SUBSET Nat /\ Matching(c, p) \subseteq DOMAIN list[c]
  BY NamesDistinct DEF Matching, ListsOK
<1>2. \E i \in Matching(c, p) : \A j \in Matching(c, p) : i <= j
  BY <1>1, FirstExists
<1>3. First(c, p) \in Matching(c, p)
  BY <1>2 DEF First
<1>. QED
  BY <1>1, <1>3

\* The openers that are offered a frame.
LEMMA PlacesReceive ==
  ASSUME IInv, NEW p \in PacketType, NEW d \in FrameKind, Receive(p, d)
  PROVE  Places'
<1>. USE Given, NamesDistinct
<1>. DEFINE asked == {c \in Client : Matching(c, p) # {}}
            offer == [c \in asked |-> list[c][First(c, p)]]
            takes(verdict) == {c \in asked : verdict[c] # "rejected"}
<1>1. PICK verdict \in [asked -> Verdict] :
        /\ list' = [n \in ListName |-> IF n \in takes(verdict)
                      THEN RemoveAt(list[n], First(n, p)) ELSE list[n]]
        /\ Fulfill({offer[c] : c \in asked}, {offer[c] : c \in takes(verdict)},
                   {offer[c] : c \in {x \in asked : verdict[x] = "failed"}}, d)
  BY Zenon DEF Receive
<1>2. PICK S \in SUBSET ListName : S = takes(verdict)
  OBVIOUS
<1>3. PICK at : at = [n \in asked |-> First(n, p)]
  OBVIOUS
<1>4. S \subseteq asked /\ \A n \in S : at[n] \in DOMAIN list[n] /\ at[n] = First(n, p)
  BY <1>2, <1>3, FirstIsMatching
<1>5. list' = [n \in ListName |-> IF n \in S THEN RemoveAt(list[n], at[n])
                                             ELSE list[n]]
  BY <1>1, <1>2, <1>4
<1>6. PICK T : T = {offer[c] : c \in S}
  OBVIOUS
<1>7. \A x : x \in T <=> \E n \in S : x = list[n][at[n]]
  <2>1. \A n \in S : offer[n] = list[n][at[n]]
    BY <1>4
  <2>. HIDE DEF offer
  <2>. QED
    BY <1>6, <2>1
<1>8. PICK E \in SUBSET events : TermIO(T \cup E) /\ events' = events \ E
  BY <1>1, <1>2, <1>6, FulfillMoves
<1>9. hand' = hand
  BY DEF Receive
<1>. HIDE DEF asked, offer, takes
<1>10. /\ ListsOK'
       /\ \A n \in S : list[n][at[n]] \in ToSet(list[n])
       /\ \A x \in Request :
            OnList(x)' = OnList(x) \ {n \in S : x = list[n][at[n]]}
  <2>1. ListsOK /\ S \in SUBSET ListName
    OBVIOUS
  <2>. QED
    BY ONLY <1>4, <1>5, <2>1, RemoveEachFacts
<1>11. \A x \in T : \E n \in ListName : x \in ToSet(list[n])
  BY <1>7, <1>10
<1>12. ASSUME NEW x \in Request
       PROVE  OnList(x)' = IF x \in T THEN {} ELSE OnList(x)
  <2>1. CASE x \in T
    <3>1. PICK n \in S : x = list[n][at[n]]
      BY <1>7, <2>1
    <3>2. OnList(x) = {n}
      BY <1>10, <3>1, PlaceFacts
    <3>. QED
      BY <1>10, <2>1, <3>1, <3>2
  <2>2. CASE x \notin T
    <3>1. {n \in S : x = list[n][at[n]]} = {}
      BY <1>7, <2>2
    <3>. QED
      BY <1>10, <2>2, <3>1
  <2>. QED
    BY <2>1, <2>2
<1>. QED
  BY <1>8, <1>9, <1>10, <1>11, <1>12, Received

\* No step puts a request in two places or loses it.
LEMMA PlacesStep ==
  ASSUME IInv, PoliteOpeners, Next
  PROVE  Places'
<1>1. ASSUME NEW c \in Client, ClientNext(c)
      PROVE  Places'
  BY <1>1, PlacesClientStep
<1>2. CASE ReceiveOrphan
  BY <1>2, PlacesReceiveOrphan
<1>3. CASE (UnitStep \/ WakeUp) /\ ~ReceiveOrphan
  BY <1>3, PlacesUnitStep
<1>4. ASSUME NEW p \in PacketType, NEW d \in FrameKind, Receive(p, d)
      PROVE  Places'
  BY <1>4, PlacesReceive
<1>. QED
  BY <1>1, <1>2, <1>3, <1>4 DEF Next, UnitNext

\* Who has a request in hand is told by where he is in the code.
LEMMA HandInvStep ==
  ASSUME IInv, Next
  PROVE  HandInv'
<1>. USE Given, NamesDistinct, PlaceFacts DEF HandInv, Goto, Take, Drop, Reply,
         BackFromBeginIO
<1>. /\ pc \in [Task -> ClientLabel \cup UnitLabel]
     /\ hand \in [Task -> Request \cup {NoRequest}]
     /\ cmd \in [Request -> Command \cup {"none"}]
  BY DEF IInv, TypeOK, ControlTypes, PlaceTypes, RequestTypes
<1>1. ASSUME NEW c \in Client, ClientNext(c)
      PROVE  HandInv'
  <2>1. ASSUME NEW r \in Request, NEW cd \in Command, BeginPort(c, r, cd)
        PROVE  HandInv'
    BY <2>1 DEF BeginPort
  <2>2. ASSUME NEW r \in Request, NEW cd \in Command, BeginNow(c, r, cd)
        PROVE  HandInv'
    <3>1. NextLabel(cd) \in {"read", "orphan", "put"}
      BY DEF NextLabel
    <3>2. /\ r # NoRequest
          /\ \/ pc' = [pc EXCEPT ![c] = NextLabel(cd)] /\ hand' = [hand EXCEPT ![c] = r]
             \/ pc' = pc /\ hand' = hand
      BY <2>2 DEF BeginNow, ReplyUnlessQuick
    <3>. QED
      BY <3>1, <3>2
  <2>3. CASE ReadQueue(c)
    BY <2>3 DEF ReadQueue
  <2>4. CASE OrphanQueue(c)
    BY <2>4 DEF OrphanQueue
  <2>5. CASE ReadBadArgument(c)
    BY <2>5 DEF ReadBadArgument
  <2>6. CASE WriteTooLong(c)
    BY <2>6 DEF WriteTooLong
  <2>7. CASE WritePut(c)
    BY <2>7 DEF WritePut
  <2>8. CASE SendGet(c)
    <3>1. list["eu_Tx"] # <<>> => Head(list["eu_Tx"]) # NoRequest
      BY TailFacts DEF ListsOK
    <3>. QED
      BY <2>8, <3>1 DEF SendGet, NothingToSend
  <2>9. CASE SendDone(c)
    BY <2>9 DEF SendDone
  <2>10. ASSUME NEW r \in Request, AbortIO(c, r)
         PROVE  HandInv'
    BY <2>10 DEF AbortIO
  <2>. QED
    BY <1>1, <2>1, <2>2, <2>3, <2>4, <2>5, <2>6, <2>7, <2>8, <2>9, <2>10
       DEF ClientNext, ClientStep
<1>2. ASSUME NEW p \in PacketType, NEW d \in FrameKind, Receive(p, d)
      PROVE  HandInv'
  <2>1. /\ pc[Unit] = "wait" /\ hand' = hand
        /\ pc' = pc \/ pc' = [pc EXCEPT ![Unit] = "orphans"]
    BY <1>2 DEF Receive
  <2>. QED
    BY <2>1
<1>3. CASE WakeUp
  BY <1>3 DEF WakeUp
<1>4. CASE Drained
  BY <1>4 DEF Drained
<1>5. CASE GetMsg
  <2>1. Head(list["unitPort"]) \in ToSet(list["unitPort"])
    BY <1>5, TailFacts DEF GetMsg, ListsOK
  <2>2. Head(list["unitPort"]) \in Request
    BY <2>1
  <2>3. cmd[Head(list["unitPort"])] \in PortCommand
    BY <2>1 DEF IInv, PortInv
  <2>. QED
    BY <1>5, <2>2, <2>3 DEF GetMsg, PortCommand
<1>6. CASE Query
  BY <1>6 DEF Query
<1>7. CASE OnEvent
  BY <1>7 DEF OnEvent
<1>8. CASE Config
  BY <1>8 DEF Config
<1>9. CASE Online
  BY <1>9 DEF Online
<1>10. CASE OnlineEvent
  BY <1>10 DEF OnlineEvent
<1>11. CASE Offline
  BY <1>11 DEF Offline
<1>12. CASE OfflineEvent
  BY <1>12 DEF OfflineEvent
<1>13. CASE FlushReads
  BY <1>13 DEF FlushReads
<1>14. CASE FlushRest
  BY <1>14 DEF FlushRest
<1>15. CASE OfflineNic
  BY <1>15 DEF OfflineNic
<1>16. CASE ReceiveOrphan
  BY <1>16 DEF ReceiveOrphan
<1>. QED
  BY <1>1, <1>2, <1>3, <1>4, <1>5, <1>6, <1>7, <1>8, <1>9, <1>10, <1>11,
     <1>12, <1>13, <1>14, <1>15, <1>16 DEF Next, UnitNext, UnitStep

\* Only commands for the unit process are on its port.
LEMMA PortInvStep ==
  ASSUME IInv, Next
  PROVE  PortInv'
<1>. USE Given, NamesDistinct, PlaceFacts
<1>. cmd \in [Request -> Command \cup {"none"}]
  BY DEF IInv, TypeOK, RequestTypes
<1>1. \A x \in Request : "unitPort" \in OnList(x) <=> x \in ToSet(list["unitPort"])
  BY DEF OnList
<1>2. \A x \in ToSet(list["unitPort"]) : x \in Request /\ cmd[x] \in PortCommand
  BY DEF IInv, PortInv
<1>3. ASSUME cmd' = cmd, ToSet(list'["unitPort"]) \subseteq ToSet(list["unitPort"])
      PROVE  PortInv'
  BY <1>2, <1>3 DEF PortInv
<1>4. ASSUME cmd' = cmd, list'["unitPort"] = list["unitPort"]
      PROVE  PortInv'
  BY <1>3, <1>4
<1>5. ASSUME NEW c \in Client, ClientNext(c)
      PROVE  PortInv'
  <2>1. ASSUME NEW r \in Request, NEW cd \in Command, BeginPort(c, r, cd)
        PROVE  PortInv'
    <3>1. /\ r \in app /\ cd \in PortCommand /\ cmd' = [cmd EXCEPT ![r] = cd]
          /\ list' = [list EXCEPT !["unitPort"] = Append(@, r)]
      BY <2>1 DEF BeginPort, Submit, Push
    <3>2. ToSet(list'["unitPort"]) = ToSet(list["unitPort"]) \cup {r}
      BY <3>1, AppendFacts DEF ListsOK
    <3>. QED
      BY <1>2, <3>1, <3>2 DEF PortInv
  <2>2. ASSUME NEW r \in Request, NEW cd \in Command, BeginNow(c, r, cd)
        PROVE  PortInv'
    <3>1. r \in app /\ cmd' = [cmd EXCEPT ![r] = cd] /\ list' = list
      BY <2>2 DEF BeginNow, ReplyUnlessQuick, Submit
    <3>. QED
      BY <1>2, <3>1 DEF PortInv
  <2>3. CASE ReadQueue(c)
    BY <1>4, <2>3 DEF ReadQueue, Push
  <2>4. CASE OrphanQueue(c)
    BY <1>4, <2>4 DEF OrphanQueue, Push
  <2>5. CASE ReadBadArgument(c)
    BY <1>4, <2>5 DEF ReadBadArgument
  <2>6. CASE WriteTooLong(c)
    BY <1>4, <2>6 DEF WriteTooLong
  <2>7. CASE WritePut(c)
    BY <1>4, <2>7 DEF WritePut, Push
  <2>8. CASE SendGet(c)
    <3>1. /\ cmd' = cmd
          /\ list' = list \/ list' = [list EXCEPT !["eu_Tx"] = Tail(@)]
      BY <2>8 DEF SendGet, reqVars
    <3>. QED
      BY <1>4, <3>1 DEF ListsOK
  <2>9. CASE SendDone(c)
    BY <1>4, <2>9 DEF SendDone
  <2>10. ASSUME NEW r \in Request, AbortIO(c, r)
         PROVE  PortInv'
    <3>1. \A n \in AbortList(r) : n # "unitPort"
      BY UnitAssumption DEF AbortList
    <3>2. cmd' = cmd
      BY <2>10 DEF AbortIO
    <3>3. list'["unitPort"] = list["unitPort"]
      <4>1. \/ list' = list
            \/ \E n \in AbortList(r) : \E i \in DOMAIN list[n] :
                 list' = [list EXCEPT ![n] = RemoveAt(@, i)]
        BY <2>10, Zenon DEF AbortIO, Unlinked
      <4>. QED
        BY <3>1, <4>1 DEF ListsOK
    <3>. QED
      BY <1>4, <3>2, <3>3
  <2>. QED
    BY <1>5, <2>1, <2>2, <2>3, <2>4, <2>5, <2>6, <2>7, <2>8, <2>9, <2>10
       DEF ClientNext, ClientStep
<1>6. ASSUME NEW p \in PacketType, NEW d \in FrameKind, Receive(p, d)
      PROVE  PortInv'
  <2>. DEFINE asked == {c \in Client : Matching(c, p) # {}}
              takes(verdict) == {c \in asked : verdict[c] # "rejected"}
  <2>1. PICK verdict \in [asked -> Verdict] :
          list' = [n \in ListName |-> IF n \in takes(verdict)
                     THEN RemoveAt(list[n], First(n, p)) ELSE list[n]]
    BY <1>6, Zenon DEF Receive
  <2>2. "unitPort" \notin takes(verdict)
    OBVIOUS
  <2>. HIDE DEF takes
  <2>. QED
    BY <1>4, <1>6, <2>1, <2>2 DEF Receive
<1>7. CASE GetMsg
  <2>1. ToSet(list'["unitPort"]) \subseteq ToSet(list["unitPort"])
    BY <1>7, TailFacts DEF GetMsg, ListsOK
  <2>. QED
    BY <1>3, <1>7, <2>1 DEF GetMsg
<1>8. CASE FlushReads
  BY <1>4, <1>8 DEF FlushReads
<1>9. CASE FlushRest
  BY <1>4, <1>9 DEF FlushRest
<1>10. CASE ReceiveOrphan
  <2>1. cmd' = cmd
    BY <1>10 DEF ReceiveOrphan
  <2>2. list' = list \/ list' = [list EXCEPT !["eu_ReadOrphan"] = Tail(@)]
    BY <1>10 DEF ReceiveOrphan
  <2>. QED
    BY <1>4, <2>1, <2>2 DEF ListsOK
<1>11. CASE WakeUp \/ Drained \/ Query \/ OnEvent \/ Config \/ Online
            \/ OnlineEvent \/ Offline \/ OfflineEvent \/ OfflineNic
  <2>1. cmd' = cmd /\ list' = list
    BY <1>11 DEF WakeUp, Drained, Query, OnEvent, Config, Online, OnlineEvent,
                 Offline, OfflineEvent, OfflineNic, reqVars
  <2>. QED
    BY <1>4, <2>1
<1>. QED
  BY <1>5, <1>6, <1>7, <1>8, <1>9, <1>10, <1>11 DEF Next, UnitNext, UnitStep

\* IOF_QUICK is set only while an opener has the request or is about to clear
\* the flag.
LEMMA QuickInvStep ==
  ASSUME IInv, PoliteOpeners, Next
  PROVE  QuickInv'
<1>. USE Given, NamesDistinct, PlaceFacts DEF Goto, Take, Drop
<1>. /\ pc \in [Task -> ClientLabel \cup UnitLabel]
     /\ hand \in [Task -> Request \cup {NoRequest}]
     /\ quick \in [Request -> BOOLEAN]
     /\ pc[Unit] # "put"
     /\ QuickInv
  BY DEF IInv, TypeOK, ControlTypes, PlaceTypes, RequestTypes, UnitLabel, PortCommand
<1>1. ASSUME NEW r \in app, app' = app \ {r}, quick' = [quick EXCEPT ![r] = FALSE],
             pc' = pc, hand' = hand
      PROVE  QuickInv'
  BY <1>1 DEF QuickInv
<1>2. ASSUME NEW t \in Task, app \subseteq app', quick' = quick,
             pc[t] = "put" => quick[hand[t]] = FALSE \/ hand[t] \in app',
             \A u \in Task \ {t} : pc'[u] = pc[u] /\ hand'[u] = hand[u]
      PROVE  QuickInv'
  BY <1>2 DEF QuickInv
<1>3. ASSUME NEW c \in Client, ClientNext(c)
      PROVE  QuickInv'
  <2>1. ASSUME NEW r \in Request, NEW cd \in Command, BeginPort(c, r, cd)
        PROVE  QuickInv'
    BY <1>1, <2>1 DEF BeginPort, Submit
  <2>2. ASSUME NEW r \in Request, NEW cd \in Command, BeginNow(c, r, cd)
        PROVE  QuickInv'
    <3>1. /\ r \in app /\ cd \in Command /\ pc[c] = "idle"
          /\ \E q \in BOOLEAN : /\ q => cd \in QuickCommand
                                /\ quick' = [quick EXCEPT ![r] = q]
          /\ \/ /\ app' = app \ {r}
                /\ pc' = [pc EXCEPT ![c] = NextLabel(cd)]
                /\ hand' = [hand EXCEPT ![c] = r]
             \/ app' = app /\ pc' = pc /\ hand' = hand
      BY <2>2 DEF BeginNow, ReplyUnlessQuick, Submit
    <3>2. cd \in QuickCommand => NextLabel(cd) = "put"
      BY DEF PoliteOpeners, NextLabel
    <3>. QED
      BY <3>1, <3>2 DEF QuickInv
  <2>3. CASE WritePut(c)
    <3>1. /\ hand[c] \in Request /\ app' = app
          /\ quick' = [quick EXCEPT ![hand[c]] = FALSE]
          /\ \A t \in Task \ {c} : pc'[t] = pc[t] /\ hand'[t] = hand[t]
      BY <2>3 DEF WritePut
    <3>. QED
      BY <3>1 DEF QuickInv
  <2>4. CASE ReadQueue(c)
    BY <1>2, <2>4 DEF ReadQueue, BackFromBeginIO
  <2>5. CASE OrphanQueue(c)
    BY <1>2, <2>5 DEF OrphanQueue, BackFromBeginIO
  <2>6. CASE ReadBadArgument(c)
    BY <1>2, <2>6 DEF ReadBadArgument
  <2>7. CASE WriteTooLong(c)
    BY <1>2, <2>7 DEF WriteTooLong
  <2>8. CASE SendGet(c)
    <3>1. /\ app' = app /\ quick' = quick /\ pc[c] = "send"
          /\ \A t \in Task \ {c} : pc'[t] = pc[t] /\ hand'[t] = hand[t]
      BY <2>8 DEF SendGet, reqVars
    <3>. QED
      BY <1>2, <3>1
  <2>9. CASE SendDone(c)
    BY <1>2, <2>9 DEF SendDone, TermIO
  <2>10. ASSUME NEW r \in Request, AbortIO(c, r)
         PROVE  QuickInv'
    <3>1. app \subseteq app' /\ quick' = quick /\ pc' = pc /\ hand' = hand /\ pc[c] = "idle"
      BY <2>10 DEF AbortIO, TermIO
    <3>. QED
      BY <1>2, <3>1
  <2>. QED
    BY <1>3, <2>1, <2>2, <2>3, <2>4, <2>5, <2>6, <2>7, <2>8, <2>9, <2>10
       DEF ClientNext, ClientStep
<1>4. ASSUME UnitNext
      PROVE  QuickInv'
  <2>1. ASSUME NEW p \in PacketType, NEW d \in FrameKind, Receive(p, d)
        PROVE  app \subseteq app' /\ quick' = quick /\ hand' = hand
               /\ \A u \in Task \ {Unit} : pc'[u] = pc[u]
    <3>1. \E offered, taken, failed : Fulfill(offered, taken, failed, d)
      BY <2>1, Zenon DEF Receive
    <3>2. app \subseteq app'
      BY <3>1 DEF Fulfill, TermIO
    <3>3. /\ quick' = quick /\ hand' = hand
          /\ pc' = pc \/ pc' = [pc EXCEPT ![Unit] = "orphans"]
      BY <2>1 DEF Receive
    <3>. QED
      BY <3>2, <3>3
  <2>2. ASSUME UnitStep \/ WakeUp
        PROVE  /\ app \subseteq app' /\ quick' = quick
               /\ \A u \in Task \ {Unit} : pc'[u] = pc[u] /\ hand'[u] = hand[u]
    <3>1. CASE WakeUp \/ Drained \/ GetMsg \/ Query
      BY <3>1 DEF WakeUp, Drained, GetMsg, Query, Reply, TermIO, reqVars
    <3>2. CASE OnEvent \/ Config \/ Online \/ OnlineEvent
      BY <3>2 DEF OnEvent, Config, Online, OnlineEvent, Reply, TermIO
    <3>3. CASE Offline \/ OfflineEvent \/ FlushReads \/ FlushRest \/ OfflineNic
      BY <3>3 DEF Offline, OfflineEvent, FlushReads, FlushRest, OfflineNic, Reply,
                  TermIO
    <3>4. CASE ReceiveOrphan
      BY <3>4 DEF ReceiveOrphan, Fulfill, TermIO
    <3>. QED
      BY <2>2, <3>1, <3>2, <3>3, <3>4 DEF UnitStep
  <2>. QED
    BY <1>2, <1>4, <2>1, <2>2 DEF UnitNext
<1>. QED
  BY <1>3, <1>4 DEF Next

\* The fields of the requests keep their types.
LEMMA RequestTypesStep ==
  ASSUME IInv, Next
  PROVE  RequestTypes'
<1>. USE NamesDistinct DEF IInv, TypeOK, RequestTypes, PlaceTypes, HandInv,
            Update, DstKind
<1>1. ASSUME NEW c \in Client, NEW r \in Request, NEW cd \in Command,
             BeginPort(c, r, cd)
      PROVE  RequestTypes'
  <2>1. WireAtStart(r) \in WireValue
    BY FieldFacts DEF WireAtStart
  <2>2. PICK mask \in IF cd = "onevent" THEN EventMask ELSE {WireAtStart(r)} :
          wire' = [wire EXCEPT ![r] = mask]
    BY <1>1 DEF BeginPort
  <2>3. mask \in WireValue
    BY <2>1, <2>2, FieldFacts
  <2>. QED
    BY <1>1, <2>2, <2>3 DEF BeginPort, Submit
<1>2. ASSUME NEW c \in Client, NEW r \in Request, NEW cd \in Command,
             BeginNow(c, r, cd)
      PROVE  RequestTypes'
  <2>1. wire' \in [Request -> WireValue]
    <3>1. WireAtStart(r) \in WireValue
      BY FieldFacts DEF WireAtStart
    <3>2. \/ wire' = [wire EXCEPT ![r] = WireAtStart(r)]
          \/ wire' = [wire EXCEPT ![r] = {"ERR"}]
      BY <1>2 DEF BeginNow
    <3>. QED
      BY <3>1, <3>2, FieldFacts
  <2>2. err' \in [Request -> ErrorCode]
    <3>1. \/ err' = [err EXCEPT ![r] = "ok"]
          \/ err' = [err EXCEPT ![r] = "offline"]
      BY <1>2 DEF BeginNow
    <3>. QED
      BY <3>1, FieldFacts, SetField DEF RequestTypes
  <2>3. /\ quick' \in [Request -> BOOLEAN]
        /\ lnType' \in [Request -> {"message", "reply"}]
    BY <1>2 DEF BeginNow, ReplyUnlessQuick
  <2>4. ptype' \in [Request -> PacketType]
    BY <1>2 DEF BeginNow
  <2>. QED
    BY <1>2, <2>1, <2>2, <2>3, <2>4 DEF BeginNow, Submit
<1>3. ASSUME NEW c \in Client, ReadQueue(c)
      PROVE  RequestTypes'
  BY <1>3, FieldFacts, TailFacts DEF ReadQueue, BackFromBeginIO
<1>4. ASSUME NEW c \in Client, ReadBadArgument(c)
      PROVE  RequestTypes'
  BY <1>4, FieldFacts, TailFacts DEF ReadBadArgument
<1>5. ASSUME NEW c \in Client, OrphanQueue(c)
      PROVE  RequestTypes'
  BY <1>5, FieldFacts, TailFacts DEF OrphanQueue, BackFromBeginIO
<1>6. ASSUME NEW c \in Client, WriteTooLong(c)
      PROVE  RequestTypes'
  BY <1>6, FieldFacts, TailFacts DEF WriteTooLong, Waiting
<1>7. ASSUME NEW c \in Client, WritePut(c)
      PROVE  RequestTypes'
  BY <1>7, FieldFacts, TailFacts DEF WritePut
<1>8. ASSUME NEW c \in Client, SendGet(c)
      PROVE  RequestTypes'
  BY <1>8, FieldFacts, TailFacts DEF SendGet, reqVars
<1>9. ASSUME NEW c \in Client, SendDone(c)
      PROVE  RequestTypes'
  <2>1. PICK copied \in BOOLEAN :
          LET v == IF copied THEN wire[hand[c]] ELSE {"ERR"}
              up == IF v = {} THEN {} ELSE Waiting("BUFF")
          IN  /\ err' = [Update(err, up, "ok") EXCEPT
                            ![hand[c]] = IF copied THEN @ ELSE "nores"]
              /\ wire' = [Update(wire, up, {"BUFF"}) EXCEPT ![hand[c]] = v]
              /\ TermIO(up \cup {hand[c]})
    BY <1>9, Zenon DEF SendDone
  <2>2. hand[c] \in Request
    BY <1>9 DEF SendDone
  <2>. DEFINE w == IF copied THEN wire[hand[c]] ELSE {"ERR"}
              woken == IF w = {} THEN {} ELSE Waiting("BUFF")
  <2>3. err' \in [Request -> ErrorCode] /\ lnType' \in [Request -> {"message", "reply"}]
    BY <2>1, <2>2, TermIOTypes, FieldFacts
  <2>4. wire' \in [Request -> WireValue]
    <3>1. w \in WireValue
      BY <2>2, FieldFacts
    <3>. QED
      BY <2>1, <2>2, <3>1, FieldFacts
  <2>. QED
    BY <1>9, <2>3, <2>4 DEF SendDone
<1>10. ASSUME NEW c \in Client, NEW r \in Request, AbortIO(c, r)
      PROVE  RequestTypes'
  BY <1>10, FieldFacts, TailFacts DEF AbortIO, Aborted, TermIO
<1>11. ASSUME WakeUp
      PROVE  RequestTypes'
  BY <1>11, FieldFacts, TailFacts DEF WakeUp, reqVars
<1>12. ASSUME Drained
      PROVE  RequestTypes'
  BY <1>12, FieldFacts, TailFacts DEF Drained, reqVars
<1>13. ASSUME GetMsg
      PROVE  RequestTypes'
  BY <1>13, FieldFacts, TailFacts DEF GetMsg
<1>14. ASSUME Query
      PROVE  RequestTypes'
  BY <1>14, FieldFacts, TailFacts DEF Query, Reply, TermIO
<1>15. ASSUME OnEvent
      PROVE  RequestTypes'
  <2>1. wire' \in [Request -> WireValue]
    <3>. DEFINE both == wire[hand[Unit]] \cap {"ONLINE", "OFFLINE"}
    <3>1. hand[Unit] \in Request /\ both \in WireValue
      BY <1>15, FieldFacts DEF OnEvent
    <3>2. wire' = wire \/ wire' = [wire EXCEPT ![hand[Unit]] = both]
      BY <1>15 DEF OnEvent
    <3>. QED
      BY <3>1, <3>2
  <2>. QED
    BY <1>15, <2>1 DEF OnEvent, TermIO
<1>16. ASSUME Config
      PROVE  RequestTypes'
  <2>1. hand[Unit] \in Request
    BY <1>16 DEF Config
  <2>2. err' = err \/ err' = [err EXCEPT ![hand[Unit]] = "badstate"]
    BY <1>16 DEF Config
  <2>3. wire' = wire \/ wire' = [wire EXCEPT ![hand[Unit]] = {"ERR"}]
    BY <1>16 DEF Config
  <2>4. lnType' \in [Request -> {"message", "reply"}]
    BY <1>16, TermIOTypes DEF Config, Reply
  <2>5. err' \in [Request -> ErrorCode]
    BY <2>2, FieldFacts, SetField
  <2>6. wire' \in [Request -> WireValue]
    BY <2>1, <2>3, FieldFacts
  <2>. QED
    BY <1>16, <2>4, <2>5, <2>6 DEF Config
<1>17. ASSUME Online
      PROVE  RequestTypes'
  <2>1. hand[Unit] \in Request
    BY <1>17 DEF Online
  <2>2. err' = err \/ err' = [err EXCEPT ![hand[Unit]] = "badstate"]
    BY <1>17 DEF Online
  <2>3. wire' = wire \/ wire' = [wire EXCEPT ![hand[Unit]] = {"ERR"}]
    BY <1>17 DEF Online
  <2>4. lnType' \in [Request -> {"message", "reply"}]
    BY <1>17, TermIOTypes DEF Online, Reply
  <2>5. err' \in [Request -> ErrorCode]
    BY <2>2, FieldFacts, SetField
  <2>6. wire' \in [Request -> WireValue]
    BY <2>1, <2>3, FieldFacts
  <2>. QED
    BY <1>17, <2>4, <2>5, <2>6 DEF Online
<1>18. ASSUME OnlineEvent
      PROVE  RequestTypes'
  BY <1>18, FieldFacts, TailFacts DEF OnlineEvent, Waiting, TermIO
<1>19. ASSUME Offline
      PROVE  RequestTypes'
  BY <1>19, FieldFacts, TailFacts DEF Offline, Reply, TermIO
<1>20. ASSUME OfflineEvent
      PROVE  RequestTypes'
  BY <1>20, FieldFacts, TailFacts DEF OfflineEvent, Waiting, TermIO
<1>21. ASSUME FlushReads
      PROVE  RequestTypes'
  BY <1>21, FieldFacts, TailFacts DEF FlushReads, Aborted, TermIO
<1>22. ASSUME FlushRest
      PROVE  RequestTypes'
  BY <1>22, FieldFacts, TailFacts DEF FlushRest, Flushed, Aborted, TermIO
<1>23. ASSUME OfflineNic
      PROVE  RequestTypes'
  BY <1>23, FieldFacts, TailFacts DEF OfflineNic, Reply, TermIO
<1>24. ASSUME ReceiveOrphan
      PROVE  RequestTypes'
  <2>1. frame.kind \in DstKind \cup {"none"}
    BY DEF ControlTypes
  <2>2. CASE list["eu_ReadOrphan"] = <<>>
    BY <1>24, <2>2 DEF ReceiveOrphan
  <2>3. CASE list["eu_ReadOrphan"] # <<>>
    <3>1. PICK v \in Verdict :
            Fulfill({Head(list["eu_ReadOrphan"])},
                    IF v = "rejected" THEN {} ELSE {Head(list["eu_ReadOrphan"])},
                    IF v = "failed" THEN {Head(list["eu_ReadOrphan"])} ELSE {},
                    frame.kind)
      BY <1>24, <2>3, Zenon DEF ReceiveOrphan
    <3>. QED
      BY <1>24, <2>1, <3>1, FulfillTypes DEF ReceiveOrphan
  <2>. QED
    BY <2>2, <2>3
<1>25. ASSUME NEW p \in PacketType, NEW d \in FrameKind, Receive(p, d)
      PROVE  RequestTypes'
  <2>1. d \in DstKind \cup {"none"}
    BY UnitAssumption
  <2>2. \E offered, taken, failed : Fulfill(offered, taken, failed, d)
    BY <1>25, Zenon DEF Receive
  <2>. QED
    BY <1>25, <2>1, <2>2, FulfillTypes DEF Receive
<1>. QED
  BY <1>1, <1>2, <1>3, <1>4, <1>5, <1>6, <1>7, <1>8, <1>9, <1>10, <1>11,
     <1>12, <1>13, <1>14, <1>15, <1>16, <1>17, <1>18, <1>19, <1>20, <1>21,
     <1>22, <1>23, <1>24, <1>25 DEF Next, ClientNext,
     ClientStep, UnitNext, UnitStep

\* The state of the unit and of the tasks keeps its type.
LEMMA ControlTypesStep ==
  ASSUME IInv, Next
  PROVE  ControlTypes'
<1>. USE NamesDistinct DEF IInv, TypeOK, ControlTypes, ClientLabel, UnitLabel,
            PortCommand
<1>1. ASSUME NEW c \in Client, NEW r \in Request, NEW cd \in Command,
             BeginPort(c, r, cd)
      PROVE  ControlTypes'
  BY <1>1 DEF BeginPort
<1>2. ASSUME NEW c \in Client, NEW r \in Request, NEW cd \in Command,
             BeginNow(c, r, cd)
      PROVE  ControlTypes'
  BY <1>2 DEF BeginNow, ReplyUnlessQuick, Goto, NextLabel
<1>3. ASSUME NEW c \in Client, ReadQueue(c)
      PROVE  ControlTypes'
  BY <1>3 DEF ReadQueue, BackFromBeginIO, Goto
<1>4. ASSUME NEW c \in Client, ReadBadArgument(c)
      PROVE  ControlTypes'
  BY <1>4 DEF ReadBadArgument, Goto
<1>5. ASSUME NEW c \in Client, OrphanQueue(c)
      PROVE  ControlTypes'
  BY <1>5 DEF OrphanQueue, BackFromBeginIO, Goto
<1>6. ASSUME NEW c \in Client, WriteTooLong(c)
      PROVE  ControlTypes'
  BY <1>6 DEF WriteTooLong, Goto
<1>7. ASSUME NEW c \in Client, WritePut(c)
      PROVE  ControlTypes'
  BY <1>7 DEF WritePut, Goto
<1>8. ASSUME NEW c \in Client, SendGet(c)
      PROVE  ControlTypes'
  BY <1>8 DEF SendGet, Goto, reqVars
<1>9. ASSUME NEW c \in Client, SendDone(c)
      PROVE  ControlTypes'
  BY <1>9 DEF SendDone, Goto
<1>10. ASSUME NEW c \in Client, NEW r \in Request, AbortIO(c, r)
      PROVE  ControlTypes'
  BY <1>10 DEF AbortIO
<1>11. ASSUME WakeUp
      PROVE  ControlTypes'
  BY <1>11 DEF WakeUp, Goto, reqVars
<1>12. ASSUME Drained
      PROVE  ControlTypes'
  BY <1>12 DEF Drained, Goto, reqVars
<1>13. ASSUME GetMsg
      PROVE  ControlTypes'
  <2>1. cmd[Head(list["unitPort"])] \in PortCommand
    BY <1>13, TailFacts DEF GetMsg, PortInv, PlaceTypes
  <2>. QED
    BY <1>13, <2>1 DEF GetMsg, Goto
<1>14. ASSUME Query
      PROVE  ControlTypes'
  BY <1>14 DEF Query, Reply, Goto
<1>15. ASSUME OnEvent
      PROVE  ControlTypes'
  BY <1>15 DEF OnEvent, Goto
<1>16. ASSUME Config
      PROVE  ControlTypes'
  BY <1>16 DEF Config, Goto, Reply
<1>17. ASSUME Online
      PROVE  ControlTypes'
  BY <1>17 DEF Online, Reply, Goto
<1>18. ASSUME OnlineEvent
      PROVE  ControlTypes'
  BY <1>18 DEF OnlineEvent, Goto
<1>19. ASSUME Offline
      PROVE  ControlTypes'
  BY <1>19 DEF Offline, Goto, Reply
<1>20. ASSUME OfflineEvent
      PROVE  ControlTypes'
  BY <1>20 DEF OfflineEvent, Goto
<1>21. ASSUME FlushReads
      PROVE  ControlTypes'
  BY <1>21 DEF FlushReads, Goto
<1>22. ASSUME FlushRest
      PROVE  ControlTypes'
  BY <1>22 DEF FlushRest, Goto
<1>23. ASSUME OfflineNic
      PROVE  ControlTypes'
  BY <1>23 DEF OfflineNic, Reply, Goto
<1>24. ASSUME ReceiveOrphan
      PROVE  ControlTypes'
  BY <1>24 DEF ReceiveOrphan, Goto, NoFrame
<1>25. ASSUME NEW p \in PacketType, NEW d \in FrameKind, Receive(p, d)
      PROVE  ControlTypes'
  <2>1. frame' \in [kind : DstKind \cup {"none"}, copiedTo : SUBSET Client]
    <3>1. \/ frame' = frame
          \/ \E S \in SUBSET Client : frame' = [kind |-> d, copiedTo |-> S]
      BY <1>25 DEF Receive
    <3>. QED
      BY <3>1, UnitAssumption
  <2>2. pc' = pc \/ pc' = [pc EXCEPT ![Unit] = "orphans"]
    BY <1>25 DEF Receive, Goto
  <2>. QED
    BY <1>25, <2>1, <2>2 DEF Receive
<1>. QED
  BY <1>1, <1>2, <1>3, <1>4, <1>5, <1>6, <1>7, <1>8, <1>9, <1>10, <1>11,
     <1>12, <1>13, <1>14, <1>15, <1>16, <1>17, <1>18, <1>19, <1>20, <1>21,
     <1>22, <1>23, <1>24, <1>25 DEF Next, ClientNext,
     ClientStep, UnitNext, UnitStep

\* The invariant holds at the start ...
LEMMA InitIInv == Init => IInv
<1>. SUFFICES ASSUME Init
              PROVE  IInv
  OBVIOUS
<1>. USE NamesDistinct DEF Init
<1>1. RequestTypes
  <2>1. (CHOOSE p \in PacketType : TRUE) \in PacketType
    BY UnitAssumption
  <2>. QED
    BY <2>1, FieldFacts DEF RequestTypes
<1>2. PlaceTypes
  <2>1. <<>> \in Seq(Request)
    OBVIOUS
  <2>. QED
    BY <2>1 DEF PlaceTypes
<1>3. ControlTypes
  <2>1. frame \in [kind : DstKind \cup {"none"}, copiedTo : SUBSET Client]
    BY DEF NoFrame
  <2>. QED
    BY <2>1 DEF ControlTypes, ClientLabel, UnitLabel
<1>4. HandInv
  BY DEF HandInv
<1>5. ToSet(<<>>) = {} /\ IsInjective(<<>>)
  BY DEF ToSet, IsInjective
<1>6. \A n \in ListName : list[n] = <<>>
  OBVIOUS
<1>7. PortInv
  BY <1>5, <1>6 DEF PortInv
<1>8. QuickInv
  BY DEF QuickInv
<1>9. ListsOK
  BY <1>2, <1>5, <1>6 DEF ListsOK, PlaceTypes
<1>10. OnePlace
  <2>1. ASSUME NEW r \in Request
        PROVE  /\ r \in app /\ r \notin events
               /\ OnList(r) = {} /\ InHand(r) = {}
    BY <1>5, <1>6 DEF OnList, InHand
  <2>. QED
    BY <2>1 DEF OnePlace, One
<1>. QED
  BY <1>1, <1>2, <1>3, <1>4, <1>7, <1>8, <1>9, <1>10 DEF IInv, TypeOK

\* ... and no step breaks it.
LEMMA StepIInv == PoliteOpeners /\ IInv /\ [Next]_vars => IInv'
<1>. SUFFICES ASSUME PoliteOpeners, IInv, [Next]_vars
              PROVE  IInv'
  OBVIOUS
<1>1. CASE Next
  BY <1>1, RequestTypesStep, ControlTypesStep, PlacesStep, HandInvStep,
     PortInvStep, QuickInvStep DEF IInv, TypeOK, Places
<1>2. CASE UNCHANGED vars
  <2>. USE <1>2 DEF vars, reqVars
  <2>1. TypeOK'
    BY DEF IInv, TypeOK, RequestTypes, PlaceTypes, ControlTypes
  <2>2. HandInv' /\ PortInv'
    BY DEF IInv, HandInv, PortInv
  <2>3. QuickInv'
    BY DEF IInv, QuickInv
  <2>4. ListsOK' /\ OnePlace'
    BY NothingMoves DEF Places
  <2>. QED
    BY <2>1, <2>2, <2>3, <2>4 DEF IInv
<1>. QED
  BY <1>1, <1>2

\* The invariant about single requests gives the one about pairs of places.
LEMMA IInvNeverTwice == IInv => NeverTwice
<1>. SUFFICES ASSUME IInv
              PROVE  NeverTwice
  OBVIOUS
<1>. USE Given, NamesDistinct, PlaceFacts
<1>1. \A n \in ListName : IsInjective(list[n])
  BY DEF ListsOK
<1>2. \A n, m \in ListName : n # m => ToSet(list[n]) \cap ToSet(list[m]) = {}
  <2>1. \A n \in ListName : \A q \in ToSet(list[n]) : OnList(q) = {n}
    OBVIOUS
  <2>. QED
    BY <2>1
<1>3. \A t, u \in Task : t # u /\ hand[t] = hand[u] => hand[t] = NoRequest
  BY DEF InHand
<1>4. \A n \in ListName, t \in Task : hand[t] \notin ToSet(list[n])
  BY DEF InHand
<1>5. events \cap app = {}
  BY DEF PlaceTypes
<1>6. \A r \in events \cup app : OnList(r) = {} /\ InHand(r) = {}
  BY DEF PlaceTypes
<1>. QED
  BY <1>1, <1>2, <1>3, <1>4, <1>5, <1>6 DEF NeverTwice

\* A request that is in one place is somewhere.
LEMMA IInvNeverLost == IInv => NeverLost
  BY DEF IInv, OnePlace, One, NeverLost

\* The state of the requests, of the unit and of the tasks keeps its type,
\* however the calls of the openers and the unit process interleave.
THEOREM TypeCorrect ==
  ASSUME PoliteOpeners
  PROVE  Spec => []TypeOK
<1>1. IInv /\ [Next]_vars => IInv'
  BY StepIInv
<1>2. IInv => TypeOK
  BY DEF IInv
<1>. QED
  BY <1>1, <1>2, InitIInv, PTL DEF Spec

\* A request is never on two lists, twice on one, or both pending and back with
\* its opener, provided no opener sends CMD_READ or S2_READORPHAN with
\* IOF_QUICK.
THEOREM NeverTwiceHolds ==
  ASSUME PoliteOpeners
  PROVE  Spec => []NeverTwice
<1>1. IInv /\ [Next]_vars => IInv'
  BY StepIInv
<1>. QED
  BY <1>1, InitIInv, IInvNeverTwice, PTL DEF Spec

\* Under the same condition a request that its opener has not got back is
\* always on a list, on eu_Events or in the hands of a task.
THEOREM NeverLostHolds ==
  ASSUME PoliteOpeners
  PROVE  Spec => []NeverLost
<1>1. IInv /\ [Next]_vars => IInv'
  BY StepIInv
<1>. QED
  BY <1>1, InitIInv, IInvNeverLost, PTL DEF Spec
=============================================================================
