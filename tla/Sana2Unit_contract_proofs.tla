---------------------- MODULE Sana2Unit_contract_proofs ----------------------
(***************************************************************************)
(* The I/O request engine implements RequestContract, for every set of     *)
(* openers, requests and commands: a request that its opener owns is left  *)
(* alone by the device.                                                    *)
(*                                                                         *)
(* A step of the device writes into requests that a task has in hand, that *)
(* are on a list or on eu_Events; IInv of Sana2Unit_proofs says that none  *)
(* of these is with its opener.  Aside shows it for the places, Kept for   *)
(* the writes, and each action is one or two of these writes.              *)
(***************************************************************************)
EXTENDS Sana2Unit_proofs

\* Request r stays with its opener, and keeps what is in it.
Kept(r) ==
  /\ r \in app'
  /\ cmd'[r] = cmd[r] /\ quick'[r] = quick[r] /\ lnType'[r] = lnType[r]
  /\ err'[r] = err[r] /\ wire'[r] = wire[r] /\ ptype'[r] = ptype[r]
  /\ dst'[r] = dst[r] /\ flags'[r] = flags[r]

\* The requests the device works on are not those of the openers.
LEMMA Aside ==
  ASSUME IInv
  PROVE  /\ app \subseteq Request
         /\ \A t \in Task : hand[t] \notin app
         /\ \A n \in ListName : ToSet(list[n]) \cap app = {}
         /\ \A e : Waiting(e) \cap app = {}
         /\ events \cap app = {}
<1>1. app \subseteq Request /\ NoRequest \notin app
  BY UnitAssumption DEF IInv, TypeOK, PlaceTypes
<1>2. \A r \in app : r \notin events /\ OnList(r) = {} /\ InHand(r) = {}
  BY <1>1 DEF IInv, OnePlace, One
<1>3. \A n \in ListName : ToSet(list[n]) \cap app = {}
  BY <1>2 DEF OnList
<1>4. \A t \in Task : hand[t] \notin app
  BY <1>2 DEF InHand
<1>. QED
  BY <1>1, <1>2, <1>3, <1>4 DEF Waiting

\* Writing a field of requests that are not the openers'.
LEMMA UpdateAside ==
  ASSUME NEW f, DOMAIN f = Request, NEW S, NEW A \in SUBSET Request,
         S \cap A = {}, NEW v
  PROVE  \A r \in A : Update(f, S, v)[r] = f[r]
  BY DEF Update

LEMMA Domains ==
  ASSUME IInv
  PROVE  /\ DOMAIN cmd = Request /\ DOMAIN quick = Request
         /\ DOMAIN lnType = Request /\ DOMAIN err = Request
         /\ DOMAIN wire = Request /\ DOMAIN ptype = Request
         /\ DOMAIN dst = Request /\ DOMAIN flags = Request
  BY DEF IInv, TypeOK, RequestTypes

\* TermIO of requests that are not the openers' takes none from them.
LEMMA TermIOAside ==
  ASSUME IInv, NEW S, S \cap app = {}, TermIO(S)
  PROVE  \A r \in app : r \in app' /\ lnType'[r] = lnType[r]
  BY Aside, Domains DEF TermIO, Update

\* fulfillReadIORequest for requests that are not the openers'.
LEMMA FulfillAside ==
  ASSUME IInv, NEW offered, NEW taken, NEW failed, NEW d,
         offered \cap app = {}, taken \subseteq offered, failed \subseteq offered,
         Fulfill(offered, taken, failed, d)
  PROVE  \A r \in app :
           /\ r \in app' /\ lnType'[r] = lnType[r] /\ err'[r] = err[r]
           /\ wire'[r] = wire[r] /\ dst'[r] = dst[r] /\ flags'[r] = flags[r]
<1>1. PICK woken \in SUBSET events :
        woken = IF failed = {} THEN {} ELSE Waiting("BUFF")
  BY DEF Waiting
<1>2. /\ woken \cap app = {} /\ (taken \cup woken) \cap app = {}
      /\ failed \cap app = {} /\ app \in SUBSET Request
  BY Aside
<1>3. /\ TermIO(taken \cup woken)
      /\ err' = Update(Update(err, failed, "nores"), woken, "ok")
      /\ wire' = Update(Update(wire, failed, {"ERR"}), woken, {"BUFF"})
      /\ dst' = Update(dst, offered, d)
      /\ flags' = [r \in Request |-> IF r \in offered
                                     THEN flags[r] \cup KindFlag(d) ELSE flags[r]]
  BY <1>1 DEF Fulfill
<1>4. \A r \in app : r \in app' /\ lnType'[r] = lnType[r]
  BY <1>2, <1>3, TermIOAside
<1>5. \A r \in app : err'[r] = err[r] /\ wire'[r] = wire[r] /\ dst'[r] = dst[r]
  BY <1>2, <1>3, Domains DEF Update
<1>6. \A r \in app : flags'[r] = flags[r]
  BY <1>2, <1>3
<1>. QED
  BY <1>4, <1>5, <1>6

-----------------------------------------------------------------------------
(* The openers' tasks                                                        *)

\* Filling in and sending a request touches no other one.
LEMMA SendKeeps ==
  ASSUME IInv, NEW c \in Client, NEW r \in Request, NEW cd \in Command,
         BeginPort(c, r, cd) \/ BeginNow(c, r, cd)
  PROVE  /\ r \in app
         /\ \A s \in Request \ {r} :
              /\ s \in app' <=> s \in app
              /\ cmd'[s] = cmd[s] /\ quick'[s] = quick[s]
              /\ lnType'[s] = lnType[s] /\ err'[s] = err[s]
              /\ wire'[s] = wire[s] /\ ptype'[s] = ptype[s]
              /\ dst'[s] = dst[s] /\ flags'[s] = flags[s]
<1>. USE Domains DEF Submit
<1>1. CASE BeginPort(c, r, cd)
  <2>1. PICK mask : wire' = [wire EXCEPT ![r] = mask]
    BY <1>1 DEF BeginPort
  <2>. QED
    BY <1>1, <2>1 DEF BeginPort
<1>2. CASE BeginNow(c, r, cd)
  <2>1. PICK q : quick' = [quick EXCEPT ![r] = q]
    BY <1>2 DEF BeginNow
  <2>2. \A s \in Request \ {r} : ptype'[s] = ptype[s]
    <3>1. CASE cd = "read"
      BY <1>2, <3>1 DEF BeginNow
    <3>2. CASE cd # "read"
      BY <1>2, <3>2 DEF BeginNow
    <3>. QED
      BY <3>1, <3>2
  <2>3. \A s \in Request \ {r} :
          /\ s \in app' <=> s \in app
          /\ lnType'[s] = lnType[s] /\ err'[s] = err[s] /\ wire'[s] = wire[s]
    BY <1>2 DEF BeginNow, ReplyUnlessQuick
  <2>4. r \in app /\ \A s \in Request \ {r} :
          cmd'[s] = cmd[s] /\ dst'[s] = dst[s] /\ flags'[s] = flags[s]
    BY <1>2 DEF BeginNow
  <2>. QED
    BY <2>1, <2>2, <2>3, <2>4
<1>. QED
  BY <1>1, <1>2

LEMMA ClientKeeps ==
  ASSUME IInv, NEW c \in Client,
         \/ ClientStep(c) \/ ReadBadArgument(c) \/ WriteTooLong(c)
         \/ \E r \in Request : AbortIO(c, r)
  PROVE  \A r \in app : Kept(r)
<1>. USE Domains, Aside, NamesDistinct DEF Kept, BackFromBeginIO
<1>1. CASE ReadQueue(c)
  BY <1>1 DEF ReadQueue
<1>2. CASE OrphanQueue(c)
  BY <1>2 DEF OrphanQueue
<1>3. CASE WritePut(c)
  BY <1>3 DEF WritePut
<1>4. CASE SendGet(c)
  BY <1>4 DEF SendGet, reqVars
<1>5. CASE ReadBadArgument(c)
  BY <1>5 DEF ReadBadArgument
<1>6. CASE WriteTooLong(c)
  <2>1. PICK woken : woken = Waiting("TX") /\ woken \cap app = {}
    OBVIOUS
  <2>2. PICK S : S = woken \cup {x \in {hand[c]} : ~quick[x]} /\ S \cap app = {}
    <3>1. PICK h : h = hand[c] /\ h \notin app
      OBVIOUS
    <3>2. (woken \cup {x \in {h} : ~quick[x]}) \cap app = {}
      BY <2>1, <3>1
    <3>. QED
      BY <3>1, <3>2
  <2>3. /\ err' = [Update(err, woken, "ok") EXCEPT ![hand[c]] = "mtu"]
        /\ wire' = [Update(wire, woken, {"TX"}) EXCEPT ![hand[c]] = {}]
        /\ app' = app \cup woken \cup {hand[c]}
        /\ lnType' = Update(lnType, S, "reply")
        /\ UNCHANGED <<cmd, quick, ptype, dst, flags>>
    <3>1. /\ err' = [Update(err, Waiting("TX"), "ok") EXCEPT ![hand[c]] = "mtu"]
          /\ wire' = [Update(wire, Waiting("TX"), {"TX"}) EXCEPT ![hand[c]] = {}]
          /\ app' = app \cup Waiting("TX") \cup {hand[c]}
          /\ lnType' = Update(lnType, Waiting("TX") \cup
                                      {x \in {hand[c]} : ~quick[x]}, "reply")
      BY <1>6, Zenon DEF WriteTooLong
    <3>2. UNCHANGED <<cmd, quick, ptype, dst, flags>>
      BY <1>6 DEF WriteTooLong
    <3>. QED
      BY <2>1, <2>2, <3>1, <3>2, Zenon
  <2>4. \A r \in app : lnType'[r] = lnType[r]
    BY <2>2, <2>3 DEF Update
  <2>5. \A r \in app : err'[r] = err[r] /\ wire'[r] = wire[r]
    BY <2>1, <2>3 DEF Update
  <2>. QED
    BY <2>3, <2>4, <2>5
<1>7. CASE SendDone(c)
  <2>1. PICK copied \in BOOLEAN :
          LET w == IF copied THEN wire[hand[c]] ELSE {"ERR"}
              woken == IF w = {} THEN {} ELSE Waiting("BUFF")
          IN  /\ err' = [Update(err, woken, "ok") EXCEPT
                            ![hand[c]] = IF copied THEN @ ELSE "nores"]
              /\ wire' = [Update(wire, woken, {"BUFF"}) EXCEPT ![hand[c]] = w]
              /\ TermIO(woken \cup {hand[c]})
    BY <1>7 DEF SendDone
  <2>2. PICK w : w = IF copied THEN wire[hand[c]] ELSE {"ERR"}
    OBVIOUS
  <2>3. PICK woken : /\ woken = IF w = {} THEN {} ELSE Waiting("BUFF")
                     /\ woken \cap app = {}
    OBVIOUS
  <2>4. /\ \E v : err' = [Update(err, woken, "ok") EXCEPT ![hand[c]] = v]
        /\ wire' = [Update(wire, woken, {"BUFF"}) EXCEPT ![hand[c]] = w]
        /\ TermIO(woken \cup {hand[c]})
    BY <2>1, <2>2, <2>3
  <2>5. \A r \in app : r \in app' /\ lnType'[r] = lnType[r]
    BY <2>3, <2>4, TermIOAside
  <2>6. \A r \in app : err'[r] = err[r] /\ wire'[r] = wire[r]
    BY <2>3, <2>4 DEF Update
  <2>7. UNCHANGED <<cmd, quick, ptype, dst, flags>>
    BY <1>7 DEF SendDone
  <2>. QED
    BY <2>5, <2>6, <2>7
<1>8. ASSUME NEW q \in Request, AbortIO(c, q)
      PROVE  \A r \in app : Kept(r)
  <2>1. q \notin app
    <3>1. CASE \E n \in AbortList(q) : \E i \in DOMAIN list[n] : list[n][i] = q
      <4>1. PICK n \in AbortList(q) : \E i \in DOMAIN list[n] : list[n][i] = q
        BY <3>1
      <4>2. n \in ListName /\ q \in ToSet(list[n])
        BY <4>1, UnitAssumption DEF AbortList, ToSet
      <4>. QED
        BY <4>2
    <3>2. CASE q \in events
      BY <3>2
    <3>. QED
      BY <1>8, <3>1, <3>2, Zenon DEF AbortIO
  <2>2. err' = Update(err, {q}, "aborted") /\ TermIO({q})
    BY <1>8 DEF AbortIO, Aborted
  <2>3. UNCHANGED <<cmd, quick, wire, ptype, dst, flags>>
    BY <1>8 DEF AbortIO
  <2>4. \A r \in app : r \in app' /\ lnType'[r] = lnType[r]
    BY <2>1, <2>2, TermIOAside
  <2>5. \A r \in app : err'[r] = err[r]
    BY <2>1, <2>2 DEF Update
  <2>. QED
    BY <2>3, <2>4, <2>5
<1>. QED
  BY <1>1, <1>2, <1>3, <1>4, <1>5, <1>6, <1>7, <1>8 DEF ClientStep
-------------------------------------------------------------------------
-----------------------------------------------------------------------------
(* The unit process                                                          *)

\* The commands and their events.
LEMMA UnitKeeps ==
  ASSUME IInv, WakeUp \/ UnitStep
  PROVE  \A r \in app : Kept(r)
<1>. USE Domains, Aside, NamesDistinct DEF Kept
<1>1. ASSUME NEW S, S \cap app = {}, TermIO(S), err' = err, wire' = wire,
             UNCHANGED <<cmd, quick, ptype, dst, flags>>
      PROVE  \A r \in app : Kept(r)
  BY <1>1, TermIOAside
<1>2. ASSUME app' = app, lnType' = lnType,
             \A r \in app : err'[r] = err[r] /\ wire'[r] = wire[r],
             UNCHANGED <<cmd, quick, ptype, dst, flags>>
      PROVE  \A r \in app : Kept(r)
  BY <1>2
<1>3. ASSUME NEW S, S \cap app = {}, TermIO(S),
             \A r \in app : err'[r] = err[r] /\ wire'[r] = wire[r],
             UNCHANGED <<cmd, quick, ptype, dst, flags>>
      PROVE  \A r \in app : Kept(r)
  BY <1>3, TermIOAside
<1>4. CASE WakeUp \/ Drained
  BY <1>2, <1>4 DEF WakeUp, Drained, reqVars
<1>5. CASE GetMsg
  <2>1. Head(list["unitPort"]) \notin app
    <3>1. list["unitPort"] \in Seq(Request) /\ list["unitPort"] # <<>>
      BY <1>5 DEF GetMsg, IInv, TypeOK, PlaceTypes
    <3>2. Head(list["unitPort"]) \in ToSet(list["unitPort"])
      BY <3>1, TailFacts
    <3>. QED
      BY <3>2
  <2>. QED
    BY <1>2, <1>5, <2>1 DEF GetMsg
<1>6. CASE Query
  <2>1. TermIO({hand[Unit]}) /\ {hand[Unit]} \cap app = {}
    BY <1>6 DEF Query, Reply
  <2>. QED
    BY <1>1, <1>6, <2>1 DEF Query
<1>7. CASE OnEvent
  <2>1. CASE AlreadyTrue(wire[hand[Unit]])
    <3>1. /\ TermIO({hand[Unit]}) /\ {hand[Unit]} \cap app = {}
          /\ wire' = [wire EXCEPT ![hand[Unit]] = @ \cap {"ONLINE", "OFFLINE"}]
          /\ UNCHANGED <<cmd, quick, err, ptype, dst, flags>>
      BY <1>7, <2>1 DEF OnEvent
    <3>. QED
      BY <1>3, <3>1
  <2>2. CASE ~AlreadyTrue(wire[hand[Unit]])
    BY <1>2, <1>7, <2>2 DEF OnEvent
  <2>. QED
    BY <2>1, <2>2
<1>8. CASE Config
  <2>1. CASE "CONFIG" \notin state
    BY <1>2, <1>8, <2>1 DEF Config
  <2>2. CASE "CONFIG" \in state
    <3>1. /\ TermIO({hand[Unit]}) /\ {hand[Unit]} \cap app = {}
          /\ err' = [err EXCEPT ![hand[Unit]] = "badstate"]
          /\ wire' = [wire EXCEPT ![hand[Unit]] = {"ERR"}]
          /\ UNCHANGED <<cmd, quick, ptype, dst, flags>>
      BY <1>8, <2>2 DEF Config, Reply
    <3>. QED
      BY <1>3, <3>1
  <2>. QED
    BY <2>1, <2>2
<1>9. CASE Online
  <2>1. CASE "CONFIG" \notin state
    <3>1. /\ TermIO({hand[Unit]}) /\ {hand[Unit]} \cap app = {}
          /\ err' = [err EXCEPT ![hand[Unit]] = "badstate"]
          /\ wire' = [wire EXCEPT ![hand[Unit]] = {"ERR"}]
          /\ UNCHANGED <<cmd, quick, ptype, dst, flags>>
      BY <1>9, <2>1 DEF Online, Reply
    <3>. QED
      BY <1>3, <3>1
  <2>2. CASE "CONFIG" \in state /\ "ONLINE" \in state
    <3>1. /\ TermIO({hand[Unit]}) /\ {hand[Unit]} \cap app = {}
          /\ UNCHANGED <<cmd, quick, err, wire, ptype, dst, flags>>
      BY <1>9, <2>2 DEF Online, Reply
    <3>. QED
      BY <1>1, <3>1
  <2>3. CASE "CONFIG" \in state /\ "ONLINE" \notin state
    BY <1>2, <1>9, <2>3 DEF Online
  <2>. QED
    BY <2>1, <2>2, <2>3
<1>10. ASSUME NEW e, NEW S, err' = Update(err, Waiting(e), "ok"),
              wire' = Update(wire, Waiting(e), {e}), S \cap app = {}, TermIO(S),
              UNCHANGED <<cmd, quick, ptype, dst, flags>>
       PROVE  \A r \in app : Kept(r)
  <2>1. PICK woken : woken = Waiting(e) /\ woken \cap app = {}
    OBVIOUS
  <2>2. \A r \in app : err'[r] = err[r] /\ wire'[r] = wire[r]
    BY <1>10, <2>1 DEF Update
  <2>. QED
    BY <1>3, <1>10, <2>2
<1>11. CASE OnlineEvent
  <2>1. (Waiting("ONLINE") \cup {hand[Unit]}) \cap app = {}
    OBVIOUS
  <2>. QED
    BY <1>10, <1>11, <2>1 DEF OnlineEvent
<1>12. CASE OfflineEvent
  BY <1>10, <1>12 DEF OfflineEvent
<1>13. CASE Offline
  <2>1. CASE "ONLINE" \in state
    BY <1>2, <1>13, <2>1 DEF Offline
  <2>2. CASE "ONLINE" \notin state
    <3>1. TermIO({hand[Unit]}) /\ {hand[Unit]} \cap app = {}
      BY <1>13, <2>2 DEF Offline, Reply
    <3>. QED
      BY <1>1, <1>13, <3>1 DEF Offline
  <2>. QED
    BY <2>1, <2>2
<1>14. ASSUME NEW S, NEW T, S \cap app = {}, T \cap app = {},
              err' = Update(err, S, "aborted"), TermIO(T), wire' = wire,
              UNCHANGED <<cmd, quick, ptype, dst, flags>>
       PROVE  \A r \in app : Kept(r)
  <2>1. \A r \in app : err'[r] = err[r]
    BY <1>14 DEF Update
  <2>. QED
    BY <1>3, <1>14, <2>1
<1>15. CASE FlushReads
  <2>1. PICK S : S = UNION {ToSet(list[c]) : c \in Client}
    OBVIOUS
  <2>0. S \cap app = {}
    <3>1. \A c \in Client : ToSet(list[c]) \cap app = {}
      OBVIOUS
    <3>2. \A x \in S : \E c \in Client : x \in ToSet(list[c])
      BY <2>1
    <3>. QED
      BY <3>1, <3>2
  <2>2. /\ err' = Update(err, S, "aborted") /\ TermIO(S)
        /\ UNCHANGED <<cmd, quick, wire, ptype, dst, flags>>
    BY <1>15, <2>1, Zenon DEF FlushReads, Aborted
  <2>. QED
    BY <1>14, <2>0, <2>2
<1>16. CASE FlushRest
  <2>1. PICK S : S = Flushed /\ S \cap app = {}
    <3>1. "eu_Tx" \in ListName
      BY DEF ListName, UnitList
    <3>2. ToSet(list["eu_Tx"]) \cap app = {} /\ events \cap app = {}
      BY <3>1
    <3>3. Flushed \cap app = {}
      BY <3>2 DEF Flushed
    <3>. QED
      BY <3>3
  <2>2. \/ TermIO(S) \/ TermIO(S \cup {hand[Unit]})
    BY <1>16, <2>1 DEF FlushRest
  <2>3. /\ err' = Update(err, S, "aborted")
        /\ UNCHANGED <<cmd, quick, wire, ptype, dst, flags>>
    BY <1>16, <2>1 DEF FlushRest, Aborted
  <2>4. (S \cup {hand[Unit]}) \cap app = {}
    BY <2>1
  <2>. QED
    BY <1>14, <2>1, <2>2, <2>3, <2>4
<1>17. CASE OfflineNic
  <2>1. TermIO({hand[Unit]}) /\ {hand[Unit]} \cap app = {}
    BY <1>17 DEF OfflineNic, Reply
  <2>. QED
    BY <1>1, <1>17, <2>1 DEF OfflineNic
<1>18. CASE ReceiveOrphan
  <2>1. CASE list["eu_ReadOrphan"] = <<>>
    BY <1>18, <2>1 DEF ReceiveOrphan
  <2>2. CASE list["eu_ReadOrphan"] # <<>>
    <3>1. PICK q : q = Head(list["eu_ReadOrphan"])
      OBVIOUS
    <3>2. q \notin app
      <4>1. list["eu_ReadOrphan"] \in Seq(Request)
        BY DEF IInv, TypeOK, PlaceTypes
      <4>. QED
        BY <2>2, <3>1, <4>1, TailFacts
    <3>3. PICK taken \in SUBSET {q}, failed \in SUBSET {q} :
            Fulfill({q}, taken, failed, frame.kind)
      BY <1>18, <2>2, <3>1, Zenon DEF ReceiveOrphan
    <3>4. UNCHANGED <<cmd, quick, ptype>>
      BY <1>18 DEF ReceiveOrphan
    <3>5. {q} \cap app = {}
      BY <3>2
    <3>. QED
      BY <3>3, <3>4, <3>5, FulfillAside
  <2>. QED
    BY <2>1, <2>2
<1>. QED
  BY <1>4, <1>5, <1>6, <1>7, <1>8, <1>9, <1>11, <1>12, <1>13, <1>15, <1>16,
     <1>17, <1>18 DEF UnitStep

\* The receive callback offers a frame to reads that are on the openers' lists.
LEMMA ReceiveKeeps ==
  ASSUME IInv, NEW p \in PacketType, NEW d \in FrameKind, Receive(p, d)
  PROVE  \A r \in app : Kept(r)
<1>. DEFINE asked == {c \in Client : Matching(c, p) # {}}
            offer == [c \in asked |-> list[c][First(c, p)]]
<1>1. PICK takers \in SUBSET asked, failing \in SUBSET asked :
        Fulfill({offer[c] : c \in asked}, {offer[c] : c \in takers},
                {offer[c] : c \in failing}, d)
  <2>1. PICK verdict \in [asked -> Verdict] :
          Fulfill({offer[c] : c \in asked},
                  {offer[c] : c \in {x \in asked : verdict[x] # "rejected"}},
                  {offer[c] : c \in {x \in asked : verdict[x] = "failed"}}, d)
    BY Zenon DEF Receive
  <2>2. PICK t, f : /\ t = {x \in asked : verdict[x] # "rejected"}
                    /\ f = {x \in asked : verdict[x] = "failed"}
    OBVIOUS
  <2>3. t \in SUBSET asked /\ f \in SUBSET asked
    BY <2>2
  <2>4. Fulfill({offer[c] : c \in asked}, {offer[c] : c \in t},
                {offer[c] : c \in f}, d)
    BY <2>1, <2>2, Zenon
  <2>. QED
    BY <2>3, <2>4
<1>2. \A c \in asked : offer[c] \notin app
  <2>. TAKE c \in asked
  <2>1. First(c, p) \in DOMAIN list[c]
    BY FirstIsMatching DEF IInv
  <2>2. offer[c] \in ToSet(list[c])
    BY <2>1 DEF ToSet
  <2>. QED
    BY <2>2, Aside, NamesDistinct
<1>3. PICK O, T, F : /\ O = {offer[c] : c \in asked}
                     /\ T = {offer[c] : c \in takers}
                     /\ F = {offer[c] : c \in failing}
  OBVIOUS
<1>4. O \cap app = {} /\ T \subseteq O /\ F \subseteq O
  BY <1>1, <1>2, <1>3
<1>5. Fulfill(O, T, F, d)
  BY <1>1, <1>3
<1>6. UNCHANGED <<cmd, quick, ptype>>
  BY DEF Receive
<1>. HIDE DEF asked, offer
<1>. QED
  BY <1>4, <1>5, <1>6, FulfillAside DEF Kept

-----------------------------------------------------------------------------
(* The refinement                                                            *)

\* The state as RequestContract sees it.
OwnerOf == [r \in Request |-> IF r \in app THEN "opener" ELSE "device"]
ContentOf == [r \in Request |-> <<cmd[r], quick[r], lnType[r], err[r], wire[r],
                                  ptype[r], dst[r], flags[r]>>]

LEMMA OwnerType == OwnerOf' \in [Request -> {"opener", "device"}]
  BY DEF OwnerOf

\* A step that keeps the openers' requests is Serve, one that sends a request is
\* Send.
LEMMA KeepsIsServe ==
  ASSUME IInv, \A r \in app : Kept(r)
  PROVE  Contract!Serve
<1>1. ASSUME NEW r \in Request, OwnerOf[r] = "opener"
      PROVE  OwnerOf'[r] = "opener" /\ ContentOf'[r] = ContentOf[r]
  <2>1. r \in app
    BY <1>1 DEF OwnerOf
  <2>. QED
    BY <1>1, <2>1 DEF OwnerOf, ContentOf, Kept
<1>. QED
  BY <1>1, OwnerType DEF Contract!Serve, Contract!Party, OwnerOf, ContentOf

LEMMA BeginIsSend ==
  ASSUME IInv, NEW c \in Client, NEW r \in Request, NEW cd \in Command,
         BeginPort(c, r, cd) \/ BeginNow(c, r, cd)
  PROVE  Contract!Send(r)
<1>1. OwnerOf[r] = "opener"
  BY SendKeeps DEF OwnerOf
<1>2. \A s \in Request \ {r} :
        OwnerOf'[s] = OwnerOf[s] /\ ContentOf'[s] = ContentOf[s]
  BY SendKeeps DEF OwnerOf, ContentOf
<1>. QED
  BY <1>1, <1>2, OwnerType DEF Contract!Send, Contract!Party, OwnerOf, ContentOf

\* The engine keeps the contract: whatever openers, requests and commands there
\* are, the device writes only into requests it has, and gives each back once,
\* provided no read is sent with IOF_QUICK.
THEOREM KeepsContractHolds ==
  ASSUME PoliteOpeners
  PROVE  Spec => KeepsContract
<1>1. Init => Contract!Init
  BY DEF Init, Contract!Init
<1>2. IInv /\ [Next]_vars =>
        [Contract!Next]_<<OwnerOf, ContentOf>>
  <2>. SUFFICES ASSUME IInv, [Next]_vars
                PROVE  [Contract!Next]_<<OwnerOf, ContentOf>>
    OBVIOUS
  <2>1. CASE UNCHANGED vars
    BY <2>1 DEF vars, reqVars, OwnerOf, ContentOf
  <2>2. ASSUME NEW c \in Client, ClientNext(c)
        PROVE  Contract!Next
    <3>1. ASSUME NEW r \in Request, NEW cd \in Command,
                 BeginPort(c, r, cd) \/ BeginNow(c, r, cd)
          PROVE  Contract!Next
      BY <3>1, BeginIsSend DEF Contract!Next
    <3>2. CASE \/ ClientStep(c) \/ ReadBadArgument(c) \/ WriteTooLong(c)
               \/ \E r \in Request : AbortIO(c, r)
      BY <3>2, ClientKeeps, KeepsIsServe DEF Contract!Next
    <3>. QED
      BY <2>2, <3>1, <3>2 DEF ClientNext
  <2>3. CASE UnitNext
    <3>1. CASE WakeUp \/ UnitStep
      BY <3>1, UnitKeeps, KeepsIsServe DEF Contract!Next
    <3>2. ASSUME NEW p \in PacketType, NEW d \in FrameKind, Receive(p, d)
          PROVE  Contract!Next
      BY <3>2, ReceiveKeeps, KeepsIsServe DEF Contract!Next
    <3>. QED
      BY <2>3, <3>1, <3>2 DEF UnitNext
  <2>. QED
    BY <2>1, <2>2, <2>3 DEF Next
<1>3. IInv /\ [Next]_vars => IInv'
  BY StepIInv
<1>4. Spec => []IInv /\ [][Next]_vars /\ Init
  BY <1>3, InitIInv, PTL DEF Spec
<1>. QED
  BY <1>1, <1>2, <1>4, PTL DEF KeepsContract, Contract!Spec, OwnerOf, ContentOf
=============================================================================
