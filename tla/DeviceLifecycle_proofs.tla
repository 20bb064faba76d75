------------------------ MODULE DeviceLifecycle_proofs ------------------------
(***************************************************************************)
(* Opening, closing and unloading, for any openers and flags: the counts,  *)
(* the lock that is handed from task to task, and the handshake with the   *)
(* unit process.                                                           *)
(***************************************************************************)
EXTENDS DeviceLifecycle, ListFacts, FiniteSetTheorems

\* ed_DeviceLock: who waits is not the owner, and a task that waits inside a
\* call for something else than the lock has it.
LockOK ==
  /\ lock = NoTask => waiting = << >>
  /\ IsInjective(waiting)
  /\ \A c \in ToSet(waiting) : pc[c] \in {"openWait", "closeWait"} /\ c # lock
  /\ lock # NoTask => pc[lock] \in {"openWait", "closeWait", "openUnit", "closeUnit"}
  /\ \A c \in Opener : pc[c] \in {"openUnit", "closeUnit"} => lock = c

\* Nobody has a device that was freed.
BaseOK == base = "freed" => openCnt = 0

\* The handshake: between calls the process runs if there is a unit, and nobody
\* has told it to stop; a task that starts or stops it has no other users.
HandshakeOK ==
  /\ Busy = {} => /\ ctrlF = {} /\ unitProc \in {"none", "up"}
                  /\ unitProc = "up" <=> unit
                  /\ Users # {} => unit
  /\ \A c \in Opener : pc[c] = "openUnit" =>
       Users = {} /\ ~unit /\ unitProc \in {"starting", "up"} /\ ctrlF = {}
  /\ \A c \in Opener : pc[c] = "closeUnit" =>
       /\ Users = {} /\ unit /\ euProc = c
       /\ \/ unitProc = "up" /\ ctrlF = {Unit}
          \/ unitProc = "none" /\ ctrlF = {c}

LifeInv == TypeOK /\ LockOK /\ CountsMatch /\ BaseOK /\ HandshakeOK

USE DEF unitVars, Goto

\* What joining and leaving a set of openers does to its size.
LEMMA Counting ==
  ASSUME NEW S \in SUBSET Opener
  PROVE  /\ Cardinality(S) \in Nat
         /\ Cardinality(S) = 0 <=> S = {}
         /\ \A c \in Opener \ S : Cardinality(S \cup {c}) = Cardinality(S) + 1
         /\ \A c \in S : Cardinality(S \ {c}) = Cardinality(S) - 1
<1>1. IsFiniteSet(S)
  BY LifecycleAssumption, FS_Subset
<1>2. \A c \in Opener \ S : Cardinality(S \cup {c}) = Cardinality(S) + 1
  BY <1>1, FS_AddElement
<1>3. \A c \in S : Cardinality(S \ {c}) = Cardinality(S) - 1
  BY <1>1, FS_RemoveElement
<1>. QED
  BY <1>1, <1>2, <1>3, FS_CardinalityType, FS_EmptySet

\* Only the opener that moves joins or leaves the users and the busy ones.
LEMMA Moved ==
  ASSUME TypeOK, NEW c \in Opener, NEW l, pc' = [pc EXCEPT ![c] = l]
  PROVE  /\ pc'[c] = l
         /\ \A d \in Opener : d # c => pc'[d] = pc[d]
         /\ Users' = IF l \in {"open", "closeWait"} THEN Users \cup {c} ELSE Users \ {c}
         /\ Busy' = IF l \in {"openUnit", "closeUnit"} THEN Busy \cup {c} ELSE Busy \ {c}
         /\ Users \subseteq Opener /\ Busy \subseteq Opener
         /\ c \in Users <=> pc[c] \in {"open", "closeWait"}
         /\ c \in Busy <=> pc[c] \in {"openUnit", "closeUnit"}
<1>1. pc'[c] = l /\ \A d \in Opener : d # c => pc'[d] = pc[d]
  BY DEF TypeOK
<1>. QED
  BY <1>1 DEF Users, Busy

\* The owner of the lock, or a task that finds it free, is alone in its call.
LEMMA Alone ==
  ASSUME LifeInv, NEW c \in Opener,
         \/ pc[c] \in {"closed", "open"} /\ lock = NoTask
         \/ pc[c] \notin {"closed", "open"} /\ lock = c
  PROVE  /\ lock \in {NoTask, c} /\ c \notin ToSet(waiting)
         /\ waiting # << >> => lock = c
         /\ \A d \in Opener : d # c => pc[d] \notin {"openUnit", "closeUnit"}
         /\ Busy \subseteq {c}
<1>1. lock \in {NoTask, c} /\ c \notin ToSet(waiting) /\ (waiting # << >> => lock = c)
  BY DEF LifeInv, LockOK
<1>2. \A d \in Opener : d # c => pc[d] \notin {"openUnit", "closeUnit"}
  BY <1>1, LifecycleAssumption DEF LifeInv, LockOK
<1>. QED
  BY <1>1, <1>2 DEF Busy

\* A call ends: the lock goes to the first one that waits.
LEMMA Unlocks ==
  ASSUME LifeInv, NEW c \in Opener, NEW l \in {"closed", "open"},
         \/ pc[c] \in {"closed", "open"} /\ lock = NoTask
         \/ pc[c] \notin {"closed", "open"} /\ lock = c,
         pc' = [pc EXCEPT ![c] = l], Unlock
  PROVE  LockOK' /\ lock' \in Opener \cup {NoTask} /\ waiting' \in Seq(Opener)
<1>1. /\ pc'[c] = l
      /\ \A d \in Opener : d # c => pc'[d] = pc[d]
  BY Moved DEF LifeInv
<1>2. waiting \in Seq(Opener)
  BY DEF LifeInv, TypeOK
<1>3. CASE waiting = << >>
  <2>1. lock' = NoTask /\ waiting' = << >> /\ ToSet(waiting') = {} /\ IsInjective(waiting')
    BY <1>3 DEF Unlock, ReleaseSemaphore, ToSet, IsInjective
  <2>2. \A d \in Opener : pc'[d] \notin {"openUnit", "closeUnit"}
    BY <1>1, Alone
  <2>. QED
    BY <1>2, <1>3, <2>1, <2>2 DEF LockOK
<1>4. CASE waiting # << >>
  <2>. DEFINE h == Head(waiting)
  <2>1. lock' = h /\ waiting' = Tail(waiting)
    BY <1>4 DEF Unlock, ReleaseSemaphore
  <2>2. /\ h \in ToSet(waiting) /\ h \in Opener
        /\ waiting' \in Seq(Opener) /\ IsInjective(waiting')
        /\ ToSet(waiting') = ToSet(waiting) \ {h}
    BY <1>2, <1>4, <2>1, TailFacts DEF LifeInv, LockOK
  <2>. HIDE DEF h
  <2>3. ToSet(waiting) \subseteq Opener
    BY <1>2 DEF ToSet
  <2>4. \A d \in ToSet(waiting) : d # c /\ pc'[d] \in {"openWait", "closeWait"}
    BY <1>1, <2>3, Alone DEF LifeInv, LockOK
  <2>5. \A d \in Opener : pc'[d] \notin {"openUnit", "closeUnit"}
    BY <1>1, Alone
  <2>6. lock' # NoTask
    BY <2>1, <2>2, LifecycleAssumption
  <2>. QED
    BY <2>1, <2>2, <2>4, <2>5, <2>6 DEF LockOK
<1>. QED
  BY <1>3, <1>4

\* A call goes on to start or stop the unit process, and keeps the lock.
LEMMA KeepsLock ==
  ASSUME LifeInv, NEW c \in Opener, NEW l \in {"openUnit", "closeUnit"},
         \/ pc[c] \in {"closed", "open"} /\ lock = NoTask
         \/ pc[c] \notin {"closed", "open"} /\ lock = c,
         pc' = [pc EXCEPT ![c] = l], lock' = c, waiting' = waiting
  PROVE  LockOK'
<1>1. /\ pc'[c] = l
      /\ \A d \in Opener : d # c => pc'[d] = pc[d]
  BY Moved DEF LifeInv
<1>2. ToSet(waiting) \subseteq Opener
  BY DEF LifeInv, TypeOK, ToSet
<1>3. c # NoTask
  BY LifecycleAssumption
<1>. QED
  BY <1>1, <1>2, <1>3, Alone DEF LifeInv, LockOK

LEMMA LifeInitial == Init => LifeInv
<1>. SUFFICES ASSUME Init PROVE LifeInv
  OBVIOUS
<1>1. TypeOK
  <2>1. waiting \in Seq(Opener) /\ libFlags \subseteq {2, 4, 8, 16}
    BY DEF Init, LIBF_CHANGED, LIBF_SUMUSED
  <2>. QED
    BY <2>1 DEF Init, TypeOK
<1>2. Users = {} /\ Busy = {} /\ Cardinality({}) = 0
  BY FS_EmptySet DEF Init, Users, Busy
<1>3. ToSet(waiting) = {} /\ IsInjective(waiting)
  BY DEF Init, ToSet, IsInjective
<1>4. LockOK
  BY <1>3 DEF Init, LockOK
<1>5. CountsMatch /\ BaseOK
  BY <1>2 DEF Init, CountsMatch, BaseOK
<1>6. HandshakeOK
  BY <1>2 DEF Init, HandshakeOK
<1>. QED
  BY <1>1, <1>4, <1>5, <1>6 DEF LifeInv

\* A task begins to wait for the lock; it is counted only if it has the device.
LEMMA WaitKeeps ==
  ASSUME LifeInv, NEW c \in Opener,
         (\E f \in OpenFlags : OpenWaits(c, f)) \/ CloseWaits(c)
  PROVE  LifeInv'
<1>. USE DEF LifeInv
<1>1. PICK l \in {"openWait", "closeWait"} :
        /\ WaitForLock(c, l)
        /\ l = "openWait" => pc[c] = "closed"
        /\ l = "closeWait" => pc[c] = "open"
  BY DEF OpenWaits, CloseWaits
<1>2. /\ lock # NoTask /\ waiting' = Append(waiting, c) /\ lock' = lock
      /\ pc' = [pc EXCEPT ![c] = l]
      /\ pc[c] \in {"closed", "open"}
  BY <1>1 DEF WaitForLock
<1>3. /\ pc'[c] = l
      /\ \A d \in Opener : d # c => pc'[d] = pc[d]
      /\ Users' = Users /\ Busy' = Busy
  <2>1. c \notin Busy /\ c \notin Busy' /\ (c \in Users' <=> c \in Users)
    BY <1>1, <1>2, Moved
  <2>2. /\ Busy' = Busy \ {c}
        /\ Users' = Users \cup {c} \/ Users' = Users \ {c}
        /\ pc'[c] = l /\ \A d \in Opener : d # c => pc'[d] = pc[d]
    BY <1>2, Moved
  <2>. QED
    BY <2>1, <2>2
<1>4. UNCHANGED <<base, openCnt, libFlags, unitVars>>
  BY DEF OpenWaits, CloseWaits
<1>5. c \notin ToSet(waiting) /\ c # lock /\ waiting \in Seq(Opener)
  BY <1>2 DEF LockOK, TypeOK
<1>6. /\ waiting' \in Seq(Opener) /\ IsInjective(waiting')
      /\ ToSet(waiting') = ToSet(waiting) \cup {c}
  BY <1>2, <1>5, AppendFacts DEF LockOK
<1>7. TypeOK'
  <2>1. want' \in [Opener -> SUBSET {"MINE", "PROM"}]
    <3>1. CASE CloseWaits(c)
      BY <3>1 DEF CloseWaits, TypeOK
    <3>2. ASSUME NEW f \in OpenFlags, OpenWaits(c, f)
          PROVE  want' \in [Opener -> SUBSET {"MINE", "PROM"}]
      BY <3>2, LifecycleAssumption DEF OpenWaits, TypeOK
    <3>. QED
      BY <3>1, <3>2
  <2>. QED
    BY <1>2, <1>4, <1>6, <2>1 DEF TypeOK
<1>8. LockOK'
  <2>1. ToSet(waiting) \subseteq Opener
    BY <1>5 DEF ToSet
  <2>2. \A d \in ToSet(waiting') : pc'[d] \in {"openWait", "closeWait"} /\ d # lock
    BY <1>3, <1>5, <1>6, <2>1 DEF LockOK
  <2>3. pc'[lock] = pc[lock]
    BY <1>2, <1>3, <1>5 DEF TypeOK
  <2>4. \A d \in Opener : pc'[d] \in {"openUnit", "closeUnit"} => lock = d
    BY <1>3 DEF LockOK
  <2>. QED
    BY <1>2, <1>6, <2>2, <2>3, <2>4 DEF LockOK
<1>9. CountsMatch' /\ BaseOK'
  BY <1>3, <1>4 DEF CountsMatch, BaseOK
<1>10. HandshakeOK'
  <2>1. \A d \in Opener : pc'[d] \in {"openUnit", "closeUnit"} => pc[d] = pc'[d]
    BY <1>3
  <2>. QED
    BY <1>3, <1>4, <2>1 DEF HandshakeOK
<1>. QED
  BY <1>7, <1>8, <1>9, <1>10

\* What a task in DeviceOpen or DeviceClose may rely on.
LEMMA OpeningFacts ==
  ASSUME LifeInv, NEW c \in Opener, NEW f, Opening(c, f)
  PROVE  /\ base = "present" /\ pc[c] \in {"closed", "openWait"}
         /\ \/ pc[c] \in {"closed", "open"} /\ lock = NoTask
            \/ pc[c] \notin {"closed", "open"} /\ lock = c
         /\ Busy = {} /\ c \notin Users
         /\ want' \in [Opener -> SUBSET {"MINE", "PROM"}]
<1>1. /\ base = "present" /\ pc[c] \in {"closed", "openWait"}
      /\ \/ pc[c] \in {"closed", "open"} /\ lock = NoTask
         \/ pc[c] \notin {"closed", "open"} /\ lock = c
  BY DEF Opening, Locked
<1>2. Busy = {} /\ c \notin Users
  BY <1>1, Alone DEF Busy, Users
<1>3. want' \in [Opener -> SUBSET {"MINE", "PROM"}]
  BY DEF Opening, LifeInv, TypeOK
<1>. QED
  BY <1>1, <1>2, <1>3

LEMMA FlagsTyped == ASSUME NEW f PROVE FlagsFor(f) \subseteq {2, 4, 8, 16}
  BY DEF FlagsFor, ETHERUF_EXCLUSIVE, ETHERUF_PROMISC

\* Without a busy opener, the unit answers to those that have the device.
LEMMA Quiet ==
  ASSUME HandshakeOK, Busy = {}
  PROVE  /\ ctrlF = {} /\ unitProc \in {"none", "up"}
         /\ unitProc = "up" <=> unit
         /\ Users # {} => unit
  BY DEF HandshakeOK

LEMMA StaysQuiet ==
  ASSUME Busy' = {}, ctrlF' = {}, unitProc' \in {"none", "up"}, unitProc' = "up" <=> unit',
         Users' # {} => unit'
  PROVE  HandshakeOK'
<1>1. \A c \in Opener : pc'[c] \notin {"openUnit", "closeUnit"}
  BY DEF Busy
<1>. QED
  BY <1>1 DEF HandshakeOK

LEMMA FailKeeps ==
  ASSUME LifeInv, NEW c \in Opener, NEW f \in OpenFlags, OpenFails(c, f)
  PROVE  LifeInv'
<1>. USE DEF LifeInv
<1>1. Opening(c, f) /\ Unlock /\ pc' = [pc EXCEPT ![c] = "closed"]
      /\ UNCHANGED <<base, openCnt, unitVars>>
  BY DEF OpenFails
<1>2. LockOK' /\ lock' \in Opener \cup {NoTask} /\ waiting' \in Seq(Opener)
  BY <1>1, OpeningFacts, Unlocks
<1>3. Users' = Users /\ Busy' = {} /\ Busy = {}
  <2>1. Busy = {} /\ c \notin Users
    BY <1>1, OpeningFacts
  <2>2. Users' = Users \ {c} /\ Busy' = Busy \ {c}
    BY <1>1, Moved
  <2>. QED
    BY <2>1, <2>2
<1>4. libFlags' \subseteq {2, 4, 8, 16}
  BY FlagsTyped DEF OpenFails, TypeOK
<1>5. TypeOK'
  BY <1>1, <1>2, <1>4, OpeningFacts DEF TypeOK
<1>6. CountsMatch' /\ BaseOK'
  BY <1>1, <1>3 DEF CountsMatch, BaseOK
<1>7. HandshakeOK'
  BY <1>1, <1>3, Quiet, StaysQuiet
<1>. QED
  BY <1>2, <1>5, <1>6, <1>7

LEMMA StartKeeps ==
  ASSUME LifeInv, NEW c \in Opener, NEW f \in OpenFlags, OpenStartsUnit(c, f)
  PROVE  LifeInv'
<1>. USE DEF LifeInv
<1>1. /\ Opening(c, f) /\ ~unit /\ pc' = [pc EXCEPT ![c] = "openUnit"]
      /\ openCnt' = openCnt + 1 /\ libFlags' = libFlags \cup FlagsFor(f)
      /\ lock' = c /\ unitProc' = "starting" /\ unitCnt' = 0 /\ euProc' = Unit
      /\ online' = FALSE /\ pending' = [d \in Opener |-> {}]
      /\ UNCHANGED <<base, waiting, unit, ctrlF, bms>>
  BY DEF OpenStartsUnit
<1>2. LockOK'
  BY <1>1, OpeningFacts, KeepsLock
<1>3. Busy = {} /\ Users = {} /\ ctrlF = {}
  BY <1>1, OpeningFacts, Quiet
<1>4. /\ Users' = {} /\ Busy' = {c}
      /\ pc'[c] = "openUnit" /\ \A d \in Opener : d # c => pc'[d] = pc[d]
  BY <1>1, <1>3, Moved
<1>5. TypeOK'
  <2>1. libFlags' \subseteq {2, 4, 8, 16} /\ want' \in [Opener -> SUBSET {"MINE", "PROM"}]
    BY <1>1, OpeningFacts, FlagsTyped DEF TypeOK
  <2>2. pc' \in [Opener -> {"closed", "openWait", "openUnit", "open", "closeWait", "closeUnit"}]
    BY <1>1 DEF TypeOK
  <2>3. unitCnt' \in Nat /\ openCnt' \in Nat
    BY <1>1 DEF TypeOK
  <2>4. pending' \in [Opener -> SUBSET {"read", "orphan"}]
    BY <1>1
  <2>. QED
    BY <1>1, <2>1, <2>2, <2>3, <2>4 DEF TypeOK
<1>6. CountsMatch' /\ BaseOK'
  <2>1. Cardinality({}) = 0 /\ Cardinality({c}) = 1
    BY FS_EmptySet, FS_Singleton
  <2>2. openCnt = 0 /\ base = "present" /\ bms = {}
    BY <1>1, <1>3, <2>1, OpeningFacts DEF CountsMatch
  <2>. QED
    BY <1>1, <1>4, <2>1, <2>2 DEF CountsMatch, BaseOK
<1>7. HandshakeOK'
  <2>1. \A d \in Opener : d # c => pc'[d] \notin {"openUnit", "closeUnit"}
    BY <1>3, <1>4 DEF Busy
  <2>. QED
    BY <1>1, <1>3, <1>4, <2>1 DEF HandshakeOK
<1>. QED
  BY <1>2, <1>5, <1>6, <1>7

\* The last part of DeviceOpen, with a unit that runs.
LEMMA FinishOpenKeeps ==
  ASSUME LifeInv, NEW c \in Opener, NEW cnt \in Nat, NEW fl \in SUBSET {2, 4, 8, 16},
         FinishOpen(c, cnt, fl), Busy \subseteq {c}, c \notin Users, cnt = Cardinality(Users),
         \/ pc[c] \in {"closed", "open"} /\ lock = NoTask
         \/ pc[c] \notin {"closed", "open"} /\ lock = c,
         base = "present", unit', unitProc = "up", ctrlF = {},
         want' \in [Opener -> SUBSET {"MINE", "PROM"}]
  PROVE  LifeInv'
<1>. USE DEF LifeInv
<1>1. PICK l \in {"open", "closed"} :
        /\ pc' = [pc EXCEPT ![c] = l]
        /\ l = "open" => openCnt' = cnt + 1 /\ libFlags' = fl \ {LIBF_DELEXP}
                         /\ unitCnt' = unitCnt + 1 /\ bms' = bms \cup {c}
        /\ l = "closed" => openCnt' = cnt /\ libFlags' = fl /\ UNCHANGED <<unitCnt, bms>>
  BY DEF FinishOpen, Counted
<1>2. Unlock /\ UNCHANGED <<base, unitProc, euProc, ctrlF, online, pending>>
  BY DEF FinishOpen
<1>3. LockOK' /\ lock' \in Opener \cup {NoTask} /\ waiting' \in Seq(Opener)
  BY <1>1, <1>2, Unlocks
<1>4. /\ Busy' = {}
      /\ l = "open" => Users' = Users \cup {c}
      /\ l = "closed" => Users' = Users
  <2>1. /\ Busy' = Busy \ {c}
        /\ l = "open" => Users' = Users \cup {c}
        /\ l = "closed" => Users' = Users \ {c}
    BY <1>1, Moved
  <2>. QED
    BY <2>1
<1>5. TypeOK'
  <2>1. openCnt' \in Nat /\ unitCnt' \in Nat
    BY <1>1 DEF TypeOK
  <2>2. libFlags' \subseteq {2, 4, 8, 16} /\ bms' \subseteq Opener
    BY <1>1 DEF TypeOK
  <2>3. pc' \in [Opener -> {"closed", "openWait", "openUnit", "open", "closeWait", "closeUnit"}]
    BY <1>1 DEF TypeOK
  <2>. QED
    BY <1>2, <1>3, <2>1, <2>2, <2>3 DEF TypeOK
<1>6. CountsMatch' /\ BaseOK'
  <2>1. /\ Cardinality({}) = 0 /\ Users \in SUBSET Opener /\ Cardinality(Users) \in Nat
        /\ Cardinality(Users \cup {c}) = Cardinality(Users) + 1
    BY Counting DEF Users
  <2>2. unitCnt = Cardinality(Users) /\ bms = Users /\ base # "freed"
    BY DEF CountsMatch
  <2>3. CASE l = "open"
    <3>1. openCnt' = Cardinality(Users) + 1 /\ unitCnt' = Cardinality(Users) + 1
      BY <1>1, <2>2, <2>3
    <3>2. bms' = Users' /\ base' = base
      BY <1>1, <1>2, <1>4, <2>2, <2>3
    <3>3. Cardinality(Users') = Cardinality(Users) + 1 /\ Cardinality(Busy') = 0
      BY <1>4, <2>1, <2>3
    <3>. QED
      BY <2>1, <2>2, <3>1, <3>2, <3>3 DEF CountsMatch, BaseOK
  <2>4. CASE l = "closed"
    BY <1>1, <1>2, <1>4, <2>1, <2>2, <2>4 DEF CountsMatch, BaseOK
  <2>. QED
    BY <2>3, <2>4
<1>7. HandshakeOK'
  BY <1>2, <1>4, StaysQuiet
<1>. QED
  BY <1>3, <1>5, <1>6, <1>7

LEMMA JoinKeeps ==
  ASSUME LifeInv, NEW c \in Opener, NEW f \in OpenFlags, OpenJoinsUnit(c, f)
  PROVE  LifeInv'
<1>. USE DEF LifeInv
<1>1. Opening(c, f) /\ unit /\ unit' /\ FinishOpen(c, openCnt, libFlags \cup FlagsFor(f))
  BY DEF OpenJoinsUnit
<1>2. Busy = {} /\ c \notin Users /\ unitProc = "up" /\ ctrlF = {}
  BY <1>1, OpeningFacts, Quiet
<1>3. openCnt \in Nat /\ openCnt = Cardinality(Users)
  BY <1>2, FS_EmptySet DEF CountsMatch, TypeOK
<1>4. libFlags \cup FlagsFor(f) \in SUBSET {2, 4, 8, 16}
  BY FlagsTyped DEF TypeOK
<1>. QED
  BY <1>1, <1>2, <1>3, <1>4, OpeningFacts, FinishOpenKeeps

LEMMA UnitUpKeeps ==
  ASSUME LifeInv, NEW c \in Opener, OpenUnitUp(c)
  PROVE  LifeInv'
<1>. USE DEF LifeInv
<1>1. /\ pc[c] = "openUnit" /\ unitProc = "up" /\ unit'
      /\ FinishOpen(c, openCnt - 1, libFlags) /\ want' = want
  BY DEF OpenUnitUp
<1>2. lock = c
  BY <1>1 DEF LockOK
<1>3. Busy = {c} /\ Users = {}
  BY <1>1, <1>2, Alone DEF Busy, HandshakeOK
<1>4. openCnt = 1
  <2>1. Cardinality({}) = 0 /\ Cardinality({c}) = 1
    BY FS_EmptySet, FS_Singleton
  <2>2. openCnt = Cardinality(Users) + Cardinality(Busy)
    BY DEF CountsMatch
  <2>. QED
    BY <1>3, <2>1, <2>2
<1>5. base = "present"
  BY <1>4 DEF BaseOK, TypeOK
<1>6. ctrlF = {}
  BY <1>1 DEF HandshakeOK
<1>7. openCnt - 1 \in Nat /\ openCnt - 1 = Cardinality(Users)
  BY <1>3, <1>4, FS_EmptySet
<1>8. libFlags \in SUBSET {2, 4, 8, 16} /\ want' \in [Opener -> SUBSET {"MINE", "PROM"}]
  BY <1>1 DEF TypeOK
<1>. QED
  BY <1>1, <1>2, <1>3, <1>5, <1>6, <1>7, <1>8, FinishOpenKeeps

\* What a task in DeviceClose may rely on.
LEMMA ClosingFacts ==
  ASSUME LifeInv, NEW c \in Opener, Closing(c)
  PROVE  /\ base = "present" /\ pc[c] \in {"open", "closeWait"}
         /\ \/ pc[c] \in {"closed", "open"} /\ lock = NoTask
            \/ pc[c] \notin {"closed", "open"} /\ lock = c
         /\ Busy = {} /\ c \in Users
         /\ unit /\ unitProc = "up" /\ ctrlF = {}
         /\ unitCnt = Cardinality(Users) /\ openCnt = unitCnt /\ unitCnt \in Nat \ {0}
         /\ Cardinality(Users \ {c}) = unitCnt - 1
         /\ unitCnt = 1 => Users = {c}
<1>1. /\ base = "present" /\ pc[c] \in {"open", "closeWait"}
      /\ \/ pc[c] \in {"closed", "open"} /\ lock = NoTask
         \/ pc[c] \notin {"closed", "open"} /\ lock = c
  BY DEF Closing, Locked
<1>2. Busy = {} /\ c \in Users
  BY <1>1, Alone DEF Busy, Users
<1>3. unit /\ unitProc = "up" /\ ctrlF = {}
  BY <1>2, Quiet DEF LifeInv
<1>4. /\ Users \in SUBSET Opener /\ Users \ {c} \in SUBSET Opener
      /\ Cardinality({}) = 0
  BY FS_EmptySet DEF Users
<1>5. /\ Cardinality(Users) \in Nat /\ Cardinality(Users) # 0
      /\ Cardinality(Users \ {c}) = Cardinality(Users) - 1
      /\ Cardinality(Users \ {c}) = 0 => Users \ {c} = {}
  BY <1>2, <1>4, Counting
<1>6. unitCnt = Cardinality(Users) /\ openCnt = unitCnt
  BY <1>2, <1>4, <1>5 DEF LifeInv, CountsMatch
<1>. QED
  BY <1>1, <1>2, <1>3, <1>5, <1>6

LEMMA CloseTyped ==
  ASSUME LifeInv, NEW c \in Opener, Closing(c)
  PROVE  /\ pending' \in [Opener -> SUBSET {"read", "orphan"}]
         /\ bms' \subseteq Opener /\ libFlags' \subseteq {2, 4, 8, 16}
         /\ unitCnt' \in Nat /\ unitCnt' = unitCnt - 1 /\ bms' = Users \ {c}
<1>1. /\ pending' = [pending EXCEPT ![c] = @ \ {"read"}]
      /\ bms' = bms \ {c} /\ unitCnt' = unitCnt - 1 /\ libFlags' \subseteq libFlags
  BY DEF Closing
<1>2. pending' \in [Opener -> SUBSET {"read", "orphan"}]
  BY <1>1 DEF LifeInv, TypeOK
<1>3. bms = Users /\ bms \subseteq Opener /\ libFlags \subseteq {2, 4, 8, 16}
  BY DEF LifeInv, TypeOK, CountsMatch
<1>4. unitCnt \in Nat \ {0}
  BY ClosingFacts
<1>5. unitCnt' \in Nat
  BY <1>1, <1>4
<1>. QED
  BY <1>1, <1>2, <1>3, <1>5

LEMMA CloseOneKeeps ==
  ASSUME LifeInv, NEW c \in Opener, CloseOne(c)
  PROVE  LifeInv'
<1>. USE DEF LifeInv
<1>1. /\ Closing(c) /\ unitCnt > 1 /\ Unlock /\ pc' = [pc EXCEPT ![c] = "closed"]
      /\ openCnt' = openCnt - 1 /\ (openCnt # 1 => base' = base)
      /\ UNCHANGED <<unit, unitProc, euProc, ctrlF, online, want>>
  BY DEF CloseOne, FinishClose
<1>2. LockOK' /\ lock' \in Opener \cup {NoTask} /\ waiting' \in Seq(Opener)
  BY <1>1, ClosingFacts, Unlocks
<1>3. Users' = Users \ {c} /\ Busy' = {}
  <2>1. Users' = Users \ {c} /\ Busy' = Busy \ {c} /\ Busy = {}
    BY <1>1, Moved, ClosingFacts
  <2>. QED
    BY <2>1
<1>4. base' = base /\ base = "present" /\ openCnt' \in Nat
  <2>1. base = "present" /\ openCnt = unitCnt /\ unitCnt \in Nat \ {0}
    BY <1>1, ClosingFacts
  <2>. QED
    BY <1>1, <2>1
<1>5. TypeOK'
  <2>1. pc' \in [Opener -> {"closed", "openWait", "openUnit", "open", "closeWait", "closeUnit"}]
    BY <1>1 DEF TypeOK
  <2>. QED
    BY <1>1, <1>2, <1>4, <2>1, CloseTyped DEF TypeOK
<1>6. CountsMatch' /\ BaseOK'
  <2>1. Cardinality({}) = 0
    BY FS_EmptySet
  <2>2. /\ openCnt' = Cardinality(Users \ {c}) /\ unitCnt' = Cardinality(Users \ {c})
        /\ bms' = Users \ {c} /\ Cardinality(Users \ {c}) \in Nat
    BY <1>1, ClosingFacts, CloseTyped
  <2>. QED
    BY <1>3, <1>4, <2>1, <2>2 DEF CountsMatch, BaseOK
<1>7. HandshakeOK'
  BY <1>1, <1>3, ClosingFacts, StaysQuiet
<1>. QED
  BY <1>2, <1>5, <1>6, <1>7

LEMMA CloseLastKeeps ==
  ASSUME LifeInv, NEW c \in Opener, CloseLast(c)
  PROVE  LifeInv'
<1>. USE DEF LifeInv
<1>1. /\ Closing(c) /\ unitCnt = 1 /\ lock' = c /\ euProc' = c /\ ctrlF' = ctrlF \cup {Unit}
      /\ pc' = [pc EXCEPT ![c] = "closeUnit"]
      /\ UNCHANGED <<base, openCnt, waiting, unit, unitProc, online, want>>
  BY DEF CloseLast, LastCloser, Swapped
<1>2. LockOK'
  BY <1>1, ClosingFacts, KeepsLock
<1>3. /\ Users = {c} /\ Busy = {} /\ Users' = {} /\ Busy' = {c}
      /\ pc'[c] = "closeUnit" /\ \A d \in Opener : d # c => pc'[d] = pc[d]
  <2>1. Users = {c} /\ Busy = {}
    BY <1>1, ClosingFacts
  <2>2. /\ Users' = Users \ {c} /\ Busy' = Busy \cup {c}
        /\ pc'[c] = "closeUnit" /\ \A d \in Opener : d # c => pc'[d] = pc[d]
    BY <1>1, Moved
  <2>. QED
    BY <2>1, <2>2
<1>4. TypeOK'
  <2>1. pc' \in [Opener -> {"closed", "openWait", "openUnit", "open", "closeWait", "closeUnit"}]
    BY <1>1 DEF TypeOK
  <2>. QED
    BY <1>1, <2>1, CloseTyped DEF TypeOK
<1>5. CountsMatch' /\ BaseOK'
  <2>1. Cardinality({}) = 0 /\ Cardinality({c}) = 1
    BY FS_EmptySet, FS_Singleton
  <2>2. openCnt' = 1 /\ unitCnt' = 0 /\ bms' = {} /\ base' = "present"
    BY <1>1, <1>3, ClosingFacts, CloseTyped
  <2>. QED
    BY <1>3, <2>1, <2>2 DEF CountsMatch, BaseOK
<1>6. HandshakeOK'
  <2>1. ctrlF' = {Unit} /\ unit' /\ unitProc' = "up" /\ euProc' = c
    BY <1>1, ClosingFacts
  <2>2. \A d \in Opener : d # c => pc'[d] \notin {"openUnit", "closeUnit"}
    BY <1>3 DEF Busy
  <2>. QED
    BY <1>3, <2>1, <2>2 DEF HandshakeOK
<1>. QED
  BY <1>2, <1>4, <1>5, <1>6

LEMMA UnitGoneKeeps ==
  ASSUME LifeInv, NEW c \in Opener, CloseUnitGone(c)
  PROVE  LifeInv'
<1>. USE DEF LifeInv
<1>1. /\ pc[c] = "closeUnit" /\ c \in ctrlF /\ ctrlF' = ctrlF \ {c} /\ ~unit' /\ unit' = FALSE
      /\ pending' = [d \in Opener |-> {}]
      /\ Unlock /\ pc' = [pc EXCEPT ![c] = "closed"]
      /\ openCnt' = openCnt - 1 /\ base' \in {base, "freed"}
      /\ UNCHANGED <<libFlags, unitProc, unitCnt, euProc, online, bms, want>>
  BY DEF CloseUnitGone, Acknowledged, FinishClose
<1>2. lock = c
  BY <1>1 DEF LockOK
<1>3. LockOK' /\ lock' \in Opener \cup {NoTask} /\ waiting' \in Seq(Opener)
  BY <1>1, <1>2, Unlocks
<1>4. Busy = {c} /\ Users = {} /\ ctrlF = {c} /\ unitProc = "none"
  BY <1>1, <1>2, Alone, LifecycleAssumption DEF Busy, HandshakeOK
<1>5. Users' = {} /\ Busy' = {}
  <2>1. Users' = Users \ {c} /\ Busy' = Busy \ {c}
    BY <1>1, Moved
  <2>. QED
    BY <1>4, <2>1
<1>6. openCnt' = 0 /\ unitCnt = 0 /\ bms = {}
  <2>1. Cardinality({}) = 0 /\ Cardinality({c}) = 1
    BY FS_EmptySet, FS_Singleton
  <2>2. openCnt = Cardinality(Users) + Cardinality(Busy) /\ unitCnt = Cardinality(Users) /\ bms = Users
    BY DEF CountsMatch
  <2>. QED
    BY <1>1, <1>4, <2>1, <2>2
<1>7. TypeOK'
  <2>1. pc' \in [Opener -> {"closed", "openWait", "openUnit", "open", "closeWait", "closeUnit"}]
    BY <1>1 DEF TypeOK
  <2>2. pending' \in [Opener -> SUBSET {"read", "orphan"}] /\ ctrlF' \subseteq Opener \cup {Unit}
    BY <1>1 DEF TypeOK
  <2>. QED
    BY <1>1, <1>3, <1>6, <2>1, <2>2 DEF TypeOK
<1>8. CountsMatch' /\ BaseOK'
  BY <1>1, <1>5, <1>6, FS_EmptySet DEF CountsMatch, BaseOK
<1>9. HandshakeOK'
  <2>1. ctrlF' = {} /\ unitProc' = "none"
    BY <1>1, <1>4
  <2>. QED
    BY <1>1, <1>5, <2>1, StaysQuiet
<1>. QED
  BY <1>3, <1>7, <1>8, <1>9

LEMMA ExpungeKeeps ==
  ASSUME LifeInv, DeviceExpunge
  PROVE  LifeInv'
<1>. USE DEF LifeInv
<1>1. /\ libFlags' \subseteq libFlags \cup {8} /\ base' \in {"present", "freed"}
      /\ base' = "freed" => ~(openCnt > 0)
      /\ UNCHANGED <<openCnt, lock, waiting, unitVars, want, pc>>
  BY DEF DeviceExpunge, LIBF_DELEXP
<1>2. TypeOK'
  BY <1>1 DEF TypeOK
<1>3. Users' = Users /\ Busy' = Busy
  BY <1>1 DEF Users, Busy
<1>. QED
  BY <1>1, <1>2, <1>3 DEF LockOK, CountsMatch, BaseOK, HandshakeOK, TypeOK

\* The unit process, and what an opener does with the open device.
LEMMA UseKeeps ==
  ASSUME LifeInv,
         \/ UnitOnline
         \/ \E c \in Opener, k \in {"read", "orphan"} : QueueRead(c, k) \/ FulfillRead(c, k)
  PROVE  LifeInv'
<1>. USE DEF LifeInv
<1>1. UNCHANGED <<base, openCnt, libFlags, lock, waiting, unit, unitProc, unitCnt, euProc,
                 ctrlF, bms, want, pc>>
  BY DEF UnitOnline, QueueRead, FulfillRead
<1>2. online' \in BOOLEAN
  BY DEF UnitOnline, QueueRead, FulfillRead, TypeOK
<1>3. pending' \in [Opener -> SUBSET {"read", "orphan"}]
  BY DEF UnitOnline, QueueRead, FulfillRead, TypeOK
<1>4. TypeOK'
  BY <1>1, <1>2, <1>3 DEF TypeOK
<1>5. Users' = Users /\ Busy' = Busy
  BY <1>1 DEF Users, Busy
<1>. QED
  BY <1>1, <1>4, <1>5 DEF LockOK, CountsMatch, BaseOK, HandshakeOK

LEMMA ProcessKeeps ==
  ASSUME LifeInv, UnitStep
  PROVE  LifeInv'
<1>. USE DEF LifeInv
<1>1. UNCHANGED <<base, openCnt, libFlags, lock, waiting, unit, unitCnt, euProc, bms,
                 pending, want, pc>>
  BY DEF UnitStep, UnitStarts, UnitStops
<1>2. TypeOK'
  BY <1>1 DEF UnitStep, UnitStarts, UnitStops, TypeOK
<1>3. Users' = Users /\ Busy' = Busy
  BY <1>1 DEF Users, Busy
<1>4. LockOK' /\ CountsMatch' /\ BaseOK'
  BY <1>1, <1>3 DEF LockOK, CountsMatch, BaseOK
<1>5. \A c \in Opener : pc[c] \in {"openUnit", "closeUnit"} => Busy # {}
  BY DEF Busy
<1>6. HandshakeOK'
  <2>1. CASE UnitStarts
    <3>1. unitProc = "starting" /\ unitProc' = "up" /\ ctrlF' = ctrlF
      BY <2>1 DEF UnitStarts
    <3>2. Busy # {}
      BY <3>1 DEF HandshakeOK
    <3>. QED
      BY <1>1, <1>3, <3>1, <3>2 DEF HandshakeOK
  <2>2. CASE UnitStops
    <3>1. /\ unitProc = "up" /\ unitProc' = "none" /\ Unit \in ctrlF
          /\ ctrlF' = (ctrlF \ {Unit}) \cup {euProc}
      BY <2>2 DEF UnitStops
    <3>2. Busy # {} /\ \A c \in Opener : pc[c] # "openUnit"
      BY <3>1 DEF HandshakeOK
    <3>3. \A c \in Opener : pc[c] = "closeUnit" => ctrlF' = {c}
      BY <3>1, LifecycleAssumption DEF HandshakeOK
    <3>. QED
      BY <1>1, <1>3, <3>1, <3>2, <3>3 DEF HandshakeOK
  <2>. QED
    BY <2>1, <2>2 DEF UnitStep
<1>. QED
  BY <1>2, <1>4, <1>6

LEMMA LifeKeeps ==
  ASSUME LifeInv, [Next]_vars
  PROVE  LifeInv'
<1>1. CASE UNCHANGED vars
  BY <1>1 DEF vars, LifeInv, TypeOK, LockOK, CountsMatch, BaseOK, HandshakeOK, Users, Busy
<1>2. CASE UnitStep \/ UnitOnline \/ DeviceExpunge
  BY <1>2, ProcessKeeps, UseKeeps, ExpungeKeeps
<1>3. ASSUME NEW c \in Opener, OpenerNext(c)
      PROVE  LifeInv'
  <2>1. CASE OpenClose(c)
    BY <2>1, FailKeeps, StartKeeps, JoinKeeps, UnitUpKeeps, CloseOneKeeps, CloseLastKeeps,
       UnitGoneKeeps DEF OpenClose
  <2>2. CASE (\E f \in OpenFlags : OpenWaits(c, f)) \/ CloseWaits(c)
    BY <2>2, WaitKeeps
  <2>3. CASE \E k \in {"read", "orphan"} : QueueRead(c, k) \/ FulfillRead(c, k)
    BY <2>3, UseKeeps
  <2>. QED
    BY <1>3, <2>1, <2>2, <2>3 DEF OpenerNext
<1>. QED
  BY <1>1, <1>2, <1>3 DEF Next

LEMMA LifeInvariant == Spec => []LifeInv
  BY LifeInitial, LifeKeeps, PTL DEF Spec

\* Every variable keeps its type.
THEOREM LifeTypeCorrect == Spec => []TypeOK
<1>1. LifeInv => TypeOK
  BY DEF LifeInv
<1>. QED
  BY <1>1, LifeInvariant, PTL

\* The open counts agree with who has the device open, through every failed open
\* and every call that waits.
THEOREM CountsMatchHolds == Spec => []CountsMatch
<1>1. LifeInv => CountsMatch
  BY DEF LifeInv
<1>. QED
  BY <1>1, LifeInvariant, PTL

\* Whoever has the device open has a unit with a running process.
THEOREM UnitServesUsersHolds == Spec => []UnitServesUsers
<1>1. LifeInv => UnitServesUsers
  <2>. SUFFICES ASSUME LifeInv, Users # {} PROVE base = "present" /\ unit /\ unitProc = "up" /\ Unit \notin ctrlF
    BY DEF UnitServesUsers
  <2>1. Busy = {}
    BY DEF LifeInv, HandshakeOK, Busy
  <2>2. Users \in SUBSET Opener /\ Cardinality({}) = 0
    BY FS_EmptySet DEF Users
  <2>3. Cardinality(Users) \in Nat \ {0}
    BY <2>2, Counting
  <2>4. openCnt # 0
    BY <2>1, <2>2, <2>3 DEF LifeInv, CountsMatch
  <2>. QED
    BY <2>1, <2>4 DEF LifeInv, HandshakeOK, BaseOK, TypeOK
<1>. QED
  BY <1>1, LifeInvariant, PTL

\* The unit structure is not freed before its process has left it.
THEOREM UnitOutlivesProcessHolds == Spec => []UnitOutlivesProcess
<1>1. LifeInv => UnitOutlivesProcess
  BY DEF LifeInv, HandshakeOK, Busy, UnitOutlivesProcess
<1>. QED
  BY <1>1, LifeInvariant, PTL

-----------------------------------------------------------------------------
(* Nobody is stranded                                                        *)

\* Whoever waits for ed_DeviceLock has it or is in its queue, the queue has an
\* owner in front of it, and the owner is not stuck: it may go on at once, or it
\* waits for the unit process, which has its startup message or its CTRL_F, or
\* has answered.
InQueue == \A c \in Opener :
  pc[c] \in {"openWait", "closeWait"} => c = lock \/ c \in ToSet(waiting)

NobodyStranded ==
  /\ InQueue
  /\ waiting # <<>> => lock \in Opener
  /\ lock \in Opener =>
       \/ pc[lock] \in {"openWait", "closeWait"}
       \/ pc[lock] = "openUnit" /\ unitProc \in {"starting", "up"}
       \/ pc[lock] = "closeUnit" /\ unitProc = "up" /\ ctrlF = {Unit} /\ euProc = lock
       \/ pc[lock] = "closeUnit" /\ ctrlF = {lock}

LEMMA UnlockPasses ==
  ASSUME LifeInv, InQueue, NEW c \in Opener, NEW l \in {"closed", "open"},
         lock = NoTask \/ lock = c,
         pc' = [pc EXCEPT ![c] = l], Unlock
  PROVE  InQueue'
<1>. SUFFICES ASSUME NEW d \in Opener, pc'[d] \in {"openWait", "closeWait"}
              PROVE  d = lock' \/ d \in ToSet(waiting')
  BY DEF InQueue
<1>1. d # c /\ pc'[d] = pc[d]
  BY Moved DEF LifeInv
<1>2. d \in ToSet(waiting)
  BY <1>1, LifecycleAssumption DEF InQueue
<1>3. waiting # <<>> /\ waiting \in Seq(Opener) /\ IsInjective(waiting)
  BY <1>2 DEF ToSet, LifeInv, TypeOK, LockOK
<1>4. lock' = Head(waiting) /\ ToSet(waiting') = ToSet(waiting) \ {Head(waiting)}
  BY <1>3, TailFacts DEF Unlock, ReleaseSemaphore
<1>. QED
  BY <1>2, <1>4

\* A task goes on without the queue: it has the lock, and keeps it.
LEMMA OwnerPasses ==
  ASSUME LifeInv, InQueue, NEW c \in Opener, NEW l \in {"openUnit", "closeUnit"},
         lock = NoTask \/ lock = c,
         pc' = [pc EXCEPT ![c] = l], waiting' = waiting
  PROVE  InQueue'
<1>1. \A d \in Opener : d # c => pc'[d] = pc[d] /\ d # lock
  BY Moved, LifecycleAssumption DEF LifeInv
<1>2. pc'[c] = l
  BY Moved DEF LifeInv
<1>. QED
  BY <1>1, <1>2 DEF InQueue

LEMMA InQueueKept ==
  ASSUME LifeInv, InQueue, Next
  PROVE  InQueue'
<1>1. CASE UNCHANGED <<lock, waiting, pc>>
  BY <1>1 DEF InQueue
<1>2. ASSUME NEW c \in Opener, OpenerNext(c)
      PROVE  InQueue'
  <2>1. ASSUME NEW l \in {"openWait", "closeWait"}, WaitForLock(c, l)
        PROVE  InQueue'
    <3>1. ToSet(waiting') = ToSet(waiting) \cup {c} /\ lock' = lock
      BY <2>1, AppendFacts DEF WaitForLock, LifeInv, TypeOK
    <3>2. \A d \in Opener : d # c => pc'[d] = pc[d]
      BY <2>1, Moved DEF WaitForLock, LifeInv
    <3>. QED
      BY <3>1, <3>2 DEF InQueue
  <2>2. ASSUME NEW f \in OpenFlags, OpenWaits(c, f)
        PROVE  InQueue'
    BY <2>1, <2>2 DEF OpenWaits
  <2>3. CASE CloseWaits(c)
    BY <2>1, <2>3 DEF CloseWaits
  <2>4. ASSUME NEW f \in OpenFlags, OpenFails(c, f) \/ OpenJoinsUnit(c, f)
        PROVE  InQueue'
    <3>1. lock = NoTask \/ lock = c
      BY <2>4 DEF OpenFails, OpenJoinsUnit, Opening, Locked
    <3>2. Unlock /\ \E l \in {"closed", "open"} : pc' = [pc EXCEPT ![c] = l]
      BY <2>4 DEF OpenFails, OpenJoinsUnit, FinishOpen
    <3>. QED
      BY <1>2, <3>1, <3>2, UnlockPasses
  <2>5. ASSUME NEW f \in OpenFlags, OpenStartsUnit(c, f)
        PROVE  InQueue'
    BY <2>5, OwnerPasses DEF OpenStartsUnit, Opening, Locked
  <2>6. CASE OpenUnitUp(c) \/ CloseUnitGone(c)
    <3>1. lock = c
      BY <2>6 DEF OpenUnitUp, CloseUnitGone, LifeInv, LockOK
    <3>2. Unlock /\ \E l \in {"closed", "open"} : pc' = [pc EXCEPT ![c] = l]
      BY <2>6 DEF OpenUnitUp, CloseUnitGone, FinishOpen, FinishClose
    <3>. QED
      BY <3>1, <3>2, UnlockPasses
  <2>7. CASE CloseOne(c)
    BY <2>7, UnlockPasses DEF CloseOne, Closing, Locked, FinishClose
  <2>8. CASE CloseLast(c)
    BY <2>8, OwnerPasses DEF CloseLast, Closing, Locked
  <2>9. CASE \E k \in {"read", "orphan"} : QueueRead(c, k) \/ FulfillRead(c, k)
    BY <1>1, <2>9 DEF QueueRead, FulfillRead
  <2>. QED
    BY <1>2, <2>2, <2>3, <2>4, <2>5, <2>6, <2>7, <2>8, <2>9 DEF OpenerNext, OpenClose
<1>3. CASE UnitStep \/ UnitOnline \/ DeviceExpunge
  BY <1>1, <1>3 DEF UnitStep, UnitStarts, UnitStops, UnitOnline, DeviceExpunge
<1>. QED
  BY <1>2, <1>3 DEF Next

\* DeviceOpen, DeviceClose and DeviceExpunge never leave everyone waiting for
\* everyone: what ShutdownCompletes and LockServed say of a small instance under
\* fairness has, for any number of openers, no state it could get stuck in.
THEOREM NobodyStrandedHolds == Spec => []NobodyStranded
<1>1. Init => InQueue
  BY DEF Init, InQueue
<1>2. LifeInv /\ InQueue /\ [Next]_vars => InQueue'
  <2>1. ASSUME InQueue, UNCHANGED vars PROVE InQueue'
    BY <2>1 DEF vars, InQueue
  <2>. QED
    BY <2>1, InQueueKept
<1>3. LifeInv /\ InQueue => NobodyStranded
  <2>. SUFFICES ASSUME LifeInv, InQueue PROVE NobodyStranded
    OBVIOUS
  <2>1. lock \in Opener \cup {NoTask} /\ (lock = NoTask => waiting = <<>>)
    BY DEF LifeInv, TypeOK, LockOK
  <2>2. ASSUME lock \in Opener
        PROVE  \/ pc[lock] \in {"openWait", "closeWait"}
               \/ pc[lock] = "openUnit" /\ unitProc \in {"starting", "up"}
               \/ pc[lock] = "closeUnit" /\ unitProc = "up" /\ ctrlF = {Unit} /\ euProc = lock
               \/ pc[lock] = "closeUnit" /\ ctrlF = {lock}
    BY <2>2, LifecycleAssumption DEF LifeInv, LockOK, HandshakeOK
  <2>. QED
    BY <2>1, <2>2 DEF NobodyStranded
<1>. QED
  BY <1>1, <1>2, <1>3, LifeInvariant, PTL DEF Spec

-----------------------------------------------------------------------------
(* What DeviceClose leaves on the unit                                       *)

\* The requests of kind k belong to openers whose BufferManagement exists.
Kept(k) == \A c \in Opener : k \in pending[c] => c \in bms

LEMMA KindKept ==
  ASSUME NEW k \in {"read", "orphan"}, LifeInv, Kept(k), [Next]_vars,
         \/ k = "read"
         \/ \A c \in Opener : CloseOne(c) \/ CloseLast(c) => k \notin pending[c]
  PROVE  Kept(k)'
<1>. USE DEF Kept
<1>1. pending \in [Opener -> SUBSET {"read", "orphan"}] /\ bms = Users
  BY DEF LifeInv, TypeOK, CountsMatch
<1>2. CASE pending' = pending /\ bms' = bms
  BY <1>2
<1>3. CASE pending' = [c \in Opener |-> {}]
  BY <1>3
<1>4. ASSUME NEW c \in Opener, CloseOne(c) \/ CloseLast(c)
      PROVE  Kept(k)'
  <2>1. pending' = [pending EXCEPT ![c] = @ \ {"read"}] /\ bms' = bms \ {c}
    BY <1>4 DEF CloseOne, CloseLast, Closing
  <2>2. k \notin pending'[c]
    BY <1>1, <1>4, <2>1
  <2>. QED
    BY <1>1, <2>1, <2>2
<1>5. ASSUME NEW c \in Opener, OpenerNext(c)
      PROVE  Kept(k)'
  <2>1. ASSUME NEW f \in OpenFlags,
               OpenFails(c, f) \/ OpenStartsUnit(c, f) \/ OpenWaits(c, f)
        PROVE  Kept(k)'
    BY <1>2, <1>3, <2>1 DEF OpenFails, OpenStartsUnit, OpenWaits
  <2>2. ASSUME pending' = pending, bms' = bms \/ bms' = bms \cup {c}
        PROVE  Kept(k)'
    BY <2>2
  <2>3. ASSUME NEW f \in OpenFlags, OpenJoinsUnit(c, f)
        PROVE  Kept(k)'
    BY <2>2, <2>3 DEF OpenJoinsUnit, FinishOpen
  <2>4. CASE OpenUnitUp(c)
    BY <2>2, <2>4 DEF OpenUnitUp, FinishOpen
  <2>5. CASE CloseWaits(c) \/ CloseUnitGone(c)
    BY <1>2, <1>3, <2>5 DEF CloseWaits, CloseUnitGone
  <2>6. ASSUME NEW j \in {"read", "orphan"}, QueueRead(c, j)
        PROVE  Kept(k)'
    <3>1. c \in bms /\ bms' = bms /\ pending' = [pending EXCEPT ![c] = @ \cup {j}]
      BY <1>1, <2>6 DEF QueueRead, Users
    <3>. QED
      BY <1>1, <3>1
  <2>7. ASSUME NEW j \in {"read", "orphan"}, FulfillRead(c, j)
        PROVE  Kept(k)'
    BY <1>1, <2>7 DEF FulfillRead
  <2>. QED
    BY <1>4, <1>5, <2>1, <2>3, <2>4, <2>5, <2>6, <2>7 DEF OpenerNext, OpenClose
<1>6. CASE UnitStep \/ UnitOnline \/ DeviceExpunge \/ UNCHANGED vars
  BY <1>2, <1>6 DEF UnitStep, UnitStarts, UnitStops, UnitOnline, DeviceExpunge, vars
<1>. QED
  BY <1>5, <1>6 DEF Next

\* DeviceClose does abort every CMD_READ of its opener, also when it had to wait
\* for the lock: the only thing that outlives a BufferManagement on the unit is an
\* orphan read (device.c:434).
OnlyOrphansStay == \A c \in Opener : pending[c] \subseteq {"orphan"} \/ c \in bms

THEOREM OnlyOrphansStayHolds == Spec => []OnlyOrphansStay
<1>1. Init => Kept("read")
  BY DEF Init, Kept
<1>2. LifeInv /\ Kept("read") /\ [Next]_vars => Kept("read")'
  BY KindKept
<1>3. LifeInv /\ Kept("read") => OnlyOrphansStay
  BY DEF LifeInv, TypeOK, Kept, OnlyOrphansStay
<1>. QED
  BY <1>1, <1>2, <1>3, LifeInvariant, PTL DEF Spec

\* Nobody calls CloseDevice() while an orphan read of his is on the unit.
ClosesAlone ==
  \A c \in Opener : CloseOne(c) \/ CloseLast(c) => "orphan" \notin pending[c]

\* An opener that takes its orphan reads back before it closes leaves nothing on
\* the unit: this is all it takes to keep what device.c:434 says.
THEOREM ClosedUnlessOrphans == Spec /\ [][ClosesAlone]_vars => []NoReadAfterClose
<1>1. Init => Kept("read") /\ Kept("orphan")
  BY DEF Init, Kept
<1>2. /\ LifeInv /\ Kept("read") /\ Kept("orphan")
      /\ [Next]_vars /\ [ClosesAlone]_vars
      => Kept("read")' /\ Kept("orphan")'
  <2>1. ASSUME LifeInv, Kept("read"), Kept("orphan"), Next, ClosesAlone
        PROVE  Kept("read")' /\ Kept("orphan")'
    BY <2>1, KindKept DEF ClosesAlone
  <2>2. ASSUME Kept("read"), Kept("orphan"), UNCHANGED vars
        PROVE  Kept("read")' /\ Kept("orphan")'
    BY <2>2 DEF vars, Kept
  <2>. QED
    BY <2>1, <2>2
<1>3. LifeInv /\ Kept("read") /\ Kept("orphan") => NoReadAfterClose
  BY DEF LifeInv, TypeOK, Kept, NoReadAfterClose
<1>. QED
  BY <1>1, <1>2, <1>3, LifeInvariant, PTL DEF Spec

-----------------------------------------------------------------------------
(* DeviceLifecycle implements SharedUnit                                     *)

\* The state as SharedUnit sees it.
Places == [c \in Opener |-> PlaceOf[pc[c]]]
UnitNow == IF unitProc = "up" /\ Unit \notin ctrlF THEN "up" ELSE "down"

LEMMA PlaceFacts ==
  /\ PlaceOf["closed"] = "out" /\ PlaceOf["openWait"] = "out"
  /\ PlaceOf["openUnit"] = "entering" /\ PlaceOf["closeUnit"] = "leaving"
  /\ PlaceOf["open"] = "in" /\ PlaceOf["closeWait"] = "in"
  BY DEF PlaceOf

LEMMA PlaceMeans ==
  ASSUME TypeOK, NEW c \in Opener
  PROVE  /\ Places[c] = "out" <=> c \notin Users /\ c \notin Busy
         /\ Places[c] = "in" <=> c \in Users
         /\ Places[c] = "entering" <=> pc[c] = "openUnit"
         /\ Places[c] = "leaving" <=> pc[c] = "closeUnit"
<1>1. pc[c] \in {"closed", "openWait", "openUnit", "open", "closeWait", "closeUnit"}
  BY DEF TypeOK
<1>2. Places[c] = PlaceOf[pc[c]]
  BY DEF Places
<1>. QED
  BY <1>1, <1>2, PlaceFacts DEF Users, Busy

LEMMA Moves ==
  ASSUME TypeOK, NEW c \in Opener, NEW l, pc' = [pc EXCEPT ![c] = l]
  PROVE  /\ Places' = [Places EXCEPT ![c] = PlaceOf[l]]
         /\ l = "closed" => Places' = [Places EXCEPT ![c] = "out"]
         /\ l = "openUnit" => Places' = [Places EXCEPT ![c] = "entering"]
         /\ l = "open" => Places' = [Places EXCEPT ![c] = "in"]
         /\ l = "closeUnit" => Places' = [Places EXCEPT ![c] = "leaving"]
<1>1. pc'[c] = l /\ \A d \in Opener : d # c => pc'[d] = pc[d]
  BY Moved
<1>2. Places' = [d \in Opener |-> PlaceOf[pc'[d]]]
  BY DEF Places
<1>3. \A d \in Opener : Places'[d] = [Places EXCEPT ![c] = PlaceOf[l]][d]
  BY <1>1, <1>2 DEF Places
<1>4. Places' = [Places EXCEPT ![c] = PlaceOf[l]]
  BY <1>2, <1>3 DEF Places
<1>. QED
  BY <1>4, PlaceFacts

\* A task may look at SharedUnit through the users and the busy ones.
LEMMA OthersOut ==
  ASSUME LifeInv, NEW c \in Opener
  PROVE  /\ Users \subseteq {c} /\ Busy \subseteq {c} => Shared!Alone(c)
         /\ Busy \subseteq {c} => Shared!Settled(c)
         /\ \A d \in Users : d # c => ~Shared!Alone(c)
<1>1. \A d \in Opener : /\ Places[d] = "out" <=> d \notin Users /\ d \notin Busy
                        /\ Places[d] = "in" <=> d \in Users
  BY PlaceMeans DEF LifeInv
<1>2. Users \subseteq Opener
  BY DEF Users
<1>. QED
  BY <1>1, <1>2 DEF Shared!Alone, Shared!Settled, Places

\* Nothing that SharedUnit sees has changed.
LEMMA Unseen ==
  ASSUME TypeOK, UNCHANGED <<base, unitProc, ctrlF>>,
         \/ pc' = pc
         \/ \E c \in Opener, l \in {"closed", "openWait", "closeWait"} :
              pc' = [pc EXCEPT ![c] = l] /\ PlaceOf[pc[c]] = PlaceOf[l]
  PROVE  UNCHANGED <<Places, UnitNow, base>>
<1>1. UnitNow' = UnitNow
  BY DEF UnitNow
<1>2. CASE pc' = pc
  BY <1>1, <1>2 DEF Places
<1>3. ASSUME NEW c \in Opener, NEW l \in {"closed", "openWait", "closeWait"},
             pc' = [pc EXCEPT ![c] = l], PlaceOf[pc[c]] = PlaceOf[l]
      PROVE  Places' = Places
  <2>1. Places' = [Places EXCEPT ![c] = PlaceOf[l]]
    BY <1>3, Moves
  <2>2. Places[c] = PlaceOf[l]
    BY <1>3 DEF Places
  <2>. QED
    BY <2>1, <2>2 DEF Places
<1>. QED
  BY <1>1, <1>2, <1>3

LEMMA StartIsEnter ==
  ASSUME LifeInv, NEW c \in Opener, NEW f, OpenStartsUnit(c, f)
  PROVE  Shared!Enter(c)
<1>1. /\ Opening(c, f) /\ ~unit /\ pc' = [pc EXCEPT ![c] = "openUnit"]
      /\ unitProc' = "starting" /\ base' = base
  BY DEF OpenStartsUnit
<1>2. Busy = {} /\ Users = {} /\ unitProc # "up" /\ base = "present"
  BY <1>1, OpeningFacts, Quiet DEF LifeInv
<1>3. Shared!Alone(c) /\ Places[c] = "out"
  BY <1>2, OthersOut, PlaceMeans DEF LifeInv
<1>4. Places' = [Places EXCEPT ![c] = "entering"]
  BY <1>1, Moves DEF LifeInv
<1>5. UnitNow = "down" /\ UnitNow' = "down"
  BY <1>1, <1>2 DEF UnitNow
<1>. QED
  BY <1>1, <1>2, <1>3, <1>4, <1>5 DEF Shared!Enter, Shared!Move, Places, UnitNow

\* The end of DeviceOpen brings the opener in, or out again.
LEMMA FinishIsJoin ==
  ASSUME LifeInv, NEW c \in Opener, NEW cnt, NEW fl, FinishOpen(c, cnt, fl),
         Busy \subseteq {c}, c \notin Users, base = "present",
         unitProc = "up", ctrlF = {}, c \in Busy => Users = {} /\ pc[c] = "openUnit"
  PROVE  \/ Shared!Join(c) \/ Shared!GiveUp(c)
         \/ UNCHANGED <<Places, UnitNow, base>>
<1>1. UNCHANGED <<base, unitProc, ctrlF>>
  BY DEF FinishOpen
<1>2. UnitNow = "up" /\ UnitNow' = "up"
  BY <1>1 DEF UnitNow
<1>3. Places[c] \in {"out", "entering"} /\ (Places[c] = "entering" <=> c \in Busy)
  BY PlaceMeans DEF LifeInv, Busy
<1>4. Shared!Settled(c)
  BY OthersOut
<1>5. CASE pc' = [pc EXCEPT ![c] = "open"]
  <2>1. Places' = [Places EXCEPT ![c] = "in"]
    BY <1>5, Moves DEF LifeInv
  <2>2. Shared!Join(c)
    BY <1>1, <1>2, <1>3, <1>4, <2>1 DEF Shared!Join, Shared!Move, Places, UnitNow
  <2>. QED
    BY <2>2
<1>6. CASE pc' = [pc EXCEPT ![c] = "closed"] /\ c \in Busy
  <2>1. Places' = [Places EXCEPT ![c] = "out"]
    BY <1>6, Moves DEF LifeInv
  <2>2. Shared!Alone(c)
    BY <1>6, OthersOut
  <2>3. Shared!GiveUp(c)
    BY <1>1, <1>2, <1>3, <1>6, <2>1, <2>2 DEF Shared!GiveUp, Shared!Move, Places, UnitNow
  <2>. QED
    BY <2>3
<1>7. CASE pc' = [pc EXCEPT ![c] = "closed"] /\ c \notin Busy
  <2>1. PlaceOf[pc[c]] = "out"
    BY <1>3, <1>7 DEF Places
  <2>. QED
    BY <1>1, <1>7, <2>1, Unseen, PlaceFacts DEF LifeInv
<1>8. pc' = [pc EXCEPT ![c] = "open"] \/ pc' = [pc EXCEPT ![c] = "closed"]
  BY DEF FinishOpen
<1>. QED
  BY <1>5, <1>6, <1>7, <1>8

LEMMA JoinIsJoin ==
  ASSUME LifeInv, NEW c \in Opener, NEW f, OpenJoinsUnit(c, f)
  PROVE  Shared!Join(c) \/ Shared!GiveUp(c) \/ UNCHANGED <<Places, UnitNow, base>>
<1>1. Opening(c, f) /\ unit /\ FinishOpen(c, openCnt, libFlags \cup FlagsFor(f))
  BY DEF OpenJoinsUnit
<1>2. Busy = {} /\ c \notin Users /\ base = "present" /\ unitProc = "up" /\ ctrlF = {}
  BY <1>1, OpeningFacts, Quiet DEF LifeInv
<1>. QED
  BY <1>1, <1>2, FinishIsJoin

LEMMA UnitUpIsJoin ==
  ASSUME LifeInv, NEW c \in Opener, OpenUnitUp(c)
  PROVE  Shared!Join(c) \/ Shared!GiveUp(c) \/ UNCHANGED <<Places, UnitNow, base>>
<1>1. pc[c] = "openUnit" /\ unitProc = "up" /\ FinishOpen(c, openCnt - 1, libFlags)
  BY DEF OpenUnitUp
<1>2. Users = {} /\ ctrlF = {} /\ Busy = {c}
  BY <1>1, Alone DEF LifeInv, LockOK, HandshakeOK, Busy
<1>3. base = "present"
  <2>1. openCnt = 1
    BY <1>2, FS_EmptySet, FS_Singleton DEF LifeInv, CountsMatch
  <2>. QED
    BY <2>1 DEF LifeInv, BaseOK, TypeOK
<1>. QED
  BY <1>1, <1>2, <1>3, FinishIsJoin

LEMMA CloseOneIsLeave ==
  ASSUME LifeInv, NEW c \in Opener, CloseOne(c)
  PROVE  Shared!Leave(c)
<1>1. /\ Closing(c) /\ unitCnt > 1 /\ pc' = [pc EXCEPT ![c] = "closed"]
      /\ (openCnt # 1 => base' = base) /\ UNCHANGED <<unitProc, ctrlF>>
  BY DEF CloseOne, FinishClose
<1>2. /\ Busy = {} /\ c \in Users /\ base' = base
      /\ Cardinality(Users \ {c}) # 0
  BY <1>1, ClosingFacts
<1>3. PICK d \in Users : d # c
  BY <1>2, FS_EmptySet
<1>4. Shared!Settled(c) /\ ~Shared!Alone(c) /\ Places[c] = "in"
  BY <1>2, <1>3, OthersOut, PlaceMeans DEF LifeInv
<1>5. Places' = [Places EXCEPT ![c] = "out"]
  BY <1>1, Moves DEF LifeInv
<1>. QED
  BY <1>1, <1>2, <1>4, <1>5 DEF Shared!Leave, Shared!Move, Places, UnitNow

LEMMA CloseLastIsLeaveLast ==
  ASSUME LifeInv, NEW c \in Opener, CloseLast(c)
  PROVE  Shared!LeaveLast(c)
<1>1. /\ Closing(c) /\ unitCnt = 1 /\ pc' = [pc EXCEPT ![c] = "closeUnit"]
      /\ base' = base /\ ctrlF' = ctrlF \cup {Unit}
  BY DEF CloseLast, LastCloser
<1>2. Busy = {} /\ Users = {c}
  BY <1>1, ClosingFacts
<1>3. Shared!Alone(c) /\ Places[c] = "in"
  BY <1>2, OthersOut, PlaceMeans DEF LifeInv
<1>4. Places' = [Places EXCEPT ![c] = "leaving"]
  BY <1>1, Moves DEF LifeInv
<1>5. UnitNow' = "down"
  BY <1>1 DEF UnitNow
<1>. QED
  BY <1>1, <1>3, <1>4, <1>5 DEF Shared!LeaveLast, Shared!Move, Places, UnitNow

LEMMA UnitGoneIsGone ==
  ASSUME LifeInv, NEW c \in Opener, CloseUnitGone(c)
  PROVE  Shared!Gone(c)
<1>1. /\ pc[c] = "closeUnit" /\ c \in ctrlF /\ pc' = [pc EXCEPT ![c] = "closed"]
      /\ base' \in {base, "freed"} /\ unitProc' = unitProc
  BY DEF CloseUnitGone, Acknowledged, FinishClose
<1>2. Busy = {c} /\ Users = {} /\ unitProc = "none"
  BY <1>1, Alone, LifecycleAssumption DEF LifeInv, LockOK, HandshakeOK, Busy
<1>3. Shared!Alone(c) /\ Places[c] = "leaving"
  BY <1>1, <1>2, OthersOut, PlaceMeans DEF LifeInv
<1>4. Places' = [Places EXCEPT ![c] = "out"]
  BY <1>1, Moves DEF LifeInv
<1>5. UnitNow = "down" /\ UnitNow' = "down"
  BY <1>1, <1>2 DEF UnitNow
<1>. QED
  BY <1>1, <1>3, <1>4, <1>5 DEF Shared!Gone, Shared!Move, Places, UnitNow

LEMMA StartsIsStart ==
  ASSUME LifeInv, UnitStarts
  PROVE  Shared!Start
<1>1. unitProc = "starting" /\ unitProc' = "up" /\ UNCHANGED <<base, ctrlF, pc>>
  BY DEF UnitStarts
<1>2. PICK c \in Opener : pc[c] = "openUnit"
  BY <1>1 DEF LifeInv, HandshakeOK, Busy
<1>3. Users = {} /\ ctrlF = {} /\ Busy = {c}
  BY <1>2, Alone DEF LifeInv, LockOK, HandshakeOK, Busy
<1>4. base = "present"
  <2>1. Cardinality({}) = 0 /\ Cardinality({c}) = 1
    BY FS_EmptySet, FS_Singleton
  <2>2. openCnt = 1
    BY <1>3, <2>1 DEF LifeInv, CountsMatch
  <2>. QED
    BY <2>2 DEF LifeInv, BaseOK, TypeOK
<1>5. Shared!Alone(c) /\ Places[c] = "entering"
  BY <1>2, <1>3, OthersOut, PlaceMeans DEF LifeInv
<1>6. UnitNow = "down" /\ UnitNow' = "up" /\ Places' = Places
  BY <1>1, <1>3 DEF UnitNow, Places
<1>. QED
  BY <1>1, <1>4, <1>5, <1>6 DEF Shared!Start, Places, UnitNow

LEMMA StopsUnseen ==
  ASSUME LifeInv, UnitStops
  PROVE  UNCHANGED <<Places, UnitNow, base>>
<1>1. UnitNow = "down" /\ UnitNow' = "down" /\ UNCHANGED <<base, pc>>
  BY DEF UnitStops, UnitNow
<1>. QED
  BY <1>1 DEF Places

LEMMA ExpungeIsUnload ==
  ASSUME LifeInv, DeviceExpunge
  PROVE  Shared!Unload \/ UNCHANGED <<Places, UnitNow, base>>
<1>1. UNCHANGED <<unitVars, pc, openCnt>>
  BY DEF DeviceExpunge
<1>2. Places' = Places /\ UnitNow' = UnitNow
  BY <1>1 DEF Places, UnitNow
<1>3. CASE openCnt > 0
  BY <1>2, <1>3 DEF DeviceExpunge
<1>4. CASE ~(openCnt > 0)
  <2>1. base' = "freed"
    BY <1>4 DEF DeviceExpunge
  <2>2. /\ Users \in SUBSET Opener /\ Busy \in SUBSET Opener
        /\ Cardinality(Users) \in Nat /\ Cardinality(Busy) \in Nat
        /\ Cardinality(Users) = 0 => Users = {}
        /\ Cardinality(Busy) = 0 => Busy = {}
    BY Counting DEF Users, Busy
  <2>3. openCnt = Cardinality(Users) + Cardinality(Busy)
    BY DEF LifeInv, CountsMatch
  <2>4. Users = {} /\ Busy = {}
    BY <1>4, <2>2, <2>3
  <2>5. \A c \in Opener : Places[c] = "out"
    BY <2>4, PlaceMeans DEF LifeInv
  <2>. QED
    BY <1>2, <2>1, <2>5 DEF Shared!Unload, Places, UnitNow
<1>. QED
  BY <1>3, <1>4

\* DeviceOpen, DeviceClose and DeviceExpunge keep what the openers are promised,
\* for any number of openers and any flags: the open counts, the lock that is
\* handed on and the two signals of the handshake add up to one shared unit that
\* nobody finds half started, half stopped or freed.
THEOREM SharesUnitHolds == Spec => SharesUnit
<1>1. Init => Shared!Init
  <2>. SUFFICES ASSUME Init PROVE Shared!Init
    OBVIOUS
  <2>1. Places = [c \in Opener |-> "out"]
    BY PlaceFacts DEF Init, Places
  <2>2. UnitNow = "down"
    BY DEF Init, UnitNow
  <2>. QED
    BY <2>1, <2>2 DEF Init, Shared!Init, Places, UnitNow
<1>2. ASSUME LifeInv, [Next]_vars
      PROVE  [Shared!Next]_<<Places, UnitNow, base>>
  <2>1. CASE UNCHANGED vars
    BY <2>1 DEF vars, Places, UnitNow
  <2>2. CASE UnitStep
    BY <1>2, <2>2, StartsIsStart, StopsUnseen DEF UnitStep, Shared!Next
  <2>3. CASE UnitOnline
    BY <1>2, <2>3, Unseen DEF UnitOnline, LifeInv
  <2>4. CASE DeviceExpunge
    BY <1>2, <2>4, ExpungeIsUnload DEF Shared!Next
  <2>5. ASSUME NEW c \in Opener, OpenerNext(c)
        PROVE  [Shared!Next]_<<Places, UnitNow, base>>
    <3>1. ASSUME NEW f \in OpenFlags, OpenStartsUnit(c, f) \/ OpenJoinsUnit(c, f)
          PROVE  [Shared!Next]_<<Places, UnitNow, base>>
      BY <1>2, <3>1, StartIsEnter, JoinIsJoin DEF Shared!Next
    <3>2. ASSUME NEW f \in OpenFlags, OpenFails(c, f)
          PROVE  UNCHANGED <<Places, UnitNow, base>>
      <4>1. UNCHANGED <<base, unitProc, ctrlF>> /\ pc' = [pc EXCEPT ![c] = "closed"]
        BY <3>2 DEF OpenFails
      <4>2. PlaceOf[pc[c]] = "out"
        BY <3>2, PlaceFacts DEF OpenFails, Opening, Locked
      <4>. QED
        BY <1>2, <4>1, <4>2, Unseen, PlaceFacts DEF LifeInv
    <3>3. CASE OpenUnitUp(c)
      BY <1>2, <3>3, UnitUpIsJoin DEF Shared!Next
    <3>4. CASE CloseOne(c) \/ CloseLast(c) \/ CloseUnitGone(c)
      BY <1>2, <3>4, CloseOneIsLeave, CloseLastIsLeaveLast, UnitGoneIsGone DEF Shared!Next
    <3>5. ASSUME NEW f \in OpenFlags, OpenWaits(c, f)
          PROVE  UNCHANGED <<Places, UnitNow, base>>
      BY <1>2, <3>5, Unseen, PlaceFacts DEF OpenWaits, WaitForLock, LifeInv
    <3>6. CASE CloseWaits(c)
      BY <1>2, <3>6, Unseen, PlaceFacts DEF CloseWaits, WaitForLock, LifeInv
    <3>7. CASE \E k \in {"read", "orphan"} : QueueRead(c, k) \/ FulfillRead(c, k)
      BY <1>2, <3>7, Unseen DEF QueueRead, FulfillRead, LifeInv
    <3>. QED
      BY <2>5, <3>1, <3>2, <3>3, <3>4, <3>5, <3>6, <3>7 DEF OpenerNext, OpenClose
  <2>. QED
    BY <1>2, <2>1, <2>2, <2>3, <2>4, <2>5 DEF Next
<1>. QED
  BY <1>1, <1>2, LifeInvariant, PTL DEF Spec, SharesUnit, Shared!Spec, Places, UnitNow
===============================================================================
