--------------------------- MODULE DeviceLifecycle ---------------------------
(***************************************************************************)
(* Opening, closing and unloading ksz8851.device (DeviceInit, DeviceOpen,  *)
(* DeviceClose, DeviceExpunge, InitUnitProcess, ExpungeUnit and the start  *)
(* and end of DevProcEntry in devicedriver/device.c).                      *)
(*                                                                         *)
(* Exec calls these functions under Forbid(), which a Wait() breaks.  The  *)
(* places where they wait are ed_DeviceLock when another task has it, the  *)
(* reply to the startup message, and the acknowledgement of a shutdown; a  *)
(* step runs from one of them to the next.  DeviceExpunge takes no lock,   *)
(* and may be called by any task at every one of them.                     *)
(*                                                                         *)
(* There is one unit (ED_MAXUNITS).  lib_Flags is the set of the values of *)
(* its bits; ETHERUF_EXCLUSIVE, _LOOPBACK and _PROMISC are 4, 8 and 16,    *)
(* and DeviceOpen and DeviceClose use them on lib_Flags, where 4 is        *)
(* LIBF_SUMUSED and 8 is LIBF_DELEXP.                                      *)
(***************************************************************************)
EXTENDS Integers, FiniteSets, Sequences

CONSTANTS Opener,      \* the tasks that open the device, once at a time
          Unit,        \* the unit process
          NoTask,      \* "the lock is free"
          OpenFlags    \* the flags OpenDevice is called with

ASSUME LifecycleAssumption ==
  /\ IsFiniteSet(Opener)
  /\ Unit \notin Opener
  /\ NoTask \notin Opener \cup {Unit}
  /\ OpenFlags \subseteq SUBSET {"MINE", "PROM"}

LIBF_CHANGED == 2
LIBF_SUMUSED == 4
LIBF_DELEXP  == 8
ETHERUF_EXCLUSIVE == 4
ETHERUF_LOOPBACK  == 8
ETHERUF_PROMISC   == 16

VARIABLES
  base,     \* the device base: "present" or "freed"
  openCnt,  \* lib_OpenCnt
  libFlags, \* lib_Flags
  lock,     \* the owner of ed_DeviceLock
  waiting,  \* the tasks that wait for it
  unit,     \* ed_Units[0] is not NULL
  unitProc, \* the unit process: "none", "starting" or "up"
  unitCnt,  \* unit_OpenCnt
  euProc,   \* eu_Proc: the task that a Signal(eu_Proc) reaches
  ctrlF,    \* the tasks with SIGBREAKF_CTRL_F pending
  online,   \* ETHERUF_ONLINE in eu_State
  bms,      \* the openers whose BufferManagement is in eu_BuffMgmt
  pending,  \* the kinds of read requests each opener has queued
  want,     \* the flags of an OpenDevice that waits for the lock
  pc        \* where each opener is

unitVars == <<unit, unitProc, unitCnt, euProc, ctrlF, online, bms, pending>>
vars == <<base, openCnt, libFlags, lock, waiting, unitVars, want, pc>>

Goto(c, l) == pc' = [pc EXCEPT ![c] = l]

-----------------------------------------------------------------------------
(* ed_DeviceLock                                                             *)

\* The task asks for the lock while another one has it.
WaitForLock(c, l) ==
  /\ lock # NoTask
  /\ waiting' = Append(waiting, c)
  /\ Goto(c, l)
  /\ UNCHANGED lock

\* The task is at from and finds the lock free, or it got it after a wait.
Locked(c, from, wait) ==
  \/ pc[c] = from /\ lock = NoTask
  \/ pc[c] = wait /\ lock = c

\* ReleaseSemaphore hands the lock to the first task that waits.
ReleaseSemaphore ==
  IF waiting = <<>> THEN /\ lock' = NoTask
                         /\ UNCHANGED waiting
                    ELSE /\ lock' = Head(waiting)
                         /\ waiting' = Tail(waiting)

\* The end of DeviceOpen and DeviceClose.  The mutant keeps the lock.
KeepLock == UNCHANGED <<lock, waiting>>
Unlock == ReleaseSemaphore

-----------------------------------------------------------------------------
(* DeviceOpen and InitUnitProcess                                            *)

OpenWaits(c, f) ==
  /\ base = "present"
  /\ pc[c] = "closed"
  /\ want' = [want EXCEPT ![c] = f]
  /\ WaitForLock(c, "openWait")
  /\ UNCHANGED <<base, openCnt, libFlags, unitVars>>

\* A task in DeviceOpen, with the lock and the flags f.
Opening(c, f) ==
  /\ base = "present"
  /\ Locked(c, "closed", "openWait")
  /\ pc[c] = "openWait" => f = want[c]
  /\ want' = [want EXCEPT ![c] = {}]

\* SANA2OPF_MINE needs a device that nobody has open, SANA2OPF_PROM needs
\* SANA2OPF_MINE.
Allowed(f) == /\ "MINE" \in f => openCnt = 0
              /\ "PROM" \in f => "MINE" \in f

FlagsFor(f) == (IF "MINE" \in f THEN {ETHERUF_EXCLUSIVE} ELSE {})
                 \cup (IF "PROM" \in f THEN {ETHERUF_PROMISC} ELSE {})

\* The open fails: the stack is too small or there is no such unit, the flags
\* are refused, or, after lib_Flags was changed, there is no hardware or the
\* unit process cannot be started.  lib_OpenCnt goes up and down again.
OpenFails(c, f) ==
  /\ Opening(c, f)
  /\ \/ UNCHANGED libFlags
     \/ /\ Allowed(f)
        /\ libFlags' = libFlags \cup FlagsFor(f)
  /\ Unlock
  /\ Goto(c, "closed")
  /\ UNCHANGED <<base, openCnt, unitVars>>

\* InitUnitProcess starts the unit process and waits.
OpenStartsUnit(c, f) ==
  /\ Opening(c, f)
  /\ Allowed(f)
  /\ ~unit
  /\ openCnt' = openCnt + 1
  /\ libFlags' = libFlags \cup FlagsFor(f)
  /\ lock' = c
  /\ unitProc' = "starting"
  /\ unitCnt' = 0
  /\ euProc' = Unit
  /\ online' = FALSE
  /\ pending' = [d \in Opener |-> {}]
  /\ Goto(c, "openUnit")
  /\ UNCHANGED <<base, waiting, unit, ctrlF, bms>>

\* The rest of DeviceOpen; cnt is lib_OpenCnt without this call, fl lib_Flags.
\* The mutant forgets the lib_OpenCnt++ of a successful open.
NotCounted(cnt) == cnt
Counted(cnt) == cnt + 1

FinishOpen(c, cnt, fl) ==
  /\ \/ /\ openCnt' = Counted(cnt)
        /\ libFlags' = fl \ {LIBF_DELEXP}
        /\ unitCnt' = unitCnt + 1
        /\ bms' = bms \cup {c}
        /\ Goto(c, "open")
     \/ /\ openCnt' = cnt
        /\ libFlags' = fl
        /\ Goto(c, "closed")
        /\ UNCHANGED <<unitCnt, bms>>
  /\ Unlock
  /\ UNCHANGED <<base, unitProc, euProc, ctrlF, online, pending>>

OpenJoinsUnit(c, f) ==
  /\ Opening(c, f)
  /\ Allowed(f)
  /\ unit
  /\ FinishOpen(c, openCnt, libFlags \cup FlagsFor(f))
  /\ UNCHANGED unit

OpenUnitUp(c) ==
  /\ pc[c] = "openUnit"
  /\ unitProc = "up"
  /\ unit' = TRUE
  /\ FinishOpen(c, openCnt - 1, libFlags)
  /\ UNCHANGED want

-----------------------------------------------------------------------------
(* DeviceClose, ExpungeUnit and DeviceExpunge                                *)

CloseWaits(c) ==
  /\ base = "present"
  /\ pc[c] = "open"
  /\ WaitForLock(c, "closeWait")
  /\ UNCHANGED <<base, openCnt, libFlags, unitVars, want>>

\* DeviceClose up to the open count of the unit: the read requests in the
\* opener's own queue are aborted, its BufferManagement is freed, and three
\* bits of lib_Flags are cleared.
Closing(c) ==
  /\ base = "present"
  /\ Locked(c, "open", "closeWait")
  /\ pending' = [pending EXCEPT ![c] = @ \ {"read"}]
  /\ bms' = bms \ {c}
  /\ libFlags' = libFlags \ {ETHERUF_EXCLUSIVE, ETHERUF_LOOPBACK, ETHERUF_PROMISC}
  /\ unitCnt' = unitCnt - 1

\* The end of DeviceClose; a delayed expunge is tested for after the lock was
\* released.  fl is lib_Flags.
FinishClose(c, fl) ==
  /\ openCnt' = openCnt - 1
  /\ Unlock
  /\ base' = IF LIBF_DELEXP \in fl /\ openCnt = 1 THEN "freed" ELSE base
  /\ Goto(c, "closed")

CloseOne(c) ==
  /\ Closing(c)
  /\ unitCnt > 1
  /\ FinishClose(c, libFlags')
  /\ UNCHANGED <<unit, unitProc, euProc, ctrlF, online, want>>

\* ExpungeUnit: the last one to close puts itself in eu_Proc, signals the unit
\* process and waits for its signal.  In one mutant eu_Proc is not changed, in
\* the other one the unit is shut down while somebody else uses it.
NotSwapped(c) == euProc
Swapped(c) == c
LastButOne == unitCnt <= 2
LastCloser == unitCnt = 1

CloseLast(c) ==
  /\ Closing(c)
  /\ LastCloser
  /\ lock' = c
  /\ euProc' = Swapped(c)
  /\ ctrlF' = ctrlF \cup {Unit}
  /\ Goto(c, "closeUnit")
  /\ UNCHANGED <<base, openCnt, waiting, unit, unitProc, online, want>>

\* The signal has come: the unit is freed, with whatever is on its lists.  The
\* mutant does not wait.
AtOnce(c) == TRUE
Acknowledged(c) == c \in ctrlF

CloseUnitGone(c) ==
  /\ pc[c] = "closeUnit"
  /\ Acknowledged(c)
  /\ ctrlF' = ctrlF \ {c}
  /\ unit' = FALSE
  /\ pending' = [d \in Opener |-> {}]
  /\ FinishClose(c, libFlags)
  /\ UNCHANGED <<libFlags, unitProc, unitCnt, euProc, online, bms, want>>

\* DeviceExpunge, called by the memory allocator.
DeviceExpunge ==
  /\ base = "present"
  /\ IF openCnt > 0
     THEN /\ libFlags' = libFlags \cup {LIBF_DELEXP}
          /\ UNCHANGED base
     ELSE /\ base' = "freed"
          /\ UNCHANGED libFlags
  /\ UNCHANGED <<openCnt, lock, waiting, unitVars, want, pc>>

-----------------------------------------------------------------------------
(* The unit process, and what an opener does with the open device            *)

\* DevProcEntry up to the reply to the startup message.
UnitStarts ==
  /\ unitProc = "starting"
  /\ unitProc' = "up"
  /\ UNCHANGED <<base, openCnt, libFlags, lock, waiting, unit, unitCnt,
                 euProc, ctrlF, online, bms, pending, want, pc>>

\* DevProcEntry after CTRL_F: offline, Forbid(), signal eu_Proc, and gone.
UnitStops ==
  /\ unitProc = "up"
  /\ Unit \in ctrlF
  /\ online' = FALSE
  /\ ctrlF' = (ctrlF \ {Unit}) \cup {euProc}
  /\ unitProc' = "none"
  /\ UNCHANGED <<base, openCnt, libFlags, lock, waiting, unit, unitCnt,
                 euProc, bms, pending, want, pc>>

\* DevCmdOnline, asked for by an opener.
UnitOnline ==
  /\ unitProc = "up"
  /\ Unit \notin ctrlF
  /\ \E c \in Opener : pc[c] = "open"
  /\ online' = TRUE
  /\ UNCHANGED <<base, openCnt, libFlags, lock, waiting, unit, unitProc,
                 unitCnt, euProc, ctrlF, bms, pending, want, pc>>

\* CMD_READ queues on bm_RxQueue, S2_READORPHAN on eu_ReadOrphan.
QueueRead(c, k) ==
  /\ pc[c] = "open"
  /\ online
  /\ pending' = [pending EXCEPT ![c] = @ \cup {k}]
  /\ UNCHANGED <<base, openCnt, libFlags, lock, waiting, unit, unitProc,
                 unitCnt, euProc, ctrlF, online, bms, want, pc>>

\* A frame is copied to a read request and the request replied.
FulfillRead(c, k) ==
  /\ unitProc = "up"
  /\ online
  /\ k \in pending[c]
  /\ pending' = [pending EXCEPT ![c] = @ \ {k}]
  /\ UNCHANGED <<base, openCnt, libFlags, lock, waiting, unit, unitProc,
                 unitCnt, euProc, ctrlF, online, bms, want, pc>>

-----------------------------------------------------------------------------
Init ==
  /\ base = "present"
  /\ openCnt = 0
  /\ libFlags = {LIBF_CHANGED, LIBF_SUMUSED}
  /\ lock = NoTask
  /\ waiting = <<>>
  /\ unit = FALSE
  /\ unitProc = "none"
  /\ unitCnt = 0
  /\ euProc = Unit
  /\ ctrlF = {}
  /\ online = FALSE
  /\ bms = {}
  /\ pending = [c \in Opener |-> {}]
  /\ want = [c \in Opener |-> {}]
  /\ pc = [c \in Opener |-> "closed"]

\* A call that has been entered goes on.
InCall(c) == pc[c] \in {"openWait", "openUnit", "closeWait", "closeUnit"}

OpenClose(c) ==
  \/ \E f \in OpenFlags : \/ OpenFails(c, f) \/ OpenStartsUnit(c, f)
                          \/ OpenJoinsUnit(c, f)
  \/ OpenUnitUp(c) \/ CloseOne(c) \/ CloseLast(c) \/ CloseUnitGone(c)

OpenerNext(c) ==
  \/ OpenClose(c)
  \/ \E f \in OpenFlags : OpenWaits(c, f)
  \/ CloseWaits(c)
  \/ \E k \in {"read", "orphan"} : QueueRead(c, k) \/ FulfillRead(c, k)

UnitStep == UnitStarts \/ UnitStops

Next ==
  \/ \E c \in Opener : OpenerNext(c)
  \/ UnitStep \/ UnitOnline
  \/ DeviceExpunge

Spec == Init /\ [][Next]_vars

\* Exec runs every ready task; nobody has to open, close or unload the device.
Fairness == /\ WF_vars(UnitStep)
            /\ \A c \in Opener : WF_vars(InCall(c) /\ OpenClose(c))

FairSpec == Spec /\ Fairness
-----------------------------------------------------------------------------
(* Correctness                                                               *)

Users == {c \in Opener : pc[c] \in {"open", "closeWait"}}
Busy  == {c \in Opener : pc[c] \in {"openUnit", "closeUnit"}}

\* Every variable keeps its type.
TypeOK ==
  /\ base \in {"present", "freed"}
  /\ openCnt \in Nat
  /\ libFlags \subseteq {2, 4, 8, 16}
  /\ lock \in Opener \cup {NoTask}
  /\ waiting \in Seq(Opener)
  /\ unit \in BOOLEAN
  /\ unitProc \in {"none", "starting", "up"}
  /\ unitCnt \in Nat
  /\ euProc \in Opener \cup {Unit}
  /\ ctrlF \subseteq Opener \cup {Unit}
  /\ online \in BOOLEAN
  /\ bms \subseteq Opener
  /\ pending \in [Opener -> SUBSET {"read", "orphan"}]
  /\ want \in [Opener -> SUBSET {"MINE", "PROM"}]
  /\ pc \in [Opener -> {"closed", "openWait", "openUnit", "open", "closeWait",
                        "closeUnit"}]

\* The counts agree with who has the device open, through every failed open and
\* every call that is still waiting: lib_OpenCnt protects a call that waits from
\* DeviceExpunge, and unit_OpenCnt decides when the unit is shut down.
CountsMatch ==
  /\ openCnt = Cardinality(Users) + Cardinality(Busy)
  /\ unitCnt = Cardinality(Users)
  /\ bms = Users

\* Whoever has the device open has a unit with a running process that nobody
\* has told to stop, and a device base.
UnitServesUsers ==
  Users # {} => base = "present" /\ unit /\ unitProc = "up" /\ Unit \notin ctrlF

\* device.c:899 "Wait until he knowledges": the unit structure is not freed
\* before its process has left it.
UnitOutlivesProcess ==
  unitProc = "up" => unit \/ \E c \in Opener : pc[c] = "openUnit"

\* The handshake with the unit process ends: the last one to close gets away.
ShutdownCompletes ==
  \A c \in Opener : pc[c] = "closeUnit" ~> pc[c] = "closed"

\* Every task that waits for ed_DeviceLock gets it.
LockServed ==
  \A c \in Opener : pc[c] \in {"openWait", "closeWait"} ~>
                      (pc[c] \notin {"openWait", "closeWait"} \/ base = "freed")

\* The lock, the two counts and the handshake with the unit process together keep
\* what the openers are promised: the steps of DeviceOpen and DeviceClose, which
\* Exec may interleave at every Wait() and DeviceExpunge may come between, are
\* steps of SharedUnit.
PlaceOf == [closed |-> "out", openWait |-> "out", openUnit |-> "entering",
            open |-> "in", closeWait |-> "in", closeUnit |-> "leaving"]
Shared == INSTANCE SharedUnit WITH
  place <- [c \in Opener |-> PlaceOf[pc[c]]],
  unit  <- IF unitProc = "up" /\ Unit \notin ctrlF THEN "up" ELSE "down",
  base  <- base
SharesUnit == Shared!Spec

-----------------------------------------------------------------------------
(* What comments in the source say and the code does not do                  *)

\* device.c:434 "Abort every read request of the caller": no request of an
\* opener that has closed is left on the unit, where it refers to a
\* BufferManagement that was freed.
NoReadAfterClose == \A c \in Opener : pending[c] # {} => c \in bms
=============================================================================
