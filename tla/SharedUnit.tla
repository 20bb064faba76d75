------------------------------ MODULE SharedUnit ------------------------------
(***************************************************************************)
(* What OpenDevice() and CloseDevice() promise, without counts, flags,     *)
(* lock or signals: one unit that all openers share.  The first to come    *)
(* gets it started and the last to go waits until it has stopped; it       *)
(* serves everybody who is in, it is told to stop only by somebody who is  *)
(* alone in it, and the device is unloaded only when nobody is in or on    *)
(* the way in or out.                                                      *)
(***************************************************************************)
CONSTANTS Opener  \* the tasks that open the device

VARIABLES
  place,  \* where each of them is: "out", "entering", "in" or "leaving"
  unit,   \* "up" while the unit serves, "down" before and after
  base    \* the device: "present" or "freed"

Alone(c) == \A d \in Opener \ {c} : place[d] = "out"
\* Nobody else is on the way in or out.
Settled(c) == \A d \in Opener \ {c} : place[d] \in {"out", "in"}

Init ==
  /\ place = [c \in Opener |-> "out"]
  /\ unit = "down" /\ base = "present"

Move(c, from, to) == place[c] \in from /\ place' = [place EXCEPT ![c] = to]

\* The first one, or one that finds the unit of an open that failed.
Enter(c) ==
  /\ base = "present" /\ unit = "down" /\ Alone(c)
  /\ Move(c, {"out"}, "entering")
  /\ UNCHANGED <<unit, base>>

Start ==
  /\ base = "present" /\ unit = "down" /\ unit' = "up"
  /\ \E c \in Opener : place[c] = "entering" /\ Alone(c)
  /\ UNCHANGED <<place, base>>

Join(c) ==
  /\ base = "present" /\ unit = "up" /\ Settled(c)
  /\ Move(c, {"out", "entering"}, "in")
  /\ UNCHANGED <<unit, base>>

\* Something else fails after the unit was started; it stays up.
GiveUp(c) ==
  /\ unit = "up" /\ Alone(c)
  /\ Move(c, {"entering"}, "out")
  /\ UNCHANGED <<unit, base>>

Leave(c) ==
  /\ Settled(c) /\ ~Alone(c)
  /\ Move(c, {"in"}, "out")
  /\ UNCHANGED <<unit, base>>

LeaveLast(c) ==
  /\ Alone(c) /\ unit' = "down"
  /\ Move(c, {"in"}, "leaving")
  /\ UNCHANGED base

\* The unit has stopped; an unloading that was put off may be made up for.
Gone(c) ==
  /\ Alone(c) /\ unit = "down"
  /\ Move(c, {"leaving"}, "out")
  /\ base' \in {base, "freed"}
  /\ UNCHANGED unit

Unload ==
  /\ \A c \in Opener : place[c] = "out"
  /\ base' = "freed"
  /\ UNCHANGED <<place, unit>>

Next ==
  \/ \E c \in Opener : Enter(c) \/ Join(c) \/ GiveUp(c) \/ Leave(c) \/ LeaveLast(c) \/ Gone(c)
  \/ Start \/ Unload

Spec == Init /\ [][Next]_<<place, unit, base>>
=============================================================================
