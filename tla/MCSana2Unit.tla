----------------------------- MODULE MCSana2Unit -----------------------------
(***************************************************************************)
(* Instances of Sana2Unit for TLC: two openers, two or three requests.     *)
(* The bounds are the sets below; Sana2Unit has no counters.               *)
(***************************************************************************)
EXTENDS Sana2Unit, TLC

CONSTANTS c1, c2, r1, r2, r3

\* r1 and r3 belong to the first opener, r2 to the second.
MCOwner == [r \in Request |-> IF r = r2 THEN c2 ELSE c1]
MCBmOrder == <<c1, c2>>

AllCommands == PortCommand \cup NowCommand
\* The commands DoIO() can be used for.
SafeQuick == AllCommands \ {"read", "orphan"}

\* The four events: in three masks, or in two to have fewer states.
EventMasks == {{"ONLINE", "TX"}, {"OFFLINE"}, {"BUFF"}}
TwoMasks == {{"ONLINE", "TX"}, {"OFFLINE", "BUFF"}}

\* One situation each, for the runs that show a disagreement with a comment.
OfflineCase == {"read", "config", "offline"}
DeliveryCase == {"read", "orphan", "config"}
=============================================================================
