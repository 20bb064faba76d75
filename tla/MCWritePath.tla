----------------------------- MODULE MCWritePath -----------------------------
(***************************************************************************)
(* Instances of WritePath for TLC: two openers with a request each.        *)
(***************************************************************************)
EXTENDS WritePath

CONSTANTS w1, w2, r1, r2

MCOwner == [r \in Request |-> IF r = r1 THEN w1 ELSE w2]
\* The first opener has no CopyFromBufferDMA, the second one has it.
OneCopies == [w \in Opener |-> {w = w2}]
\* The second sends cooked packets only, so that it never needs sendBuffer.
OneBufferUser == [r \in Request |->
  IF r = r1 THEN {<<"cooked", 100>>, <<"cooked", 1501>>,
    <<"raw", 14>>, <<"raw", 20>>, <<"raw", 100>>}
            ELSE {<<"cooked", 100>>}]
OneForm == [r \in Request |-> {<<"cooked", 100>>}]
BothCopy == [w \in Opener |-> {FALSE}]
=============================================================================
