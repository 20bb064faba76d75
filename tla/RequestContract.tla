--------------------------- MODULE RequestContract ---------------------------
(***************************************************************************)
(* What an opener of a SANA-II device may rely on, without saying how the  *)
(* device works: an IOSana2Req belongs to the opener or to the device, and *)
(* whoever does not own it leaves it alone.  The opener fills in a request *)
(* and sends it with BeginIO(); the device keeps it, works on it, and      *)
(* gives it back once; from then on the opener may read it, reuse it or    *)
(* free its memory.                                                        *)
(***************************************************************************)
CONSTANTS Request  \* the IOSana2Req structures

VARIABLES
  owner,   \* who owns each request
  content  \* what is in its fields

Party == {"opener", "device"}

Init == owner = [r \in Request |-> "opener"]

\* The opener fills in one of its requests and sends it; it comes back at once
\* or is the device's from now on.
Send(r) ==
  /\ owner[r] = "opener"
  /\ owner' \in [Request -> Party]
  /\ \A s \in Request \ {r} : owner'[s] = owner[s] /\ content'[s] = content[s]

\* The device works on the requests it has and gives some of them back.
Serve ==
  /\ owner' \in [Request -> Party]
  /\ \A r \in Request :
       owner[r] = "opener" => owner'[r] = "opener" /\ content'[r] = content[r]

Next == Serve \/ \E r \in Request : Send(r)

Spec == Init /\ [][Next]_<<owner, content>>
=============================================================================
