------------------------- MODULE MCOutboxPublisher --------------------------
(***************************************************************************)
(* Three rows of two cases, the ids of the cases interleaved, so that a    *)
(* row may become visible after one with a higher id has been published.   *)
(***************************************************************************)
EXTENDS OutboxPublisher

CONSTANTS c1, c2

ThreeRows ==
  {[id |-> 1, case |-> c1], [id |-> 2, case |-> c2], [id |-> 3, case |-> c1]}
=============================================================================
