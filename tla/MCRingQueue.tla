----------------------------- MODULE MCRingQueue -----------------------------
(* RingQueue for TLC: a ring of 4 slots, so that the indices wrap and the    *)
(* ring fills up while the consumer holds a pointer; nodes of two words, so  *)
(* that a torn copy can differ from every node that was added.               *)
EXTENDS RingQueue, TLC

CONSTANTS a, b

MCVal == {a, b}
=============================================================================
