----------------------------- MODULE MCSendQueue -----------------------------
(* SendQueue for TLC.  Five slots: room for tokens that wait, for two that   *)
(* interrupts add during one enQueue, and the ring still fills up and wraps. *)
EXTENDS SendQueue

CONSTANTS m, i

MCMainMsg == {m}
MCIsrMsg == {i}
=============================================================================
