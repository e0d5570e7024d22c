----------------------------- MODULE BoundedFifo -----------------------------
(***************************************************************************)
(* What the state queue and the interval queue promise their users: nodes  *)
(* are handed to the main loop whole, in the order the photo-eye interrupt *)
(* produced them; a node that meets Capacity waiting nodes is dropped.     *)
(***************************************************************************)
EXTENDS Naturals, Sequences

CONSTANTS Node, Capacity

VARIABLES queue,    \* the waiting nodes, oldest first
          inHand,   \* << >>, or <<the node the consumer is reading>>
          out       \* << >>, or <<the last node the consumer has finished with>>

vars == <<queue, inHand, out>>

Init == queue = << >> /\ inHand = << >> /\ out = << >>

Add(x) == /\ Len(queue) < Capacity
          /\ queue' = Append(queue, x)
          /\ UNCHANGED <<inHand, out>>

Take == /\ inHand = << >>
        /\ queue # << >>
        /\ inHand' = <<Head(queue)>>
        /\ queue' = Tail(queue)
        /\ UNCHANGED out

Deliver == /\ inHand # << >>
           /\ out' = inHand
           /\ inHand' = << >>
           /\ UNCHANGED queue

Next == (\E x \in Node : Add(x)) \/ Take \/ Deliver

Spec == Init /\ [][Next]_vars
=============================================================================
