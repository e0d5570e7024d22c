------------------------------ MODULE RingQueue ------------------------------
(***************************************************************************)
(* gndstatequeue and gnd2WcsIntervalQueue of fun.c: one ring each, filled  *)
(* by the photo-eye interrupt (EXTI4_IRQHandler), emptied by the main      *)
(* loop.  All interrupts of this firmware have preemption priority 0, so   *)
(* an Add runs to its end without interruption, while it may fall between  *)
(* any two accesses of the consumer.                                       *)
(*                                                                         *)
(* pxGetMsgFrom...Queue does not copy the node: it advances front and      *)
(* returns a POINTER into the ring, which the caller dereferences field by *)
(* field (send_msg_gndctrl2wcs_cmd, ..._cmd_interval_data) while further   *)
(* nodes arrive.  A node is a tuple of W words, each loaded in a step of   *)
(* its own.                                                                *)
(***************************************************************************)
EXTENDS Ring, Sequences

CONSTANTS N,      \* GND_STATE_LEN, INTERVAL_QUEUE_LEN
          W,      \* words of a node
          Val,    \* values of a word
          Zero    \* the value of zeroed static storage

ASSUME NAssumption == N \in Nat /\ N >= 2
ASSUME WAssumption == W \in Nat /\ W >= 1
ASSUME ZeroAssumption == Zero \in Val

Node == [1..W -> Val]

VARIABLES q,      \* the ring
          pc,     \* where the consumer is
          node,   \* the pointer it holds: the index of a slot
          word,   \* the next word it loads
          copy,   \* the words loaded, in the frame buffer
          out     \* << >> or <<the node of the last finished frame>>

vars == <<q, pc, node, word, copy, out>>

Blank == [w \in 1..W |-> Zero]

Init == /\ q = initQueue(Blank, N)
        /\ pc = "idle"
        /\ node = 0
        /\ word = 1
        /\ copy = Blank
        /\ out = << >>

----------------------------------------------------------------------------
(* Mutants: the errors the properties below must detect. *)

(* AddTo without the test for a full ring. *)
AddToNoFullTest(x) ==
  /\ q' = [q EXCEPT !.rear = After(q.rear, N), !.slot[After(q.rear, N)] = x]
  /\ UNCHANGED <<pc, node, word, copy, out>>

(* front + 1 without % maxsize. *)
GetAdvanceNoModulo ==
  /\ pc = "advance"
  /\ q' = outQueue(q, N)
  /\ node' = q.front + 1
  /\ word' = 1
  /\ pc' = "load"
  /\ UNCHANGED <<copy, out>>

(* The slot is read where the next node will be, not where front is. *)
GetAdvanceOffByOne ==
  /\ pc = "advance"
  /\ q' = outQueue(q, N)
  /\ node' = After(After(q.front, N), N)
  /\ word' = 1
  /\ pc' = "load"
  /\ UNCHANGED <<copy, out>>

----------------------------------------------------------------------------
(* The interrupt: AddToGnd2WcsStateQueue, AddToGnd2WcsIntervalQueue. *)
AddTo(x) == /\ q' = enQueue(q, x, N)
            /\ UNCHANGED <<pc, node, word, copy, out>>

----------------------------------------------------------------------------
(* The main loop: pxGetMsgFromStateQueue, pxGetMsgFromIntervalQueue. *)

(* front == rear: returns 0. *)
GetEmpty == /\ pc = "idle"
            /\ IsEmpty(q)
            /\ UNCHANGED vars

(* The test passes; an Add can come before front moves. *)
GetCheck == /\ pc = "idle"
            /\ ~IsEmpty(q)
            /\ pc' = "advance"
            /\ UNCHANGED <<q, node, word, copy, out>>

(* front moves, and its slot's address is the result. *)
GetAdvance == /\ pc = "advance"
              /\ q' = outQueue(q, N)
              /\ node' = After(q.front, N)
              /\ word' = 1
              /\ pc' = "load"
              /\ UNCHANGED <<copy, out>>

(* The caller loads the node's words into the frame. *)
LoadWord == /\ pc = "load"
            /\ word <= W
            /\ copy' = [copy EXCEPT ![word] = q.slot[node][word]]
            /\ word' = word + 1
            /\ UNCHANGED <<q, pc, node, out>>

(* The frame is complete: the pointer is not used again. *)
FrameDone == /\ pc = "load"
             /\ word > W
             /\ out' = <<copy>>
             /\ pc' = "idle"
             /\ UNCHANGED <<q, node, word, copy>>

Consume == GetEmpty \/ GetCheck \/ GetAdvance \/ LoadWord \/ FrameDone

Next == (\E x \in Node : AddTo(x)) \/ Consume

Spec == Init /\ [][Next]_vars

----------------------------------------------------------------------------
TypeOK == /\ q \in RingOf(Node, N)
          /\ pc \in {"idle", "advance", "load"}
          /\ node \in 0..(N - 1)
          /\ word \in 1..(W + 1)
          /\ copy \in Node
          /\ out \in {<< >>} \cup {<<x>> : x \in Node}

(* The pointer stays good: as long as the main loop reads through it, the  *)
(* slot it points to is the one the ring keeps unused (front), and what    *)
(* was already copied from it is still what it holds.  It is the rule      *)
(* "full when (rear + 1) % maxsize == front" that protects it.             *)
PointerGood == pc = "load" => /\ node = q.front
                              /\ \A w \in 1..(word - 1) : copy[w] = q.slot[node][w]

(* The test front != rear still holds when front is moved, however many    *)
(* nodes arrived in between.                                               *)
CheckStillHolds == pc = "advance" => ~IsEmpty(q)

Inv == TypeOK /\ PointerGood /\ CheckStillHolds

(* The ring implements the bounded first-in first-out queue: the waiting   *)
(* nodes are the slots after front, the node in hand is the slot the       *)
(* consumer points to.                                                     *)
Fifo == INSTANCE BoundedFifo WITH
          Capacity <- N - 1,
          queue <- Contents(q, N),
          inHand <- IF pc = "load" THEN <<q.slot[node]>> ELSE << >>

ImplementsFifo == Fifo!Spec
=============================================================================
