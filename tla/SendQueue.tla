------------------------------ MODULE SendQueue ------------------------------
(***************************************************************************)
(* msgSendQueue of fun.c and carSendQueue of carfun.c: token rings with    *)
(* TWO producers and no lock.  The main loop queues answers, re-queues the *)
(* state token and queues car messages; interrupts queue tokens with the   *)
(* same function:                                                          *)
(*   msgSendQueue   main loop and EXTI4_IRQHandler   enQueue               *)
(*   carSendQueue   main loop and Time_Update        carenQueue            *)
(* The main loop is also the only consumer.                                *)
(*                                                                         *)
(* enQueue names q->rear three times, and the shipped image loads it three *)
(* times: for the test, for the new value, and as the index of the store.  *)
(* An interrupt can fall between any two of those accesses; the interrupt  *)
(* itself runs its whole enQueue without interruption.                     *)
(***************************************************************************)
EXTENDS Ring, Sequences

CONSTANTS N,          \* msgSendQueueSize, carSendQueueSize
          MainMsg,    \* tokens the main loop queues
          IsrMsg,     \* tokens an interrupt queues
          None        \* the 0 of zeroed storage and of outQueue's empty result

ASSUME SizeAssumption == N \in Nat /\ N >= 2
ASSUME NoneAssumption == None \notin MainMsg \cup IsrMsg

Token == MainMsg \cup IsrMsg \cup {None}

VARIABLES q,        \* the ring
          pc,       \* where the main loop is
          x,        \* the token its enQueue was called with
          newRear,  \* (q->rear + 1) % q->maxSize, in a register
          index,    \* q->rear loaded again, in a register
          before,   \* history: the tokens that waited at the main loop's test
          hits      \* history: tokens interrupts offered since that test,
                    \* counted up to N

vars == <<q, pc, x, newRear, index, before, hits>>

Init == /\ q = initQueue(None, N)
        /\ pc = "loop"
        /\ x = None
        /\ newRear = 0
        /\ index = 0
        /\ before = << >>
        /\ hits = 0

----------------------------------------------------------------------------
(* Mutants. *)

(* No % maxSize on the new rear. *)
EnComputeNoModulo == /\ pc = "advance"
                     /\ newRear' = q.rear + 1
                     /\ pc' = "store"
                     /\ UNCHANGED <<q, x, index, before, hits>>

(* front for rear on the right-hand side. *)
EnComputeFront == /\ pc = "advance"
                  /\ newRear' = After(q.front, N)
                  /\ pc' = "store"
                  /\ UNCHANGED <<q, x, index, before, hits>>

----------------------------------------------------------------------------
(* An interrupt: AddSendMsgToQueue in EXTI4_IRQHandler,                    *)
(* carAddSendMsgToQueue in Time_Update.  Time_Update queues one token;     *)
(* EXTI4_IRQHandler queues two in one go, which is the case of two         *)
(* Interrupt steps with nothing in between.                                *)
Interrupt(m) == /\ q' = enQueue(q, m, N)
                /\ hits' = IF pc # "loop" /\ hits < N THEN hits + 1 ELSE hits
                /\ UNCHANGED <<pc, x, newRear, index, before>>

----------------------------------------------------------------------------
(* The main loop's enQueue, access by access. *)

(* if((q->rear + 1) % q->maxSize == q->front) return; *)
EnTest(m) == /\ pc = "loop"
             /\ ~IsFull(q, N)
             /\ x' = m
             /\ before' = Contents(q, N)
             /\ hits' = 0
             /\ pc' = "advance"
             /\ UNCHANGED <<q, newRear, index>>

EnFull == /\ pc = "loop"
          /\ IsFull(q, N)
          /\ UNCHANGED vars

(* The right-hand side of q->rear = (q->rear + 1) % q->maxSize. *)
EnCompute == /\ pc = "advance"
             /\ newRear' = After(q.rear, N)
             /\ pc' = "store"
             /\ UNCHANGED <<q, x, index, before, hits>>

EnStoreRear == /\ pc = "store"
               /\ q' = [q EXCEPT !.rear = newRear]
               /\ pc' = "index"
               /\ UNCHANGED <<x, newRear, index, before, hits>>

(* q->queue[q->rear] = x: the index is loaded ... *)
EnLoadIndex == /\ pc = "index"
               /\ index' = q.rear
               /\ pc' = "write"
               /\ UNCHANGED <<q, x, newRear, before, hits>>

(* ... and the token stored. *)
EnWrite == /\ pc = "write"
           /\ q' = [q EXCEPT !.slot[index] = x]
           /\ pc' = "loop"
           /\ before' = << >>
           /\ hits' = 0
           /\ UNCHANGED <<x, newRear, index>>

(* outQueue.  Only the main loop writes front, and an interrupt that adds  *)
(* a token meanwhile disturbs neither the test nor the slot being read     *)
(* (RingQueue), so the call is one step.                                   *)
Out == /\ pc = "loop"
       /\ ~IsEmpty(q)
       /\ q' = outQueue(q, N)
       /\ UNCHANGED <<pc, x, newRear, index, before, hits>>

Next == \/ \E m \in IsrMsg : Interrupt(m)
        \/ \E m \in MainMsg : EnTest(m)
        \/ EnFull \/ EnCompute \/ EnStoreRear \/ EnLoadIndex \/ EnWrite \/ Out

Spec == Init /\ [][Next]_vars
----------------------------------------------------------------------------
TypeOK == /\ q \in RingOf(Token, N)
          /\ pc \in {"loop", "advance", "store", "index", "write"}
          /\ x \in Token
          /\ newRear \in 0..(N - 1)
          /\ index \in 0..(N - 1)
          /\ before \in Seq(Token)
          /\ Len(before) < N
          /\ hits \in 0..N

(* The slots that were free at the test. *)
Free == N - 1 - Len(before)

(* What survives the race.  As long as the interrupts offered fewer tokens *)
(* than there were free slots at the main loop's test, enQueue (fun.c:37)  *)
(* returns with every token that waited at the test still there, at its    *)
(* place, and with the main loop's own among those that follow.  Only      *)
(* tokens that came DURING the enQueue can be lost, or a left-over of the  *)
(* previous lap be uncovered.                                              *)
TokensKept ==
  [][EnWrite /\ hits < Free =>
       /\ Len(before) < Waiting(q', N)
       /\ \A j \in DOMAIN before : Contents(q', N)[j] = before[j]
       /\ \E j \in (Len(before) + 1)..Waiting(q', N) : Contents(q', N)[j] = x]_vars
=============================================================================
