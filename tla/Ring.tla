-------------------------------- MODULE Ring --------------------------------
(***************************************************************************)
(* The circular buffer that every queue of the controller copies:          *)
(*   enQueue / outQueue                      (fun.c,  msgSendQueue),       *)
(*   AddToGnd2WcsIntervalQueue / pxGetMsgFromIntervalQueue,                *)
(*   AddToGnd2WcsStateQueue / pxGetMsgFromStateQueue,                      *)
(*   carenQueue / caroutQueue                (carfun.c, carSendQueue).     *)
(* A ring is a record: front is the slot the consumer emptied last, rear   *)
(* the slot the producer filled last, slot the array.  The ring is empty   *)
(* when the two are equal, so one of its n slots is never in use.          *)
(*                                                                         *)
(* These are the operations executed without interruption; RingQueue and   *)
(* SendQueue cut them into the steps an interrupt can separate.            *)
(***************************************************************************)
EXTENDS Integers

(* initQueue: both indices 0.  The array is static storage, so all its     *)
(* entries are the zero value z.                                           *)
initQueue(z, n) == [front |-> 0, rear |-> 0, slot |-> [i \in 0..(n - 1) |-> z]]

RingOf(S, n) == [front : 0..(n - 1), rear : 0..(n - 1), slot : [0..(n - 1) -> S]]

(* (i + 1) % maxSize *)
After(i, n) == (i + 1) % n

IsEmpty(q) == q.front = q.rear

IsFull(q, n) == After(q.rear, n) = q.front

(* The whole of enQueue: a full ring drops x silently. *)
enQueue(q, x, n) ==
  IF IsFull(q, n)
    THEN q
    ELSE [q EXCEPT !.rear = After(q.rear, n), !.slot[After(q.rear, n)] = x]

(* The whole of outQueue on a ring that is not empty, and what it returns. *)
outQueue(q, n) == [q EXCEPT !.front = After(q.front, n)]
NextOut(q, n) == q.slot[After(q.front, n)]

(* How many entries wait, and which, oldest first. *)
Waiting(q, n) == IF q.front <= q.rear THEN q.rear - q.front
                                      ELSE q.rear - q.front + n
Contents(q, n) == [i \in 1..Waiting(q, n) |-> q.slot[(q.front + i) % n]]
=============================================================================
