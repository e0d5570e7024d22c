--------------------------- MODULE SendQueueProofs ---------------------------
(***************************************************************************)
(* The token rings with two producers, for every size N >= 2 and every set *)
(* of tokens: an enQueue of the main loop that interrupts cut into loses   *)
(* none of the tokens that waited, and not its own, while the interrupts   *)
(* offer fewer tokens than there were free slots.                          *)
(*                                                                         *)
(* The argument counts slots from front.  front stands still during an     *)
(* enQueue, so the tokens that waited are the slots at the distances       *)
(* 1..Len(before); every slot written meanwhile is farther away.           *)
(***************************************************************************)
EXTENDS SendQueue, TLAPS

(* How many slots i is after the slot f. *)
Dist(f, i) == IF f <= i THEN i - f ELSE i - f + N

(* The tokens that waited at the test are where they were. *)
PrefixKept == \A j \in 1..Len(before) : q.slot[(q.front + j) % N] = before[j]

(* The main loop is inside enQueue and the interrupts offered fewer tokens *)
(* than there were free slots.                                             *)
InTime == pc # "loop" /\ hits < Free

(* Where the three copies of rear are, counted from front: the ring's own, *)
(* the new value in a register, and the index of the store.                *)
RearInStep ==
  /\ pc \in {"advance", "store"} => Waiting(q, N) = Len(before) + hits
  /\ pc = "store" => Dist(q.front, newRear) \in (Len(before) + 1)..(Waiting(q, N) + 1)
  /\ pc \in {"index", "write"} => Waiting(q, N) >= Len(before) + 1
  /\ pc = "write" => Dist(q.front, index) \in (Len(before) + 1)..Waiting(q, N)

SendInv == /\ TypeOK
           /\ InTime => PrefixKept /\ RearInStep
----------------------------------------------------------------------------
(* Arithmetic of the ring. *)

LEMMA Size == N \in Nat \ {0} /\ N - 1 \in Nat /\ 0 \in 0..(N - 1)
BY SizeAssumption

(* (a % N) on the two laps an index can be in. *)
LEMMA ModFirstLap ==
  ASSUME NEW n \in Nat \ {0}, NEW a \in 0..(n - 1)
  PROVE  a % n = a
BY Z3

LEMMA ModSecondLap ==
  ASSUME NEW n \in Nat \ {0}, NEW a \in n..(2 * n - 1)
  PROVE  a % n = a - n
BY Z3

(* The j-th slot after f, whatever lap it is on. *)
LEMMA SlotAfter ==
  ASSUME NEW f \in 0..(N - 1), NEW j \in 0..N
  PROVE  /\ (f + j) % N \in 0..(N - 1)
         /\ (f + j) % N = IF f + j < N THEN f + j ELSE f + j - N
<1>1. CASE f + j < N
  BY <1>1, ModFirstLap, Size, f + j \in 0..(N - 1)
<1>2. CASE f + j >= N
  BY <1>2, ModSecondLap, Size, f + j \in N..(2 * N - 1)
<1> QED BY <1>1, <1>2, Size

LEMMA AfterValue ==
  ASSUME NEW i \in 0..(N - 1)
  PROVE  /\ After(i, N) \in 0..(N - 1)
         /\ After(i, N) = IF i = N - 1 THEN 0 ELSE i + 1
<1>1. CASE i = N - 1
  BY <1>1, ModSecondLap, Size, i + 1 \in N..(2 * N - 1) DEF After
<1>2. CASE i # N - 1
  BY <1>2, ModFirstLap, Size, i + 1 \in 0..(N - 1) DEF After
<1> QED BY <1>1, <1>2

(* A distance names one slot, and a slot has one distance. *)
LEMMA DistSlot ==
  ASSUME NEW f \in 0..(N - 1), NEW i \in 0..(N - 1)
  PROVE  /\ Dist(f, i) \in 0..(N - 1)
         /\ (f + Dist(f, i)) % N = i
         /\ \A j \in 1..(N - 1) : (f + j) % N = i => j = Dist(f, i)
<1>1. Dist(f, i) \in 0..(N - 1)
  BY Size DEF Dist
<1>2. (f + Dist(f, i)) % N = i
  <2>1. Dist(f, i) \in 0..N
    BY <1>1, Size
  <2>2. (f + Dist(f, i)) % N = IF f + Dist(f, i) < N THEN f + Dist(f, i)
                                                     ELSE f + Dist(f, i) - N
    BY <2>1, SlotAfter
  <2> QED BY <2>2, Size DEF Dist
<1>3. ASSUME NEW j \in 1..(N - 1), (f + j) % N = i PROVE j = Dist(f, i)
  <2>0. j \in 0..N
    BY Size
  <2>1. i = IF f + j < N THEN f + j ELSE f + j - N
    BY <1>3, <2>0, SlotAfter
  <2> QED BY <2>1, Size DEF Dist
<1> QED BY <1>1, <1>2, <1>3

(* The next slot is one farther from front, unless it is front. *)
LEMMA DistAfter ==
  ASSUME NEW f \in 0..(N - 1), NEW i \in 0..(N - 1)
  PROVE  /\ After(i, N) # f => Dist(f, After(i, N)) = Dist(f, i) + 1
         /\ After(i, N) = f <=> Dist(f, i) = N - 1
BY AfterValue, Size DEF Dist

LEMMA RingParts ==
  ASSUME NEW r \in RingOf(Token, N)
  PROVE  /\ r.front \in 0..(N - 1) /\ r.rear \in 0..(N - 1)
         /\ r.slot \in [0..(N - 1) -> Token]
         /\ Waiting(r, N) = Dist(r.front, r.rear)
         /\ Waiting(r, N) \in 0..(N - 1)
         /\ IsFull(r, N) <=> Waiting(r, N) = N - 1
<1>1. /\ r.front \in 0..(N - 1) /\ r.rear \in 0..(N - 1)
      /\ r.slot \in [0..(N - 1) -> Token]
  BY DEF RingOf
<1>2. Waiting(r, N) = Dist(r.front, r.rear)
  BY DEF Waiting, Dist
<1> QED BY <1>1, <1>2, DistSlot, DistAfter DEF IsFull

(* A ring's contents are a sequence of tokens. *)
LEMMA ContentsSeq ==
  ASSUME NEW r \in RingOf(Token, N)
  PROVE  /\ Contents(r, N) \in Seq(Token)
         /\ Len(Contents(r, N)) = Waiting(r, N)
         /\ \A j \in 1..Waiting(r, N) :
              Contents(r, N)[j] = r.slot[(r.front + j) % N]
<1>1. Waiting(r, N) \in Nat /\ Waiting(r, N) <= N - 1
  BY RingParts, Size
<1>2. ASSUME NEW j \in 1..Waiting(r, N) PROVE r.slot[(r.front + j) % N] \in Token
  <2>1. j \in 0..N /\ r.front \in 0..(N - 1)
    BY <1>1, RingParts, Size
  <2>2. (r.front + j) % N \in 0..(N - 1)
    BY <2>1, SlotAfter
  <2> QED BY <2>2, RingParts
<1>3. Contents(r, N) \in [1..Waiting(r, N) -> Token]
  BY <1>2 DEF Contents
<1> QED BY <1>1, <1>3 DEF Contents

(* The interrupt's enQueue: a ring stays a ring, front stands still, and   *)
(* the ring grows by one token unless it was full.                         *)
LEMMA EnQueueParts ==
  ASSUME NEW r \in RingOf(Token, N), NEW t \in Token
  PROVE  /\ enQueue(r, t, N) \in RingOf(Token, N)
         /\ enQueue(r, t, N).front = r.front
         /\ IsFull(r, N) => enQueue(r, t, N) = r
         /\ ~IsFull(r, N) =>
              /\ Waiting(enQueue(r, t, N), N) = Waiting(r, N) + 1
              /\ enQueue(r, t, N).slot = [r.slot EXCEPT ![After(r.rear, N)] = t]
              /\ Dist(r.front, After(r.rear, N)) = Waiting(r, N) + 1
<1> DEFINE s == enQueue(r, t, N)
<1>1. /\ r.front \in 0..(N - 1) /\ r.rear \in 0..(N - 1)
      /\ r.slot \in [0..(N - 1) -> Token]
      /\ After(r.rear, N) \in 0..(N - 1)
      /\ Waiting(r, N) = Dist(r.front, r.rear)
  BY RingParts, AfterValue
<1>2. s \in RingOf(Token, N) /\ s.front = r.front
  BY <1>1 DEF enQueue, RingOf
<1>3. CASE IsFull(r, N)
  BY <1>2, <1>3 DEF enQueue
<1>4. CASE ~IsFull(r, N)
  <2>1. s.rear = After(r.rear, N) /\ s.slot = [r.slot EXCEPT ![After(r.rear, N)] = t]
    BY <1>4 DEF enQueue, RingOf
  <2>2. Dist(r.front, After(r.rear, N)) = Waiting(r, N) + 1
    BY <1>1, <1>4, DistAfter DEF IsFull
  <2>3. Waiting(s, N) = Waiting(r, N) + 1
    BY <1>2, <2>1, <2>2, RingParts
  <2> QED BY <1>2, <1>4, <2>1, <2>2, <2>3
<1> QED BY <1>3, <1>4

(* A slot farther from front than the L tokens that waited holds none of   *)
(* them.                                                                   *)
LEMMA FartherSlot ==
  ASSUME NEW f \in 0..(N - 1), NEW i \in 0..(N - 1), NEW L \in 0..(N - 1),
         Dist(f, i) > L
  PROVE  \A j \in 1..L : (f + j) % N \in 0..(N - 1) /\ (f + j) % N # i
<1> SUFFICES ASSUME NEW j \in 1..L
             PROVE  (f + j) % N \in 0..(N - 1) /\ (f + j) % N # i
  OBVIOUS
<1>1. j \in 1..(N - 1) /\ j # Dist(f, i) /\ j \in 0..N
  BY DistSlot, Size
<1>2. (f + j) % N \in 0..(N - 1)
  BY <1>1, SlotAfter
<1>3. (f + j) % N # i
  BY <1>1, DistSlot
<1> QED BY <1>2, <1>3
----------------------------------------------------------------------------
LEMMA InitInv == Init => SendInv
<1> SUFFICES ASSUME Init PROVE SendInv
  OBVIOUS
<1>1. q \in RingOf(Token, N)
  BY Size DEF Init, initQueue, RingOf, Token
<1>2. x \in Token /\ before \in Seq(Token) /\ Len(before) = 0
  BY DEF Init, Token
<1> QED BY <1>1, <1>2, Size DEF Init, SendInv, TypeOK, InTime

(* The test: the tokens that wait become the tokens that waited. *)
LEMMA TestKeepsInv ==
  ASSUME SendInv, NEW m \in MainMsg, EnTest(m)
  PROVE  SendInv'
<1>1. q \in RingOf(Token, N) /\ m \in Token
  BY DEF SendInv, TypeOK, Token
<1>2. /\ before' \in Seq(Token) /\ Len(before') = Waiting(q, N)
      /\ Waiting(q, N) \in 0..(N - 1)
      /\ \A j \in 1..Waiting(q, N) : before'[j] = q.slot[(q.front + j) % N]
  BY <1>1, ContentsSeq, RingParts DEF EnTest
<1>3. TypeOK'
  BY <1>1, <1>2, Size DEF EnTest, SendInv, TypeOK
<1>4. PrefixKept' /\ RearInStep'
  BY <1>2 DEF EnTest, PrefixKept, RearInStep
<1> QED BY <1>3, <1>4 DEF SendInv

(* An interrupt in the middle of enQueue: it stores behind the tokens that *)
(* waited, and moves rear by one as long as the ring has room.             *)
LEMMA InterruptKeepsInv ==
  ASSUME SendInv, NEW m \in IsrMsg, Interrupt(m)
  PROVE  SendInv'
<1>1. q \in RingOf(Token, N) /\ m \in Token /\ TypeOK
  BY DEF SendInv, TypeOK, Token
<1>2. q' = enQueue(q, m, N) /\ q' \in RingOf(Token, N) /\ q'.front = q.front
  BY <1>1, EnQueueParts DEF Interrupt
<1>3. TypeOK'
  BY <1>1, <1>2, Size DEF Interrupt, TypeOK
<1>4. SUFFICES ASSUME InTime' PROVE PrefixKept' /\ RearInStep'
  BY <1>3 DEF SendInv
<1>5. /\ pc # "loop" /\ hits' = hits + 1 /\ hits < Free /\ hits' < Free
      /\ PrefixKept /\ RearInStep /\ pc' = pc /\ before' = before
      /\ newRear' = newRear /\ index' = index
      /\ hits \in Nat /\ Len(before) \in 0..(N - 1)
  BY <1>1, <1>4, Size DEF Interrupt, InTime, SendInv, TypeOK, Free
<1>6. Waiting(q, N) \in 0..(N - 1) /\ Waiting(q, N) >= Len(before)
  BY <1>1, <1>5, RingParts DEF RearInStep, TypeOK
<1>7. CASE IsFull(q, N)
  <2>1. q' = q
    BY <1>1, <1>2, <1>7, EnQueueParts
  <2>2. pc \in {"index", "write"}
    BY <1>1, <1>5, <1>7, RingParts, Size DEF RearInStep, TypeOK, Free
  <2> QED BY <1>5, <2>1, <2>2 DEF PrefixKept, RearInStep
<1>8. CASE ~IsFull(q, N)
  <2>1. /\ Waiting(q', N) = Waiting(q, N) + 1
        /\ q'.slot = [q.slot EXCEPT ![After(q.rear, N)] = m]
        /\ Dist(q.front, After(q.rear, N)) = Waiting(q, N) + 1
    BY <1>1, <1>2, <1>8, EnQueueParts
  <2>2. PrefixKept'
    <3> SUFFICES ASSUME NEW j \in 1..Len(before)
                 PROVE  q'.slot[(q.front + j) % N] = q.slot[(q.front + j) % N]
      BY <1>2, <1>5 DEF PrefixKept
    <3>1. /\ q.front \in 0..(N - 1) /\ After(q.rear, N) \in 0..(N - 1)
          /\ q.slot \in [0..(N - 1) -> Token]
      BY <1>1, RingParts, AfterValue
    <3>2. Dist(q.front, After(q.rear, N)) > Len(before)
      BY <1>5, <1>6, <2>1
    <3>3. (q.front + j) % N \in 0..(N - 1) /\ (q.front + j) % N # After(q.rear, N)
      BY <1>5, <3>1, <3>2, FartherSlot
    <3> QED BY <2>1, <3>1, <3>3
  <2>3. RearInStep'
    <3>0. q.front \in 0..(N - 1) /\ newRear \in 0..(N - 1) /\ index \in 0..(N - 1)
      BY <1>1, RingParts DEF TypeOK
    <3>1. Dist(q.front, newRear) \in 0..(N - 1) /\ Dist(q.front, index) \in 0..(N - 1)
      BY <3>0, DistSlot
    <3> QED BY <1>2, <1>5, <1>6, <2>1, <3>1 DEF RearInStep
  <2> QED BY <2>2, <2>3
<1> QED BY <1>7, <1>8

(* rear is loaded for the new value. *)
LEMMA ComputeKeepsInv ==
  ASSUME SendInv, EnCompute
  PROVE  SendInv'
<1>1. /\ TypeOK /\ q \in RingOf(Token, N)
      /\ q.front \in 0..(N - 1) /\ q.rear \in 0..(N - 1)
      /\ After(q.rear, N) \in 0..(N - 1)
  BY RingParts, AfterValue DEF SendInv, TypeOK
<1>2. TypeOK'
  BY <1>1 DEF EnCompute, TypeOK
<1>3. SUFFICES ASSUME InTime' PROVE PrefixKept' /\ RearInStep'
  BY <1>2 DEF SendInv
<1>4. InTime /\ PrefixKept /\ RearInStep /\ pc = "advance" /\ hits < Free
  BY <1>3 DEF EnCompute, InTime, SendInv, Free
<1>5. /\ Waiting(q, N) = Len(before) + hits
      /\ hits \in Nat /\ Len(before) \in 0..(N - 1)
      /\ Waiting(q, N) < N - 1
  BY <1>1, <1>4, Size DEF RearInStep, TypeOK, Free
<1>6. Dist(q.front, After(q.rear, N)) = Waiting(q, N) + 1
  BY <1>1, <1>5, RingParts, DistAfter
<1> QED BY <1>4, <1>5, <1>6 DEF EnCompute, PrefixKept, RearInStep

(* rear is stored: it may move back behind what interrupts added, but not  *)
(* behind the tokens that waited.                                          *)
LEMMA StoreKeepsInv ==
  ASSUME SendInv, EnStoreRear
  PROVE  SendInv'
<1>1. TypeOK /\ q \in RingOf(Token, N) /\ newRear \in 0..(N - 1)
  BY DEF SendInv, TypeOK
<1>2. /\ q' \in RingOf(Token, N) /\ q'.front = q.front /\ q'.rear = newRear
      /\ q'.slot = q.slot
  BY <1>1 DEF EnStoreRear, RingOf
<1>3. TypeOK'
  BY <1>1, <1>2 DEF EnStoreRear, TypeOK
<1>4. SUFFICES ASSUME InTime' PROVE PrefixKept' /\ RearInStep'
  BY <1>3 DEF SendInv
<1>5. InTime /\ PrefixKept /\ RearInStep /\ pc = "store"
  BY <1>4 DEF EnStoreRear, InTime, SendInv, Free
<1>6. Waiting(q', N) = Dist(q.front, newRear)
  BY <1>2, RingParts
<1>7. Waiting(q', N) >= Len(before) + 1
  BY <1>1, <1>5, <1>6, RingParts DEF RearInStep, TypeOK
<1> QED BY <1>2, <1>5, <1>7 DEF EnStoreRear, PrefixKept, RearInStep

(* rear is loaded for the index. *)
LEMMA LoadIndexKeepsInv ==
  ASSUME SendInv, EnLoadIndex
  PROVE  SendInv'
<1>1. TypeOK /\ q \in RingOf(Token, N) /\ q.rear \in 0..(N - 1)
  BY RingParts DEF SendInv, TypeOK
<1>2. TypeOK'
  BY <1>1 DEF EnLoadIndex, TypeOK
<1>3. SUFFICES ASSUME InTime' PROVE PrefixKept' /\ RearInStep'
  BY <1>2 DEF SendInv
<1>4. InTime /\ PrefixKept /\ RearInStep /\ pc = "index"
  BY <1>3 DEF EnLoadIndex, InTime, SendInv, Free
<1>5. /\ Dist(q.front, q.rear) = Waiting(q, N)
      /\ Waiting(q, N) \in Int /\ Len(before) \in Nat
  BY <1>1, RingParts, Size DEF TypeOK
<1> QED BY <1>4, <1>5 DEF EnLoadIndex, PrefixKept, RearInStep

LEMMA NextInv == SendInv /\ [Next]_vars => SendInv'
<1> SUFFICES ASSUME SendInv, [Next]_vars PROVE SendInv'
  OBVIOUS
<1>1. ASSUME NEW m \in IsrMsg, Interrupt(m) PROVE SendInv'
  BY <1>1, InterruptKeepsInv
<1>2. ASSUME NEW m \in MainMsg, EnTest(m) PROVE SendInv'
  BY <1>2, TestKeepsInv
<1>3. CASE EnCompute
  BY <1>3, ComputeKeepsInv
<1>4. CASE EnStoreRear
  BY <1>4, StoreKeepsInv
<1>5. CASE EnLoadIndex
  BY <1>5, LoadIndexKeepsInv
<1>6. CASE EnWrite
  <2>1. q' \in RingOf(Token, N)
    BY <1>6 DEF EnWrite, SendInv, TypeOK, RingOf
  <2>2. before' \in Seq(Token) /\ Len(before') = 0
    BY <1>6 DEF EnWrite
  <2> QED BY <1>6, <2>1, <2>2, Size DEF EnWrite, SendInv, TypeOK, InTime
<1>7. CASE Out
  <2>1. After(q.front, N) \in 0..(N - 1)
    BY RingParts, AfterValue DEF SendInv, TypeOK
  <2>2. q' \in RingOf(Token, N)
    BY <1>7, <2>1 DEF Out, outQueue, SendInv, TypeOK, RingOf
  <2> QED BY <1>7, <2>2 DEF Out, SendInv, TypeOK, InTime
<1>8. CASE EnFull \/ UNCHANGED vars
  BY <1>8 DEF EnFull, vars, SendInv, TypeOK, InTime, PrefixKept, RearInStep, Free
<1> QED BY <1>1, <1>2, <1>3, <1>4, <1>5, <1>6, <1>7, <1>8 DEF Next

(* The inductive invariant of msgSendQueue and carSendQueue (fun.c:35-43): *)
(* types, the tokens that waited in place, and the three copies of rear.   *)
THEOREM SendInvHolds == Spec => []SendInv
<1> QED BY InitInv, NextInv, PTL DEF Spec

(* The token rings keep their shape whatever interrupts do in the middle   *)
(* of the main loop's enQueue: every index stays inside the array.         *)
THEOREM TypesHold == Spec => []TypeOK
<1>1. SendInv => TypeOK
  BY DEF SendInv
<1> QED BY <1>1, SendInvHolds, PTL

(* The race of the main loop's enQueue with the interrupts' (fun.c:37-40)  *)
(* costs no token that waited, and not the main loop's own, as long as     *)
(* the interrupts offer fewer tokens than there were free slots.           *)
THEOREM NoWaitingTokenLost == Spec => TokensKept
<1>1. SendInv => [EnWrite /\ hits < Free =>
         /\ Len(before) < Waiting(q', N)
         /\ \A j \in DOMAIN before : Contents(q', N)[j] = before[j]
         /\ \E j \in (Len(before) + 1)..Waiting(q', N) : Contents(q', N)[j] = x]_vars
  <2> SUFFICES ASSUME SendInv, EnWrite, hits < Free
               PROVE  /\ Len(before) < Waiting(q', N)
                      /\ \A j \in DOMAIN before : Contents(q', N)[j] = before[j]
                      /\ \E j \in (Len(before) + 1)..Waiting(q', N) :
                            Contents(q', N)[j] = x
    OBVIOUS
  <2> DEFINE L == Len(before)
             w == Waiting(q, N)
             d == Dist(q.front, index)
  <2>1. /\ TypeOK /\ q \in RingOf(Token, N) /\ index \in 0..(N - 1)
        /\ q.front \in 0..(N - 1) /\ q.slot \in [0..(N - 1) -> Token]
        /\ w \in 0..(N - 1) /\ L \in 0..(N - 1) /\ DOMAIN before = 1..L
    BY RingParts, Size DEF SendInv, TypeOK
  <2>2. PrefixKept /\ w >= L + 1 /\ d \in (L + 1)..w
    BY DEF EnWrite, InTime, SendInv, RearInStep
  <2>3. /\ q' \in RingOf(Token, N) /\ q'.front = q.front /\ q'.rear = q.rear
        /\ q'.slot = [q.slot EXCEPT ![index] = x]
    BY <2>1 DEF EnWrite, TypeOK, RingOf
  <2>4. Waiting(q', N) = w
    BY <2>3 DEF Waiting
  <2>5. \A j \in 1..w : Contents(q', N)[j] = q'.slot[(q.front + j) % N]
    BY <2>3, <2>4, ContentsSeq
  <2>6. ASSUME NEW j \in 1..L PROVE Contents(q', N)[j] = before[j]
    <3>1. j \in 1..w /\ d > L
      BY <2>1, <2>2
    <3>2. (q.front + j) % N \in 0..(N - 1) /\ (q.front + j) % N # index
      BY <2>1, <3>1, FartherSlot
    <3> QED BY <2>1, <2>2, <2>3, <2>5, <3>1, <3>2 DEF PrefixKept
  <2>7. Contents(q', N)[d] = x
    <3>1. (q.front + d) % N = index
      BY <2>1, DistSlot
    <3>2. d \in 1..w
      BY <2>1, <2>2
    <3> QED BY <2>1, <2>3, <2>5, <3>1, <3>2
  <2> HIDE DEF L, w, d
  <2>8. L < w
    BY <2>1, <2>2
  <2> QED BY <2>1, <2>2, <2>4, <2>6, <2>7, <2>8
<1> QED BY <1>1, SendInvHolds, PTL DEF TokensKept
=============================================================================
