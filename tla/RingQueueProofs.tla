--------------------------- MODULE RingQueueProofs ---------------------------
(***************************************************************************)
(* The interrupt-filled rings, for every size N >= 2, node width and value *)
(* set: the pointer handed out by pxGetMsgFrom...Queue stays good, and the *)
(* ring implements the bounded FIFO.                                       *)
(***************************************************************************)
EXTENDS RingQueue, TLAPS

(* (a % n) on the two laps an index can be in. *)
LEMMA ModFirstLap ==
  ASSUME NEW n \in Nat \ {0}, NEW a \in 0..(n - 1)
  PROVE  a % n = a
BY Z3

LEMMA ModSecondLap ==
  ASSUME NEW n \in Nat \ {0}, NEW a \in n..(2 * n - 1)
  PROVE  a % n = a - n
BY Z3

(* The successor of a slot is a slot: the next one, or slot 0. *)
LEMMA AfterValue ==
  ASSUME NEW n \in Nat \ {0}, NEW i \in 0..(n - 1)
  PROVE  /\ After(i, n) \in 0..(n - 1)
         /\ After(i, n) = IF i = n - 1 THEN 0 ELSE i + 1
<1>1. CASE i = n - 1
  BY <1>1, ModSecondLap, i + 1 \in n..(2 * n - 1) DEF After
<1>2. CASE i # n - 1
  BY <1>2, ModFirstLap, i + 1 \in 0..(n - 1) DEF After
<1> QED BY <1>1, <1>2

LEMMA NodeFacts == Blank \in Node /\ N \in Nat \ {0} /\ 0 \in 0..(N - 1) /\ 1 \in 1..(W + 1)
BY NAssumption, WAssumption, ZeroAssumption DEF Blank, Node

(* An enQueue on a ring leaves a ring. *)
LEMMA EnQueueType ==
  ASSUME NEW r \in RingOf(Node, N), NEW x \in Node
  PROVE  enQueue(r, x, N) \in RingOf(Node, N)
<1>1. After(r.rear, N) \in 0..(N - 1)
  BY AfterValue, NodeFacts DEF RingOf
<1> QED BY <1>1 DEF enQueue, RingOf

LEMMA OutQueueType ==
  ASSUME NEW r \in RingOf(Node, N)
  PROVE  outQueue(r, N) \in RingOf(Node, N)
<1>1. After(r.front, N) \in 0..(N - 1)
  BY AfterValue, NodeFacts DEF RingOf
<1> QED BY <1>1 DEF outQueue, RingOf

(* The slot front is the one an enQueue never writes, and an enQueue never *)
(* makes a ring empty.                                                     *)
LEMMA EnQueueSparesFront ==
  ASSUME NEW r \in RingOf(Node, N), NEW x \in Node
  PROVE  /\ enQueue(r, x, N).front = r.front
         /\ enQueue(r, x, N).slot[r.front] = r.slot[r.front]
         /\ ~IsEmpty(r) => ~IsEmpty(enQueue(r, x, N))
<1>1. After(r.rear, N) \in 0..(N - 1)
  BY AfterValue, NodeFacts DEF RingOf
<1> QED BY <1>1 DEF enQueue, RingOf, IsFull, IsEmpty
----------------------------------------------------------------------------
LEMMA InitInv == Init => Inv
<1> SUFFICES ASSUME Init PROVE Inv
  OBVIOUS
<1>1. q \in RingOf(Node, N)
  BY NodeFacts DEF Init, initQueue, RingOf
<1> QED BY <1>1, NodeFacts DEF Init, Inv, TypeOK, PointerGood, CheckStillHolds

LEMMA NextInv == Inv /\ [Next]_vars => Inv'
<1> SUFFICES ASSUME Inv, [Next]_vars PROVE Inv'
  OBVIOUS
<1> USE DEF Inv, TypeOK
<1>1. ASSUME NEW x \in Node, AddTo(x) PROVE Inv'
  <2>1. TypeOK'
    BY <1>1, EnQueueType DEF AddTo
  <2>2. q'.front = q.front /\ q'.slot[q.front] = q.slot[q.front]
    BY <1>1, EnQueueSparesFront DEF AddTo
  <2>3. PointerGood'
    BY <1>1, <2>2 DEF AddTo, PointerGood
  <2>4. CheckStillHolds'
    BY <1>1, EnQueueSparesFront DEF AddTo, CheckStillHolds
  <2> QED BY <2>1, <2>3, <2>4
<1>2. CASE GetCheck
  BY <1>2 DEF GetCheck, PointerGood, CheckStillHolds
<1>3. CASE GetAdvance
  <2>1. After(q.front, N) \in 0..(N - 1)
    BY AfterValue, NodeFacts DEF RingOf
  <2>2. q' \in RingOf(Node, N) /\ q'.front = After(q.front, N)
    BY <1>3, OutQueueType DEF GetAdvance, outQueue, RingOf
  <2> QED BY <1>3, <2>1, <2>2, WAssumption DEF GetAdvance, PointerGood, CheckStillHolds
<1>4. CASE LoadWord
  <2>a. word \in 1..W
    BY <1>4, WAssumption DEF LoadWord
  <2>b. q.slot \in [0..(N - 1) -> Node]
    BY DEF RingOf
  <2>1. word \in 1..W /\ q.slot[node] \in Node
    BY <2>a, <2>b
  <2>2. TypeOK'
    BY <1>4, <2>1, WAssumption DEF LoadWord, Node
  <2>3. PointerGood'
    BY <1>4, <2>1, WAssumption DEF LoadWord, PointerGood, Node
  <2> QED BY <1>4, <2>2, <2>3 DEF LoadWord, CheckStillHolds
<1>5. CASE FrameDone
  BY <1>5 DEF FrameDone, PointerGood, CheckStillHolds
<1>6. CASE GetEmpty \/ UNCHANGED vars
  BY <1>6 DEF GetEmpty, vars, PointerGood, CheckStillHolds
<1> QED BY <1>1, <1>2, <1>3, <1>4, <1>5, <1>6 DEF Next, Consume

(* The inductive invariant of a report queue (fun.c:84-149) holds: types,  *)
(* the pointer, and the test for an empty ring.                            *)
THEOREM InvHolds == Spec => []Inv
<1> QED BY InitInv, NextInv, PTL DEF Spec

(* The rings keep their shape, whatever interrupts AddTo... while the main *)
(* loop is inside pxGetMsgFrom...Queue.                                    *)
THEOREM TypesHold == Spec => []TypeOK
<1>1. Inv => TypeOK
  BY DEF Inv
<1> QED BY <1>1, InvHolds, PTL

(* The pointer that pxGetMsgFrom...Queue returned is never written behind  *)
(* the main loop's back (fun.c:141-149).                                   *)
THEOREM PointerStaysGood == Spec => []PointerGood
<1>1. Inv => PointerGood
  BY DEF Inv
<1> QED BY <1>1, InvHolds, PTL

(* A ring found not empty (fun.c:143) still is when front is moved, with   *)
(* any number of interrupts in between.                                    *)
THEOREM CheckHolds == Spec => []CheckStillHolds
<1>1. Inv => CheckStillHolds
  BY DEF Inv
<1> QED BY <1>1, InvHolds, PTL
----------------------------------------------------------------------------
(* Refinement.  Contents of a ring as a sequence. *)

LEMMA WaitingRange ==
  ASSUME NEW r \in RingOf(Node, N)
  PROVE  /\ Waiting(r, N) \in 0..(N - 1)
         /\ IsEmpty(r) <=> Waiting(r, N) = 0
         /\ IsFull(r, N) <=> Waiting(r, N) = N - 1
<1>1. /\ r.front \in 0..(N - 1) /\ r.rear \in 0..(N - 1)
      /\ After(r.rear, N) = IF r.rear = N - 1 THEN 0 ELSE r.rear + 1
  BY AfterValue, NodeFacts DEF RingOf
<1> QED BY <1>1, NAssumption DEF Waiting, IsEmpty, IsFull

(* The i-th slot after front, whatever lap it is on. *)
LEMMA SlotAfter ==
  ASSUME NEW f \in 0..(N - 1), NEW i \in 0..N
  PROVE  /\ (f + i) % N \in 0..(N - 1)
         /\ (f + i) % N = IF f + i < N THEN f + i ELSE f + i - N
<1>1. CASE f + i < N
  BY <1>1, ModFirstLap, NodeFacts, f + i \in 0..(N - 1)
<1>2. CASE f + i >= N
  BY <1>2, ModSecondLap, NodeFacts, f + i \in N..(2 * N - 1)
<1> QED BY <1>1, <1>2, NodeFacts

LEMMA ContentsSeq ==
  ASSUME NEW r \in RingOf(Node, N)
  PROVE  /\ Contents(r, N) \in Seq(Node)
         /\ Len(Contents(r, N)) = Waiting(r, N)
         /\ DOMAIN Contents(r, N) = 1..Waiting(r, N)
         /\ \A i \in 1..Waiting(r, N) :
              Contents(r, N)[i] = r.slot[(r.front + i) % N]
<1>1. Waiting(r, N) \in Nat /\ Waiting(r, N) <= N - 1
  BY WaitingRange, NodeFacts
<1>2. ASSUME NEW i \in 1..Waiting(r, N) PROVE r.slot[(r.front + i) % N] \in Node
  <2>1. i \in 0..N /\ r.front \in 0..(N - 1) /\ r.slot \in [0..(N - 1) -> Node]
    BY <1>1, NodeFacts DEF RingOf
  <2>2. (r.front + i) % N \in 0..(N - 1)
    BY <2>1, SlotAfter
  <2> QED BY <2>1, <2>2
<1>3. Contents(r, N) \in [1..Waiting(r, N) -> Node]
  BY <1>2 DEF Contents
<1> QED BY <1>1, <1>3 DEF Contents

(* An accepted node goes to the end of the queue. *)
LEMMA ContentsAdd ==
  ASSUME NEW r \in RingOf(Node, N), NEW x \in Node, ~IsFull(r, N)
  PROVE  /\ Len(Contents(r, N)) < N - 1
         /\ Contents(enQueue(r, x, N), N) = Append(Contents(r, N), x)
<1> DEFINE s == enQueue(r, x, N)
<1>1. s \in RingOf(Node, N)
  BY EnQueueType
<1>2. /\ r.front \in 0..(N - 1) /\ r.rear \in 0..(N - 1)
      /\ r.slot \in [0..(N - 1) -> Node]
      /\ After(r.rear, N) \in 0..(N - 1)
      /\ After(r.rear, N) = IF r.rear = N - 1 THEN 0 ELSE r.rear + 1
      /\ After(r.rear, N) # r.front
  BY AfterValue, NodeFacts DEF RingOf, IsFull
<1>3. /\ s.front = r.front /\ s.rear = After(r.rear, N)
      /\ s.slot = [r.slot EXCEPT ![After(r.rear, N)] = x]
  BY <1>2 DEF enQueue, RingOf, IsFull
<1>4. Waiting(s, N) = Waiting(r, N) + 1 /\ Waiting(r, N) \in 0..(N - 2)
  <2>1. /\ Waiting(r, N) = IF r.front <= r.rear THEN r.rear - r.front
                                                 ELSE r.rear - r.front + N
        /\ Waiting(s, N) = IF r.front <= After(r.rear, N)
                              THEN After(r.rear, N) - r.front
                              ELSE After(r.rear, N) - r.front + N
    BY <1>3 DEF Waiting
  <2> DEFINE f == r.front
             e == r.rear
             a == After(r.rear, N)
             w == Waiting(r, N)
             v == Waiting(s, N)
  <2>2. /\ f \in 0..(N - 1) /\ e \in 0..(N - 1) /\ a # f /\ N \in Nat
        /\ a = IF e = N - 1 THEN 0 ELSE e + 1
        /\ w = IF f <= e THEN e - f ELSE e - f + N
        /\ v = IF f <= a THEN a - f ELSE a - f + N
    BY <1>2, <2>1, NodeFacts
  <2> HIDE DEF f, e, a, w, v
  <2>3. v = w + 1 /\ w \in 0..(N - 2)
    BY <2>2
  <2> QED BY <2>3 DEF w, v
<1> HIDE DEF s
<1>5. \A i \in 1..Waiting(r, N) : Contents(s, N)[i] = Contents(r, N)[i]
  <2> SUFFICES ASSUME NEW i \in 1..Waiting(r, N)
               PROVE  Contents(s, N)[i] = Contents(r, N)[i]
    OBVIOUS
  <2>1. i \in 0..N /\ i \in 1..Waiting(s, N)
    BY <1>4, NodeFacts
  <2>2. /\ (r.front + i) % N \in 0..(N - 1)
        /\ (r.front + i) % N = IF r.front + i < N THEN r.front + i ELSE r.front + i - N
    BY <2>1, <1>2, SlotAfter
  <2>3. (r.front + i) % N # After(r.rear, N)
    <3> DEFINE f == r.front
               e == r.rear
               a == After(r.rear, N)
               w == Waiting(r, N)
               k == (r.front + i) % N
    <3>1. /\ f \in 0..(N - 1) /\ e \in 0..(N - 1) /\ a # f /\ N \in Nat
          /\ a = IF e = N - 1 THEN 0 ELSE e + 1
          /\ w = IF f <= e THEN e - f ELSE e - f + N
          /\ i \in 1..w
          /\ k = IF f + i < N THEN f + i ELSE f + i - N
      BY <1>2, <2>2, NodeFacts DEF Waiting
    <3> HIDE DEF f, e, a, w, k
    <3>2. k # a
      BY <3>1
    <3> QED BY <3>2 DEF k, a
  <2>4. Contents(s, N)[i] = s.slot[(r.front + i) % N]
    BY <2>1, <1>1, <1>3, ContentsSeq
  <2>5. Contents(r, N)[i] = r.slot[(r.front + i) % N]
    BY ContentsSeq
  <2> QED BY <2>2, <2>3, <2>4, <2>5, <1>2, <1>3
<1>6. Contents(s, N)[Waiting(r, N) + 1] = x
  <2> DEFINE k == Waiting(r, N) + 1
  <2>1. k \in 0..N /\ k \in 1..Waiting(s, N)
    BY <1>4, NodeFacts
  <2> HIDE DEF k
  <2>2. (r.front + k) % N = IF r.front + k < N THEN r.front + k ELSE r.front + k - N
    BY <2>1, <1>2, SlotAfter
  <2>3. (r.front + k) % N = After(r.rear, N)
    BY <2>2, <1>2, NodeFacts DEF Waiting, k
  <2>4. Contents(s, N)[k] = s.slot[(r.front + k) % N]
    BY <2>1, <1>1, <1>3, ContentsSeq
  <2> QED BY <2>3, <2>4, <1>2, <1>3 DEF k
<1>7. /\ Contents(r, N) \in Seq(Node) /\ Contents(s, N) \in Seq(Node)
      /\ Len(Contents(r, N)) = Waiting(r, N) /\ Len(Contents(s, N)) = Waiting(s, N)
  BY <1>1, ContentsSeq
<1>8. Contents(s, N) = Append(Contents(r, N), x)
  <2> DEFINE u == Contents(r, N)
             v == Contents(s, N)
  <2>1. u \in Seq(Node) /\ v \in Seq(Node) /\ Len(v) = Len(u) + 1
    BY <1>4, <1>7
  <2>2. \A i \in 1..Len(u) : v[i] = u[i]
    BY <1>5, <1>7
  <2>3. v[Len(u) + 1] = x
    BY <1>6, <1>7
  <2> HIDE DEF u, v
  <2>4. v = Append(u, x)
    BY <2>1, <2>2, <2>3
  <2> QED BY <2>4 DEF u, v
<1> QED BY <1>4, <1>7, <1>8, NodeFacts DEF s

(* Moving front takes the oldest node off the queue. *)
LEMMA ContentsOut ==
  ASSUME NEW r \in RingOf(Node, N), ~IsEmpty(r)
  PROVE  /\ Contents(r, N) # << >>
         /\ Head(Contents(r, N)) = r.slot[After(r.front, N)]
         /\ Contents(outQueue(r, N), N) = Tail(Contents(r, N))
<1> DEFINE s == outQueue(r, N)
<1>1. s \in RingOf(Node, N)
  BY OutQueueType
<1>2. /\ r.front \in 0..(N - 1) /\ r.rear \in 0..(N - 1)
      /\ r.slot \in [0..(N - 1) -> Node]
      /\ After(r.front, N) \in 0..(N - 1)
      /\ After(r.front, N) = IF r.front = N - 1 THEN 0 ELSE r.front + 1
      /\ r.rear # r.front
  BY AfterValue, NodeFacts DEF RingOf, IsEmpty
<1>3. s.front = After(r.front, N) /\ s.rear = r.rear /\ s.slot = r.slot
  BY <1>2 DEF outQueue, RingOf
<1>4. Waiting(s, N) = Waiting(r, N) - 1 /\ Waiting(r, N) \in 1..(N - 1)
  <2> HIDE DEF s
  <2>1. Waiting(r, N) \in 1..(N - 1)
    BY <1>2, NodeFacts DEF Waiting
  <2>2. CASE r.front = N - 1
    BY <1>2, <1>3, <2>2, NodeFacts DEF Waiting
  <2>3. CASE r.front # N - 1
    BY <1>2, <1>3, <2>3, NodeFacts, SMTT(30) DEF Waiting
  <2> QED BY <2>1, <2>2, <2>3
<1> HIDE DEF s
<1>5. \A i \in 1..Waiting(s, N) : Contents(s, N)[i] = Contents(r, N)[i + 1]
  <2> SUFFICES ASSUME NEW i \in 1..Waiting(s, N)
               PROVE  Contents(s, N)[i] = Contents(r, N)[i + 1]
    OBVIOUS
  <2>1. i \in 0..N /\ i + 1 \in 0..N /\ i + 1 \in 1..Waiting(r, N)
    BY <1>4, NodeFacts
  <2>2. (s.front + i) % N = (r.front + (i + 1)) % N
    <3>1. (s.front + i) % N = IF s.front + i < N THEN s.front + i ELSE s.front + i - N
      BY <2>1, <1>2, <1>3, SlotAfter
    <3>2. (r.front + (i + 1)) % N =
            IF r.front + (i + 1) < N THEN r.front + (i + 1) ELSE r.front + (i + 1) - N
      BY <2>1, <1>2, SlotAfter
    <3> DEFINE f == r.front
               a == s.front
               k == (s.front + i) % N
               l == (r.front + (i + 1)) % N
    <3>3. /\ f \in 0..(N - 1) /\ N \in Nat /\ i \in 0..N /\ i + 1 <= N
          /\ a = IF f = N - 1 THEN 0 ELSE f + 1
          /\ k = IF a + i < N THEN a + i ELSE a + i - N
          /\ l = IF f + (i + 1) < N THEN f + (i + 1) ELSE f + (i + 1) - N
      BY <1>2, <1>3, <2>1, <3>1, <3>2, NodeFacts
    <3> HIDE DEF f, a, k, l
    <3>4. k = l
      BY <3>3
    <3> QED BY <3>4 DEF k, l
  <2>3. Contents(s, N)[i] = s.slot[(s.front + i) % N]
    BY <1>1, ContentsSeq
  <2>4. Contents(r, N)[i + 1] = r.slot[(r.front + (i + 1)) % N]
    BY <2>1, ContentsSeq
  <2> QED BY <2>2, <2>3, <2>4, <1>3
<1>6. Contents(r, N)[1] = r.slot[After(r.front, N)]
  BY <1>4, ContentsSeq DEF After
<1>7. /\ Contents(r, N) \in Seq(Node) /\ Contents(s, N) \in Seq(Node)
      /\ Len(Contents(r, N)) = Waiting(r, N) /\ Len(Contents(s, N)) = Waiting(s, N)
  BY <1>1, ContentsSeq
<1> DEFINE u == Contents(r, N)
           v == Contents(s, N)
<1>8. /\ u \in Seq(Node) /\ v \in Seq(Node) /\ Len(v) = Len(u) - 1 /\ Len(u) >= 1
      /\ \A i \in 1..Len(v) : v[i] = u[i + 1]
      /\ u[1] = r.slot[After(r.front, N)]
  BY <1>4, <1>5, <1>6, <1>7
<1> HIDE DEF u, v
<1>9. u # << >> /\ Head(u) = u[1] /\ v = Tail(u)
  BY <1>8
<1> QED BY <1>8, <1>9 DEF u, v, s

LEMMA RefineInit == Init => Fifo!Init
<1> SUFFICES ASSUME Init PROVE Fifo!Init
  OBVIOUS
<1>1. q \in RingOf(Node, N) /\ IsEmpty(q)
  BY NodeFacts DEF Init, initQueue, RingOf, IsEmpty
<1>2. Contents(q, N) \in Seq(Node) /\ Len(Contents(q, N)) = 0
  BY <1>1, WaitingRange, ContentsSeq
<1>3. Contents(q, N) = << >>
  BY <1>2
<1> QED BY <1>3 DEF Init, Fifo!Init

LEMMA RefineNext == Inv /\ [Next]_vars => [Fifo!Next]_(Fifo!vars)
<1> SUFFICES ASSUME Inv, [Next]_vars PROVE [Fifo!Next]_(Fifo!vars)
  OBVIOUS
<1> USE DEF Inv, TypeOK
<1> DEFINE hand == IF pc = "load" THEN <<q.slot[node]>> ELSE << >>
<1>1. ASSUME NEW x \in Node, AddTo(x) PROVE [Fifo!Next]_(Fifo!vars)
  <2>1. q'.slot[q.front] = q.slot[q.front]
    BY <1>1, EnQueueSparesFront DEF AddTo
  <2>2. hand' = hand /\ out' = out
    BY <1>1, <2>1 DEF AddTo, PointerGood
  <2>3. CASE IsFull(q, N)
    <3>1. q' = q
      BY <1>1, <2>3 DEF AddTo, enQueue
    <3> QED BY <3>1, <2>2 DEF Fifo!vars
  <2>4. CASE ~IsFull(q, N)
    <3>1. Len(Contents(q, N)) < N - 1 /\ Contents(q', N) = Append(Contents(q, N), x)
      BY <1>1, <2>4, ContentsAdd DEF AddTo
    <3>2. Fifo!Add(x)
      BY <3>1, <2>2 DEF Fifo!Add
    <3> QED BY <3>2 DEF Fifo!Next
  <2> QED BY <2>3, <2>4
<1>2. CASE GetCheck
  BY <1>2 DEF GetCheck, Fifo!vars
<1>3. CASE GetAdvance
  <2>1. ~IsEmpty(q)
    BY <1>3 DEF GetAdvance, CheckStillHolds
  <2>2. /\ Contents(q, N) # << >>
        /\ Head(Contents(q, N)) = q.slot[After(q.front, N)]
        /\ Contents(q', N) = Tail(Contents(q, N))
    BY <1>3, <2>1, ContentsOut DEF GetAdvance
  <2>3. q'.slot = q.slot
    BY <1>3 DEF GetAdvance, outQueue, RingOf
  <2>4. hand = << >> /\ hand' = <<Head(Contents(q, N))>> /\ out' = out
    BY <1>3, <2>2, <2>3 DEF GetAdvance
  <2>5. Fifo!Take
    BY <2>2, <2>4 DEF Fifo!Take
  <2> QED BY <2>5 DEF Fifo!Next
<1>4. CASE LoadWord
  BY <1>4 DEF LoadWord, Fifo!vars
<1>5. CASE FrameDone
  <2>1. q.slot[node] \in Node
    <3>1. q.slot \in [0..(N - 1) -> Node]
      BY DEF RingOf
    <3> QED BY <3>1
  <2>2. word - 1 = W
    BY <1>5, WAssumption DEF FrameDone
  <2>3. \A w \in 1..W : copy[w] = q.slot[node][w]
    BY <1>5, <2>2 DEF FrameDone, PointerGood
  <2>4. copy = q.slot[node]
    <3> DEFINE u == q.slot[node]
    <3>1. u \in [1..W -> Val] /\ copy \in [1..W -> Val] /\ \A w \in 1..W : copy[w] = u[w]
      BY <2>1, <2>3 DEF Node
    <3> HIDE DEF u
    <3>a. copy = [w \in 1..W |-> copy[w]] /\ u = [w \in 1..W |-> u[w]]
      BY <3>1
    <3>b. [w \in 1..W |-> copy[w]] = [w \in 1..W |-> u[w]]
      BY <3>1
    <3>2. copy = u
      BY <3>a, <3>b
    <3> QED BY <3>2 DEF u
  <2>5. Fifo!Deliver
    BY <1>5, <2>4 DEF FrameDone, Fifo!Deliver
  <2> QED BY <2>5 DEF Fifo!Next
<1>6. CASE GetEmpty \/ UNCHANGED vars
  BY <1>6 DEF GetEmpty, vars, Fifo!vars
<1> QED BY <1>1, <1>2, <1>3, <1>4, <1>5, <1>6 DEF Next, Consume

(* The state queue and the interval queue hand over whole nodes, in order, *)
(* and drop a node only when N - 1 are waiting, although the main loop     *)
(* reads them through a pointer while the interrupt keeps adding.          *)
THEOREM RingIsFifo == Spec => ImplementsFifo
<1> QED BY InvHolds, RefineInit, RefineNext, PTL DEF Spec, ImplementsFifo, Fifo!Spec
=============================================================================
