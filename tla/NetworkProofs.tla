---------------------------- MODULE NetworkProofs ----------------------------
(***************************************************************************)
(* Below the UDP clients, for every number of hosts, clients, table        *)
(* entries, pool elements and descriptors.                                 *)
(***************************************************************************)
EXTENDS Network, FiniteSetTheorems, TLAPS

(* The sizes of the table, the pool and the rings. *)
LEMMA Sizes ==
  /\ ARP_TABLE_SIZE \in Nat \ {0} /\ MEMP_NUM_ARP_QUEUE \in Nat
  /\ ARP_MAXAGE \in Nat \ {0} /\ ARP_MAXPENDING \in Nat \ {0, 1}
  /\ ETH_TXBUFNB \in Nat \ {0} /\ ETH_RXBUFNB \in Nat \ {0}
  /\ 0 \in Slots /\ NoSlot \notin Slots /\ Slots \subseteq Nat
BY EtharpAssumption, NetworkAssumption DEF Slots, NoSlot

(* A set of naturals that is not empty has a least element, and a greatest *)
(* one if it is bounded.                                                   *)
LEMMA Least ==
  ASSUME NEW S, S \subseteq Nat, S # {}
  PROVE  \E i \in S : \A j \in S : i <= j
<1>1. PICK i \in S : \A j \in S : ~(<<j, i>> \in OpToRel(<, Nat))
  BY WFMin, NatLessThanWellFounded
<1>2. \A j \in S : ~(j < i)
  BY <1>1 DEF OpToRel
<1> QED BY <1>2

LEMMA Greatest ==
  ASSUME NEW S, S \subseteq Nat, S # {}, NEW b \in Nat, \A i \in S : i <= b
  PROVE  \E i \in S : \A j \in S : j <= i
<1> DEFINE T == {b - i : i \in S}
<1>1. T \subseteq Nat /\ T # {}
  <2>1. \A i \in S : b - i \in Nat
    OBVIOUS
  <2> QED BY <2>1
<1>2. PICK t \in T : \A u \in T : t <= u
  BY <1>1, Least
<1>3. PICK i \in S : t = b - i
  OBVIOUS
<1>4. ASSUME NEW j \in S PROVE j <= i
  <2>1. b - i <= b - j
    BY <1>2, <1>3
  <2> QED BY <2>1
<1> QED BY <1>4

LEMMA FirstIn ==
  ASSUME NEW S \in SUBSET Slots, S # {}
  PROVE  First(S) \in S
<1>1. \E i \in S : \A j \in S : i <= j
  BY Least, Sizes
<1> QED BY <1>1 DEF First

(* Oldest picks the greatest index among the entries of greatest age. *)
LEMMA OldestIn ==
  ASSUME NEW a, \A i \in Slots : a.table[i].ctime \in 0..(ARP_MAXAGE + ARP_MAXPENDING),
         NEW S \in SUBSET Slots, S # {}
  PROVE  Oldest(a, S) \in S
<1> DEFINE age(i) == a.table[i].ctime
           Ages == {age(i) : i \in S}
<1>1. \A i \in S : age(i) \in Nat /\ age(i) <= ARP_MAXAGE + ARP_MAXPENDING
  BY Sizes
<1>2. PICK top \in Ages : \A t \in Ages : t <= top
  <2>1. Ages \subseteq Nat /\ Ages # {} /\ \A t \in Ages : t <= ARP_MAXAGE + ARP_MAXPENDING
    BY <1>1
  <2>2. ARP_MAXAGE + ARP_MAXPENDING \in Nat
    BY Sizes
  <2> QED BY <2>1, <2>2, Greatest
<1> DEFINE Olds == {i \in S : age(i) = top}
<1>3. PICK o \in Olds : \A j \in Olds : j <= o
  <2>0. Olds # {}
    OBVIOUS
  <2>1. Olds \subseteq Nat /\ Olds # {} /\ \A j \in Olds : j <= ARP_TABLE_SIZE
    <3>1. \A j \in Slots : j \in Nat /\ j <= ARP_TABLE_SIZE
      BY Sizes DEF Slots
    <3> QED BY <2>0, <3>1
  <2>2. ARP_TABLE_SIZE \in Nat
    BY Sizes
  <2> QED BY <2>1, <2>2, Greatest
<1>4. \A j \in S : age(j) < age(o) \/ (age(j) = age(o) /\ j <= o)
  <2>1. ASSUME NEW j \in S PROVE age(j) < age(o) \/ (age(j) = age(o) /\ j <= o)
    <3>1. age(j) \in Ages /\ age(o) = top /\ age(j) <= top
      BY <1>2
    <3> HIDE DEF age
    <3>2. age(j) \in Nat /\ top \in Nat
      BY <1>1, <1>2
    <3> QED BY <1>3, <3>1, <3>2
  <2> QED BY <2>1
<1> HIDE DEF Olds
<1>5. \E i \in S : \A j \in S : a.table[j].ctime < a.table[i].ctime
                                \/ (a.table[j].ctime = a.table[i].ctime /\ j <= i)
  BY <1>4 DEF Olds
<1> QED BY <1>5 DEF Oldest
----------------------------------------------------------------------------
(* The ARP table.  The invariant is a predicate on an ARP state, so that   *)
(* the operators can be shown to keep it one by one.                       *)

Entry == [state : {"EMPTY", "PENDING", "STABLE"}, ip : Hosts \cup {NoHost},
          eth : Hosts \cup {NoHost}, ctime : Nat, q : Seq(Pkt)]

ArpRec == [table : [Slots -> Entry], cached : Slots, free : Nat]
ArpType(a) == /\ a \in ArpRec
              /\ \A i \in Slots : /\ a.table[i].ctime < Lifetime(a.table[i].state)
                                  /\ a.table[i].state = "EMPTY" => a.table[i].ctime = 0

(* The table names a host once, and a stable entry has its host's address. *)
Unique(a) == \A i, j \in Slots : /\ a.table[i].state # "EMPTY" /\ a.table[j].state # "EMPTY"
                                 /\ a.table[i].ip = a.table[j].ip
                                 => i = j
QueuesSound(a) == \A i \in Slots : a.table[i].q # << >> =>
                    /\ a.table[i].state = "PENDING"
                    /\ \A n \in 1..Len(a.table[i].q) : a.table[i].q[n].to = a.table[i].ip
Known(a) == \A i \in Slots : a.table[i].state = "STABLE" => a.table[i].eth = a.table[i].ip

(* Each element of the pool is free or holds a queued packet. *)
PoolKept(a) == IsFiniteSet(InUse(a)) /\ a.free + Queued(a) = MEMP_NUM_ARP_QUEUE

ArpInv(a) == ArpType(a) /\ Unique(a) /\ QueuesSound(a) /\ Known(a) /\ PoolKept(a)

LEMMA PeersAreHosts == Peers \subseteq Hosts
BY NetworkAssumption DEF Peers

LEMMA Lifetimes == \A s : Lifetime(s) \in Nat \ {0} /\ Lifetime(s) <= ARP_MAXAGE + ARP_MAXPENDING
BY Sizes DEF Lifetime

LEMMA NoPackets == << >> \in Seq(Pkt) /\ Len(<< >>) = 0
OBVIOUS

LEMMA NoEntryIs == /\ NoEntry \in Entry /\ NoEntry.state = "EMPTY" /\ NoEntry.q = << >>
                   /\ NoEntry.ctime = 0
BY NoPackets DEF NoEntry, Entry

(* The elements in use, entry by entry. *)
LEMMA InUseIs ==
  ASSUME NEW a, NEW e
  PROVE  e \in InUse(a) <=> \E i \in Slots : \E n \in 1..Len(a.table[i].q) : e = <<i, n>>
BY DEF InUse

LEMMA QueuedNat ==
  ASSUME NEW a, IsFiniteSet(InUse(a))
  PROVE  Queued(a) \in Nat
BY FS_CardinalityType DEF Queued

LEMMA QueuedSame ==
  ASSUME NEW a, NEW b, \A j \in Slots : b.table[j].q = a.table[j].q
  PROVE  InUse(b) = InUse(a) /\ Queued(b) = Queued(a)
<1>1. \A e : e \in InUse(a) <=> e \in InUse(b)
  BY InUseIs
<1>2. InUse(a) = InUse(b)
  BY <1>1
<1> QED BY <1>2 DEF Queued

(* The queue of one entry is given up ... *)
LEMMA QueueDropped ==
  ASSUME NEW a, NEW b, NEW i \in Slots, IsFiniteSet(InUse(a)), Len(a.table[i].q) \in Nat,
         b.table[i].q = << >>, \A j \in Slots \ {i} : b.table[j].q = a.table[j].q
  PROVE  IsFiniteSet(InUse(b)) /\ Queued(b) = Queued(a) - Len(a.table[i].q)
<1> DEFINE L == Len(a.table[i].q)
           D == {i} \X (1..L)
<1>1. IsFiniteSet(D) /\ Cardinality(D) = L
  <2>1. IsFiniteSet({i}) /\ Cardinality({i}) = 1
    BY FS_Singleton
  <2> HIDE DEF L
  <2>a. L \in Nat /\ 1 \in Int /\ L \in Int
    BY DEF L
  <2>2. IsFiniteSet(1..L) /\ Cardinality(1..L) = IF 1 > L THEN 0 ELSE L - 1 + 1
    BY <2>a, FS_Interval
  <2>3. IsFiniteSet(D) /\ Cardinality(D) = Cardinality({i}) * Cardinality(1..L)
    BY <2>1, <2>2, FS_Product
  <2>4. Cardinality(1..L) = L
    BY <2>a, <2>2
  <2>5. Cardinality({i}) * Cardinality(1..L) = L
    BY <2>a, <2>1, <2>4
  <2> QED BY <2>3, <2>5
<1>2. D \subseteq InUse(a)
  BY InUseIs
<1>3. InUse(b) = InUse(a) \ D
  <2>1. ASSUME NEW e \in InUse(b) PROVE e \in InUse(a) \ D
    <3>1. PICK j \in Slots : \E n \in 1..Len(b.table[j].q) : e = <<j, n>>
      BY <2>1, InUseIs
    <3>2. j # i
      BY <3>1
    <3>3. e \in InUse(a)
      BY <3>1, <3>2, InUseIs
    <3> QED BY <3>1, <3>2, <3>3
  <2>2. ASSUME NEW e \in InUse(a), e \notin D PROVE e \in InUse(b)
    <3>1. PICK j \in Slots : \E n \in 1..Len(a.table[j].q) : e = <<j, n>>
      BY <2>2, InUseIs
    <3>2. j # i
      BY <2>2, <3>1
    <3> QED BY <3>1, <3>2, InUseIs
  <2> QED BY <2>1, <2>2
<1> HIDE DEF D
<1>4. InUse(a) \cap D = D
  BY <1>2
<1>5. /\ IsFiniteSet(InUse(a) \ D)
      /\ Cardinality(InUse(a) \ D) = Cardinality(InUse(a)) - Cardinality(InUse(a) \cap D)
  BY FS_Difference
<1> QED BY <1>1, <1>3, <1>4, <1>5 DEF Queued

(* ... or gets one more packet. *)
LEMMA QueueGrown ==
  ASSUME NEW a, NEW b, NEW i \in Slots, IsFiniteSet(InUse(a)), Len(a.table[i].q) \in Nat,
         Len(b.table[i].q) = Len(a.table[i].q) + 1,
         \A j \in Slots \ {i} : b.table[j].q = a.table[j].q
  PROVE  IsFiniteSet(InUse(b)) /\ Queued(b) = Queued(a) + 1
<1> DEFINE L == Len(a.table[i].q)
           x == <<i, L + 1>>
<1>1. x \notin InUse(a)
  <2> SUFFICES ASSUME x \in InUse(a) PROVE FALSE
    OBVIOUS
  <2>1. PICK j \in Slots : \E n \in 1..Len(a.table[j].q) : x = <<j, n>>
    BY InUseIs
  <2> QED BY <2>1
<1>2. InUse(b) = InUse(a) \cup {x}
  <2>1. ASSUME NEW e \in InUse(b) PROVE e \in InUse(a) \cup {x}
    <3>0. PICK j \in Slots : \E n \in 1..Len(b.table[j].q) : e = <<j, n>>
      BY <2>1, InUseIs
    <3>1. PICK n \in 1..Len(b.table[j].q) : e = <<j, n>>
      BY <3>0
    <3>2. CASE j = i
      <4>1. n \in 1..L \/ n = L + 1
        BY <3>1, <3>2
      <4> QED BY <3>1, <3>2, <4>1, InUseIs
    <3>3. CASE j # i
      BY <3>1, <3>3, InUseIs
    <3> QED BY <3>2, <3>3
  <2>2. ASSUME NEW e \in InUse(a) PROVE e \in InUse(b)
    <3>0. PICK j \in Slots : \E n \in 1..Len(a.table[j].q) : e = <<j, n>>
      BY <2>2, InUseIs
    <3>1. PICK n \in 1..Len(a.table[j].q) : e = <<j, n>>
      BY <3>0
    <3>2. n \in 1..Len(b.table[j].q)
      BY <3>1
    <3> QED BY <3>1, <3>2, InUseIs
  <2>3. x \in InUse(b)
    BY L + 1 \in 1..Len(b.table[i].q), InUseIs
  <2> QED BY <2>1, <2>2, <2>3
<1> HIDE DEF x
<1> QED BY <1>1, <1>2, FS_AddElement DEF Queued
----------------------------------------------------------------------------
(* find_entry. *)

LEMMA RecyclableIn ==
  ASSUME NEW a, ArpType(a)
  PROVE  Recyclable(a) \in Slots
<1> DEFINE empty == In(a, "EMPTY")
           stable == In(a, "STABLE")
           idle == In(a, "PENDING") \ Queueing(a)
           queueing == Queueing(a)
<1>1. /\ empty \in SUBSET Slots /\ stable \in SUBSET Slots
      /\ idle \in SUBSET Slots /\ queueing \in SUBSET Slots
  BY DEF In, Queueing
<1>2. empty # {} \/ stable # {} \/ idle # {} \/ queueing # {}
  <2>1. a.table[0].state \in {"EMPTY", "PENDING", "STABLE"} /\ 0 \in Slots
    BY Sizes DEF ArpType, ArpRec, Entry
  <2> QED BY <2>1 DEF In, Queueing
<1>3. \A i \in Slots : a.table[i].ctime \in 0..(ARP_MAXAGE + ARP_MAXPENDING)
  <2> SUFFICES ASSUME NEW i \in Slots
               PROVE  a.table[i].ctime \in 0..(ARP_MAXAGE + ARP_MAXPENDING)
    OBVIOUS
  <2>1. a.table[i].ctime \in Nat /\ a.table[i].ctime < Lifetime(a.table[i].state)
    BY DEF ArpType, ArpRec, Entry
  <2>2. /\ Lifetime(a.table[i].state) \in Nat
        /\ Lifetime(a.table[i].state) <= ARP_MAXAGE + ARP_MAXPENDING
    BY Lifetimes
  <2> QED BY <2>1, <2>2, Sizes
<1>4. \A S \in SUBSET Slots : S # {} => First(S) \in Slots /\ Oldest(a, S) \in Slots
  BY <1>3, FirstIn, OldestIn
<1>5. Recyclable(a) = IF empty # {} THEN First(empty)
                      ELSE IF stable # {} THEN Oldest(a, stable)
                      ELSE IF idle # {} THEN Oldest(a, idle)
                      ELSE Oldest(a, queueing)
  BY DEF Recyclable
<1> HIDE DEF empty, stable, idle, queueing
<1> QED BY <1>1, <1>2, <1>4, <1>5

(* An entry that has been given to another host is empty, and so is its    *)
(* queue.                                                                  *)
LEMMA Recycled ==
  ASSUME NEW a, ArpInv(a), NEW i \in Slots, NEW h \in Hosts
  PROVE  /\ ArpInv(Recycle(a, i, h))
         /\ Recycle(a, i, h).table[i].state = "EMPTY"
         /\ Recycle(a, i, h).table[i].ip = h
         /\ Recycle(a, i, h).table[i].q = << >>
         /\ \A j \in Slots \ {i} : Recycle(a, i, h).table[j] = a.table[j]
<1> DEFINE b == Recycle(a, i, h)
           e == [a.table[i] EXCEPT !.state = "EMPTY", !.ip = h, !.eth = NoHost,
                                   !.ctime = 0, !.q = << >>]
           L == Len(a.table[i].q)
<1>0. /\ a \in ArpRec
      /\ a.table \in [Slots -> Entry] /\ a.free \in Nat
      /\ a.table[i] \in Entry /\ a.table[i].q \in Seq(Pkt) /\ L \in Nat
  BY DEF ArpInv, ArpType, ArpRec, Entry
<1>1. a.table[i].q # << >> => i \in Queueing(a)
  BY DEF ArpInv, QueuesSound, Queueing, In
<1>2. a.table[i].q = << >> => L = 0
  OBVIOUS
<1>3. e \in Entry /\ e.state = "EMPTY" /\ e.ip = h /\ e.ctime = 0 /\ e.q = << >>
  BY <1>0, NoPackets DEF Entry
<1>4. /\ b.table = [a.table EXCEPT ![i] = e] /\ b.free = a.free + L
      /\ b \in ArpRec
  <2>1. /\ (IF i \in Queueing(a) THEN L ELSE 0) = L
        /\ (IF i \in Queueing(a) THEN << >> ELSE a.table[i].q) = << >>
    BY <1>0, <1>1, <1>2
  <2>2. b = [a EXCEPT !.cached = i,
                      !.free = a.free + IF i \in Queueing(a) THEN L ELSE 0,
                      !.table = [a.table EXCEPT ![i] =
                         [a.table[i] EXCEPT !.state = "EMPTY", !.ip = h, !.eth = NoHost, !.ctime = 0,
                                   !.q = IF i \in Queueing(a) THEN << >> ELSE a.table[i].q]]]
    BY <1>0 DEF Recycle
  <2>3. b = [a EXCEPT !.cached = i, !.free = a.free + L, !.table = [a.table EXCEPT ![i] = e]]
    BY <2>1, <2>2
  <2> HIDE DEF b, e, L
  <2> DEFINE f == a.free + L
             t == [a.table EXCEPT ![i] = e]
  <2>4. f \in Nat /\ t \in [Slots -> Entry]
    BY <1>0, <1>3
  <2>5. b = [a EXCEPT !.cached = i, !.free = f, !.table = t]
    BY <2>3
  <2> HIDE DEF f, t
  <2>6. b \in ArpRec /\ b.table = t /\ b.free = f
    BY <1>0, <2>4, <2>5 DEF ArpRec
  <2> QED BY <2>6 DEF f, t
<1> HIDE DEF b, e
<1>6. b.table[i] = e /\ \A j \in Slots \ {i} : b.table[j] = a.table[j]
  BY <1>0, <1>4
<1>7. ArpType(b)
  <2>1. e.ctime < Lifetime(e.state)
    BY <1>3, Lifetimes
  <2> QED BY <1>3, <1>4, <1>6, <2>1 DEF ArpInv, ArpType
<1>8. Unique(b) /\ QueuesSound(b) /\ Known(b)
  BY <1>3, <1>6 DEF ArpInv, Unique, QueuesSound, Known
<1>9. PoolKept(b)
  <2>1. IsFiniteSet(InUse(a)) /\ a.free + Queued(a) = MEMP_NUM_ARP_QUEUE
    BY DEF ArpInv, PoolKept
  <2>2. IsFiniteSet(InUse(b)) /\ Queued(b) = Queued(a) - Len(a.table[i].q)
    <3>1. /\ Len(a.table[i].q) \in Nat /\ b.table[i].q = << >>
          /\ \A j \in Slots \ {i} : b.table[j].q = a.table[j].q
      BY <1>0, <1>3, <1>6
    <3> QED BY <2>1, <3>1, QueueDropped
  <2>3. Queued(a) \in Nat
    BY <2>1, QueuedNat
  <2> QED BY <1>0, <1>4, <2>1, <2>2, <2>3 DEF PoolKept
<1> QED BY <1>3, <1>6, <1>7, <1>8, <1>9 DEF ArpInv, b

(* What find_entry promises of the entry it found for h: it is the only    *)
(* one for h, the others are untouched, and so is its queue unless it is   *)
(* empty.                                                                  *)
Found(a, h, i, b) ==
  /\ ArpInv(b) /\ i \in Slots
  /\ b.table[i].ip = h
  /\ \A j \in Slots : b.table[j].state # "EMPTY" /\ b.table[j].ip = h => j = i
  /\ \A j \in Slots \ {i} : b.table[j] = a.table[j]
  /\ b.table[i].q # << >> => b.table[i] = a.table[i]

LEMMA FindEntry ==
  ASSUME NEW a, ArpInv(a), NEW h \in Hosts, NEW hard \in BOOLEAN
  PROVE  \/ /\ find_entry(a, h, hard).i = NoSlot /\ find_entry(a, h, hard).arp = a
            /\ hard = FALSE
         \/ Found(a, h, find_entry(a, h, hard).i, find_entry(a, h, hard).arp)
<1> DEFINE f == find_entry(a, h, hard)
<1>0. /\ a \in ArpRec
      /\ a.cached \in Slots
  BY DEF ArpInv, ArpType, ArpRec
<1>1. CASE CacheHit(a, h)
  <2>1. f = [i |-> a.cached, arp |-> a]
    BY <1>1 DEF find_entry
  <2>2. Found(a, h, a.cached, a)
    BY <1>0, <1>1 DEF CacheHit, Found, ArpInv, Unique
  <2> QED BY <2>1, <2>2
<1>2. CASE ~CacheHit(a, h) /\ Matching(a, h) # {}
  <2> DEFINE i == First(Matching(a, h))
             b == [a EXCEPT !.cached = i]
  <2>1. i \in Matching(a, h)
    BY <1>2, FirstIn DEF Matching
  <2>2. i \in Slots /\ a.table[i].state # "EMPTY" /\ a.table[i].ip = h
    BY <2>1 DEF Matching
  <2>3. f = [i |-> i, arp |-> b]
    BY <1>2 DEF find_entry
  <2> HIDE DEF i
  <2>4. /\ b.table = a.table /\ b.free = a.free
        /\ b \in ArpRec
    BY <1>0, <2>2 DEF ArpRec
  <2> HIDE DEF b
  <2>5. InUse(b) = InUse(a) /\ Queued(b) = Queued(a)
    BY <2>4, QueuedSame
  <2>6. ArpInv(b)
    BY <2>4, <2>5 DEF ArpInv, ArpType, Unique, QueuesSound, Known, PoolKept
  <2>7. Found(a, h, i, b)
    BY <2>2, <2>4, <2>6 DEF Found, ArpInv, Unique
  <2> QED BY <2>3, <2>7
<1>3. CASE ~CacheHit(a, h) /\ Matching(a, h) = {} /\ In(a, "EMPTY") = {} /\ ~hard
  BY <1>3 DEF find_entry
<1>4. CASE ~CacheHit(a, h) /\ Matching(a, h) = {} /\ ~(In(a, "EMPTY") = {} /\ ~hard)
  <2> DEFINE i == Recyclable(a)
             b == Recycle(a, i, h)
  <2>1. f = [i |-> i, arp |-> b]
    BY <1>4 DEF find_entry
  <2>2. i \in Slots
    BY RecyclableIn DEF ArpInv
  <2> HIDE DEF i
  <2>3. /\ ArpInv(b)
        /\ b.table[i].state = "EMPTY" /\ b.table[i].ip = h /\ b.table[i].q = << >>
        /\ \A j \in Slots \ {i} : b.table[j] = a.table[j]
    BY <2>2, Recycled
  <2> HIDE DEF b
  <2>4. \A j \in Slots : ~(a.table[j].state # "EMPTY" /\ a.table[j].ip = h)
    BY <1>4 DEF Matching
  <2>5. Found(a, h, i, b)
    BY <2>2, <2>3, <2>4 DEF Found
  <2> QED BY <2>1, <2>5
<1> QED BY <1>1, <1>2, <1>3, <1>4
----------------------------------------------------------------------------
(* The handlers: each keeps the table's invariant, and the packets it      *)
(* sends are for the host whose address they carry.                        *)
GoodFrame == {IpFrame(p.to, p) : p \in Pkt} \cup {Request(h) : h \in Hosts}
               \cup {Reply(h) : h \in Hosts}

(* Queues are kept or given up; none holds a packet for h. *)
Flow(a, b) == \A j \in Slots : b.table[j].q = a.table[j].q \/ b.table[j].q = << >>
NoneFor(a, h) == \A j \in Slots : \A n \in 1..Len(a.table[j].q) : a.table[j].q[n].to # h

LEMMA FoundFlow ==
  ASSUME NEW a, NEW h, NEW i, NEW b, Found(a, h, i, b)
  PROVE  /\ Flow(a, b)
         /\ \A j \in Slots \ {i} : \A n \in 1..Len(b.table[j].q) : b.table[j].q[n].to # h
<1>1. Flow(a, b)
  BY DEF Found, Flow
<1>2. ASSUME NEW j \in Slots \ {i}, NEW n \in 1..Len(b.table[j].q)
      PROVE  b.table[j].q[n].to # h
  <2>1. b.table[j].q # << >>
    BY <1>2, NoPackets
  <2>2. b.table[j].state = "PENDING" /\ b.table[j].q[n].to = b.table[j].ip
    BY <2>1 DEF Found, ArpInv, QueuesSound
  <2> QED BY <2>2 DEF Found
<1> QED BY <1>1, <1>2

LEMMA Updated ==
  ASSUME NEW a, ArpInv(a), NEW h \in Hosts, NEW hard \in BOOLEAN
  PROVE  /\ ArpInv(update_arp_entry(a, h, h, hard).arp)
         /\ update_arp_entry(a, h, h, hard).out \in Seq(GoodFrame)
         /\ Flow(a, update_arp_entry(a, h, h, hard).arp)
         /\ \/ update_arp_entry(a, h, h, hard).out = << >>
            \/ /\ NoneFor(update_arp_entry(a, h, h, hard).arp, h)
               /\ \E i \in Slots : update_arp_entry(a, h, h, hard).out = Flush(a.table[i].q, h)
<1> DEFINE u == update_arp_entry(a, h, h, hard)
           i == find_entry(a, h, hard).i
           b == find_entry(a, h, hard).arp
           e == [b.table[i] EXCEPT !.state = "STABLE", !.eth = h, !.ctime = 0, !.q = << >>]
           q == b.table[i].q
           f == b.free + Len(q)
           t == [b.table EXCEPT ![i] = e]
           c == [b EXCEPT !.free = f, !.table = t]
<1>1. u = IF i = NoSlot THEN [arp |-> b, out |-> << >>]
          ELSE [arp |-> c, out |-> Flush(q, h)]
  BY DEF update_arp_entry
<1>2. \/ i = NoSlot /\ b = a
      \/ Found(a, h, i, b)
  BY FindEntry
<1> HIDE DEF u, i, b
<1>3. CASE i = NoSlot /\ b = a
  <2>1. u.arp = a /\ u.out = << >>
    BY <1>1, <1>3
  <2> QED BY <2>1 DEF u, Flow
<1>4. CASE Found(a, h, i, b)
  <2>1. i \in Slots /\ ArpInv(b) /\ b.table[i].ip = h
    BY <1>4 DEF Found
  <2>2. /\ b \in ArpRec /\ b.table \in [Slots -> Entry] /\ b.free \in Nat
        /\ b.table[i] \in Entry /\ q \in Seq(Pkt) /\ Len(q) \in Nat
    BY <2>1 DEF ArpInv, ArpType, ArpRec, Entry
  <2>3. u.arp = c /\ u.out = Flush(q, h)
    BY <1>1, <2>1, Sizes
  <2>4. /\ e \in Entry /\ e.state = "STABLE" /\ e.ip = h /\ e.eth = h /\ e.ctime = 0
        /\ e.q = << >>
    BY <2>1, <2>2, NoPackets DEF Entry
  <2> HIDE DEF e
  <2>5. f \in Nat /\ t \in [Slots -> Entry]
    <3> HIDE DEF q
    <3>1. f \in Nat
      BY <2>2
    <3>2. t \in [Slots -> Entry]
      BY <2>1, <2>2, <2>4
    <3> QED BY <3>1, <3>2
  <2>6. t[i] = e /\ \A j \in Slots \ {i} : t[j] = b.table[j]
    BY <2>1, <2>2
  <2> HIDE DEF f, t
  <2>7. c \in ArpRec /\ c.table = t /\ c.free = f
    BY <2>2, <2>5 DEF ArpRec
  <2> HIDE DEF c
  <2>8. ArpType(c)
    <3>1. e.ctime < Lifetime(e.state)
      BY <2>4, Lifetimes
    <3> QED BY <2>4, <2>1, <2>6, <2>7, <3>1 DEF ArpInv, ArpType
  <2>9. Unique(c)
    BY <1>4, <2>1, <2>4, <2>6, <2>7 DEF Found, ArpInv, Unique
  <2>10. QueuesSound(c) /\ Known(c)
    BY <2>1, <2>4, <2>6, <2>7 DEF ArpInv, QueuesSound, Known
  <2>11. PoolKept(c)
    <3>1. IsFiniteSet(InUse(b)) /\ b.free + Queued(b) = MEMP_NUM_ARP_QUEUE
      BY <2>1 DEF ArpInv, PoolKept
    <3>2. IsFiniteSet(InUse(c)) /\ Queued(c) = Queued(b) - Len(b.table[i].q)
      <4>1. /\ Len(b.table[i].q) \in Nat /\ c.table[i].q = << >>
            /\ \A j \in Slots \ {i} : c.table[j].q = b.table[j].q
        BY <2>2, <2>4, <2>6, <2>7
      <4> QED BY <2>1, <3>1, <4>1, QueueDropped
    <3>3. Queued(b) \in Nat
      BY <3>1, QueuedNat
    <3> QED BY <2>2, <2>7, <3>1, <3>2, <3>3 DEF PoolKept, f
  <2>12. Flush(q, h) \in Seq(GoodFrame)
    <3>1. \A n \in 1..Len(q) : q[n] \in Pkt /\ q[n].to = h
      <4>1. \A n \in 1..Len(q) : q[n].to = h
        BY <2>1, <2>2 DEF ArpInv, QueuesSound
      <4> HIDE DEF q
      <4> QED BY <2>2, <4>1
    <3> HIDE DEF q
    <3>2. \A n \in 1..Len(q) : IpFrame(h, q[n]) \in GoodFrame
      BY <3>1 DEF GoodFrame
    <3> QED BY <2>2, <3>2 DEF Flush
  <2>13. c.table[i].q = << >> /\ \A j \in Slots \ {i} : c.table[j] = b.table[j]
    BY <2>4, <2>6, <2>7
  <2>14. Flow(a, c) /\ NoneFor(c, h)
    <3>1. Flow(a, c)
      BY <1>4, <2>13, FoundFlow DEF Flow
    <3>2. \A n \in 1..Len(c.table[i].q) : FALSE
      BY <2>13, NoPackets
    <3>3. NoneFor(c, h)
      BY <1>4, <2>13, <3>2, FoundFlow DEF NoneFor
    <3> QED BY <3>1, <3>3
  <2>15. Flush(q, h) = << >> \/ Flush(q, h) = Flush(a.table[i].q, h)
    <3>1. q = a.table[i].q \/ q = << >>
      BY <1>4, <2>1, FoundFlow DEF Flow
    <3>2. CASE q = << >>
      <4>1. Flush(<< >>, h) = << >>
        BY NoPackets DEF Flush
      <4> QED BY <3>2, <4>1
    <3> QED BY <3>1, <3>2
  <2> HIDE DEF q
  <2> QED BY <2>1, <2>3, <2>8, <2>9, <2>10, <2>11, <2>12, <2>14, <2>15 DEF ArpInv, u
<1> QED BY <1>2, <1>3, <1>4

(* As Flow, and packet p is put last. *)
Grown(a, b, p) == \A j \in Slots : \E q \in {a.table[j].q, << >>} :
                    b.table[j].q = q \/ b.table[j].q = Append(q, p)

LEMMA Asked ==
  ASSUME NEW a, ArpInv(a), NEW p \in Pkt
  PROVE  /\ ArpInv(etharp_query(a, p).arp)
         /\ etharp_query(a, p).out \in Seq(GoodFrame)
         /\ \/ /\ etharp_query(a, p).out = <<IpFrame(p.to, p)>>
               /\ Flow(a, etharp_query(a, p).arp) /\ NoneFor(etharp_query(a, p).arp, p.to)
            \/ /\ etharp_query(a, p).out = <<Request(p.to)>>
               /\ Grown(a, etharp_query(a, p).arp, p)
<1> DEFINE u == etharp_query(a, p)
           i == find_entry(a, p.to, TRUE).i
           b == find_entry(a, p.to, TRUE).arp
           full == [b.table[i] EXCEPT !.state = "PENDING"]
           more == [b.table[i] EXCEPT !.state = "PENDING", !.q = Append(b.table[i].q, p)]
           c == [b EXCEPT !.table = [b.table EXCEPT ![i] = full]]
           d == [b EXCEPT !.free = b.free - 1, !.table = [b.table EXCEPT ![i] = more]]
<1>0. p.to \in Hosts /\ p.to \in Peers
  BY PeersAreHosts DEF Pkt
<1>1. Found(a, p.to, i, b)
  <2>1. TRUE \in BOOLEAN /\ TRUE # FALSE
    OBVIOUS
  <2> HIDE DEF i, b
  <2> QED BY <1>0, <2>1, FindEntry DEF i, b
<1> HIDE DEF i, b
<1>2. i \in Slots /\ ArpInv(b) /\ b.table[i].ip = p.to
  BY <1>1 DEF Found
<1>3. /\ b \in ArpRec /\ b.table \in [Slots -> Entry] /\ b.free \in Nat
      /\ b.table[i] \in Entry /\ b.table[i].q \in Seq(Pkt) /\ Len(b.table[i].q) \in Nat
  BY <1>2 DEF ArpInv, ArpType, ArpRec, Entry
<1>4. CASE b.table[i].state = "STABLE"
  <2>1. u.arp = b /\ u.out = <<IpFrame(b.table[i].eth, p)>>
    BY <1>4 DEF etharp_query, i, b
  <2>2. b.table[i].eth = p.to
    BY <1>2, <1>4 DEF ArpInv, Known
  <2>3. IpFrame(p.to, p) \in GoodFrame
    BY DEF GoodFrame
  <2>4. b.table[i].q = << >>
    BY <1>2, <1>4 DEF ArpInv, QueuesSound
  <2>5. \A n \in 1..Len(b.table[i].q) : FALSE
    BY <2>4, NoPackets
  <2>6. Flow(a, b) /\ NoneFor(b, p.to)
    BY <1>1, <2>5, FoundFlow DEF NoneFor
  <2> HIDE DEF u
  <2> QED BY <1>2, <2>1, <2>2, <2>3, <2>6 DEF u
<1>5. CASE b.table[i].state # "STABLE"
  <2>1. u.out = <<Request(p.to)>> /\ u.arp = IF b.free > 0 THEN d ELSE c
    BY <1>5 DEF etharp_query, i, b
  <2>2. <<Request(p.to)>> \in Seq(GoodFrame)
    BY <1>0 DEF GoodFrame
  <2>3. ASSUME NEW x \in ArpRec, NEW e \in Entry, NEW f \in Nat,
               x.table = [b.table EXCEPT ![i] = e], x.free = f,
               e.state = "PENDING", e.ip = p.to, e.ctime = b.table[i].ctime,
               \A n \in 1..Len(e.q) : e.q[n].to = p.to,
               \/ e.q = b.table[i].q /\ f = b.free
               \/ Len(e.q) = Len(b.table[i].q) + 1 /\ f = b.free - 1
        PROVE  ArpInv(x)
    <3>1. x.table[i] = e /\ \A j \in Slots \ {i} : x.table[j] = b.table[j]
      BY <1>2, <1>3, <2>3
    <3>2. ArpType(x)
      <4>1. b.table[i].ctime < Lifetime("PENDING")
        <5>1. b.table[i].state \in {"EMPTY", "PENDING", "STABLE"}
          BY <1>3 DEF Entry
        <5>2. CASE b.table[i].state = "PENDING"
          BY <1>2, <5>2 DEF ArpInv, ArpType
        <5>3. CASE b.table[i].state = "EMPTY"
          BY <1>2, <5>3, Lifetimes DEF ArpInv, ArpType
        <5> QED BY <1>5, <5>1, <5>2, <5>3
      <4> QED BY <1>2, <2>3, <3>1, <4>1 DEF ArpInv, ArpType
    <3>3. Unique(x)
      BY <1>1, <1>2, <2>3, <3>1 DEF Found, ArpInv, Unique
    <3>4. QueuesSound(x) /\ Known(x)
      BY <1>2, <2>3, <3>1 DEF ArpInv, QueuesSound, Known
    <3>5. PoolKept(x)
      <4>1. IsFiniteSet(InUse(b)) /\ b.free + Queued(b) = MEMP_NUM_ARP_QUEUE
        BY <1>2 DEF ArpInv, PoolKept
      <4>2. Queued(b) \in Nat
        BY <4>1, QueuedNat
      <4>3. CASE e.q = b.table[i].q /\ f = b.free
        <5>1. \A j \in Slots : x.table[j].q = b.table[j].q
          BY <3>1, <4>3
        <5>2. InUse(x) = InUse(b) /\ Queued(x) = Queued(b)
          BY <5>1, QueuedSame
        <5> QED BY <2>3, <4>1, <4>3, <5>2 DEF PoolKept
      <4>4. CASE Len(e.q) = Len(b.table[i].q) + 1 /\ f = b.free - 1
        <5>1. /\ Len(x.table[i].q) = Len(b.table[i].q) + 1
              /\ \A j \in Slots \ {i} : x.table[j].q = b.table[j].q
          BY <3>1, <4>4
        <5>2. IsFiniteSet(InUse(x)) /\ Queued(x) = Queued(b) + 1
          BY <1>2, <1>3, <4>1, <5>1, QueueGrown
        <5> QED BY <1>3, <2>3, <4>1, <4>2, <4>4, <5>2 DEF PoolKept
      <4> QED BY <2>3, <4>3, <4>4
    <3> QED BY <3>2, <3>3, <3>4, <3>5 DEF ArpInv
  <2>4. \A n \in 1..Len(b.table[i].q) : b.table[i].q[n].to = p.to
    BY <1>2, <1>3 DEF ArpInv, QueuesSound
  <2>5. Flow(a, b)
    BY <1>1, FoundFlow
  <2>6. CASE b.free > 0
    <3> DEFINE f == b.free - 1
               t == [b.table EXCEPT ![i] = more]
    <3>1. /\ more \in Entry /\ more.state = "PENDING" /\ more.ip = p.to
          /\ more.ctime = b.table[i].ctime /\ more.q = Append(b.table[i].q, p)
      <4> DEFINE q == Append(b.table[i].q, p)
      <4>1. q \in Seq(Pkt)
        BY <1>3
      <4> HIDE DEF q
      <4> QED BY <1>2, <1>3, <4>1 DEF Entry, q
    <3> HIDE DEF more
    <3>2. f \in Nat /\ t \in [Slots -> Entry]
      BY <1>2, <1>3, <2>6, <3>1
    <3>3. d = [b EXCEPT !.free = f, !.table = t]
      OBVIOUS
    <3> HIDE DEF f, t, d
    <3>4. d \in ArpRec /\ d.table = t /\ d.free = f
      BY <1>3, <3>2, <3>3 DEF ArpRec
    <3>5. /\ Len(more.q) = Len(b.table[i].q) + 1
          /\ \A n \in 1..Len(more.q) : more.q[n].to = p.to
      <4> DEFINE q == b.table[i].q
      <4>1. q \in Seq(Pkt) /\ more.q = Append(q, p) /\ \A n \in 1..Len(q) : q[n].to = p.to
        BY <1>3, <2>4, <3>1
      <4>2. Len(more.q) = Len(q) + 1
        <5> HIDE DEF q
        <5> QED BY <4>1
      <4>3. \A n \in 1..Len(more.q) : more.q[n].to = p.to
        <5> HIDE DEF q
        <5> QED BY <4>1, <4>2
      <4> QED BY <4>2, <4>3
    <3>6. ArpInv(d)
      BY <2>3, <3>1, <3>2, <3>4, <3>5 DEF f, t
    <3>7. d.table[i].q = Append(b.table[i].q, p) /\ \A j \in Slots \ {i} : d.table[j] = b.table[j]
      BY <1>2, <1>3, <3>1, <3>4 DEF t
    <3>8. Grown(a, d, p)
      BY <2>5, <3>7 DEF Grown, Flow
    <3> HIDE DEF u
    <3> QED BY <2>1, <2>2, <2>6, <3>6, <3>8, SMTT(30) DEF u
  <2>7. CASE ~(b.free > 0)
    <3> DEFINE t == [b.table EXCEPT ![i] = full]
    <3>1. /\ full \in Entry /\ full.state = "PENDING" /\ full.ip = p.to
          /\ full.ctime = b.table[i].ctime /\ full.q = b.table[i].q
      BY <1>2, <1>3 DEF Entry
    <3> HIDE DEF full
    <3>2. t \in [Slots -> Entry]
      BY <1>2, <1>3, <3>1
    <3>3. c = [b EXCEPT !.table = t]
      OBVIOUS
    <3> HIDE DEF t, c
    <3>4. c \in ArpRec /\ c.table = t /\ c.free = b.free
      BY <1>3, <3>2, <3>3 DEF ArpRec
    <3>5. ArpInv(c)
      BY <1>3, <2>3, <2>4, <3>1, <3>4 DEF t
    <3>6. c.table[i].q = b.table[i].q /\ \A j \in Slots \ {i} : c.table[j] = b.table[j]
      BY <1>2, <1>3, <3>1, <3>4 DEF t
    <3>7. Grown(a, c, p)
      BY <2>5, <3>6 DEF Grown, Flow
    <3> HIDE DEF u
    <3>8. u.arp = c
      BY <2>1, <2>7, Zenon
    <3> QED BY <2>1, <2>2, <3>5, <3>7, <3>8, SMTT(30) DEF u
  <2> QED BY <2>6, <2>7
<1> QED BY <1>4, <1>5

(* What the timer gives back to the pool is what the expired entries held. *)
LEMMA TableAged ==
  ASSUME NEW a, ArpInv(a)
  PROVE  ArpInv(etharp_tmr(a)) /\ Flow(a, etharp_tmr(a))
<1> DEFINE t == [i \in Slots |-> Aged(a.table[i])]
           b == [a EXCEPT !.table = t]
           f == b.free + Queued(a) - Queued(b)
           c == [b EXCEPT !.free = f]
<1>0. c = etharp_tmr(a)
  BY DEF etharp_tmr
<1>1. /\ a \in ArpRec /\ a.table \in [Slots -> Entry] /\ a.free \in Nat
      /\ IsFiniteSet(InUse(a)) /\ a.free + Queued(a) = MEMP_NUM_ARP_QUEUE
  BY DEF ArpInv, ArpType, ArpRec, PoolKept
<1>2. ASSUME NEW i \in Slots
      PROVE  /\ t[i] \in Entry /\ t[i].ctime < Lifetime(t[i].state)
             /\ \/ t[i].state = "EMPTY" /\ t[i].ctime = 0 /\ t[i].q = << >>
                \/ /\ t[i].state = a.table[i].state /\ t[i].ip = a.table[i].ip
                   /\ t[i].eth = a.table[i].eth /\ t[i].q = a.table[i].q
                   /\ t[i].state = "EMPTY" => t[i].ctime = 0
  <2> DEFINE e == a.table[i]
  <2>1. /\ e \in Entry /\ e.ctime \in Nat /\ e.state \in {"EMPTY", "PENDING", "STABLE"}
        /\ e.ctime < Lifetime(e.state)
        /\ e.state = "EMPTY" => e.ctime = 0
    BY <1>1 DEF ArpInv, ArpType, Entry
  <2>2. t[i] = Aged(e)
    OBVIOUS
  <2> HIDE DEF t, e
  <2>3. CASE Expired(e)
    <3>1. t[i] = NoEntry
      BY <2>2, <2>3 DEF Aged
    <3> QED BY <3>1, NoEntryIs, Lifetimes
  <2>4. CASE ~Expired(e) /\ e.state = "EMPTY"
    <3>1. t[i] = e
      BY <2>2, <2>4 DEF Aged
    <3> QED BY <2>1, <2>4, <3>1 DEF e
  <2>5. CASE ~Expired(e) /\ e.state # "EMPTY"
    <3>1. t[i] = [e EXCEPT !.ctime = e.ctime + 1]
      BY <2>2, <2>5 DEF Aged
    <3>2. e.ctime + 1 \in Nat /\ e.ctime + 1 < Lifetime(e.state)
      BY <2>1, <2>5, Sizes DEF Expired, Lifetime
    <3>3. /\ t[i] \in Entry /\ t[i].ctime = e.ctime + 1 /\ t[i].state = e.state
          /\ t[i].ip = e.ip /\ t[i].eth = e.eth /\ t[i].q = e.q
      BY <2>1, <3>1, <3>2 DEF Entry
    <3> QED BY <2>5, <3>2, <3>3 DEF e
  <2> QED BY <2>3, <2>4, <2>5
<1>3. t \in [Slots -> Entry]
  BY <1>2
<1> HIDE DEF t
<1>4. b \in ArpRec /\ b.table = t /\ b.free = a.free
  BY <1>1, <1>3 DEF ArpRec
<1> HIDE DEF b
<1>5. IsFiniteSet(InUse(b)) /\ Queued(b) \in Nat /\ Queued(a) \in Nat /\ Queued(b) <= Queued(a)
  <2>1. ASSUME NEW x \in InUse(b) PROVE x \in InUse(a)
    <3>1. PICK i \in Slots : \E n \in 1..Len(b.table[i].q) : x = <<i, n>>
      BY <2>1, InUseIs
    <3>2. t[i].q = a.table[i].q
      <4>1. t[i].q # << >>
        BY <1>4, <3>1, NoPackets
      <4> QED BY <1>2, <4>1
    <3> QED BY <1>4, <3>1, <3>2, InUseIs
  <2>2. InUse(b) \in SUBSET InUse(a)
    BY <2>1
  <2>3. /\ IsFiniteSet(InUse(b))
        /\ Cardinality(InUse(b)) <= Cardinality(InUse(a))
    BY <1>1, <2>2, FS_Subset
  <2> QED BY <1>1, <2>3, QueuedNat DEF Queued
<1>6. f \in Nat /\ f = a.free + Queued(a) - Queued(b)
  BY <1>1, <1>4, <1>5
<1> HIDE DEF f
<1>7. c \in ArpRec /\ c.table = t /\ c.free = f
  BY <1>4, <1>6 DEF ArpRec
<1> HIDE DEF c
<1>8. ArpType(c)
  BY <1>2, <1>7 DEF ArpType
<1>9. Unique(c) /\ QueuesSound(c) /\ Known(c)
  BY <1>2, <1>7 DEF ArpInv, Unique, QueuesSound, Known
<1>10. PoolKept(c)
  <2>1. InUse(c) = InUse(b) /\ Queued(c) = Queued(b)
    BY <1>4, <1>7, QueuedSame
  <2> QED BY <1>1, <1>5, <1>6, <1>7, <2>1 DEF PoolKept
<1>11. Flow(a, c)
  BY <1>2, <1>7 DEF Flow
<1> QED BY <1>0, <1>8, <1>9, <1>10, <1>11 DEF ArpInv

LEMMA TableInit == ArpInv(ArpInit)
<1> DEFINE t == [i \in Slots |-> NoEntry]
<1>1. t \in [Slots -> Entry] /\ \A i \in Slots : t[i] = NoEntry
  BY NoEntryIs
<1> HIDE DEF t
<1>2. ArpInit \in ArpRec /\ ArpInit.table = t /\ ArpInit.free = MEMP_NUM_ARP_QUEUE
  BY <1>1, Sizes DEF ArpInit, ArpRec, t
<1>3. /\ ArpType(ArpInit) /\ Unique(ArpInit) /\ QueuesSound(ArpInit) /\ Known(ArpInit)
  BY <1>1, <1>2, NoEntryIs, Lifetimes DEF ArpType, Unique, QueuesSound, Known
<1>4. InUse(ArpInit) = {}
  <2>1. \A i \in Slots : Len(ArpInit.table[i].q) = 0
    BY <1>1, <1>2, NoEntryIs, NoPackets
  <2>2. \A x : x \notin InUse(ArpInit)
    BY <2>1, InUseIs
  <2> QED BY <2>2
<1>5. PoolKept(ArpInit)
  <2>1. IsFiniteSet({}) /\ Cardinality({}) = 0
    BY FS_EmptySet
  <2> QED BY <1>2, <1>4, <2>1, Sizes DEF PoolKept, Queued
<1> QED BY <1>3, <1>5 DEF ArpInv
----------------------------------------------------------------------------
(* The descriptor rings.  From descriptor f it is Dist(f, d, N) steps to   *)
(* descriptor d.  A ring is in step if the descriptors in S are the first  *)
(* n from f on, and t is the one after them.                               *)
Dist(f, d, N) == IF f <= d THEN d - f ELSE d - f + N
InStep(S, f, t, N) ==
  /\ S \subseteq 0..(N - 1)
  /\ \E n \in 0..N : /\ t = (f + n) % N
                     /\ \A d \in 0..(N - 1) : d \in S <=> Dist(f, d, N) < n

LEMMA Laps ==
  ASSUME NEW N \in Nat \ {0}, NEW x \in Nat, x < N + N
  PROVE  x % N = IF x < N THEN x ELSE x - N
<1>1. CASE x < N
  BY <1>1
<1>2. CASE ~(x < N)
  <2>1. x = N * 1 + (x - N)
    OBVIOUS
  <2> QED BY <1>2, <2>1
<1> QED BY <1>1, <1>2

LEMMA Wrap ==
  ASSUME NEW N \in Nat \ {0}, NEW f \in 0..(N - 1), NEW j \in 0..N
  PROVE  /\ (f + j) % N \in 0..(N - 1)
         /\ (f + j) % N = IF f + j < N THEN f + j ELSE f + j - N
<1> DEFINE x == f + j
           w == x % N
<1>1. x \in Nat /\ x < N + N
  OBVIOUS
<1> HIDE DEF x
<1>2. w = IF x < N THEN x ELSE x - N
  BY <1>1, Laps
<1> HIDE DEF w
<1>3. w \in 0..(N - 1)
  BY <1>1, <1>2
<1> QED BY <1>2, <1>3 DEF w, x

LEMMA StretchIs ==
  ASSUME NEW N \in Nat \ {0}, NEW f \in 0..(N - 1), NEW n \in 0..N, NEW d
  PROVE  d \in Stretch(f, n, N) <=> d \in 0..(N - 1) /\ Dist(f, d, N) < n
<1>1. ASSUME d \in Stretch(f, n, N) PROVE d \in 0..(N - 1) /\ Dist(f, d, N) < n
  <2>1. PICK k \in 0..(n - 1) : d = (f + k) % N
    BY <1>1 DEF Stretch
  <2>2. k \in 0..N
    OBVIOUS
  <2>3. d \in 0..(N - 1) /\ d = IF f + k < N THEN f + k ELSE f + k - N
    BY <2>1, <2>2, Wrap
  <2> QED BY <2>3 DEF Dist
<1>2. ASSUME d \in 0..(N - 1), Dist(f, d, N) < n PROVE d \in Stretch(f, n, N)
  <2> DEFINE k == Dist(f, d, N)
  <2>1. k \in 0..(n - 1) /\ k \in 0..N /\ (IF f + k < N THEN f + k ELSE f + k - N) = d
    BY <1>2 DEF Dist
  <2> HIDE DEF k
  <2>2. (f + k) % N = d
    BY <2>1, Wrap
  <2> QED BY <2>1, <2>2 DEF Stretch
<1> QED BY <1>1, <1>2

(* A stretch of n descriptors has n elements. *)
LEMMA StretchSize ==
  ASSUME NEW N \in Nat \ {0}, NEW f \in 0..(N - 1), NEW n \in 0..N
  PROVE  Cardinality(Stretch(f, n, N)) = n
<1> DEFINE T == Stretch(f, n, N)
           D == 0..(n - 1)
           g == [k \in D |-> (f + k) % N]
<1>1. IsFiniteSet(D) /\ Cardinality(D) = n
  <2>1. 0 \in Int /\ n - 1 \in Int
    OBVIOUS
  <2>2. IsFiniteSet(D) /\ Cardinality(D) = IF 0 > n - 1 THEN 0 ELSE n - 1 - 0 + 1
    BY <2>1, FS_Interval
  <2> HIDE DEF D
  <2> QED BY <2>2
<1>2. g \in Bijection(D, T)
  <2>1. \A k \in D : g[k] = (f + k) % N
    OBVIOUS
  <2>2. g \in [D -> T]
    BY DEF Stretch
  <2>3. \A t \in T : \E k \in D : g[k] = t
    BY <2>1 DEF Stretch
  <2>4. ASSUME NEW k \in D, NEW l \in D, g[k] = g[l] PROVE k = l
    <3>1. k \in 0..N /\ l \in 0..N
      OBVIOUS
    <3>2. /\ (f + k) % N = IF f + k < N THEN f + k ELSE f + k - N
          /\ (f + l) % N = IF f + l < N THEN f + l ELSE f + l - N
      BY <3>1, Wrap
    <3>3. (f + k) % N = (f + l) % N
      BY <2>1, <2>4
    <3>4. (IF f + k < N THEN f + k ELSE f + k - N) = IF f + l < N THEN f + l ELSE f + l - N
      BY <3>2, <3>3
    <3> QED BY <3>4
  <2> HIDE DEF g, D, T
  <2> QED BY <2>2, <2>3, <2>4 DEF Bijection, Injection, Surjection, IsInjective
<1>3. Cardinality(T) = Cardinality(D)
  <2> HIDE DEF g, D, T
  <2>1. ExistsBijection(D, T)
    BY <1>2 DEF ExistsBijection
  <2> QED BY <1>1, <2>1, FS_Bijection
<1> QED BY <1>1, <1>3

LEMMA InStepMeans ==
  ASSUME NEW N \in Nat \ {0}, NEW f \in 0..(N - 1), NEW t, NEW S, InStep(S, f, t, N)
  PROVE  S = Stretch(f, Cardinality(S), N) /\ t = (f + Cardinality(S)) % N
<1>1. PICK n \in 0..N : /\ t = (f + n) % N
                        /\ \A d \in 0..(N - 1) : d \in S <=> Dist(f, d, N) < n
  BY DEF InStep
<1>2. S = Stretch(f, n, N)
  <2>1. \A d : d \in S <=> d \in Stretch(f, n, N)
    BY <1>1, StretchIs DEF InStep
  <2> QED BY <2>1
<1>3. Cardinality(S) = n
  BY <1>2, StretchSize
<1> QED BY <1>1, <1>2, <1>3

LEMMA RingGrows ==
  ASSUME NEW N \in Nat \ {0}, NEW f \in 0..(N - 1), NEW t, NEW S, InStep(S, f, t, N),
         t \notin S
  PROVE  InStep(S \cup {t}, f, (t + 1) % N, N) /\ (t + 1) % N \in 0..(N - 1)
<1>1. PICK n \in 0..N : /\ t = (f + n) % N
                        /\ \A d \in 0..(N - 1) : d \in S <=> Dist(f, d, N) < n
  BY DEF InStep
<1>2. t \in 0..(N - 1) /\ t = IF f + n < N THEN f + n ELSE f + n - N
  BY <1>1, Wrap
<1>3. n < N
  <2>1. ~(Dist(f, t, N) < n)
    BY <1>1, <1>2
  <2>2. n = N => t = f
    BY <1>2
  <2> QED BY <1>2, <2>1, <2>2 DEF Dist
<1>4. n + 1 \in 0..N /\ 1 \in 0..N
  BY <1>3
<1>5. (t + 1) % N \in 0..(N - 1) /\ (t + 1) % N = (f + (n + 1)) % N
  <2>1. (t + 1) % N \in 0..(N - 1) /\ (t + 1) % N = IF t + 1 < N THEN t + 1 ELSE t + 1 - N
    BY <1>2, <1>4, Wrap
  <2>2. (f + (n + 1)) % N = IF f + (n + 1) < N THEN f + (n + 1) ELSE f + (n + 1) - N
    BY <1>4, Wrap
  <2>3. (IF t + 1 < N THEN t + 1 ELSE t + 1 - N) =
          IF f + (n + 1) < N THEN f + (n + 1) ELSE f + (n + 1) - N
    BY <1>2, <1>3
  <2> QED BY <2>1, <2>2, <2>3
<1>6. \A d \in 0..(N - 1) : d \in S \cup {t} <=> Dist(f, d, N) < n + 1
  <2>1. \A d \in 0..(N - 1) : Dist(f, d, N) = n <=> d = t
    BY <1>2, <1>3 DEF Dist
  <2>2. \A d \in 0..(N - 1) : Dist(f, d, N) \in Nat
    BY DEF Dist
  <2>3. \A d \in 0..(N - 1) : Dist(f, d, N) < n + 1 <=> Dist(f, d, N) < n \/ Dist(f, d, N) = n
    BY <2>2
  <2> QED BY <1>1, <2>1, <2>3
<1> QED BY <1>2, <1>4, <1>5, <1>6 DEF InStep

(* The descriptor after the stretch is farther than those in it ... *)
LEMMA RingLast ==
  ASSUME NEW N \in Nat \ {0}, NEW f \in 0..(N - 1), NEW t, NEW S, InStep(S, f, t, N),
         t \notin S
  PROVE  \A d \in S : Dist(f, d, N) < Dist(f, t, N)
<1>1. PICK n \in 0..N : /\ t = (f + n) % N
                        /\ \A d \in 0..(N - 1) : d \in S <=> Dist(f, d, N) < n
  BY DEF InStep
<1>2. t \in 0..(N - 1)
  BY <1>1, Wrap
<1>3. ~(Dist(f, t, N) < n) /\ Dist(f, t, N) \in Nat
  BY <1>1, <1>2 DEF Dist
<1>4. \A d \in S : Dist(f, d, N) < n /\ Dist(f, d, N) \in Nat
  BY <1>1 DEF InStep, Dist
<1> QED BY <1>3, <1>4

(* ... and one step on, the others are in the same order. *)
LEMMA RingOrder ==
  ASSUME NEW N \in Nat \ {0}, NEW f \in 0..(N - 1), NEW d \in 0..(N - 1), d # f
  PROVE  /\ Dist(f, f, N) < Dist(f, d, N)
         /\ \A e \in 0..(N - 1) : e # f => (Dist((f + 1) % N, d, N) < Dist((f + 1) % N, e, N)
                                             <=> Dist(f, d, N) < Dist(f, e, N))
<1> DEFINE g == (f + 1) % N
<1>1. 1 \in 0..N
  OBVIOUS
<1>2. g \in 0..(N - 1) /\ g = IF f + 1 < N THEN f + 1 ELSE f + 1 - N
  BY <1>1, Wrap
<1> HIDE DEF g
<1>3. \A e \in 0..(N - 1) : e # f => Dist(g, e, N) = Dist(f, e, N) - 1 /\ Dist(f, e, N) \in Nat
  BY <1>2 DEF Dist
<1>4. \A e \in 0..(N - 1) : e # f => (Dist(g, d, N) < Dist(g, e, N) <=> Dist(f, d, N) < Dist(f, e, N))
  BY <1>3
<1>5. Dist(f, f, N) < Dist(f, d, N)
  BY DEF Dist
<1> QED BY <1>4, <1>5 DEF g

LEMMA RingShrinks ==
  ASSUME NEW N \in Nat \ {0}, NEW f \in 0..(N - 1), NEW t, NEW S, InStep(S, f, t, N),
         f \in S
  PROVE  InStep(S \ {f}, (f + 1) % N, t, N) /\ (f + 1) % N \in 0..(N - 1)
<1> DEFINE g == (f + 1) % N
<1>1. PICK n \in 0..N : /\ t = (f + n) % N
                        /\ \A d \in 0..(N - 1) : d \in S <=> Dist(f, d, N) < n
  BY DEF InStep
<1>2. n > 0
  BY <1>1 DEF Dist
<1>3. n - 1 \in 0..N /\ 1 \in 0..N
  BY <1>2
<1>4. g \in 0..(N - 1) /\ g = IF f + 1 < N THEN f + 1 ELSE f + 1 - N
  BY <1>3, Wrap
<1> HIDE DEF g
<1>5. t = (g + (n - 1)) % N
  <2>1. t = IF f + n < N THEN f + n ELSE f + n - N
    BY <1>1, Wrap
  <2>2. (g + (n - 1)) % N = IF g + (n - 1) < N THEN g + (n - 1) ELSE g + (n - 1) - N
    BY <1>3, <1>4, Wrap
  <2>3. (IF f + n < N THEN f + n ELSE f + n - N) =
          IF g + (n - 1) < N THEN g + (n - 1) ELSE g + (n - 1) - N
    BY <1>2, <1>4
  <2> QED BY <2>1, <2>2, <2>3
<1>6. \A d \in 0..(N - 1) : d \in S \ {f} <=> Dist(g, d, N) < n - 1
  <2>1. \A d \in 0..(N - 1) : d # f => Dist(g, d, N) = Dist(f, d, N) - 1
    BY <1>4 DEF Dist
  <2>2. ~(Dist(g, f, N) < n - 1)
    BY <1>4 DEF Dist
  <2>3. \A d \in 0..(N - 1) : Dist(f, d, N) \in Nat
    BY DEF Dist
  <2>4. \A d \in 0..(N - 1) : d # f => (Dist(g, d, N) < n - 1 <=> Dist(f, d, N) < n)
    BY <2>1, <2>3
  <2> QED BY <1>1, <2>2, <2>4
<1> QED BY <1>3, <1>4, <1>5, <1>6 DEF InStep, g
----------------------------------------------------------------------------
(* The invariant of the specification: the types, the table, the rings. *)
Part == [kind : {"part"}, which : {"first", "last"}]
IpFrames == {IpFrame(p.to, p) : p \in Pkt}

MainTypes == /\ pc \in {"rx", "timer", "send", "endless"} /\ client \in DOMAIN Clients
             /\ given \in 0..MaxPkt /\ frames \in 0..MaxFrames
TxTypes == /\ toSet \in TxSlots /\ txDma \in TxSlots
           /\ own \in [TxSlots -> BOOLEAN]
           /\ buf \in [TxSlots -> GoodFrame \cup {Nothing}]
           /\ len \in [TxSlots -> GoodFrame \cup {Nothing}]
           /\ wire \in Seq([frame : IpFrames, whole : BOOLEAN])
RxTypes == /\ toGet \in RxSlots /\ rxDma \in RxSlots
           /\ rx \in [RxSlots -> {Free} \cup Coming \cup Part]
OutTypes == /\ out \in Seq(GoodFrame) /\ copied \in BOOLEAN /\ over \in BOOLEAN
            /\ copied => out # << >>

Sending == {d \in TxSlots : own[d]}
Filled == {d \in RxSlots : rx[d] # Free}
Rings == /\ InStep(Sending, txDma, toSet, ETH_TXBUFNB)
         /\ InStep(Filled, toGet, rxDma, ETH_RXBUFNB)

NetInv == MainTypes /\ TxTypes /\ RxTypes /\ OutTypes /\ ArpInv(arp) /\ Rings

LEMMA Frames ==
  /\ IpFrames \subseteq GoodFrame
  /\ \A f \in GoodFrame : /\ f # Nothing
                          /\ f.kind = "ip" => f \in IpFrames
  /\ Nothing.kind # "ip"
  /\ \A f \in Coming \cup Part : f # Free
  /\ \A f \in Coming : f.from \in Hosts
  /\ \A w \in {"first", "last"} : [kind |-> "part", which |-> w] \in Part
<1>1. IpFrames \subseteq GoodFrame
  BY DEF IpFrames, GoodFrame
<1>2. ASSUME NEW f \in GoodFrame PROVE f # Nothing /\ (f.kind = "ip" => f \in IpFrames)
  <2>1. CASE f \in IpFrames
    BY <2>1 DEF IpFrames, IpFrame, Nothing
  <2>2. CASE \E h \in Hosts : f = Request(h)
    BY <2>2 DEF Request, Nothing
  <2>3. CASE \E h \in Hosts : f = Reply(h)
    BY <2>3 DEF Reply, Nothing
  <2> QED BY <2>1, <2>2, <2>3 DEF GoodFrame, IpFrames
<1>3. Nothing.kind # "ip"
  BY DEF Nothing
<1>4. \A f \in Coming \cup Part : f # Free
  BY DEF Coming, Part, Free
<1>5. \A f \in Coming : f.from \in Hosts
  BY PeersAreHosts DEF Coming
<1>6. \A w \in {"first", "last"} : [kind |-> "part", which |-> w] \in Part
  BY DEF Part
<1> QED BY <1>1, <1>2, <1>3, <1>4, <1>5, <1>6

LEMMA NetInit == Init => NetInv
<1> SUFFICES ASSUME Init PROVE NetInv
  OBVIOUS
<1>1. MainTypes
  BY NetworkAssumption DEF Init, MainTypes
<1>2. TxTypes
  <2>1. << >> \in Seq([frame : IpFrames, whole : BOOLEAN])
    OBVIOUS
  <2> QED BY <2>1, Sizes DEF Init, TxTypes, TxSlots
<1>3. RxTypes
  BY Sizes DEF Init, RxTypes, RxSlots
<1>4. OutTypes
  <2>1. << >> \in Seq(GoodFrame)
    OBVIOUS
  <2> QED BY <2>1 DEF Init, OutTypes
<1>5. ArpInv(arp)
  BY TableInit DEF Init
<1>6. Rings
  <2>1. Sending = {} /\ Filled = {}
    BY DEF Init, Sending, Filled
  <2>2. ASSUME NEW N \in Nat \ {0} PROVE InStep({}, 0, 0, N)
    <3>1. 0 = (0 + 0) % N
      <4>1. 0 \in 0..(N - 1) /\ 0 \in 0..N
        OBVIOUS
      <4>2. (0 + 0) % N = IF 0 + 0 < N THEN 0 + 0 ELSE 0 + 0 - N
        BY <4>1, Wrap
      <4> QED BY <4>2
    <3>2. \A d \in 0..(N - 1) : ~(Dist(0, d, N) < 0)
      BY DEF Dist
    <3> QED BY <3>1, <3>2 DEF InStep
  <2> QED BY <2>1, <2>2, Sizes DEF Init, Rings
<1> QED BY <1>1, <1>2, <1>3, <1>4, <1>5, <1>6 DEF NetInv

(* A step of one ring. *)
LEMMA TxFilled ==
  ASSUME NetInv, ~own[toSet], own' = [own EXCEPT ![toSet] = TRUE],
         toSet' = (toSet + 1) % ETH_TXBUFNB
  PROVE  /\ toSet' \in TxSlots /\ own' \in [TxSlots -> BOOLEAN]
         /\ InStep(Sending', txDma, toSet', ETH_TXBUFNB)
<1>1. Sending' = Sending \cup {toSet}
  BY DEF NetInv, TxTypes, Sending
<1>2. toSet \notin Sending
  BY DEF Sending
<1>3. InStep(Sending, txDma, toSet, ETH_TXBUFNB) /\ txDma \in 0..(ETH_TXBUFNB - 1)
  BY DEF NetInv, Rings, TxTypes, TxSlots
<1>4. /\ InStep(Sending \cup {toSet}, txDma, (toSet + 1) % ETH_TXBUFNB, ETH_TXBUFNB)
      /\ (toSet + 1) % ETH_TXBUFNB \in 0..(ETH_TXBUFNB - 1)
  BY <1>2, <1>3, RingGrows, Sizes
<1>5. own' \in [TxSlots -> BOOLEAN]
  BY DEF NetInv, TxTypes
<1> QED BY <1>1, <1>4, <1>5 DEF TxSlots

LEMMA TxSent ==
  ASSUME NetInv, own[txDma], own' = [own EXCEPT ![txDma] = FALSE],
         txDma' = (txDma + 1) % ETH_TXBUFNB
  PROVE  /\ txDma' \in TxSlots /\ own' \in [TxSlots -> BOOLEAN]
         /\ InStep(Sending', txDma', toSet, ETH_TXBUFNB)
<1>1. Sending' = Sending \ {txDma}
  BY DEF NetInv, TxTypes, Sending
<1>2. txDma \in Sending
  BY DEF Sending, NetInv, TxTypes
<1>3. InStep(Sending, txDma, toSet, ETH_TXBUFNB) /\ txDma \in 0..(ETH_TXBUFNB - 1)
  BY DEF NetInv, Rings, TxTypes, TxSlots
<1>4. /\ InStep(Sending \ {txDma}, (txDma + 1) % ETH_TXBUFNB, toSet, ETH_TXBUFNB)
      /\ (txDma + 1) % ETH_TXBUFNB \in 0..(ETH_TXBUFNB - 1)
  BY <1>2, <1>3, RingShrinks, Sizes
<1>5. own' \in [TxSlots -> BOOLEAN]
  BY DEF NetInv, TxTypes
<1> QED BY <1>1, <1>4, <1>5 DEF TxSlots

LEMMA RxFilled ==
  ASSUME NetInv, rx[rxDma] = Free, NEW f \in Coming \cup Part, NEW r, NEW d,
         r = [rx EXCEPT ![rxDma] = f], d = (rxDma + 1) % ETH_RXBUFNB
  PROVE  /\ d \in RxSlots /\ r \in [RxSlots -> {Free} \cup Coming \cup Part]
         /\ InStep({s \in RxSlots : r[s] # Free}, toGet, d, ETH_RXBUFNB)
<1>0. rx \in [RxSlots -> {Free} \cup Coming \cup Part] /\ rxDma \in RxSlots /\ f # Free
  BY Frames DEF NetInv, RxTypes
<1>1. {s \in RxSlots : r[s] # Free} = Filled \cup {rxDma}
  BY <1>0 DEF Filled
<1>2. rxDma \notin Filled
  BY DEF Filled
<1>3. InStep(Filled, toGet, rxDma, ETH_RXBUFNB) /\ toGet \in 0..(ETH_RXBUFNB - 1)
  BY DEF NetInv, Rings, RxTypes, RxSlots
<1>4. /\ InStep(Filled \cup {rxDma}, toGet, (rxDma + 1) % ETH_RXBUFNB, ETH_RXBUFNB)
      /\ (rxDma + 1) % ETH_RXBUFNB \in 0..(ETH_RXBUFNB - 1)
  BY <1>2, <1>3, RingGrows, Sizes
<1>5. r \in [RxSlots -> {Free} \cup Coming \cup Part]
  BY <1>0
<1> QED BY <1>1, <1>4, <1>5 DEF RxSlots

LEMMA RxTaken ==
  ASSUME NetInv, rx[toGet] # Free, low_level_input
  PROVE  /\ toGet' \in RxSlots /\ rx' \in [RxSlots -> {Free} \cup Coming \cup Part]
         /\ InStep(Filled', toGet', rxDma, ETH_RXBUFNB)
<1>0. rx \in [RxSlots -> {Free} \cup Coming \cup Part] /\ toGet \in RxSlots
  BY DEF NetInv, RxTypes
<1>1. Filled' = Filled \ {toGet}
  BY <1>0 DEF Filled, low_level_input
<1>2. toGet \in Filled
  BY <1>0 DEF Filled
<1>3. InStep(Filled, toGet, rxDma, ETH_RXBUFNB) /\ toGet \in 0..(ETH_RXBUFNB - 1)
  BY <1>0 DEF NetInv, Rings, RxSlots
<1>4. /\ InStep(Filled \ {toGet}, (toGet + 1) % ETH_RXBUFNB, rxDma, ETH_RXBUFNB)
      /\ (toGet + 1) % ETH_RXBUFNB \in 0..(ETH_RXBUFNB - 1)
  BY <1>2, <1>3, RingShrinks, Sizes
<1>5. rx' \in [RxSlots -> {Free} \cup Coming \cup Part]
  BY <1>0 DEF low_level_input
<1> QED BY <1>1, <1>4, <1>5 DEF RxSlots, low_level_input

LEMMA Received ==
  ASSUME NetInv, NEW f \in Coming \cup Part, Receive(f)
  PROVE  /\ rxDma' \in RxSlots /\ rx' \in [RxSlots -> {Free} \cup Coming \cup Part]
         /\ InStep(Filled', toGet, rxDma', ETH_RXBUFNB)
<1>1. CASE rx[rxDma] = Free
  BY <1>1, RxFilled DEF Receive, Filled
<1>2. CASE rx[rxDma] # Free
  <2>1. rx' = rx /\ rxDma' = rxDma
    BY <1>2 DEF Receive
  <2>2. Filled' = Filled
    BY <2>1 DEF Filled
  <2> QED BY <2>1, <2>2 DEF NetInv, RxTypes, Rings
<1> QED BY <1>1, <1>2

(* A frame that takes two descriptors. *)
LEMMA ReceivedLong ==
  ASSUME NetInv, NEW f \in Part, NEW g \in Part, NEW next,
         next = (rxDma + 1) % ETH_RXBUFNB, rx[rxDma] = Free, next # rxDma, rx[next] = Free,
         rx' = [rx EXCEPT ![rxDma] = f, ![next] = g], rxDma' = (next + 1) % ETH_RXBUFNB
  PROVE  /\ rxDma' \in RxSlots /\ rx' \in [RxSlots -> {Free} \cup Coming \cup Part]
         /\ InStep(Filled', toGet, rxDma', ETH_RXBUFNB)
<1> DEFINE r == [rx EXCEPT ![rxDma] = f]
           S == {s \in RxSlots : r[s] # Free}
<1>1. /\ next \in RxSlots /\ r \in [RxSlots -> {Free} \cup Coming \cup Part]
      /\ InStep(S, toGet, next, ETH_RXBUFNB)
  BY RxFilled, ZenonT(30)
<1>2. rx \in [RxSlots -> {Free} \cup Coming \cup Part] /\ rxDma \in RxSlots /\ toGet \in RxSlots
  BY DEF NetInv, RxTypes
<1>3. rx' = [r EXCEPT ![next] = g] /\ r[next] = Free
  BY <1>1, <1>2
<1> HIDE DEF r
<1>4. next \notin S /\ g # Free
  BY <1>3, Frames
<1>5. Filled' = S \cup {next}
  BY <1>1, <1>3, <1>4 DEF Filled
<1>6. rx' \in [RxSlots -> {Free} \cup Coming \cup Part]
  BY <1>1, <1>3
<1> HIDE DEF S
<1>7. /\ InStep(S \cup {next}, toGet, (next + 1) % ETH_RXBUFNB, ETH_RXBUFNB)
      /\ (next + 1) % ETH_RXBUFNB \in 0..(ETH_RXBUFNB - 1)
  <2>1. toGet \in 0..(ETH_RXBUFNB - 1)
    BY <1>2 DEF RxSlots
  <2> QED BY <1>1, <1>4, <2>1, RingGrows, Sizes
<1> QED BY <1>5, <1>6, <1>7 DEF RxSlots

(* ethernet_input hands the table and the frames on. *)
LEMMA Accepted ==
  ASSUME NetInv, ETH_GetRxPktSize, ethernet_input(rx[toGet])
  PROVE  ArpInv(arp') /\ out' \in Seq(GoodFrame)
<1> DEFINE f == rx[toGet]
           hard == f.kind \in {"reply", "request"}
           done == update_arp_entry(arp, f.from, f.from, hard)
<1>1. f \in Coming
  BY DEF NetInv, RxTypes, ETH_GetRxPktSize, Part
<1>2. f.from \in Hosts /\ hard \in BOOLEAN
  BY <1>1, Frames
<1>3. /\ arp' = done.arp
      /\ out' = done.out \o IF f.kind = "request" THEN <<Reply(f.from)>> ELSE << >>
  BY DEF ethernet_input
<1> HIDE DEF f, hard
<1>4. ArpInv(done.arp) /\ done.out \in Seq(GoodFrame)
  BY <1>2, Updated DEF NetInv
<1> HIDE DEF done
<1>5. <<Reply(f.from)>> \in Seq(GoodFrame) /\ << >> \in Seq(GoodFrame)
  BY <1>2 DEF GoodFrame
<1> QED BY <1>3, <1>4, <1>5

LEMMA ClientNext ==
  ASSUME NetInv, NextClient
  PROVE  pc' \in {"rx", "send"} /\ client' \in DOMAIN Clients
BY NetworkAssumption DEF NetInv, MainTypes, NextClient

LEMMA NetKept == NetInv /\ [Next]_vars => NetInv'
<1> SUFFICES ASSUME NetInv, [Next]_vars PROVE NetInv'
  OBVIOUS
<1> USE DEF mainVars, txVars, rxVars, outVars
<1>0. /\ (arp' = arp => ArpInv(arp'))
      /\ (own' = own => Sending' = Sending) /\ (rx' = rx => Filled' = Filled)
      /\ MainTypes /\ TxTypes /\ RxTypes /\ OutTypes /\ Rings
  BY DEF NetInv, Sending, Filled
<1>1. CASE Copy
  <2>1. Head(out) \in GoodFrame
    BY <1>0, <1>1 DEF Copy, OutTypes
  <2>2. TxTypes'
    BY <1>0, <1>1, <2>1 DEF Copy, TxTypes
  <2>3. OutTypes'
    <3>1. over' \in BOOLEAN
      BY <1>1 DEF Copy
    <3>2. out' = out /\ copied' = TRUE /\ out # << >>
      BY <1>1 DEF Copy
    <3>3. out' \in Seq(GoodFrame) /\ out' # << >>
      BY <1>0, <3>2 DEF OutTypes
    <3>4. copied' \in BOOLEAN /\ (copied' => out' # << >>)
      BY <3>2, <3>3
    <3> QED BY <3>1, <3>3, <3>4 DEF OutTypes
  <2> QED BY <1>0, <1>1, <2>2, <2>3 DEF Copy, NetInv, MainTypes, RxTypes, Rings
<1>2. CASE HandOver
  <2>1. OutTypes'
    <3>1. out \in Seq(GoodFrame) /\ out # << >> /\ over \in BOOLEAN
      BY <1>0, <1>2 DEF HandOver, OutTypes
    <3>2. out' = Tail(out) /\ copied' = FALSE /\ over' = over
      BY <1>2 DEF HandOver
    <3>3. out' \in Seq(GoodFrame)
      BY <3>1, <3>2
    <3> QED BY <3>1, <3>2, <3>3 DEF OutTypes
  <2>2. TxTypes' /\ InStep(Sending', txDma, toSet', ETH_TXBUFNB)
    <3>1. CASE own[toSet]
      BY <1>0, <1>2, <3>1 DEF HandOver, ETH_TxPkt_ChainMode, TxTypes, Rings
    <3>2. CASE ~own[toSet]
      <4>1. /\ toSet' \in TxSlots /\ own' \in [TxSlots -> BOOLEAN]
            /\ InStep(Sending', txDma, toSet', ETH_TXBUFNB)
        BY <1>2, <3>2, TxFilled DEF HandOver, ETH_TxPkt_ChainMode
      <4>2. Head(out) \in GoodFrame /\ len' = [len EXCEPT ![toSet] = Head(out)]
        BY <1>0, <1>2, <3>2 DEF HandOver, OutTypes, ETH_TxPkt_ChainMode
      <4>3. len' \in [TxSlots -> GoodFrame \cup {Nothing}]
        BY <1>0, <4>2 DEF TxTypes
      <4> QED BY <1>0, <1>2, <4>1, <4>3 DEF HandOver, TxTypes
    <3> QED BY <3>1, <3>2
  <2> QED BY <1>0, <1>2, <2>1, <2>2 DEF HandOver, NetInv, MainTypes, RxTypes, Rings
<1>3. CASE LwIP_Pkt_Handle
  <2>1. MainTypes'
    BY <1>0, <1>3 DEF LwIP_Pkt_Handle, MainTypes
  <2>2. TxTypes' /\ InStep(Sending', txDma', toSet', ETH_TXBUFNB)
    BY <1>0, <1>3 DEF LwIP_Pkt_Handle, TxTypes, Rings
  <2>3. CASE ETH_GetRxPktSize
    <3>1. rx[toGet] # Free /\ low_level_input /\ ethernet_input(rx[toGet])
      BY <1>3, <2>3 DEF LwIP_Pkt_Handle, ETH_GetRxPktSize
    <3>2. /\ toGet' \in RxSlots /\ rx' \in [RxSlots -> {Free} \cup Coming \cup Part]
          /\ InStep(Filled', toGet', rxDma, ETH_RXBUFNB)
      BY <3>1, RxTaken
    <3>3. ArpInv(arp') /\ out' \in Seq(GoodFrame)
      BY <2>3, <3>1, Accepted
    <3>4. OutTypes'
      BY <1>0, <1>3, <3>3 DEF LwIP_Pkt_Handle, OutTypes
    <3>5. RxTypes' /\ InStep(Filled', toGet', rxDma', ETH_RXBUFNB)
      BY <1>0, <1>3, <3>2 DEF LwIP_Pkt_Handle, RxTypes
    <3> QED BY <2>1, <2>2, <3>3, <3>4, <3>5 DEF NetInv, Rings
  <2>4. CASE ~ETH_GetRxPktSize
    <3>1. UNCHANGED <<arp, out, rx, toGet, rxDma, copied, over>>
      BY <1>3, <2>4 DEF LwIP_Pkt_Handle
    <3> QED BY <1>0, <2>1, <2>2, <3>1 DEF NetInv, OutTypes, RxTypes, Rings
  <2> QED BY <2>3, <2>4
<1>4. CASE \E due \in BOOLEAN : LwIP_Periodic_Handle(due)
  <2>1. PICK due \in BOOLEAN : LwIP_Periodic_Handle(due)
    BY <1>4
  <2>2. ArpInv(arp')
    BY <1>0, <2>1, TableAged DEF LwIP_Periodic_Handle, NetInv
  <2>3. MainTypes'
    BY <1>0, <2>1, NetworkAssumption DEF LwIP_Periodic_Handle, MainTypes
  <2> QED BY <1>0, <2>1, <2>2, <2>3
        DEF LwIP_Periodic_Handle, NetInv, TxTypes, RxTypes, OutTypes, Rings
<1>5. CASE SkipClient
  <2>1. MainTypes'
    BY <1>0, <1>5, ClientNext DEF SkipClient, MainTypes
  <2> QED BY <1>0, <1>5, <2>1 DEF SkipClient, NetInv, TxTypes, RxTypes, OutTypes, Rings
<1>6. CASE udp_send_process
  <2> DEFINE p == [to |-> Clients[client], n |-> given + 1]
             done == etharp_query(arp, p)
  <2>1. p \in Pkt
    BY <1>0, <1>6, NetworkAssumption DEF udp_send_process, MainTypes, Pkt, Peers
  <2>2. arp' = done.arp /\ out' = done.out
    BY <1>6 DEF udp_send_process
  <2>3. ArpInv(arp') /\ out' \in Seq(GoodFrame)
    <3> HIDE DEF p
    <3> QED BY <2>1, <2>2, Asked DEF NetInv
  <2>4. MainTypes'
    BY <1>0, <1>6, ClientNext, NetworkAssumption DEF udp_send_process, MainTypes
  <2>5. OutTypes'
    BY <1>0, <1>6, <2>3 DEF udp_send_process, OutTypes
  <2> QED BY <1>0, <1>6, <2>3, <2>4, <2>5 DEF udp_send_process, NetInv, TxTypes, RxTypes, Rings
<1>7. CASE Transmit
  <2>1. /\ txDma' \in TxSlots /\ own' \in [TxSlots -> BOOLEAN]
        /\ InStep(Sending', txDma', toSet, ETH_TXBUFNB)
    BY <1>7, TxSent DEF Transmit
  <2>2. buf' \in [TxSlots -> GoodFrame \cup {Nothing}]
    BY <1>0, <1>7 DEF Transmit, TxTypes
  <2>3. wire' \in Seq([frame : IpFrames, whole : BOOLEAN])
    <3> DEFINE f == buf[txDma]
               x == [frame |-> f, whole |-> f = len[txDma]]
    <3>1. wire' = IF f.kind # "ip" THEN wire ELSE Append(wire, x)
      BY <1>7 DEF Transmit
    <3>2. f.kind = "ip" => x \in [frame : IpFrames, whole : BOOLEAN]
      <4>1. f \in GoodFrame \cup {Nothing}
        BY <1>0 DEF TxTypes
      <4>2. f.kind = "ip" => f \in IpFrames
        BY <4>1, Frames
      <4> HIDE DEF f
      <4> QED BY <4>2
    <3> HIDE DEF x, f
    <3>3. wire \in Seq([frame : IpFrames, whole : BOOLEAN])
      BY <1>0 DEF TxTypes
    <3>4. CASE f.kind # "ip"
      BY <3>1, <3>3, <3>4
    <3>5. CASE f.kind = "ip"
      <4> DEFINE R == [frame : IpFrames, whole : BOOLEAN]
      <4>1. x \in R /\ wire \in Seq(R) /\ wire' = Append(wire, x)
        BY <3>1, <3>2, <3>3, <3>5
      <4> HIDE DEF R
      <4>2. wire' \in Seq(R)
        BY <4>1
      <4> QED BY <4>2 DEF R
    <3> QED BY <3>4, <3>5
  <2>4. TxTypes'
    BY <1>0, <1>7, <2>1, <2>2, <2>3 DEF Transmit, TxTypes
  <2> QED BY <1>0, <1>7, <2>1, <2>4 DEF Transmit, NetInv, MainTypes, RxTypes, OutTypes, Rings
<1>8. CASE Arrive
  <2>1. PICK f \in Coming : Receive(f)
    BY <1>8 DEF Arrive
  <2>2. /\ rxDma' \in RxSlots /\ rx' \in [RxSlots -> {Free} \cup Coming \cup Part]
        /\ InStep(Filled', toGet, rxDma', ETH_RXBUFNB)
    BY <2>1, Received
  <2>3. MainTypes'
    BY <1>0, <1>8, NetworkAssumption DEF Arrive, MainTypes
  <2> QED BY <1>0, <1>8, <2>2, <2>3 DEF Arrive, NetInv, TxTypes, RxTypes, OutTypes, Rings
<1>9. CASE ArriveLong
  <2> DEFINE next == (rxDma + 1) % ETH_RXBUFNB
             first == [kind |-> "part", which |-> "first"]
             last == [kind |-> "part", which |-> "last"]
  <2>1. /\ rxDma' \in RxSlots /\ rx' \in [RxSlots -> {Free} \cup Coming \cup Part]
        /\ InStep(Filled', toGet, rxDma', ETH_RXBUFNB)
    <3>1. first \in Part /\ last \in Part
      BY Frames
    <3>2. IF rx[rxDma] = Free /\ next # rxDma /\ rx[next] = Free
            THEN /\ rx' = [rx EXCEPT ![rxDma] = first, ![next] = last]
                 /\ rxDma' = (next + 1) % ETH_RXBUFNB
            ELSE Receive(first)
      BY <1>9 DEF ArriveLong
    <3> HIDE DEF first, last
    <3>3. CASE rx[rxDma] = Free /\ next # rxDma /\ rx[next] = Free
      BY <3>1, <3>2, <3>3, ReceivedLong
    <3>4. CASE ~(rx[rxDma] = Free /\ next # rxDma /\ rx[next] = Free)
      BY <3>1, <3>2, <3>4, Received
    <3> QED BY <3>3, <3>4
  <2>2. MainTypes'
    BY <1>0, <1>9, NetworkAssumption DEF ArriveLong, MainTypes
  <2> QED BY <1>0, <1>9, <2>1, <2>2 DEF ArriveLong, NetInv, TxTypes, RxTypes, OutTypes, Rings
<1>10. CASE UNCHANGED vars
  BY <1>0, <1>10 DEF vars, NetInv, MainTypes, TxTypes, RxTypes, OutTypes, Rings
<1> QED
  BY <1>1, <1>2, <1>3, <1>4, <1>5, <1>6, <1>7, <1>8, <1>9, <1>10 DEF Next, Main, Endless
----------------------------------------------------------------------------
(* What the invariant gives.                                               *)

(* The table, the rings and what is on the wire are as the invariant says, *)
(* for every number of hosts, entries, pool elements and descriptors.      *)
THEOREM NetInvHolds == Spec => []NetInv
BY NetInit, NetKept, PTL DEF Spec

(* Type correctness: entries never outlive their time, indices stay in     *)
(* their arrays.                                                           *)
THEOREM TypesHold == Spec => []TypeOK
<1>1. NetInv => TypeOK
  <2> SUFFICES ASSUME NetInv PROVE TypeOK
    OBVIOUS
  <2>1. ASSUME NEW i \in Slots
        PROVE  /\ arp.table[i].state \in {"EMPTY", "PENDING", "STABLE"}
               /\ arp.table[i].ip \in Hosts \cup {NoHost}
               /\ arp.table[i].eth \in Hosts \cup {NoHost}
               /\ arp.table[i].ctime \in 0..(Lifetime(arp.table[i].state) - 1)
               /\ arp.table[i].q \in Seq(Pkt)
    <3>1. arp.table[i] \in Entry /\ arp.table[i].ctime < Lifetime(arp.table[i].state)
      BY DEF NetInv, ArpInv, ArpType, ArpRec
    <3>2. Lifetime(arp.table[i].state) \in Nat
      BY Lifetimes
    <3> QED BY <3>1, <3>2 DEF Entry
  <2>2. arp.cached \in Slots /\ arp.free \in 0..MEMP_NUM_ARP_QUEUE
    <3>1. arp.cached \in Slots /\ arp.free \in Nat
      BY DEF NetInv, ArpInv, ArpType, ArpRec
    <3>2. Queued(arp) \in Nat /\ arp.free + Queued(arp) = MEMP_NUM_ARP_QUEUE
      BY QueuedNat DEF NetInv, ArpInv, PoolKept
    <3> QED BY <3>1, <3>2, Sizes
  <2> QED BY <2>1, <2>2 DEF NetInv, MainTypes, TxTypes, RxTypes, OutTypes, TypeOK
<1> QED BY <1>1, NetInvHolds, PTL

(* find_entry never gives two entries to one host, and packets wait only   *)
(* in pending entries of their host.                                       *)
THEOREM TableIsSound == Spec => []TableSound
<1>1. NetInv => TableSound
  <2> SUFFICES ASSUME NetInv PROVE TableSound
    OBVIOUS
  <2>1. ASSUME NEW i \in Slots PROVE DOMAIN arp.table[i].q = 1..Len(arp.table[i].q)
    <3>1. arp.table[i].q \in Seq(Pkt)
      BY DEF NetInv, ArpInv, ArpType, ArpRec, Entry
    <3> QED BY <3>1
  <2>2. Unique(arp) /\ QueuesSound(arp)
    BY DEF NetInv, ArpInv
  <2> QED BY <2>1, <2>2 DEF TableSound, Unique, QueuesSound, In
<1> QED BY <1>1, NetInvHolds, PTL

(* Flushing, expiring and recycling give back every element of the pool.   *)
THEOREM NoElementLeaks == Spec => []NoneLeaked
<1>1. NetInv => NoneLeaked
  BY DEF NetInv, ArpInv, PoolKept, NoneLeaked
<1> QED BY <1>1, NetInvHolds, PTL

(* A packet leaves with the hardware address of the host it is for.        *)
THEOREM PacketsReachTheirHost == Spec => []RightHost
<1>1. NetInv => RightHost
  <2> SUFFICES ASSUME NetInv, NEW k \in DOMAIN wire
               PROVE  wire[k].frame.eth = wire[k].frame.pkt.to
    BY DEF RightHost
  <2>1. wire[k] \in [frame : IpFrames, whole : BOOLEAN]
    <3> DEFINE R == [frame : IpFrames, whole : BOOLEAN]
    <3>1. wire \in Seq(R)
      BY DEF NetInv, TxTypes
    <3> HIDE DEF R
    <3>2. wire[k] \in R
      BY <3>1
    <3> QED BY <3>2 DEF R
  <2>2. PICK p \in Pkt : wire[k].frame = IpFrame(p.to, p)
    BY <2>1 DEF IpFrames
  <2> QED BY <2>2 DEF IpFrame
<1> QED BY <1>1, NetInvHolds, PTL

(* The processor and the DMA agree about the descriptors of both rings.    *)
THEOREM RingsStayInStep == Spec => []RingsInStep
<1>1. NetInv => RingsInStep
  <2> SUFFICES ASSUME NetInv PROVE RingsInStep
    OBVIOUS
  <2>1. txDma \in 0..(ETH_TXBUFNB - 1) /\ toGet \in 0..(ETH_RXBUFNB - 1)
    BY DEF NetInv, TxTypes, RxTypes, TxSlots, RxSlots
  <2>2. /\ Sending = Stretch(txDma, Cardinality(Sending), ETH_TXBUFNB)
        /\ toSet = (txDma + Cardinality(Sending)) % ETH_TXBUFNB
    BY <2>1, InStepMeans, Sizes DEF NetInv, Rings
  <2>3. /\ Filled = Stretch(toGet, Cardinality(Filled), ETH_RXBUFNB)
        /\ rxDma = (toGet + Cardinality(Filled)) % ETH_RXBUFNB
    BY <2>1, InStepMeans, Sizes DEF NetInv, Rings
  <2> QED BY <2>2, <2>3 DEF RingsInStep, Sending, Filled
<1> QED BY <1>1, NetInvHolds, PTL
----------------------------------------------------------------------------
(* As long as no frame was copied into a buffer of the DMA, the packets    *)
(* keep their order: on the wire, in the ring, in the handler's hands and  *)
(* in the queues, each lane after the one before it.                       *)
Ahead(f, p) == f.kind = "ip" /\ f.pkt.to = p.to => f.pkt.n < p.n
Before(f, g) == g.kind = "ip" => Ahead(f, g.pkt)

Gone == {wire[k].frame : k \in 1..Len(wire)}
Aboard == {buf[d] : d \in Sending}
InHand == {out[j] : j \in 1..Len(out)}

Whole == /\ \A k \in 1..Len(wire) : wire[k].whole
         /\ \A d \in Sending : buf[d] = len[d]
         /\ copied => buf[toSet] = Head(out) /\ toSet \notin Sending

RingDist(d) == Dist(txDma, d, ETH_TXBUFNB)
Lanes == /\ \A k, m \in 1..Len(wire) : k < m => Before(wire[k].frame, wire[m].frame)
         /\ \A d, e \in Sending : RingDist(d) < RingDist(e) => Before(buf[d], buf[e])
         /\ \A j, l \in 1..Len(out) : j < l => Before(out[j], out[l])
         /\ \A f \in Gone : \A g \in Aboard : Before(f, g)
         /\ \A f \in Gone \cup Aboard : \A g \in InHand : Before(f, g)

(* The packets queued in a come after the frames in S, in the order of     *)
(* their numbers.                                                          *)
Queues(a, S, last) ==
  \A i \in Slots : \A n \in 1..Len(a.table[i].q) :
    /\ a.table[i].q[n].n <= last
    /\ \A f \in S : Ahead(f, a.table[i].q[n])
    /\ \A m \in 1..Len(a.table[i].q) : n < m => a.table[i].q[n].n < a.table[i].q[m].n
OnWay == Gone \cup Aboard \cup InHand
Numbered == \A f \in OnWay : f.kind = "ip" => f.pkt.n <= given

OrderInv == ~over => Whole /\ Lanes /\ Queues(arp, OnWay, given) /\ Numbered

LEMMA OrderInit == Init => OrderInv
<1> SUFFICES ASSUME Init PROVE OrderInv
  OBVIOUS
<1>1. Len(wire) = 0 /\ Len(out) = 0 /\ Sending = {} /\ copied = FALSE
  BY DEF Init, Sending
<1>2. Gone = {} /\ Aboard = {} /\ InHand = {}
  BY <1>1 DEF Gone, Aboard, InHand
<1>3. \A i \in Slots : Len(arp.table[i].q) = 0
  <2>1. \A i \in Slots : arp.table[i] = NoEntry
    BY DEF Init, ArpInit
  <2> QED BY <2>1, NoEntryIs, NoPackets
<1>4. Whole
  BY <1>1 DEF Whole
<1>5. Lanes
  BY <1>1, <1>2 DEF Lanes
<1>6. Queues(arp, OnWay, given) /\ Numbered
  BY <1>2, <1>3 DEF Queues, Numbered, OnWay
<1> QED BY <1>4, <1>5, <1>6 DEF OrderInv

LEMMA QueuesFlow ==
  ASSUME NEW a, NEW b, NEW S, NEW T, NEW last, Queues(a, S, last), Flow(a, b), T \subseteq S
  PROVE  Queues(b, T, last)
<1> SUFFICES ASSUME NEW i \in Slots, NEW n \in 1..Len(b.table[i].q)
             PROVE  /\ b.table[i].q[n].n <= last
                    /\ \A f \in T : Ahead(f, b.table[i].q[n])
                    /\ \A m \in 1..Len(b.table[i].q) : n < m => b.table[i].q[n].n < b.table[i].q[m].n
  BY DEF Queues
<1>1. b.table[i].q = a.table[i].q
  BY NoPackets DEF Flow
<1> QED BY <1>1 DEF Queues

(* The frames that are on their way stay where they are. *)
LEMMA OrderQuiet ==
  ASSUME OrderInv, UNCHANGED <<own, buf, len, toSet, txDma, wire, out, copied, given, over>>,
         Flow(arp, arp')
  PROVE  OrderInv'
<1> SUFFICES ASSUME ~over' PROVE (Whole /\ Lanes /\ Queues(arp, OnWay, given) /\ Numbered)'
  BY DEF OrderInv
<1>1. Whole /\ Lanes /\ Queues(arp, OnWay, given) /\ Numbered
  BY DEF OrderInv
<1>2. Sending' = Sending
  BY DEF Sending
<1>3. Gone' = Gone /\ Aboard' = Aboard /\ InHand' = InHand
  BY <1>2 DEF Gone, Aboard, InHand
<1>4. OnWay' = OnWay
  BY <1>3 DEF OnWay
<1>5. Whole'
  BY <1>1, <1>2 DEF Whole
<1>6. Lanes'
  BY <1>1, <1>2, <1>3 DEF Lanes, RingDist
<1>7. Queues(arp', OnWay', given')
  BY <1>1, <1>4, QueuesFlow
<1>8. Numbered'
  BY <1>1, <1>4 DEF Numbered
<1> QED BY <1>5, <1>6, <1>7, <1>8

LEMMA OnTheWay ==
  ASSUME NetInv, NEW f \in OnWay, f.kind = "ip"
  PROVE  f \in IpFrames /\ f.pkt \in Pkt /\ f.pkt.n \in Nat
<1>1. f \in GoodFrame \cup {Nothing}
  <2>1. CASE f \in Gone
    <3> DEFINE R == [frame : IpFrames, whole : BOOLEAN]
    <3>1. PICK k \in 1..Len(wire) : f = wire[k].frame
      BY <2>1 DEF Gone
    <3>2. wire \in Seq(R)
      BY DEF NetInv, TxTypes
    <3>3. wire[k] \in R
      <4> HIDE DEF R
      <4> QED BY <3>1, <3>2
    <3> QED BY <3>1, <3>3, Frames
  <2>2. CASE f \in Aboard
    BY <2>2 DEF Aboard, Sending, NetInv, TxTypes
  <2>3. CASE f \in InHand
    BY <2>3 DEF InHand, NetInv, OutTypes
  <2> QED BY <2>1, <2>2, <2>3 DEF OnWay
<1>2. f \in IpFrames
  BY <1>1, Frames
<1>3. PICK p \in Pkt : f = IpFrame(p.to, p)
  BY <1>2 DEF IpFrames
<1>4. f.pkt = p /\ p.n \in Nat
  BY <1>3 DEF IpFrame, Pkt
<1> QED BY <1>2, <1>4

(* A handler that begins with nothing in hand. *)
LEMMA OrderHandler ==
  ASSUME NetInv, OrderInv, out = << >>, UNCHANGED <<own, buf, len, toSet, txDma, wire, copied, over>>,
         given' \in Nat, given' >= given, ~over,
         \A j, l \in 1..Len(out') : j < l => Before(out'[j], out'[l]),
         \A f \in Gone \cup Aboard : \A g \in InHand' : Before(f, g),
         Queues(arp', Gone \cup Aboard, given'),
         Queues(arp', InHand', given'),
         \A f \in InHand' : f.kind = "ip" => f.pkt.n <= given'
  PROVE  OrderInv'
<1>0. Whole /\ Lanes /\ Queues(arp, OnWay, given) /\ Numbered
  BY DEF OrderInv
<1>1. copied = FALSE /\ copied' = FALSE
  BY DEF NetInv, OutTypes
<1>2. Sending' = Sending
  BY DEF Sending
<1>3. Gone' = Gone /\ Aboard' = Aboard
  BY <1>2 DEF Gone, Aboard
<1>4. Whole'
  BY <1>0, <1>1, <1>2 DEF Whole
<1>5. Lanes'
  BY <1>0, <1>2, <1>3 DEF Lanes, RingDist
<1>6. Queues(arp', OnWay', given')
  BY <1>3 DEF Queues, OnWay
<1>7. Numbered'
  <2>1. ASSUME NEW f \in Gone \cup Aboard, f.kind = "ip" PROVE f.pkt.n <= given'
    <3>1. f.pkt.n <= given
      BY <1>0, <2>1 DEF Numbered, OnWay
    <3>2. f.pkt.n \in Nat
      BY <2>1, OnTheWay DEF OnWay
    <3>3. given \in Nat
      BY DEF NetInv, MainTypes
    <3> QED BY <3>1, <3>2, <3>3
  <2> QED BY <1>3, <2>1 DEF Numbered, OnWay
<1> QED BY <1>4, <1>5, <1>6, <1>7 DEF OrderInv

(* A received frame: what waited for its sender's address goes, in order.  *)
LEMMA OrderReceive ==
  ASSUME NetInv, OrderInv, ~over, ETH_GetRxPktSize, LwIP_Pkt_Handle
  PROVE  OrderInv'
<1> DEFINE h == rx[toGet].from
           hard == rx[toGet].kind \in {"reply", "request"}
           done == update_arp_entry(arp, h, h, hard)
           tail == IF rx[toGet].kind = "request" THEN <<Reply(h)>> ELSE << >>
<1>1. /\ out = << >> /\ UNCHANGED <<own, buf, len, toSet, txDma, wire, copied, over, given>>
      /\ arp' = done.arp /\ out' = done.out \o tail
  BY DEF LwIP_Pkt_Handle, ethernet_input, txVars
<1>2. h \in Hosts /\ hard \in BOOLEAN
  <2>1. rx[toGet] \in Coming
    BY DEF NetInv, RxTypes, ETH_GetRxPktSize, Part
  <2> QED BY <2>1, Frames
<1>3. tail = << >> \/ tail = <<Reply(h)>>
  OBVIOUS
<1> HIDE DEF h, hard, tail
<1>4. /\ done.out \in Seq(GoodFrame) /\ Flow(arp, done.arp)
      /\ \/ done.out = << >>
         \/ NoneFor(done.arp, h) /\ \E i \in Slots : done.out = Flush(arp.table[i].q, h)
  BY <1>2, Updated DEF NetInv
<1> HIDE DEF done
<1>5. given \in Nat /\ given' = given
  BY <1>1 DEF NetInv, MainTypes
<1>6. Lanes /\ Queues(arp, OnWay, given)
  BY DEF OrderInv
<1>7. Queues(arp', Gone \cup Aboard, given')
  BY <1>1, <1>4, <1>5, <1>6, QueuesFlow DEF OnWay
<1>8. \A j \in 1..Len(tail) : tail[j].kind # "ip"
  BY <1>3 DEF Reply
<1>9. tail \in Seq(GoodFrame)
  <2>1. <<Reply(h)>> \in Seq(GoodFrame) /\ << >> \in Seq(GoodFrame)
    BY <1>2 DEF GoodFrame
  <2> QED BY <1>3, <2>1
<1>10. CASE done.out = << >>
  <2>1. out' = tail
    BY <1>1, <1>9, <1>10
  <2>2. \A j \in 1..Len(out') : out'[j].kind # "ip"
    BY <1>8, <2>1
  <2>3. \A f \in InHand' : f.kind # "ip"
    BY <2>2 DEF InHand
  <2>4. Queues(arp', InHand', given')
    BY <1>7, <2>3 DEF Queues, Ahead
  <2> QED BY <1>1, <1>5, <1>7, <2>2, <2>3, <2>4, OrderHandler DEF Before
<1>11. CASE done.out # << >>
  <2>1. NoneFor(arp', h)
    BY <1>1, <1>4, <1>11
  <2>2. PICK i \in Slots : done.out = Flush(arp.table[i].q, h)
    BY <1>4, <1>11
  <2> DEFINE q == arp.table[i].q
  <2>3. q \in Seq(Pkt)
    BY DEF NetInv, ArpInv, ArpType, ArpRec, Entry
  <2>4. /\ \A n \in 1..Len(q) : q[n].n <= given /\ \A f \in OnWay : Ahead(f, q[n])
        /\ \A n, m \in 1..Len(q) : n < m => q[n].n < q[m].n
    BY <1>6 DEF Queues
  <2> HIDE DEF q
  <2>5. \A j \in 1..Len(out') : \/ out'[j].kind # "ip"
                                \/ j \in 1..Len(q) /\ out'[j] = IpFrame(h, q[j])
    <3>1. /\ Len(done.out) = Len(q) /\ \A j \in 1..Len(q) : done.out[j] = IpFrame(h, q[j])
      BY <2>2, <2>3 DEF Flush, q
    <3>2. ASSUME NEW j \in 1..Len(out')
          PROVE  out'[j].kind # "ip" \/ (j \in 1..Len(q) /\ out'[j] = IpFrame(h, q[j]))
      <4>1. CASE j <= Len(q)
        BY <1>1, <1>4, <1>9, <2>3, <3>1, <4>1
      <4>2. CASE j > Len(q)
        <5>1. j - Len(q) \in 1..Len(tail) /\ out'[j] = tail[j - Len(q)]
          BY <1>1, <1>4, <1>9, <2>3, <3>1, <4>2
        <5> QED BY <1>8, <5>1
      <4> QED BY <2>3, <4>1, <4>2
    <3> QED BY <3>2
  <2>6. \A j, l \in 1..Len(out') : j < l => Before(out'[j], out'[l])
    <3> SUFFICES ASSUME NEW j \in 1..Len(out'), NEW l \in 1..Len(out'), j < l,
                        out'[j].kind = "ip", out'[l].kind = "ip"
                 PROVE  out'[j].pkt.n < out'[l].pkt.n
      BY DEF Before, Ahead
    <3>1. /\ j \in 1..Len(q) /\ l \in 1..Len(q)
          /\ out'[j] = IpFrame(h, q[j]) /\ out'[l] = IpFrame(h, q[l])
      BY <2>5
    <3>2. out'[j].pkt = q[j] /\ out'[l].pkt = q[l]
      BY <3>1 DEF IpFrame
    <3> QED BY <2>4, <3>1, <3>2
  <2>7. \A f \in InHand' : \/ f.kind # "ip"
                           \/ \E n \in 1..Len(q) : f = IpFrame(h, q[n])
    BY <2>5 DEF InHand
  <2>8. \A f \in Gone \cup Aboard : \A g \in InHand' : Before(f, g)
    BY <2>4, <2>7 DEF Before, IpFrame, OnWay
  <2>9. \A f \in InHand' : f.kind = "ip" => f.pkt.n <= given' /\ f.pkt.to = h
    <3>1. ASSUME NEW n \in 1..Len(q) PROVE q[n].to = h
      <4>1. n \in 1..Len(done.out) /\ done.out[n] = IpFrame(h, q[n])
        BY <2>2, <2>3 DEF Flush, q
      <4>2. IpFrame(h, q[n]) \in GoodFrame
        BY <1>4, <4>1
      <4>3. IpFrame(h, q[n]) \in IpFrames
        BY <4>2, Frames DEF IpFrame
      <4> QED BY <4>3 DEF IpFrames, IpFrame
    <3> QED BY <1>5, <2>4, <2>7, <3>1 DEF IpFrame
  <2>10. Queues(arp', InHand', given')
    BY <1>7, <2>1, <2>9 DEF Queues, NoneFor, Ahead
  <2> QED BY <1>1, <1>5, <1>7, <2>6, <2>8, <2>9, <2>10, OrderHandler, SMTT(30)
<1> QED BY <1>10, <1>11

(* A packet sent or queued has the highest number so far. *)
LEMMA OrderSend ==
  ASSUME NetInv, OrderInv, ~over, udp_send_process
  PROVE  OrderInv'
<1> DEFINE p == [to |-> Clients[client], n |-> given + 1]
           done == etharp_query(arp, p)
<1>1. /\ out = << >> /\ UNCHANGED <<own, buf, len, toSet, txDma, wire, copied, over>>
      /\ given' = given + 1 /\ given < MaxPkt /\ arp' = done.arp /\ out' = done.out
  BY DEF udp_send_process, txVars
<1>2. given \in Nat /\ given' \in Nat /\ p \in Pkt /\ p.n = given + 1
  BY <1>1, NetworkAssumption DEF NetInv, MainTypes, Pkt, Peers
<1> HIDE DEF p
<1>3. /\ ArpInv(done.arp)
      /\ \/ done.out = <<IpFrame(p.to, p)>> /\ Flow(arp, done.arp) /\ NoneFor(done.arp, p.to)
         \/ done.out = <<Request(p.to)>> /\ Grown(arp, done.arp, p)
  BY <1>2, Asked DEF NetInv
<1> HIDE DEF done
<1>4. Queues(arp, OnWay, given) /\ Numbered
  BY DEF OrderInv
<1>5. \A f \in OnWay : Ahead(f, p)
  <2>1. ASSUME NEW f \in OnWay, f.kind = "ip" PROVE f.pkt.n < p.n
    BY <1>2, <1>4, <2>1, OnTheWay DEF Numbered
  <2> QED BY <2>1 DEF Ahead
<1>6. \A i \in Slots : \A n \in 1..Len(arp.table[i].q) : arp.table[i].q[n].n \in Nat
  <2>1. ASSUME NEW i \in Slots, NEW n \in 1..Len(arp.table[i].q) PROVE arp.table[i].q[n].n \in Nat
    <3>1. arp.table[i].q \in Seq(Pkt)
      BY DEF NetInv, ArpInv, ArpType, ArpRec, Entry
    <3>2. arp.table[i].q[n] \in Pkt
      BY <3>1
    <3> QED BY <3>2 DEF Pkt
  <2> QED BY <2>1
<1>7. Queues(arp, OnWay, given')
  BY <1>1, <1>2, <1>4, <1>6 DEF Queues
<1>8. CASE done.out = <<IpFrame(p.to, p)>> /\ Flow(arp, done.arp) /\ NoneFor(done.arp, p.to)
  <2>1. Len(out') = 1 /\ out'[1] = IpFrame(p.to, p)
    BY <1>1, <1>8
  <2>2. InHand' = {IpFrame(p.to, p)}
    BY <2>1 DEF InHand
  <2>3. /\ IpFrame(p.to, p).kind = "ip" /\ IpFrame(p.to, p).pkt = p
    BY DEF IpFrame
  <2>4. Queues(arp', Gone \cup Aboard, given')
    BY <1>1, <1>7, <1>8, QueuesFlow DEF OnWay
  <2>5. Queues(arp', InHand', given')
    BY <1>1, <1>8, <2>2, <2>3, <2>4 DEF Queues, NoneFor, Ahead
  <2>6. \A f \in Gone \cup Aboard : \A g \in InHand' : Before(f, g)
    BY <1>5, <2>2, <2>3 DEF Before, OnWay
  <2>7. \A f \in InHand' : f.kind = "ip" => f.pkt.n <= given'
    BY <1>1, <1>2, <2>2, <2>3
  <2>8. \A j, l \in 1..Len(out') : j < l => Before(out'[j], out'[l])
    BY <2>1
  <2> QED BY <1>1, <1>2, <2>4, <2>5, <2>6, <2>7, <2>8, OrderHandler
<1>9. CASE done.out = <<Request(p.to)>> /\ Grown(arp, done.arp, p)
  <2>1. Len(out') = 1 /\ out'[1] = Request(p.to)
    BY <1>1, <1>9
  <2>2. InHand' = {Request(p.to)} /\ Request(p.to).kind # "ip"
    BY <2>1 DEF InHand, Request
  <2>3. Queues(arp', OnWay, given')
    <3> SUFFICES ASSUME NEW i \in Slots, NEW n \in 1..Len(arp'.table[i].q)
                 PROVE  /\ arp'.table[i].q[n].n <= given'
                        /\ \A f \in OnWay : Ahead(f, arp'.table[i].q[n])
                        /\ \A m \in 1..Len(arp'.table[i].q) :
                             n < m => arp'.table[i].q[n].n < arp'.table[i].q[m].n
      BY DEF Queues
    <3> DEFINE r == arp'.table[i].q
    <3>1. PICK q \in {arp.table[i].q, << >>} : r = q \/ r = Append(q, p)
      BY <1>1, <1>9 DEF Grown
    <3>2. /\ q \in Seq(Pkt)
          /\ \A k \in 1..Len(q) : /\ q[k].n \in Nat /\ q[k].n <= given
                                  /\ \A f \in OnWay : Ahead(f, q[k])
                                  /\ \A m \in 1..Len(q) : k < m => q[k].n < q[m].n
      <4>1. arp.table[i].q \in Seq(Pkt)
        BY DEF NetInv, ArpInv, ArpType, ArpRec, Entry
      <4>2. CASE q = arp.table[i].q
        BY <1>4, <1>6, <4>1, <4>2 DEF Queues
      <4>3. CASE q = << >>
        BY <4>3, NoPackets
      <4> QED BY <3>1, <4>2, <4>3
    <3> HIDE DEF r
    <3>3. \A k \in 1..Len(r) : \/ r[k] = p /\ k = Len(q) + 1
                               \/ k \in 1..Len(q) /\ r[k] = q[k]
      BY <3>1, <3>2, SMTT(30)
    <3>4. Len(r) = Len(q) \/ Len(r) = Len(q) + 1
      BY <3>1, <3>2
    <3>5. n \in 1..Len(r) /\ Len(q) \in Nat /\ Len(r) \in Nat
      BY <3>2, <3>4 DEF r
    <3>6. r[n].n <= given' /\ \A f \in OnWay : Ahead(f, r[n])
      BY <1>1, <1>2, <1>5, <3>2, <3>3, <3>5
    <3>7. ASSUME NEW m \in 1..Len(r), n < m PROVE r[n].n < r[m].n
      <4>1. n \in 1..Len(q) /\ r[n] = q[n]
        BY <3>3, <3>4, <3>5, <3>7
      <4>2. CASE m \in 1..Len(q) /\ r[m] = q[m]
        BY <3>2, <3>7, <4>1, <4>2
      <4>3. CASE r[m] = p /\ m = Len(q) + 1
        BY <1>2, <3>2, <4>1, <4>3
      <4> QED BY <3>3, <3>7, <4>2, <4>3
    <3> QED BY <3>6, <3>7 DEF r
  <2>4. Queues(arp', Gone \cup Aboard, given') /\ Queues(arp', InHand', given')
    BY <2>2, <2>3 DEF Queues, OnWay, Ahead
  <2>5. \A f \in Gone \cup Aboard : \A g \in InHand' : Before(f, g)
    BY <2>2 DEF Before
  <2>6. \A j, l \in 1..Len(out') : j < l => Before(out'[j], out'[l])
    BY <2>1
  <2> QED BY <1>1, <1>2, <2>2, <2>4, <2>5, <2>6, OrderHandler
<1> QED BY <1>3, <1>8, <1>9

(* The copy goes into an idle buffer, or over is set. *)
LEMMA OrderCopy ==
  ASSUME NetInv, OrderInv, Copy
  PROVE  OrderInv'
<1> SUFFICES ASSUME ~over' PROVE (Whole /\ Lanes /\ Queues(arp, OnWay, given) /\ Numbered)'
  BY DEF OrderInv
<1>1. /\ ~over /\ ~own[toSet]
      /\ UNCHANGED <<own, len, toSet, txDma, wire, out, given, arp>>
      /\ buf' = [buf EXCEPT ![toSet] = Head(out)]
  BY DEF Copy, mainVars
<1>2. Whole /\ Lanes /\ Queues(arp, OnWay, given) /\ Numbered
  BY <1>1 DEF OrderInv
<1>3. Sending' = Sending /\ toSet \notin Sending
  BY <1>1 DEF Sending
<1>4. buf'[toSet] = Head(out) /\ \A d \in Sending : buf'[d] = buf[d]
  BY <1>1, <1>3 DEF NetInv, TxTypes, Sending
<1>5. Gone' = Gone /\ Aboard' = Aboard /\ InHand' = InHand
  BY <1>1, <1>3, <1>4 DEF Gone, Aboard, InHand
<1>6. OnWay' = OnWay
  BY <1>5 DEF OnWay
<1>7. Whole'
  BY <1>1, <1>2, <1>3, <1>4 DEF Whole
<1>8. Lanes'
  BY <1>1, <1>2, <1>3, <1>4, <1>5 DEF Lanes, RingDist
<1>9. Queues(arp', OnWay', given') /\ Numbered'
  BY <1>1, <1>2, <1>6 DEF Numbered
<1> QED BY <1>7, <1>8, <1>9

(* The frame in the buffer becomes the last of the ring. *)
LEMMA OrderHandOver ==
  ASSUME NetInv, OrderInv, HandOver
  PROVE  OrderInv'
<1> SUFFICES ASSUME ~over' PROVE (Whole /\ Lanes /\ Queues(arp, OnWay, given) /\ Numbered)'
  BY DEF OrderInv
<1>1. /\ ~over /\ copied /\ UNCHANGED <<buf, txDma, wire, given, arp>>
      /\ out' = Tail(out) /\ copied' = FALSE
  BY DEF HandOver, mainVars
<1>2. Whole /\ Lanes /\ Queues(arp, OnWay, given) /\ Numbered
  BY <1>1 DEF OrderInv
<1>3. toSet \in TxSlots /\ buf[toSet] = Head(out) /\ toSet \notin Sending
  BY <1>1, <1>2 DEF Whole, NetInv, TxTypes
<1>4. /\ own' = [own EXCEPT ![toSet] = TRUE] /\ len' = [len EXCEPT ![toSet] = Head(out)]
  BY <1>3 DEF HandOver, ETH_TxPkt_ChainMode, Sending
<1>5. Sending' = Sending \cup {toSet}
  BY <1>3, <1>4 DEF Sending, NetInv, TxTypes
<1>6. out \in Seq(GoodFrame) /\ out # << >>
  BY <1>1 DEF NetInv, OutTypes
<1>7. /\ Len(out) \in Nat /\ Len(out) >= 1 /\ Len(out') = Len(out) - 1 /\ Head(out) = out[1]
      /\ \A j \in 1..Len(out') : j + 1 \in 1..Len(out) /\ out'[j] = out[j + 1]
  BY <1>1, <1>6
<1>8. Head(out) \in InHand /\ InHand' \subseteq InHand
  BY <1>7 DEF InHand
<1>9. Gone' = Gone /\ Aboard' = Aboard \cup {Head(out)}
  BY <1>1, <1>3, <1>5 DEF Gone, Aboard
<1>10. OnWay' \subseteq OnWay
  BY <1>8, <1>9 DEF OnWay
<1>11. Whole'
  <2>1. len'[toSet] = Head(out) /\ \A d \in Sending : len'[d] = len[d]
    BY <1>3, <1>4 DEF NetInv, TxTypes, Sending
  <2>2. \A d \in Sending' : buf'[d] = len'[d]
    BY <1>1, <1>2, <1>3, <1>5, <2>1 DEF Whole
  <2>3. \A k \in 1..Len(wire') : wire'[k].whole
    BY <1>1, <1>2 DEF Whole
  <2> QED BY <1>1, <2>2, <2>3 DEF Whole
<1>12. Lanes'
  <2>1. \A d \in Sending : RingDist(d) < RingDist(toSet) /\ ~(RingDist(toSet) < RingDist(d))
    <3>1. InStep(Sending, txDma, toSet, ETH_TXBUFNB) /\ txDma \in 0..(ETH_TXBUFNB - 1)
      BY DEF NetInv, Rings, TxTypes, TxSlots
    <3>2. \A d \in Sending : RingDist(d) < RingDist(toSet)
      BY <1>3, <3>1, RingLast, Sizes DEF RingDist
    <3>3. \A d \in TxSlots : RingDist(d) \in Nat
      BY <3>1, Sizes DEF RingDist, Dist, TxSlots
    <3> QED BY <1>3, <3>2, <3>3 DEF Sending
  <2>2. ~(RingDist(toSet) < RingDist(toSet))
    <3>1. RingDist(toSet) \in Nat
      BY <1>3, Sizes DEF RingDist, Dist, TxSlots, NetInv, TxTypes
    <3> QED BY <3>1
  <2>3. \A d \in Sending : Before(buf[d], Head(out))
    BY <1>2, <1>8 DEF Lanes, Aboard
  <2>4. \A d, e \in Sending' : RingDist(d)' < RingDist(e)' => Before(buf'[d], buf'[e])
    <3>1. ASSUME NEW d \in Sending', NEW e \in Sending', RingDist(d) < RingDist(e)
          PROVE  Before(buf[d], buf[e])
      <4>1. CASE e \in Sending
        BY <1>2, <1>5, <2>1, <3>1, <4>1 DEF Lanes
      <4>2. CASE e = toSet
        BY <1>3, <1>5, <2>2, <2>3, <3>1, <4>2
      <4> QED BY <1>5, <4>1, <4>2
    <3> QED BY <1>1, <3>1 DEF RingDist
  <2>5. \A j, l \in 1..Len(out') : j < l => Before(out'[j], out'[l])
    BY <1>2, <1>7, SMTT(30) DEF Lanes
  <2>6. \A f \in Gone' : \A g \in Aboard' : Before(f, g)
    BY <1>2, <1>8, <1>9 DEF Lanes
  <2>7. \A g \in InHand' : Before(Head(out), g)
    <3>1. ASSUME NEW j \in 1..Len(out') PROVE Before(Head(out), out'[j])
      <4>1. 1 \in 1..Len(out) /\ j + 1 \in 1..Len(out) /\ 1 < j + 1 /\ out'[j] = out[j + 1]
        BY <1>7
      <4> QED BY <1>2, <1>7, <4>1 DEF Lanes
    <3> QED BY <3>1 DEF InHand
  <2>8. \A f \in Gone' \cup Aboard' : \A g \in InHand' : Before(f, g)
    BY <1>2, <1>8, <1>9, <2>7 DEF Lanes
  <2>9. \A k, m \in 1..Len(wire') : k < m => Before(wire'[k].frame, wire'[m].frame)
    BY <1>1, <1>2 DEF Lanes
  <2> QED BY <2>4, <2>5, <2>6, <2>8, <2>9 DEF Lanes
<1>13. Queues(arp', OnWay', given') /\ Numbered'
  <2>1. Flow(arp, arp')
    BY <1>1 DEF Flow
  <2> QED BY <1>1, <1>2, <1>10, <2>1, QueuesFlow DEF Numbered
<1> QED BY <1>11, <1>12, <1>13

(* The first frame of the ring becomes the last on the wire. *)
LEMMA OrderTransmit ==
  ASSUME NetInv, OrderInv, Transmit
  PROVE  OrderInv'
<1> SUFFICES ASSUME ~over' PROVE (Whole /\ Lanes /\ Queues(arp, OnWay, given) /\ Numbered)'
  BY DEF OrderInv
<1> DEFINE first == buf[txDma]
           x == [frame |-> first, whole |-> first = len[txDma]]
<1>1. /\ ~over /\ own[txDma] /\ own' = [own EXCEPT ![txDma] = FALSE]
      /\ txDma' = (txDma + 1) % ETH_TXBUFNB
      /\ wire' = IF first.kind # "ip" THEN wire ELSE Append(wire, x)
      /\ UNCHANGED <<out, copied, toSet, given, arp>>
  BY DEF Transmit, mainVars, outVars
<1>2. Whole /\ Lanes /\ Queues(arp, OnWay, given) /\ Numbered
  BY <1>1 DEF OrderInv
<1>3. txDma \in TxSlots /\ txDma \in Sending /\ Sending' = Sending \ {txDma}
  BY <1>1 DEF Sending, NetInv, TxTypes
<1>4. \A d \in Sending' : buf'[d] = buf[d] /\ len'[d] = len[d]
  BY <1>3 DEF Transmit, Sending, NetInv, TxTypes
<1>5. copied => buf'[toSet] = buf[toSet]
  <2>1. CASE toSet = txDma
    BY <2>1 DEF Transmit
  <2>2. CASE toSet # txDma
    BY <2>2 DEF Transmit, NetInv, TxTypes
  <2> QED BY <2>1, <2>2
<1>6. first \in Aboard /\ x.frame = first /\ x.whole = (first = len[txDma])
  BY <1>3 DEF Aboard
<1>7. first = len[txDma]
  BY <1>2, <1>3 DEF Whole
<1>8. Aboard' \subseteq Aboard /\ InHand' = InHand
  BY <1>1, <1>3, <1>4 DEF Aboard, InHand
<1> HIDE DEF first, x
<1>9. \/ wire' = wire
      \/ /\ Len(wire) \in Nat /\ Len(wire') = Len(wire) + 1 /\ wire'[Len(wire) + 1] = x
         /\ \A k \in 1..Len(wire) : wire'[k] = wire[k]
  <2> DEFINE R == [frame : IpFrames, whole : BOOLEAN]
  <2>1. wire \in Seq(R)
    BY DEF NetInv, TxTypes
  <2> HIDE DEF R
  <2> QED BY <1>1, <2>1
<1>10. Len(wire) \in Nat
  <2> DEFINE R == [frame : IpFrames, whole : BOOLEAN]
  <2>1. wire \in Seq(R)
    BY DEF NetInv, TxTypes
  <2> HIDE DEF R
  <2> QED BY <2>1
<1>11. \A k \in 1..Len(wire') : \/ k \in 1..Len(wire) /\ wire'[k] = wire[k]
                                \/ k = Len(wire) + 1 /\ wire'[k] = x
  BY <1>9, <1>10
<1>12. Gone' \subseteq Gone \cup {first}
  BY <1>6, <1>11 DEF Gone
<1>13. OnWay' \subseteq OnWay
  BY <1>6, <1>8, <1>12 DEF OnWay
<1>14. Whole'
  <2>1. \A k \in 1..Len(wire') : wire'[k].whole
    BY <1>2, <1>6, <1>7, <1>11 DEF Whole
  <2>2. \A d \in Sending' : buf'[d] = len'[d]
    BY <1>2, <1>3, <1>4 DEF Whole
  <2>3. copied' => buf'[toSet'] = Head(out') /\ toSet' \notin Sending'
    BY <1>1, <1>2, <1>3, <1>5 DEF Whole
  <2> QED BY <2>1, <2>2, <2>3 DEF Whole
<1>15. Lanes'
  <2>1. \A d \in Sending' : Before(first, buf[d])
    <3>1. ASSUME NEW d \in Sending' PROVE RingDist(txDma) < RingDist(d)
      <4>1. d \in 0..(ETH_TXBUFNB - 1) /\ txDma \in 0..(ETH_TXBUFNB - 1) /\ d # txDma
        BY <1>3 DEF Sending, TxSlots
      <4> QED BY <4>1, RingOrder, Sizes DEF RingDist
    <3> QED BY <1>2, <1>3, <3>1 DEF Lanes, first
  <2>2. \A d, e \in Sending' : RingDist(d)' < RingDist(e)' => Before(buf'[d], buf'[e])
    <3>1. ASSUME NEW d \in Sending', NEW e \in Sending', RingDist(d)' < RingDist(e)'
          PROVE  RingDist(d) < RingDist(e)
      <4>1. /\ d \in 0..(ETH_TXBUFNB - 1) /\ e \in 0..(ETH_TXBUFNB - 1)
            /\ txDma \in 0..(ETH_TXBUFNB - 1) /\ d # txDma /\ e # txDma
        BY <1>3 DEF Sending, TxSlots
      <4>2. Dist(txDma', d, ETH_TXBUFNB) < Dist(txDma', e, ETH_TXBUFNB)
        BY <3>1 DEF RingDist
      <4> QED BY <1>1, <4>1, <4>2, RingOrder, Sizes DEF RingDist
    <3> QED BY <1>2, <1>3, <1>4, <3>1 DEF Lanes
  <2>3. \A f \in Gone : Before(f, first)
    BY <1>2, <1>6 DEF Lanes
  <2>4. \A k, m \in 1..Len(wire') : k < m => Before(wire'[k].frame, wire'[m].frame)
    <3>1. ASSUME NEW k \in 1..Len(wire'), NEW m \in 1..Len(wire'), k < m
          PROVE  Before(wire'[k].frame, wire'[m].frame)
      <4>1. k \in 1..Len(wire) /\ wire'[k] = wire[k]
        BY <1>10, <1>11, <3>1
      <4>2. CASE m \in 1..Len(wire) /\ wire'[m] = wire[m]
        BY <1>2, <3>1, <4>1, <4>2 DEF Lanes
      <4>3. CASE wire'[m] = x
        BY <1>6, <2>3, <4>1, <4>3 DEF Gone
      <4> QED BY <1>11, <4>2, <4>3
    <3> QED BY <3>1
  <2>5. \A f \in Gone' : \A g \in Aboard' : Before(f, g)
    <3>1. \A g \in Aboard' : Before(first, g)
      BY <1>4, <2>1 DEF Aboard
    <3> QED BY <1>2, <1>8, <1>12, <3>1 DEF Lanes
  <2>6. \A f \in Gone' \cup Aboard' : \A g \in InHand' : Before(f, g)
    BY <1>2, <1>6, <1>8, <1>12 DEF Lanes
  <2>7. \A j, l \in 1..Len(out') : j < l => Before(out'[j], out'[l])
    BY <1>1, <1>2 DEF Lanes
  <2> QED BY <2>2, <2>4, <2>5, <2>6, <2>7 DEF Lanes
<1>16. Queues(arp', OnWay', given') /\ Numbered'
  <2>1. Flow(arp, arp')
    BY <1>1 DEF Flow
  <2> QED BY <1>1, <1>2, <1>13, <2>1, QueuesFlow DEF Numbered
<1> QED BY <1>14, <1>15, <1>16

LEMMA OrderKept == NetInv /\ OrderInv /\ [Next]_vars => OrderInv'
<1> SUFFICES ASSUME NetInv, OrderInv, [Next]_vars PROVE OrderInv'
  OBVIOUS
<1> USE DEF mainVars, txVars, rxVars, outVars
<1>0. arp' = arp => Flow(arp, arp')
  BY DEF Flow
<1>1. CASE Copy
  BY <1>1, OrderCopy
<1>2. CASE HandOver
  BY <1>2, OrderHandOver
<1>3. CASE LwIP_Pkt_Handle
  <2>1. CASE ETH_GetRxPktSize
    <3>1. CASE ~over
      BY <1>3, <2>1, <3>1, OrderReceive
    <3>2. CASE over
      BY <1>3, <3>2 DEF LwIP_Pkt_Handle, OrderInv
    <3> QED BY <3>1, <3>2
  <2>2. CASE ~ETH_GetRxPktSize
    BY <1>0, <1>3, <2>2, OrderQuiet DEF LwIP_Pkt_Handle
  <2> QED BY <2>1, <2>2
<1>4. CASE \E due \in BOOLEAN : LwIP_Periodic_Handle(due)
  <2>1. PICK due \in BOOLEAN : LwIP_Periodic_Handle(due)
    BY <1>4
  <2>2. Flow(arp, arp')
    BY <1>0, <2>1, TableAged DEF LwIP_Periodic_Handle, NetInv
  <2> QED BY <2>1, <2>2, OrderQuiet DEF LwIP_Periodic_Handle
<1>5. CASE SkipClient
  BY <1>0, <1>5, OrderQuiet DEF SkipClient
<1>6. CASE udp_send_process
  <2>1. CASE ~over
    BY <1>6, <2>1, OrderSend
  <2>2. CASE over
    BY <1>6, <2>2 DEF udp_send_process, OrderInv
  <2> QED BY <2>1, <2>2
<1>7. CASE Transmit
  BY <1>7, OrderTransmit
<1>8. CASE Arrive
  BY <1>0, <1>8, OrderQuiet DEF Arrive
<1>9. CASE ArriveLong
  BY <1>0, <1>9, OrderQuiet DEF ArriveLong
<1>10. CASE UNCHANGED vars
  BY <1>0, <1>10, OrderQuiet DEF vars
<1> QED
  BY <1>1, <1>2, <1>3, <1>4, <1>5, <1>6, <1>7, <1>8, <1>9, <1>10 DEF Next, Main, Endless

(* The invariant of the frames on their way, from udp_send_process to the  *)
(* DMA.                                                                    *)
LEMMA OrderInvHolds == Spec => []OrderInv
BY OrderInit, OrderKept, NetInvHolds, PTL DEF Spec

(* Unless a frame was copied into a buffer of the DMA, the packets for a   *)
(* host leave whole, each once, and in the order they were given.          *)
THEOREM PacketsInOrder == Spec => []InOrder
<1>1. NetInv /\ OrderInv => InOrder
  <2> SUFFICES ASSUME NetInv, OrderInv, ~over, NEW k \in DOMAIN wire
               PROVE  /\ wire[k].whole
                      /\ \A m \in 1..(k - 1) : wire[m].frame.pkt.to = wire[k].frame.pkt.to
                                                => wire[m].frame.pkt.n < wire[k].frame.pkt.n
    BY DEF InOrder
  <2> DEFINE R == [frame : IpFrames, whole : BOOLEAN]
  <2>1. wire \in Seq(R)
    BY DEF NetInv, TxTypes
  <2>2. DOMAIN wire = 1..Len(wire) /\ Len(wire) \in Nat /\ \A m \in 1..Len(wire) : wire[m] \in R
    <3> HIDE DEF R
    <3> QED BY <2>1
  <2>3. Whole /\ Lanes
    BY DEF OrderInv
  <2>4. \A m \in 1..Len(wire) : wire[m].frame.kind = "ip"
    BY <2>2 DEF IpFrames, IpFrame
  <2>5. wire[k].whole
    BY <2>2, <2>3 DEF Whole
  <2>6. ASSUME NEW m \in 1..(k - 1), wire[m].frame.pkt.to = wire[k].frame.pkt.to
        PROVE  wire[m].frame.pkt.n < wire[k].frame.pkt.n
    <3>1. k \in 1..Len(wire) /\ m \in 1..Len(wire) /\ m < k
      BY <2>2
    <3>2. Before(wire[m].frame, wire[k].frame)
      BY <2>3, <3>1 DEF Lanes
    <3> QED BY <2>4, <2>6, <3>1, <3>2 DEF Before, Ahead
  <2> QED BY <2>5, <2>6
<1> QED BY <1>1, OrderInvHolds, NetInvHolds, PTL

(* What low_level_output answers ERR_OK for is in a descriptor of the DMA, *)
(* with its length, unless a frame was copied into a buffer the DMA owns:  *)
(* only then is the answer not true of a frame (OkMeansSent).              *)
THEOREM OkMeansSentUnlessOver == Spec => [][~over => OkSent]_vars
<1>1. NetInv /\ OrderInv /\ [Next]_vars => (~over => OkSent)
  <2> SUFFICES ASSUME NetInv, OrderInv, [Next]_vars, ~over, copied, ~copied'
               PROVE  own'[toSet] /\ buf'[toSet] = Head(out) /\ len'[toSet] = Head(out)
    BY DEF OkSent
  <2>1. HandOver
    BY DEF Next, Main, Copy, LwIP_Pkt_Handle, LwIP_Periodic_Handle, SkipClient, udp_send_process,
           Endless, Transmit, Arrive, ArriveLong, outVars, vars
  <2>2. buf[toSet] = Head(out) /\ ~own[toSet]
    BY DEF OrderInv, Whole, Sending, NetInv, TxTypes
  <2>3. /\ toSet \in DOMAIN own /\ toSet \in DOMAIN len
        /\ own' = [own EXCEPT ![toSet] = TRUE] /\ len' = [len EXCEPT ![toSet] = Head(out)]
    BY <2>1, <2>2 DEF HandOver, ETH_TxPkt_ChainMode, NetInv, TxTypes
  <2> QED BY <2>1, <2>2, <2>3 DEF HandOver
<1> QED BY <1>1, OrderInvHolds, NetInvHolds, PTL DEF Spec
=============================================================================
