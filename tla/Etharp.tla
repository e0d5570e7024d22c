------------------------------- MODULE Etharp -------------------------------
(***************************************************************************)
(* The ARP table of lwIP (netif/etharp.c) as operators.  An ARP state a is *)
(* a record: the table, the index of the entry found last, and the number  *)
(* of free elements of the pool MEMP_ARP_QUEUE.  An operation gives the    *)
(* next ARP state and the frames it hands to low_level_output, in order.   *)
(* Addresses are abstract: the hardware address of a host is its name.     *)
(***************************************************************************)
EXTENDS Integers, Sequences, FiniteSets

CONSTANTS Hosts,
          ARP_TABLE_SIZE, MEMP_NUM_ARP_QUEUE, ARP_MAXAGE, ARP_MAXPENDING

ASSUME EtharpAssumption ==
  /\ ARP_TABLE_SIZE \in Nat \ {0} /\ MEMP_NUM_ARP_QUEUE \in Nat
  /\ ARP_MAXAGE \in Nat \ {0} /\ ARP_MAXPENDING \in Nat \ {0, 1}

NoHost == "none"
Slots == 0..(ARP_TABLE_SIZE - 1)
NoSlot == -1

NoEntry == [state |-> "EMPTY", ip |-> NoHost, eth |-> NoHost, ctime |-> 0, q |-> <<>>]
ArpInit ==
  [table |-> [i \in Slots |-> NoEntry],
   cached |-> 0,
   free |-> MEMP_NUM_ARP_QUEUE]

(* Frames: an IP packet for a hardware address, an ARP request, a reply. *)
IpFrame(eth, p) == [kind |-> "ip", eth |-> eth, pkt |-> p]
Request(h) == [kind |-> "request", ip |-> h]
Reply(eth) == [kind |-> "reply", eth |-> eth]

In(a, state) == {i \in Slots : a.table[i].state = state}
Queueing(a) == {i \in In(a, "PENDING") : a.table[i].q # <<>>}

(* Mutant: pending entries are not searched. *)
MatchingStable(a, h) == {i \in In(a, "STABLE") : a.table[i].ip = h}

Matching(a, h) == {i \in Slots : a.table[i].state # "EMPTY" /\ a.table[i].ip = h}

First(S) == CHOOSE i \in S : \A j \in S : i <= j
Oldest(a, S) ==
  CHOOSE i \in S : \A j \in S :
    LET ti == a.table[i].ctime  tj == a.table[j].ctime
    IN tj < ti \/ (tj = ti /\ j <= i)

(* The entry to use for a new address: an empty one, or the one whose loss *)
(* does least harm.                                                        *)
Recyclable(a) ==
  LET idle == In(a, "PENDING") \ Queueing(a)
  IN IF In(a, "EMPTY") # {} THEN First(In(a, "EMPTY"))
     ELSE IF In(a, "STABLE") # {} THEN Oldest(a, In(a, "STABLE"))
     ELSE IF idle # {} THEN Oldest(a, idle)
     ELSE Oldest(a, Queueing(a))

(* Mutant: the elements of the queue are not given back. *)
RecycleLeaking(a, i, h) ==
  [a EXCEPT !.cached = i,
            !.table[i] = [@ EXCEPT !.state = "EMPTY", !.ip = h, !.eth = NoHost, !.ctime = 0,
                                   !.q = IF i \in Queueing(a) THEN <<>> ELSE a.table[i].q]]

Recycle(a, i, h) ==
  [a EXCEPT !.cached = i,
            !.free = @ + IF i \in Queueing(a) THEN Len(a.table[i].q) ELSE 0,
            !.table[i] = [@ EXCEPT !.state = "EMPTY", !.ip = h, !.eth = NoHost, !.ctime = 0,
                                   !.q = IF i \in Queueing(a) THEN <<>> ELSE a.table[i].q]]

(* Mutant: the address is not compared. *)
CacheHitAny(a, h) == a.table[a.cached].state = "STABLE"

(* The cached entry is the one. *)
CacheHit(a, h) == a.table[a.cached].state = "STABLE" /\ a.table[a.cached].ip = h

(* hard: ETHARP_TRY_HARD. *)
find_entry(a, h, hard) ==
  IF CacheHit(a, h) THEN [i |-> a.cached, arp |-> a]
  ELSE IF Matching(a, h) # {}
    THEN LET i == First(Matching(a, h)) IN [i |-> i, arp |-> [a EXCEPT !.cached = i]]
  ELSE IF In(a, "EMPTY") = {} /\ ~hard THEN [i |-> NoSlot, arp |-> a]
  ELSE LET i == Recyclable(a) IN [i |-> i, arp |-> Recycle(a, i, h)]

(* Mutant: the packets are sent last in, first out. *)
FlushBackwards(q, eth) == [n \in 1..Len(q) |-> IpFrame(eth, q[Len(q) + 1 - n])]

(* The queued packets, sent in the order they came. *)
Flush(q, eth) == [n \in 1..Len(q) |-> IpFrame(eth, q[n])]

(* Host h, seen with hardware address eth. *)
update_arp_entry(a, h, eth, hard) ==
  LET found == find_entry(a, h, hard)
      i == found.i
      b == found.arp
  IN IF i = NoSlot THEN [arp |-> b, out |-> <<>>]
     ELSE [arp |-> [b EXCEPT !.free = @ + Len(b.table[i].q),
                             !.table[i] = [@ EXCEPT !.state = "STABLE", !.eth = eth,
                                                    !.ctime = 0, !.q = <<>>]],
           out |-> Flush(b.table[i].q, eth)]

(* Packet p for p.to: sent if the address is known; otherwise asked for,   *)
(* and the packet queued if the pool has an element.                       *)
etharp_query(a, p) ==
  LET found == find_entry(a, p.to, TRUE)
      i == found.i
      b == found.arp
      e == b.table[i]
  IN IF e.state = "STABLE" THEN [arp |-> b, out |-> <<IpFrame(e.eth, p)>>]
     ELSE [arp |-> IF b.free > 0
                     THEN [b EXCEPT !.free = @ - 1,
                                    !.table[i].state = "PENDING", !.table[i].q = Append(@, p)]
                     ELSE [b EXCEPT !.table[i].state = "PENDING"],
           out |-> <<Request(p.to)>>]

(* Mutant: the age is compared before it is counted up. *)
ExpiredLate(e) == \/ e.state = "STABLE" /\ e.ctime >= ARP_MAXAGE
                  \/ e.state = "PENDING" /\ e.ctime >= ARP_MAXPENDING

Expired(e) == \/ e.state = "STABLE" /\ e.ctime + 1 >= ARP_MAXAGE
              \/ e.state = "PENDING" /\ e.ctime + 1 >= ARP_MAXPENDING

(* Mutant: only stable entries grow old. *)
AgedStable(e) == IF e.state = "STABLE" THEN
                   IF Expired(e) THEN NoEntry ELSE [e EXCEPT !.ctime = @ + 1]
                 ELSE e

(* Nothing of an empty entry is read but its state. *)
Aged(e) == IF Expired(e) THEN NoEntry
           ELSE IF e.state = "EMPTY" THEN e
           ELSE [e EXCEPT !.ctime = @ + 1]

(* The elements of the pool in use: each queued packet has one. *)
InUse(a) == UNION {{i} \X (1..Len(a.table[i].q)) : i \in Slots}
Queued(a) == Cardinality(InUse(a))

etharp_tmr(a) ==
  LET b == [a EXCEPT !.table = [i \in Slots |-> Aged(a.table[i])]]
  IN [b EXCEPT !.free = @ + Queued(a) - Queued(b)]
=============================================================================
