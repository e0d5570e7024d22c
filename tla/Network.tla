------------------------------ MODULE Network ------------------------------
(***************************************************************************)
(* Below the UDP clients: the ARP table, the transmit and receive          *)
(* descriptor rings of ethernetif.c and the passes of the main loop        *)
(* through them: one received frame, the ARP timer, one packet per client. *)
(* The Ethernet DMA sends and stores frames at any moment.                 *)
(*                                                                         *)
(* A handler changes the ARP table and then hands its frames to            *)
(* low_level_output, one after the other (out).                            *)
(***************************************************************************)
EXTENDS Etharp

CONSTANTS Clients,       \* destinations of the UDP clients, in their order
          ETH_TXBUFNB, ETH_RXBUFNB,
          IndexEnd,      \* values of the u8 index of udp_receive_callback: 256
          TCP_RECEV_BUFF_SIZE,
          Lengths,       \* lengths of the datagrams that come
          MaxPkt,        \* bound: packets the clients send
          MaxFrames      \* bound: frames that come

ASSUME NetworkAssumption ==
  /\ Clients \in Seq(Hosts) /\ Len(Clients) > 0
  /\ ETH_TXBUFNB \in Nat \ {0} /\ ETH_RXBUFNB \in Nat \ {0}
  /\ Lengths \subseteq Nat /\ MaxPkt \in Nat /\ MaxFrames \in Nat

VARIABLES
  arp,
  pc, client,       \* the main loop, and the client it is at
  out, copied,      \* frames to hand over; the first is in the buffer
  own, buf, len,    \* transmit descriptors: OWN bit, buffer, and the frame whose length is set
  toSet, txDma,     \* DMATxDescToSet, and the descriptor the DMA is at
  rx, toGet, rxDma, \* receive descriptors (Free: owned by the DMA), likewise
  wire,             \* history: IP frames sent
  given,            \* packets given to etharp_output
  over,             \* history: a frame was copied into a buffer of the DMA
  frames            \* frames that have come

mainVars == <<pc, client, given>>
txVars == <<own, buf, len, toSet, txDma, wire>>
rxVars == <<rx, toGet, rxDma, frames>>
outVars == <<out, copied, over>>
vars == <<arp, mainVars, txVars, rxVars, outVars>>

TxSlots == 0..(ETH_TXBUFNB - 1)
RxSlots == 0..(ETH_RXBUFNB - 1)
Free == [kind |-> "free"]
Nothing == [kind |-> "nothing"]

Init == /\ arp = ArpInit
        /\ pc = "rx" /\ client = 1 /\ given = 0
        /\ own = [d \in TxSlots |-> FALSE]
        /\ buf = [d \in TxSlots |-> Nothing] /\ len = [d \in TxSlots |-> Nothing]
        /\ toSet = 0 /\ txDma = 0 /\ wire = <<>> 
        /\ rx = [d \in RxSlots |-> Free] /\ toGet = 0 /\ rxDma = 0 /\ frames = 0
        /\ out = <<>> /\ copied = FALSE /\ over = FALSE

----------------------------------------------------------------------------
(* low_level_output: the copy into the buffer of DMATxDescToSet, then      *)
(* ETH_TxPkt_ChainMode with its test of the OWN bit.  The result is        *)
(* ERR_OK either way.                                                      *)
Copy == /\ out # <<>> /\ ~copied
        /\ buf' = [buf EXCEPT ![toSet] = Head(out)]
        /\ over' = (over \/ own[toSet])
        /\ copied' = TRUE
        /\ UNCHANGED <<arp, mainVars, rxVars, out, own, len, toSet, txDma, wire>>

ETH_TxPkt_ChainMode ==
  IF own[toSet] THEN UNCHANGED <<own, len, toSet>>
  ELSE /\ own' = [own EXCEPT ![toSet] = TRUE]
       /\ len' = [len EXCEPT ![toSet] = Head(out)]
       /\ toSet' = (toSet + 1) % ETH_TXBUFNB

HandOver == /\ copied
            /\ ETH_TxPkt_ChainMode
            /\ out' = Tail(out) /\ copied' = FALSE
            /\ UNCHANGED <<arp, mainVars, rxVars, over, buf, txDma, wire>>

(* The DMA sends the frame its descriptor points to; a buffer is not read  *)
(* again unless the next frame is in it already.                           *)
Transmit == /\ own[txDma]
            /\ own' = [own EXCEPT ![txDma] = FALSE]
            /\ txDma' = (txDma + 1) % ETH_TXBUFNB
            /\ LET f == buf[txDma]
               IN wire' = IF f.kind # "ip" THEN wire
                          ELSE Append(wire, [frame |-> f, whole |-> f = len[txDma]])
            /\ buf' = IF copied /\ toSet = txDma THEN buf ELSE [buf EXCEPT ![txDma] = Nothing]
            /\ len' = [len EXCEPT ![txDma] = Nothing]
            /\ UNCHANGED <<arp, mainVars, rxVars, outVars, toSet>>

----------------------------------------------------------------------------
(* Frames come.  A peer replies, asked or not, or does not; hosts ask for  *)
(* us or for others, and the clients' peers send datagrams.  A frame       *)
(* longer than a buffer takes two.  What finds no descriptor is dropped.   *)
(* (A peer asking for another host has the effect of a datagram of its:    *)
(* only strangers do so here.)                                             *)
Peers == {Clients[c] : c \in DOMAIN Clients}
Coming == [kind : {"reply"}, from : Peers] \cup [kind : {"request"}, from : Hosts]
            \cup [kind : {"snoop"}, from : Hosts \ Peers]
            \cup [kind : {"ip"}, from : Peers, length : Lengths]

Receive(f) ==
  IF rx[rxDma] = Free
    THEN rx' = [rx EXCEPT ![rxDma] = f] /\ rxDma' = (rxDma + 1) % ETH_RXBUFNB
    ELSE UNCHANGED <<rx, rxDma>>

Arrive == /\ frames < MaxFrames
          /\ frames' = frames + 1
          /\ \E f \in Coming : Receive(f)
          /\ UNCHANGED <<arp, mainVars, txVars, outVars, toGet>>

ArriveLong ==
  /\ frames < MaxFrames
  /\ frames' = frames + 1
  /\ LET next == (rxDma + 1) % ETH_RXBUFNB
         part(which) == [kind |-> "part", which |-> which]
     IN IF rx[rxDma] = Free /\ next # rxDma /\ rx[next] = Free
          THEN /\ rx' = [rx EXCEPT ![rxDma] = part("first"), ![next] = part("last")]
               /\ rxDma' = (next + 1) % ETH_RXBUFNB
          ELSE Receive(part("first"))
  /\ UNCHANGED <<arp, mainVars, txVars, outVars, toGet>>

----------------------------------------------------------------------------
(* The main loop. *)

(* A whole frame without errors is at DMARxDescToGet. *)
ETH_GetRxPktSize == rx[toGet] # Free /\ rx[toGet].kind # "part"

(* udp_receive_callback copies up to TCP_RECEV_BUFF_SIZE bytes with an     *)
(* index of eight bits: the loop does not end if the length is out of the  *)
(* index's reach.                                                          *)
CopyEnds(f) == f.kind = "ip" => (f.length > TCP_RECEV_BUFF_SIZE \/ f.length < IndexEnd)

(* etharp_arp_input and etharp_ip_input. *)
ethernet_input(f) ==
  LET hard == f.kind \in {"reply", "request"}
      done == update_arp_entry(arp, f.from, f.from, hard)
  IN /\ arp' = done.arp
     /\ out' = done.out \o IF f.kind = "request" THEN <<Reply(f.from)>> ELSE <<>>

(* Mutant: the descriptor is not given back to the DMA. *)
low_level_inputKeeps == /\ toGet' = (toGet + 1) % ETH_RXBUFNB
                        /\ UNCHANGED rx

(* Mutant: DMARxDescToGet stays. *)
low_level_inputStays == /\ rx' = [rx EXCEPT ![toGet] = Free]
                        /\ UNCHANGED toGet

low_level_input == /\ rx' = [rx EXCEPT ![toGet] = Free]
                   /\ toGet' = (toGet + 1) % ETH_RXBUFNB

LwIP_Pkt_Handle ==
  /\ pc = "rx" /\ out = <<>>
  /\ IF ETH_GetRxPktSize
       THEN /\ low_level_input
            /\ ethernet_input(rx[toGet])
            /\ pc' = IF CopyEnds(rx[toGet]) THEN "timer" ELSE "endless"
       ELSE pc' = "timer" /\ UNCHANGED <<arp, out, rx, toGet>>
  /\ UNCHANGED <<client, given, txVars, rxDma, frames, copied, over>>

(* SysTick runs on between any two steps, so the ARP timer may be due in   *)
(* any pass: LocalTime - ARPTimer >= ARP_TMR_INTERVAL.                     *)
LwIP_Periodic_Handle(due) ==
  /\ pc = "timer" /\ out = <<>>
  /\ pc' = "send" /\ client' = 1
  /\ arp' = IF due THEN etharp_tmr(arp) ELSE arp
  /\ UNCHANGED <<given, txVars, rxVars, outVars>>

NextClient == /\ client' = IF client = Len(Clients) THEN 1 ELSE client + 1
              /\ pc' = IF client = Len(Clients) THEN "rx" ELSE "send"

(* The client has nothing to send. *)
SkipClient == /\ pc = "send" /\ out = <<>>
              /\ NextClient
              /\ UNCHANGED <<arp, given, txVars, rxVars, outVars>>

(* udp_send_process: the packet goes down to etharp_query. *)
udp_send_process ==
  /\ pc = "send" /\ out = <<>> /\ given < MaxPkt
  /\ given' = given + 1
  /\ LET done == etharp_query(arp, [to |-> Clients[client], n |-> given + 1])
     IN arp' = done.arp /\ out' = done.out
  /\ NextClient
  /\ UNCHANGED <<txVars, rxVars, copied, over>>

(* The copy loop that never ends. *)
Endless == pc = "endless" /\ out = <<>> /\ UNCHANGED vars

Main == \/ Copy \/ HandOver \/ LwIP_Pkt_Handle
        \/ \E due \in BOOLEAN : LwIP_Periodic_Handle(due)
        \/ SkipClient \/ udp_send_process
Next == Main \/ Endless \/ Transmit \/ Arrive \/ ArriveLong
Spec == Init /\ [][Next]_vars

(* The processor and the DMA run on, and so does the clock: the timer is   *)
(* due again and again.  Frames may stay out.                              *)
FairSpec == Spec /\ WF_vars(Main) /\ WF_vars(Transmit) /\ SF_vars(LwIP_Periodic_Handle(TRUE))
----------------------------------------------------------------------------
Pkt == [to : Peers, n : 1..MaxPkt]
Lifetime(state) == IF state = "PENDING" THEN ARP_MAXPENDING ELSE ARP_MAXAGE
TypeOK ==
  /\ \A i \in Slots : /\ arp.table[i].state \in {"EMPTY", "PENDING", "STABLE"}
                      /\ arp.table[i].ip \in Hosts \cup {NoHost}
                      /\ arp.table[i].eth \in Hosts \cup {NoHost}
                      /\ arp.table[i].ctime \in 0..(Lifetime(arp.table[i].state) - 1)
                      /\ arp.table[i].q \in Seq(Pkt)
  /\ arp.cached \in Slots /\ arp.free \in 0..MEMP_NUM_ARP_QUEUE
  /\ pc \in {"rx", "timer", "send", "endless"} /\ client \in DOMAIN Clients
  /\ copied \in BOOLEAN /\ over \in BOOLEAN
  /\ toSet \in TxSlots /\ txDma \in TxSlots /\ toGet \in RxSlots /\ rxDma \in RxSlots
  /\ own \in [TxSlots -> BOOLEAN]
  /\ given \in 0..MaxPkt /\ frames \in 0..MaxFrames

(* The ARP table never holds a host twice, however find_entry recycles     *)
(* entries; only a pending entry has packets waiting (the assertion of     *)
(* find_entry), and they are for its host.                                 *)
TableSound ==
  /\ \A i, j \in Slots \ In(arp, "EMPTY") : arp.table[i].ip = arp.table[j].ip => i = j
  /\ \A i \in Slots : arp.table[i].q # <<>> =>
       /\ arp.table[i].state = "PENDING"
       /\ \A n \in DOMAIN arp.table[i].q : arp.table[i].q[n].to = arp.table[i].ip

(* Flushing, expiring and recycling give back every element of the pool    *)
(* MEMP_ARP_QUEUE: it is never used up for good.                           *)
NoneLeaked == arp.free + Queued(arp) = MEMP_NUM_ARP_QUEUE

(* A packet on the wire carries the hardware address of the host it is     *)
(* for, whatever entries were recycled between its query and its sending,  *)
(* and even if it was copied over another frame.                           *)
RightHost == \A k \in DOMAIN wire : wire[k].frame.eth = wire[k].frame.pkt.to

(* The processor and the DMA never disagree about the rings: the           *)
(* descriptors of each side are the ones between the two pointers.         *)
Stretch(from, n, size) == {(from + k) % size : k \in 0..(n - 1)}
RingsInStep ==
  LET sending == {d \in TxSlots : own[d]}
      filled == {d \in RxSlots : rx[d] # Free}
  IN /\ sending = Stretch(txDma, Cardinality(sending), ETH_TXBUFNB)
     /\ toSet = (txDma + Cardinality(sending)) % ETH_TXBUFNB
     /\ filled = Stretch(toGet, Cardinality(filled), ETH_RXBUFNB)
     /\ rxDma = (toGet + Cardinality(filled)) % ETH_RXBUFNB

(* Unless a frame was copied into a buffer of the DMA, the packets for a   *)
(* host leave whole, each once, and in the order they were given, those    *)
(* that waited for the host's address before those that did not.           *)
InOrder ==
  ~over => \A k \in DOMAIN wire :
             /\ wire[k].whole
             /\ \A m \in 1..(k - 1) : wire[m].frame.pkt.to = wire[k].frame.pkt.to
                                       => wire[m].frame.pkt.n < wire[k].frame.pkt.n

(* low_level_output returns ERR_OK for what could be sent: the frame is    *)
(* then in a descriptor of the DMA, with its length.                       *)
OkSent == copied /\ ~copied' => /\ own'[toSet]
                                /\ buf'[toSet] = Head(out) /\ len'[toSet] = Head(out)
OkMeansSent == [][OkSent]_vars

----------------------------------------------------------------------------
(* No packet waits for an address for ever: the host answers, or the entry *)
(* grows old, although every new packet for it asks again.  (The clients   *)
(* stop at MaxPkt; the queues are then seen empty.)                        *)
QueueEmpties == []<>(Queued(arp) = 0 \/ pc = "endless")

(* The main loop comes round, and takes every frame that has come, unless  *)
(* one was longer than a buffer, or held a datagram out of the reach of    *)
(* the callback's index.                                                   *)
Blocked == pc = "endless" \/ (rx[toGet] # Free /\ rx[toGet].kind = "part")
FramesTaken == []<>((pc = "rx" /\ \A d \in RxSlots : rx[d] = Free) \/ Blocked)
=============================================================================
