---------------------------- MODULE GroundReport ----------------------------
(***************************************************************************)
(* The reporting path of the ground controller: a car passes the photo     *)
(* eye, EXTI4_IRQHandler puts a state node and an interval node into their *)
(* queues and two tokens into msgSendQueue; the main loop turns tokens     *)
(* into UDP frames for the WCS (client 0), copies interval reports to      *)
(* client 1 and state reports to client 3, answers parameter and repair    *)
(* commands and sends a heartbeat when nothing else was sent.              *)
(*                                                                         *)
(* Actors: the main loop, which every interrupt can preempt, and the       *)
(* interrupts EXTI4 (Photo) and SysTick (PositionReset, SecondTick), which *)
(* run to their end.  Each call of the main loop's body is one step: what  *)
(* it shares with an interrupt are the two interrupt-filled queues, whose  *)
(* operations RingQueueProofs shows to be atomic, and the token rings,     *)
(* whose enQueue is cut into its memory accesses as in SendQueue.          *)
(*                                                                         *)
(* A car passage is a number; state node, interval node and the frames     *)
(* built from them carry it.  Speed control, the other half of the same    *)
(* interrupts, shares no variable with this path.                          *)
(***************************************************************************)
EXTENDS Ring, Sequences, FiniteSets, SequencesExt

CONSTANTS MaxCar,       \* bound: car passages
          MaxRx,        \* bound: datagrams received from the WCS
          MsgLen,       \* msgSendQueueSize
          CarLen,       \* carSendQueueSize
          StateCap,     \* GND_STATE_LEN - 1
          IntervalCap,  \* INTERVAL_QUEUE_LEN - 1
          ThreeCap,     \* carthreeSendQueueSize - 1
          HeartDelay    \* HEART_DELAY

ASSUME BoundAssumption ==
  /\ MaxCar \in Nat /\ MaxRx \in Nat
  /\ MsgLen \in Nat \ {0, 1} /\ CarLen \in Nat \ {0, 1}
  /\ StateCap \in Nat \ {0} /\ IntervalCap \in Nat \ {0} /\ ThreeCap \in Nat \ {0}
  /\ HeartDelay \in Nat \ {0}

Car == 0..MaxCar                     \* 0: zeroed storage, no car yet
Client == 0..3
Token == {"NONE", "CMD", "INTERVAL", "REPLY", "VERSION", "REPLY_REPAIR"}
CarToken == {"NONE", "CAR"}
Datagram == {"PARA", "REPAIR", "OTHER"}

Frame == [kind : Token \cup {"HEART", "CAR"}, car : Car]
NoFrame == [kind |-> "NONE", car |-> 0]

VARIABLES
  passed,       \* cars that have passed the photo eye
  received,     \* datagrams received (bound only)
  eth,          \* EthInitStatus
  msgQ, carQ,   \* msgSendQueue, carSendQueue
  stateQ,       \* gndstatequeue
  intervalQ,    \* gnd2WcsIntervalQueue
  client,       \* tcp_client_list: statue, tcp_send_en, tcp_send_buf
  rx,           \* the datagram in client 0's tcp_recev_buf, "NONE" if none
  carfunint,    \* the interval report client 1 is told about
  GndThreemsg,  \* the state report client 3 is told about
  threeQ,       \* carthreeSendQueue: number of CMD tokens in it
  positionreset,\* TRUE while the 30 ms countdown runs
  heart_dely,
  sec_flag,
  pc,           \* the next call of the main loop's body
  en,           \* the enQueue the main loop is in, see InEnQueue
  accepted,     \* history: cars whose node a queue accepted
  handed        \* history: cars handed to UDP, by kind of report

vars == <<passed, received, eth, msgQ, carQ, stateQ, intervalQ, client, rx,
          carfunint, GndThreemsg, threeQ, positionreset, heart_dely, sec_flag,
          pc, en, accepted, handed>>

isrVars == <<passed, stateQ, intervalQ, sec_flag, positionreset>>
mainVars == <<received, eth, client, rx, carfunint, GndThreemsg, threeQ, heart_dely>>
ghostVars == <<accepted, handed>>

NotEn == [step |-> "off", q |-> "msg", token |-> "NONE", newRear |-> 0,
          index |-> 0, then |-> "loop"]

Init ==
  /\ passed = 0 /\ received = 0 /\ eth = 0
  /\ msgQ = initQueue("NONE", MsgLen)
  /\ carQ = initQueue("NONE", CarLen)
  /\ stateQ = << >> /\ intervalQ = << >>
  /\ client = [c \in Client |-> [statue |-> "NEW", send_en |-> 0, buf |-> NoFrame]]
  /\ rx = "NONE"
  /\ carfunint = 0 /\ GndThreemsg = 0 /\ threeQ = 0
  /\ positionreset = FALSE /\ heart_dely = 0 /\ sec_flag = 0
  /\ pc = "loop" /\ en = NotEn
  /\ accepted = [state |-> {}, interval |-> {}]
  /\ handed = [state |-> {}, interval |-> {}, car |-> {}, three |-> {}]

----------------------------------------------------------------------------
(* Mutants of the operations below: the errors the properties must detect. *)

(* Time_Update queues without % maxSize. *)
PositionResetNoModulo ==
  /\ positionreset
  /\ positionreset' = FALSE
  /\ carQ' = [carQ EXCEPT !.rear = carQ.rear + 1]
  /\ UNCHANGED <<mainVars, ghostVars, passed, stateQ, intervalQ, sec_flag, msgQ, pc, en>>

(* udp_echoclient_connect clears tcp_send_en, as creat_udp_connect_process does. *)
ClientStepConnectClears(k) ==
  CASE k.statue = "NEW" -> [k EXCEPT !.statue = "DIS", !.send_en = 0]
    [] k.statue = "DIS" -> [k EXCEPT !.statue = "OK", !.send_en = 0]
    [] k.statue = "OK"  -> [k EXCEPT !.send_en = 0]

(* fun_gnd2wcs_state_msg is not called. *)
StateMsgMissing ==
  /\ pc = "state"
  /\ pc' = "car"
  /\ UNCHANGED <<isrVars, mainVars, ghostVars, msgQ, carQ, en>>

(* tcp_send_en = 1 is forgotten for client 1. *)
CarSendNotEnabled ==
  /\ pc = "car"
  /\ IF client[1].send_en = 0 /\ ~IsEmpty(carQ)
       THEN /\ carQ' = outQueue(carQ, CarLen)
            /\ client' = [client EXCEPT ![1].buf = [kind |-> "CAR", car |-> carfunint]]
       ELSE UNCHANGED <<carQ, client>>
  /\ pc' = "three"
  /\ UNCHANGED <<isrVars, ghostVars, msgQ, received, eth, rx, carfunint, GndThreemsg,
                 threeQ, heart_dely, en>>

(* carthreesend_message_to_sever does not wait for tcp_send_en == 0 of its *)
(* own client but for client 0's.                                          *)
CarThreeSendWrongClient ==
  /\ pc = "three"
  /\ IF client[0].send_en = 0 /\ threeQ > 0
       THEN /\ threeQ' = threeQ - 1
            /\ client' = [client EXCEPT ![3].buf = [kind |-> "CMD", car |-> GndThreemsg],
                                        ![3].send_en = 1]
       ELSE UNCHANGED <<threeQ, client>>
  /\ pc' = "sec"
  /\ UNCHANGED <<isrVars, ghostVars, msgQ, carQ, received, eth, rx, carfunint,
                 GndThreemsg, heart_dely, en>>

(* sec_process clears the flag without counting heart_dely down. *)
SecProcessNoCountdown ==
  /\ pc = "sec"
  /\ sec_flag' = 0
  /\ pc' = "loop"
  /\ UNCHANGED <<mainVars, ghostVars, msgQ, carQ, passed, stateQ, intervalQ, positionreset, en>>

----------------------------------------------------------------------------
(* Interrupts. *)

(* EXTI4_IRQHandler after its debounce loop.  A full state or interval     *)
(* queue drops the node, but both tokens are queued all the same.          *)
Photo ==
  /\ passed < MaxCar
  /\ passed' = passed + 1
  /\ LET car == passed + 1
         stateOK == Len(stateQ) < StateCap
         intervalOK == Len(intervalQ) < IntervalCap
     IN /\ stateQ' = IF stateOK THEN Append(stateQ, car) ELSE stateQ
        /\ intervalQ' = IF intervalOK THEN Append(intervalQ, car) ELSE intervalQ
        /\ accepted' =
             [state |-> accepted.state \cup (IF stateOK THEN {car} ELSE {}),
              interval |-> accepted.interval \cup (IF intervalOK THEN {car} ELSE {})]
  /\ msgQ' = enQueue(enQueue(msgQ, "INTERVAL", MsgLen), "CMD", MsgLen)
  /\ UNCHANGED <<mainVars, carQ, positionreset, sec_flag, pc, en, handed>>

(* Time_Update, when positionreset counts down to 0. *)
PositionReset ==
  /\ positionreset
  /\ positionreset' = FALSE
  /\ carQ' = enQueue(carQ, "CAR", CarLen)
  /\ UNCHANGED <<mainVars, ghostVars, passed, stateQ, intervalQ, sec_flag, msgQ, pc, en>>

(* Time_Update, when sec_reg counts down to 0. *)
SecondTick ==
  /\ sec_flag = 0
  /\ sec_flag' = 1
  /\ UNCHANGED <<mainVars, ghostVars, passed, stateQ, intervalQ, positionreset,
                 msgQ, carQ, pc, en>>

----------------------------------------------------------------------------
(* enQueue and carenQueue as the main loop executes them. *)

Ring(q) == IF q = "msg" THEN msgQ ELSE carQ
Size(q) == IF q = "msg" THEN MsgLen ELSE CarLen
SetRing(q, r) == /\ msgQ' = IF q = "msg" THEN r ELSE msgQ
                 /\ carQ' = IF q = "car" THEN r ELSE carQ

(* The main loop calls enQueue(q, token) and continues at then. *)
CallEnQueue(q, token, then) ==
  /\ pc' = "enQueue"
  /\ en' = [NotEn EXCEPT !.step = "test", !.q = q, !.token = token, !.then = then]

Return == pc' = en.then /\ en' = NotEn

EnTest == /\ en.step = "test"
          /\ IF IsFull(Ring(en.q), Size(en.q))
               THEN Return
               ELSE en' = [en EXCEPT !.step = "advance"] /\ UNCHANGED pc
          /\ UNCHANGED <<msgQ, carQ>>

EnCompute == /\ en.step = "advance"
             /\ en' = [en EXCEPT !.step = "store",
                                 !.newRear = After(Ring(en.q).rear, Size(en.q))]
             /\ UNCHANGED <<msgQ, carQ, pc>>

EnStoreRear == /\ en.step = "store"
               /\ SetRing(en.q, [Ring(en.q) EXCEPT !.rear = en.newRear])
               /\ en' = [en EXCEPT !.step = "index", !.newRear = 0]
               /\ UNCHANGED pc

EnLoadIndex == /\ en.step = "index"
               /\ en' = [en EXCEPT !.step = "write", !.index = Ring(en.q).rear]
               /\ UNCHANGED <<msgQ, carQ, pc>>

EnWrite == /\ en.step = "write"
           /\ SetRing(en.q, [Ring(en.q) EXCEPT !.slot[en.index] = en.token])
           /\ Return

InEnQueue == /\ pc = "enQueue"
             /\ EnTest \/ EnCompute \/ EnStoreRear \/ EnLoadIndex \/ EnWrite
             /\ UNCHANGED <<isrVars, mainVars, ghostVars>>

----------------------------------------------------------------------------
(* The body of the main loop. *)

(* Ethernet_Configuration either brings the link up or is tried again in   *)
(* the next pass; EthInitStatus is never cleared afterwards.               *)
Ethernet ==
  /\ pc = "loop"
  /\ IF eth = 0
       THEN /\ eth' \in {0, 1}
            /\ pc' = "sec"
       ELSE pc' = "packet" /\ UNCHANGED eth
  /\ UNCHANGED <<isrVars, ghostVars, msgQ, carQ, received, client, rx, carfunint,
                 GndThreemsg, threeQ, heart_dely, en>>

(* LwIP_Pkt_Handle, at most one packet a pass: udp_receive_callback takes  *)
(* a datagram for client 0 if its statue is CLIENT_CONNECT_OK.             *)
Packet ==
  /\ pc = "packet"
  /\ \/ UNCHANGED <<client, rx, received>>
     \/ /\ received < MaxRx
        /\ received' = received + 1
        /\ \E d \in Datagram :
             IF client[0].statue = "OK"
               THEN /\ rx' = d
                    /\ client' = [client EXCEPT ![0].statue = "RECV"]
               ELSE UNCHANGED <<client, rx>>
  /\ pc' = "receive"
  /\ UNCHANGED <<isrVars, ghostVars, msgQ, carQ, eth, carfunint, GndThreemsg, threeQ,
                 heart_dely, en>>

(* udp_client_process, the received datagram of client 0: a parameter      *)
(* message is answered and followed by the version, a repair command is    *)
(* answered, everything else leaves this path alone.                       *)
Receive ==
  /\ pc = "receive"
  /\ rx' = "NONE"
  /\ client' = IF client[0].statue = "RECV" THEN [client EXCEPT ![0].statue = "OK"]
                                            ELSE client
  /\ CASE rx = "PARA"   -> CallEnQueue("msg", "REPLY", "version")
       [] rx = "REPAIR" -> CallEnQueue("msg", "REPLY_REPAIR", "clients")
       [] OTHER         -> pc' = "clients" /\ UNCHANGED en
  /\ UNCHANGED <<isrVars, ghostVars, msgQ, carQ, received, eth, carfunint, GndThreemsg,
                 threeQ, heart_dely>>

Version ==
  /\ pc = "version"
  /\ CallEnQueue("msg", "VERSION", "clients")
  /\ UNCHANGED <<isrVars, mainVars, ghostVars, msgQ, carQ>>

(* udp_client_process, one client: create it, else connect it, else send   *)
(* what it has to send.  (udp_new and udp_connect do not fail in this      *)
(* build: 6 UDP control blocks for 4 clients.)                             *)
ClientStep(k) ==
  CASE k.statue = "NEW" -> [k EXCEPT !.statue = "DIS", !.send_en = 0]
    [] k.statue = "DIS" -> [k EXCEPT !.statue = "OK"]
    [] k.statue = "OK"  -> [k EXCEPT !.send_en = 0]

Sends(c) == client[c].statue = "OK" /\ client[c].send_en = 1
Sent(c, kind) == IF Sends(c) /\ client[c].buf.kind = kind THEN {client[c].buf.car} ELSE {}

Clients ==
  /\ pc = "clients"
  /\ client' = [c \in Client |-> ClientStep(client[c])]
  /\ heart_dely' = IF Sends(0) THEN HeartDelay ELSE heart_dely
  /\ handed' = [state |-> handed.state \cup Sent(0, "CMD"),
                interval |-> handed.interval \cup Sent(0, "INTERVAL"),
                car |-> handed.car \cup Sent(1, "CAR"),
                three |-> handed.three \cup Sent(3, "CMD")]
  /\ pc' = "send"
  /\ UNCHANGED <<isrVars, msgQ, carQ, received, eth, rx, carfunint, GndThreemsg, threeQ,
                 en, accepted>>

----------------------------------------------------------------------------
(* send_message_to_sever: one disjunct for each case of its switch. *)

TakeToken == msgQ' = IF IsEmpty(msgQ) THEN msgQ ELSE outQueue(msgQ, MsgLen)
NextToken == IF IsEmpty(msgQ) THEN "NONE" ELSE NextOut(msgQ, MsgLen)

ToSend(c, f) == client' = [client EXCEPT ![c].buf = f, ![c].send_en = 1]

(* tcp_send_en is still 1: nothing is taken from the queue. *)
SendBusy == client[0].send_en = 1 /\ UNCHANGED msgQ /\ pc' = "state"
            /\ UNCHANGED <<client, stateQ, intervalQ, carfunint, GndThreemsg, threeQ,
                           heart_dely, en>>

SendReply == /\ NextToken \in {"REPLY", "VERSION", "REPLY_REPAIR"}
             /\ ToSend(0, [kind |-> NextToken, car |-> 0])
             /\ pc' = "state"
             /\ UNCHANGED <<stateQ, intervalQ, carfunint, GndThreemsg, threeQ, heart_dely, en>>

(* Mutant: pxGetMsgFromStateQueue takes the newest node. *)
SendStateNewest == /\ NextToken = "CMD"
                   /\ stateQ # << >>
                   /\ ToSend(0, [kind |-> "CMD", car |-> Last(stateQ)])
                   /\ stateQ' = Front(stateQ)
                   /\ GndThreemsg' = Last(stateQ)
                   /\ threeQ' = IF threeQ < ThreeCap THEN threeQ + 1 ELSE threeQ
                   /\ pc' = "state"
                   /\ UNCHANGED <<intervalQ, carfunint, heart_dely, en>>

(* send_msg_gndctrl2wcs_cmd, which also tells client 3. *)
SendState == /\ NextToken = "CMD"
             /\ stateQ # << >>
             /\ ToSend(0, [kind |-> "CMD", car |-> Head(stateQ)])
             /\ stateQ' = Tail(stateQ)
             /\ GndThreemsg' = Head(stateQ)
             /\ threeQ' = IF threeQ < ThreeCap THEN threeQ + 1 ELSE threeQ
             /\ pc' = "state"
             /\ UNCHANGED <<intervalQ, carfunint, heart_dely, en>>

(* A state token without a state node: return. *)
SendNoState == /\ NextToken = "CMD"
               /\ stateQ = << >>
               /\ pc' = "state"
               /\ UNCHANGED <<client, stateQ, intervalQ, carfunint, GndThreemsg, threeQ,
                              heart_dely, en>>

(* send_msg_gndctrl2wcs_cmd_interval_data fills the buffer, then queues    *)
(* the token for client 1 (SendIntervalDone goes on).                      *)
SendInterval == /\ NextToken = "INTERVAL"
                /\ intervalQ # << >>
                /\ client' = [client EXCEPT ![0].buf = [kind |-> "INTERVAL",
                                                        car |-> Head(intervalQ)]]
                /\ intervalQ' = Tail(intervalQ)
                /\ carfunint' = Head(intervalQ)
                /\ CallEnQueue("car", "CAR", "intervalDone")
                /\ UNCHANGED <<stateQ, GndThreemsg, threeQ, heart_dely>>

(* An interval token without an interval node: the buffer keeps the frame  *)
(* that was sent last, and send_en is set all the same.                    *)
SendNoInterval == /\ NextToken = "INTERVAL"
                  /\ intervalQ = << >>
                  /\ client' = [client EXCEPT ![0].send_en = 1]
                  /\ pc' = "state"
                  /\ UNCHANGED <<stateQ, intervalQ, carfunint, GndThreemsg, threeQ,
                                 heart_dely, en>>

(* default: the heartbeat. *)
SendHeart == /\ NextToken = "NONE"
             /\ IF client[0].statue = "OK" /\ heart_dely = 0
                  THEN /\ ToSend(0, [kind |-> "HEART", car |-> 0])
                       /\ heart_dely' = HeartDelay
                  ELSE UNCHANGED <<client, heart_dely>>
             /\ pc' = "state"
             /\ UNCHANGED <<stateQ, intervalQ, carfunint, GndThreemsg, threeQ, en>>

Send ==
  /\ pc = "send"
  /\ \/ SendBusy
     \/ /\ client[0].send_en = 0
        /\ TakeToken
        /\ \/ SendReply \/ SendState \/ SendNoState
           \/ SendInterval \/ SendNoInterval \/ SendHeart
  /\ UNCHANGED <<ghostVars, carQ, passed, positionreset, sec_flag, received, eth, rx>>

(* positionreset = 30; back in send_message_to_sever, tcp_send_en = 1. *)
SendIntervalDone ==
  /\ pc = "intervalDone"
  /\ positionreset' = TRUE
  /\ client' = [client EXCEPT ![0].send_en = 1]
  /\ pc' = "state"
  /\ UNCHANGED <<ghostVars, msgQ, carQ, passed, stateQ, intervalQ, sec_flag, received,
                 eth, rx, carfunint, GndThreemsg, threeQ, heart_dely, en>>

----------------------------------------------------------------------------
(* fun_gnd2wcs_state_msg: as long as a state node waits, one more token. *)
StateMsg ==
  /\ pc = "state"
  /\ IF stateQ # << >> THEN CallEnQueue("msg", "CMD", "car")
                       ELSE pc' = "car" /\ UNCHANGED en
  /\ UNCHANGED <<isrVars, mainVars, ghostVars, msgQ, carQ>>

(* carsend_message_to_sever: the frame is built from carfunint now. *)
CarSend ==
  /\ pc = "car"
  /\ IF client[1].send_en = 0 /\ ~IsEmpty(carQ)
       THEN /\ carQ' = outQueue(carQ, CarLen)
            /\ IF NextOut(carQ, CarLen) = "CAR"
                 THEN ToSend(1, [kind |-> "CAR", car |-> carfunint])
                 ELSE UNCHANGED client
       ELSE UNCHANGED <<carQ, client>>
  /\ pc' = "three"
  /\ UNCHANGED <<isrVars, ghostVars, msgQ, received, eth, rx, carfunint, GndThreemsg,
                 threeQ, heart_dely, en>>

(* carthreesend_message_to_sever.  (cartwosend_message_to_sever, which     *)
(* follows, never finds a token: nothing queues one.)                      *)
CarThreeSend ==
  /\ pc = "three"
  /\ IF client[3].send_en = 0 /\ threeQ > 0
       THEN /\ threeQ' = threeQ - 1
            /\ ToSend(3, [kind |-> "CMD", car |-> GndThreemsg])
       ELSE UNCHANGED <<threeQ, client>>
  /\ pc' = "sec"
  /\ UNCHANGED <<isrVars, ghostVars, msgQ, carQ, received, eth, rx, carfunint,
                 GndThreemsg, heart_dely, en>>

(* sec_process, the part that is about the heartbeat. *)
SecProcess ==
  /\ pc = "sec"
  /\ sec_flag' = 0
  /\ heart_dely' = IF sec_flag = 1 /\ heart_dely # 0 THEN heart_dely - 1 ELSE heart_dely
  /\ pc' = "loop"
  /\ UNCHANGED <<ghostVars, msgQ, carQ, passed, stateQ, intervalQ, positionreset, received,
                 eth, client, rx, carfunint, GndThreemsg, threeQ, en>>

MainLoop == \/ Ethernet \/ Packet \/ Receive \/ Version \/ Clients \/ Send
            \/ SendIntervalDone \/ StateMsg \/ CarSend \/ CarThreeSend \/ SecProcess
            \/ InEnQueue

Next == Photo \/ PositionReset \/ SecondTick \/ MainLoop

Spec == Init /\ [][Next]_vars

(* The main loop never blocks and SysTick never stops; cars need not come. *)
FairSpec == Spec /\ WF_vars(MainLoop) /\ WF_vars(PositionReset) /\ WF_vars(SecondTick)

----------------------------------------------------------------------------
TypeOK ==
  /\ passed \in 0..MaxCar /\ received \in 0..MaxRx /\ eth \in {0, 1}
  /\ msgQ \in RingOf(Token, MsgLen)
  /\ carQ \in RingOf(CarToken, CarLen)
  /\ stateQ \in BoundedSeq(Car, StateCap)
  /\ intervalQ \in BoundedSeq(Car, IntervalCap)
  /\ client \in [Client -> [statue : {"NEW", "DIS", "OK", "RECV"}, send_en : {0, 1},
                            buf : Frame]]
  /\ rx \in Datagram \cup {"NONE"}
  /\ carfunint \in Car /\ GndThreemsg \in Car /\ threeQ \in 0..ThreeCap
  /\ positionreset \in BOOLEAN /\ heart_dely \in 0..HeartDelay /\ sec_flag \in {0, 1}
  /\ \A k \in DOMAIN accepted : accepted[k] \subseteq Car
  /\ \A k \in DOMAIN handed : handed[k] \subseteq Car

(* The frame in client 0's buffer still has to go out. *)
Pending(kind) ==
  IF /\ client[0].buf.kind = kind
     /\ client[0].send_en = 1 \/ pc = "intervalDone" \/ en.q = "car"
    THEN {client[0].buf.car} ELSE {}

(* Between its queue and UDP no report is lost, whatever happens to the    *)
(* tokens: each accepted node waits in its queue, is the frame about to be *)
(* sent, or was handed over.                                               *)
NoReportLost ==
  /\ accepted.state = handed.state \cup Range(stateQ) \cup Pending("CMD")
  /\ accepted.interval = handed.interval \cup Range(intervalQ) \cup Pending("INTERVAL")

(* The reporting path is a channel for state reports and one for interval  *)
(* reports: what a channel has to hand over is the frame in the buffer, if *)
(* it was not sent before, and the queue.                                  *)
Transit(kind, sent) == IF Pending(kind) \subseteq sent THEN << >> ELSE <<client[0].buf.car>>
StateChannel ==
  INSTANCE ReportChannel WITH Cap <- StateCap, n <- passed, done <- handed.state,
                              due <- Transit("CMD", handed.state) \o stateQ
IntervalChannel ==
  INSTANCE ReportChannel WITH Cap <- IntervalCap, n <- passed, done <- handed.interval,
                              due <- Transit("INTERVAL", handed.interval) \o intervalQ

(* Client 3 has been told of exactly the state reports the WCS has been    *)
(* sent: GndThreemsg is a single register, but it is never overwritten     *)
(* before it was sent.                                                     *)
MirrorComplete == handed.three = handed.state

(* Reports of one kind leave in the order the cars passed.  A token whose  *)
(* node was dropped (fun.c:306) sends what the buffer held once more, but  *)
(* that is never older than the newest report of its kind.                 *)
InOrder ==
  [][Clients =>
       /\ \A c \in Sent(0, "CMD"), old \in handed.state : old <= c
       /\ \A c \in Sent(0, "INTERVAL"), old \in handed.interval : old <= c
       /\ \A c \in Sent(1, "CAR"), old \in handed.car : old <= c
       /\ \A c \in Sent(3, "CMD"), old \in handed.three : old <= c]_vars

(* A state report the queue accepted reaches UDP once the link is up, even *)
(* if the race on msgSendQueue destroys its token.                         *)
StateEventuallySent ==
  \A c \in 1..MaxCar : (eth = 1 /\ c \in accepted.state) ~> (c \in handed.state)

(* Client 1 gets the newest interval report, or one newer than it, even if *)
(* the race on carSendQueue destroys a token.                              *)
CarEventuallyFresh ==
  \A c \in 1..MaxCar : carfunint = c ~> \E d \in handed.car : d >= c

(* With the link up the WCS hears from the controller again and again:     *)
(* a report, an answer or a heartbeat.                                     *)
HandOver == Clients /\ Sends(0)
NeverSilent == <>(eth = 1) => []<><<HandOver>>_vars

(* "Actively send the interval at which the car changed its position"      *)
(* (fun.c:293): an interval node the queue accepted is sent once the link  *)
(* is up.                                                                  *)
IntervalEventuallySent ==
  \A c \in 1..MaxCar : (eth = 1 /\ c \in accepted.interval) ~> (c \in handed.interval)
=============================================================================
