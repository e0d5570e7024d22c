------------------------- MODULE GroundReportProofs -------------------------
(***************************************************************************)
(* The reporting path, for every queue size, heartbeat delay and number of *)
(* cars: no report is lost between its queue and UDP, client 3 is told of  *)
(* exactly the state reports the WCS is sent, and reports leave in order.  *)
(*                                                                         *)
(* The inductive invariant has five parts, each a lemma that uses those    *)
(* before it: types, control, reports, mirror and order.  From it follow   *)
(* that the path implements a ReportChannel for each kind of report, and   *)
(* what can leave an interval report without its token.                    *)
(***************************************************************************)
EXTENDS GroundReport, FiniteSetTheorems, TLAPS

(* Types, the queues as sequences, and the main loop's enQueue. *)
PcSet == {"loop", "packet", "receive", "version", "clients", "send", "intervalDone",
          "state", "car", "three", "sec", "enQueue"}
ClientRec == [statue : {"NEW", "DIS", "OK", "RECV"}, send_en : {0, 1}, buf : Frame]

RingTypes ==
  /\ msgQ \in RingOf(Token, MsgLen)
  /\ carQ \in RingOf(CarToken, CarLen)
  /\ pc \in PcSet
  /\ en \in [step : {"off", "test", "advance", "store", "index", "write"},
             q : {"msg", "car"}, token : Token \cup CarToken,
             newRear : Nat, index : Nat, then : {"loop", "version", "clients", "car", "intervalDone"}]
  /\ en.q = "msg" => en.token \in Token /\ en.newRear < MsgLen /\ en.index < MsgLen
  /\ en.q = "car" => en.token \in CarToken /\ en.newRear < CarLen /\ en.index < CarLen

DataTypes ==
  /\ passed \in 0..MaxCar /\ received \in 0..MaxRx /\ eth \in {0, 1}
  /\ stateQ \in Seq(Car) /\ Len(stateQ) <= StateCap
  /\ intervalQ \in Seq(Car) /\ Len(intervalQ) <= IntervalCap
  /\ client \in [Client -> ClientRec]
  /\ rx \in Datagram \cup {"NONE"}
  /\ carfunint \in Car /\ GndThreemsg \in Car /\ threeQ \in 0..ThreeCap
  /\ heart_dely \in 0..HeartDelay /\ sec_flag \in {0, 1}
  /\ accepted \in [state : SUBSET Car, interval : SUBSET Car]
  /\ handed \in [state : SUBSET Car, interval : SUBSET Car,
                 car : SUBSET Car, three : SUBSET Car]

(* Where the main loop is: an enQueue for client 1 belongs to an interval  *)
(* report, and ends there.                                                 *)
Calls ==
  /\ pc = "enQueue" <=> en.step # "off"
  /\ en.step = "off" => en.q = "msg"
  /\ en.q = "car" => en.then = "intervalDone"
  /\ en.step # "off" /\ en.q = "msg" => en.then \in {"version", "clients", "car"}

(* The main loop is in the part of its pass after udp_client_process. *)
AfterClients == \/ pc \in {"send", "intervalDone", "state", "car", "three"}
                \/ pc = "enQueue" /\ en.then \in {"intervalDone", "car"}

(* The clients go through their states together; only client 0 receives.   *)
(* The first pass creates them all, so none has anything to send before.   *)
Lockstep ==
  /\ client[0].statue = "RECV" <=> rx # "NONE"
  /\ rx # "NONE" => pc = "receive"
  /\ \A c \in Client \ {0} :
       client[c].statue = IF client[0].statue = "RECV" THEN "OK" ELSE client[0].statue
  /\ client[0].statue = "NEW" =>
       ~AfterClients /\ client[0].send_en = 0 /\ client[3].send_en = 0

ControlInv == Calls /\ Lockstep

(* The buffer of client 0 holds a report that is on its way or was handed  *)
(* over: sending it once more adds nothing new.                            *)
Loading == pc = "intervalDone" \/ en.q = "car"
BufferKnown ==
  /\ Loading => client[0].send_en = 0 /\ client[0].buf.kind = "INTERVAL"
  /\ client[0].send_en = 0 /\ ~Loading =>
       /\ client[0].buf.kind = "CMD" => client[0].buf.car \in handed.state
       /\ client[0].buf.kind = "INTERVAL" => client[0].buf.car \in handed.interval
ReportInv == BufferKnown /\ NoReportLost

(* Between SendState and CarThreeSend, which the same pass reaches. *)
ToldNext == \/ pc \in {"state", "car", "three"}
            \/ pc = "enQueue" /\ en.then = "car"

(* A state report in client 0's buffer was handed over before, or is in    *)
(* the register, or in client 3's buffer.                                  *)
MirrorInv ==
  /\ threeQ \in {0, 1}
  /\ threeQ = 1 => /\ ToldNext /\ client[0].send_en = 1 /\ client[3].send_en = 0
                   /\ client[0].buf = [kind |-> "CMD", car |-> GndThreemsg]
  /\ client[3].send_en = 1 => /\ client[0].send_en = 1 /\ client[3].buf = client[0].buf
                              /\ client[0].buf.kind = "CMD"
  /\ client[0].send_en = 1 /\ client[0].buf.kind = "CMD" =>
       client[0].buf.car \in handed.state \/ threeQ = 1 \/ client[3].send_en = 1
  /\ MirrorComplete

(* Waiting reports are in order and newer than what left before. *)
Increasing(s) == \A i, j \in 1..Len(s) : i < j => s[i] < s[j]
Newer(s, S) == \A i \in 1..Len(s) : \A old \in S : old < s[i]
UpTo(S, m) == \A c \in S : c <= m

OrderInv ==
  /\ Increasing(stateQ) /\ Increasing(intervalQ)
  /\ Newer(stateQ, handed.state) /\ Newer(intervalQ, handed.interval)
  /\ UpTo(Range(stateQ) \cup Range(intervalQ), passed)
  /\ UpTo(handed.state \cup handed.interval \cup {carfunint}, passed)
  /\ client[0].buf.kind = "CMD" => /\ UpTo(handed.state, client[0].buf.car)
                                   /\ Newer(stateQ, {client[0].buf.car})
                                   /\ client[0].buf.car <= passed
  /\ client[0].buf.kind = "INTERVAL" => /\ UpTo(handed.interval, client[0].buf.car)
                                        /\ Newer(intervalQ, {client[0].buf.car})
                                        /\ client[0].buf.car <= passed
  /\ Newer(intervalQ, {carfunint}) /\ UpTo(handed.car, carfunint)
  /\ client[1].buf.kind = "CAR" => /\ UpTo(handed.car, client[1].buf.car)
                                   /\ client[1].buf.car <= carfunint

FlagType == positionreset \in BOOLEAN

GInv == /\ RingTypes /\ DataTypes /\ FlagType
        /\ ControlInv /\ ReportInv /\ MirrorInv /\ OrderInv
----------------------------------------------------------------------------
(* Rings. *)

LEMMA AfterType ==
  ASSUME NEW n \in Nat \ {0}, NEW i \in 0..(n - 1)
  PROVE  After(i, n) \in 0..(n - 1)
<1>1. (i + 1) % n \in 0..(n - 1)
  BY Z3
<1> QED BY <1>1 DEF After

LEMMA EnQueueType ==
  ASSUME NEW S, NEW n \in Nat \ {0}, NEW r \in RingOf(S, n), NEW x \in S
  PROVE  enQueue(r, x, n) \in RingOf(S, n)
<1>1. After(r.rear, n) \in 0..(n - 1)
  BY AfterType DEF RingOf
<1> QED BY <1>1 DEF enQueue, RingOf

LEMMA OutQueueType ==
  ASSUME NEW S, NEW n \in Nat \ {0}, NEW r \in RingOf(S, n)
  PROVE  outQueue(r, n) \in RingOf(S, n) /\ NextOut(r, n) \in S
<1>1. After(r.front, n) \in 0..(n - 1)
  BY AfterType DEF RingOf
<1> QED BY <1>1 DEF outQueue, NextOut, RingOf

LEMMA InitQueueType ==
  ASSUME NEW S, NEW n \in Nat \ {0}, NEW z \in S
  PROVE  initQueue(z, n) \in RingOf(S, n)
BY DEF initQueue, RingOf

LEMMA Sizes == /\ MsgLen \in Nat \ {0} /\ CarLen \in Nat \ {0}
               /\ 0 < MsgLen /\ 0 < CarLen
BY BoundAssumption

LEMMA TokenFacts == /\ "NONE" \in Token /\ "NONE" \in CarToken
                    /\ {"CMD", "INTERVAL", "REPLY", "VERSION", "REPLY_REPAIR"} \subseteq Token
                    /\ "CAR" \in CarToken
BY DEF Token, CarToken

(* A call of enQueue, and the return from it. *)
LEMMA CallType ==
  ASSUME NEW q \in {"msg", "car"}, NEW token \in IF q = "msg" THEN Token ELSE CarToken,
         NEW then \in {"version", "clients", "car", "intervalDone"},
         RingTypes, CallEnQueue(q, token, then), UNCHANGED <<msgQ, carQ>>
  PROVE  RingTypes'
BY Sizes DEF RingTypes, CallEnQueue, NotEn, PcSet

LEMMA ReturnType ==
  ASSUME RingTypes, Return
  PROVE  pc' \in PcSet /\ en' = NotEn
BY DEF RingTypes, Return, PcSet

(* The steps of an enQueue. *)
LEMMA InEnQueueType ==
  ASSUME RingTypes, InEnQueue
  PROVE  RingTypes'
<1> USE DEF RingTypes
<1>0. NotEn.token \in Token /\ en.q \in {"msg", "car"}
  BY TokenFacts DEF NotEn
<1>1. CASE EnTest
  <2>1. CASE Return
    BY <1>0, <1>1, <2>1, ReturnType, Sizes, TokenFacts DEF EnTest, NotEn
  <2>2. CASE ~Return
    BY <1>1, <2>2 DEF EnTest
  <2> QED BY <2>1, <2>2
<1>2. CASE EnCompute
  <2>1. CASE en.q = "msg"
    <3>1. After(msgQ.rear, MsgLen) \in 0..(MsgLen - 1)
      BY AfterType, Sizes DEF RingOf
    <3>2. After(msgQ.rear, MsgLen) \in Nat /\ After(msgQ.rear, MsgLen) < MsgLen
      BY <3>1, Sizes
    <3>3. en' = [en EXCEPT !.step = "store", !.newRear = After(msgQ.rear, MsgLen)]
      BY <1>2, <2>1 DEF EnCompute, Ring, Size
    <3> QED BY <1>2, <2>1, <3>2, <3>3 DEF EnCompute
  <2>2. CASE en.q = "car"
    <3>1. After(carQ.rear, CarLen) \in 0..(CarLen - 1)
      BY AfterType, Sizes DEF RingOf
    <3>2. After(carQ.rear, CarLen) \in Nat /\ After(carQ.rear, CarLen) < CarLen
      BY <3>1, Sizes
    <3>3. en' = [en EXCEPT !.step = "store", !.newRear = After(carQ.rear, CarLen)]
      BY <1>2, <2>2 DEF EnCompute, Ring, Size
    <3> QED BY <1>2, <2>2, <3>2, <3>3 DEF EnCompute
  <2> QED BY <1>0, <2>1, <2>2
<1>3. CASE EnStoreRear
  <2>1. CASE en.q = "msg"
    <3>1. en.newRear \in 0..(MsgLen - 1)
      BY <2>1, Sizes
    <3>2. msgQ' \in RingOf(Token, MsgLen) /\ carQ' = carQ
      BY <1>3, <2>1, <3>1 DEF EnStoreRear, SetRing, Ring, RingOf
    <3> QED BY <1>3, <2>1, <3>2, Sizes DEF EnStoreRear
  <2>2. CASE en.q = "car"
    <3>1. en.newRear \in 0..(CarLen - 1)
      BY <2>2, Sizes
    <3>2. carQ' \in RingOf(CarToken, CarLen) /\ msgQ' = msgQ
      BY <1>3, <2>2, <3>1 DEF EnStoreRear, SetRing, Ring, RingOf
    <3> QED BY <1>3, <2>2, <3>2, Sizes DEF EnStoreRear
  <2> QED BY <1>0, <2>1, <2>2
<1>4. CASE EnLoadIndex
  <2>1. CASE en.q = "msg"
    <3>1. msgQ.rear \in 0..(MsgLen - 1)
      BY DEF RingOf
    <3>2. msgQ.rear \in Nat /\ msgQ.rear < MsgLen
      BY <3>1, Sizes
    <3>3. en' = [en EXCEPT !.step = "write", !.index = msgQ.rear]
      BY <1>4, <2>1 DEF EnLoadIndex, Ring
    <3> QED BY <1>4, <2>1, <3>2, <3>3 DEF EnLoadIndex
  <2>2. CASE en.q = "car"
    <3>1. carQ.rear \in 0..(CarLen - 1)
      BY DEF RingOf
    <3>2. carQ.rear \in Nat /\ carQ.rear < CarLen
      BY <3>1, Sizes
    <3>3. en' = [en EXCEPT !.step = "write", !.index = carQ.rear]
      BY <1>4, <2>2 DEF EnLoadIndex, Ring
    <3> QED BY <1>4, <2>2, <3>2, <3>3 DEF EnLoadIndex
  <2> QED BY <1>0, <2>1, <2>2
<1>5. CASE EnWrite
  <2>1. msgQ' \in RingOf(Token, MsgLen)
    BY <1>5 DEF EnWrite, SetRing, Ring, RingOf
  <2>2. carQ' \in RingOf(CarToken, CarLen)
    BY <1>5 DEF EnWrite, SetRing, Ring, RingOf
  <2>3. pc' \in PcSet /\ en' = NotEn
    BY <1>5, ReturnType DEF EnWrite
  <2> QED BY <2>1, <2>2, <2>3, Sizes, TokenFacts DEF NotEn
<1> QED BY <1>1, <1>2, <1>3, <1>4, <1>5 DEF InEnQueue

LEMMA InitRings == Init => RingTypes
<1> SUFFICES ASSUME Init PROVE RingTypes
  OBVIOUS
<1>1. msgQ \in RingOf(Token, MsgLen) /\ carQ \in RingOf(CarToken, CarLen)
  BY InitQueueType, Sizes, TokenFacts DEF Init
<1> QED BY <1>1, Sizes, TokenFacts DEF Init, RingTypes, NotEn, PcSet

LEMMA NextRings == RingTypes /\ [Next]_vars => RingTypes'
<1> SUFFICES ASSUME RingTypes, [Next]_vars PROVE RingTypes'
  OBVIOUS
<1>1. CASE Photo
  <2>1. enQueue(msgQ, "INTERVAL", MsgLen) \in RingOf(Token, MsgLen)
    BY EnQueueType, Sizes, TokenFacts DEF RingTypes
  <2>2. msgQ' \in RingOf(Token, MsgLen)
    BY <1>1, <2>1, EnQueueType, Sizes, TokenFacts DEF Photo
  <2> QED BY <1>1, <2>2 DEF Photo, RingTypes
<1>2. CASE PositionReset
  <2>1. carQ' \in RingOf(CarToken, CarLen)
    BY <1>2, EnQueueType, Sizes, TokenFacts DEF PositionReset, RingTypes
  <2> QED BY <1>2, <2>1 DEF PositionReset, RingTypes
<1>3. CASE SecondTick \/ UNCHANGED vars
  BY <1>3 DEF SecondTick, vars, RingTypes
<1>4. CASE Ethernet
  BY <1>4 DEF Ethernet, RingTypes, PcSet
<1>5. CASE Packet
  BY <1>5 DEF Packet, RingTypes, PcSet
<1>6. CASE Receive
  <2>1. CASE rx = "PARA"
    BY <1>6, <2>1, CallType, TokenFacts DEF Receive
  <2>2. CASE rx = "REPAIR"
    BY <1>6, <2>2, CallType, TokenFacts DEF Receive
  <2>3. CASE rx # "PARA" /\ rx # "REPAIR"
    BY <1>6, <2>3 DEF Receive, RingTypes, PcSet
  <2> QED BY <2>1, <2>2, <2>3
<1>7. CASE Version
  BY <1>7, CallType, TokenFacts DEF Version
<1>8. CASE Clients
  BY <1>8 DEF Clients, RingTypes, PcSet
<1>9. CASE Send
  <2>1. msgQ' \in RingOf(Token, MsgLen) /\ carQ' = carQ
    BY <1>9, OutQueueType, Sizes DEF Send, SendBusy, TakeToken, RingTypes
  <2>2. CASE SendInterval
    BY <2>1, <2>2, Sizes, TokenFacts DEF SendInterval, CallEnQueue, NotEn, RingTypes, PcSet
  <2>3. CASE ~SendInterval
    <3>1. pc' = "state" /\ en' = en
      BY <1>9, <2>3 DEF Send, SendBusy, SendReply, SendState, SendNoState, SendNoInterval,
                        SendHeart
    <3> QED BY <2>1, <3>1 DEF RingTypes, PcSet
  <2> QED BY <2>2, <2>3
<1>10. CASE SendIntervalDone
  BY <1>10 DEF SendIntervalDone, RingTypes, PcSet
<1>11. CASE StateMsg
  <2>1. CASE stateQ # << >>
    BY <1>11, <2>1, CallType, TokenFacts DEF StateMsg
  <2>2. CASE stateQ = << >>
    BY <1>11, <2>2 DEF StateMsg, RingTypes, PcSet
  <2> QED BY <2>1, <2>2
<1>12. CASE CarSend
  <2>1. carQ' \in RingOf(CarToken, CarLen)
    BY <1>12, OutQueueType, Sizes DEF CarSend, RingTypes
  <2> QED BY <1>12, <2>1 DEF CarSend, RingTypes, PcSet
<1>13. CASE CarThreeSend
  BY <1>13 DEF CarThreeSend, RingTypes, PcSet
<1>14. CASE SecProcess
  BY <1>14 DEF SecProcess, RingTypes, PcSet
<1>15. CASE InEnQueue
  BY <1>15, InEnQueueType
<1> QED BY <1>1, <1>2, <1>3, <1>4, <1>5, <1>6, <1>7, <1>8, <1>9, <1>10, <1>11, <1>12,
           <1>13, <1>14, <1>15 DEF Next, MainLoop
----------------------------------------------------------------------------
(* Data. *)

USE DEF isrVars, mainVars, ghostVars

LEMMA SeqSteps ==
  ASSUME NEW S, NEW s \in Seq(S)
  PROVE  /\ Len(s) \in Nat
         /\ \A x \in S : Append(s, x) \in Seq(S) /\ Len(Append(s, x)) = Len(s) + 1
         /\ s # << >> => /\ Head(s) \in S /\ Tail(s) \in Seq(S)
                         /\ Len(s) > 0 /\ Len(Tail(s)) = Len(s) - 1
OBVIOUS

LEMMA FrameFacts ==
  /\ NoFrame \in Frame
  /\ \A k \in Token \cup {"HEART", "CAR"}, c \in Car : [kind |-> k, car |-> c] \in Frame
  /\ 0 \in Car
BY BoundAssumption DEF NoFrame, Frame, Token, Car

(* Writing to one client. *)
LEMMA ToSendType ==
  ASSUME client \in [Client -> ClientRec], NEW c \in Client, NEW f \in Frame, ToSend(c, f)
  PROVE  client' \in [Client -> ClientRec]
<1>1. client' = [client EXCEPT ![c] = [client[c] EXCEPT !.buf = f, !.send_en = 1]]
  BY DEF ToSend
<1>2. [client[c] EXCEPT !.buf = f, !.send_en = 1] \in ClientRec
  BY DEF ClientRec
<1> QED BY <1>1, <1>2

LEMMA UpdateType ==
  ASSUME NEW cl \in [Client -> ClientRec], NEW c \in Client
  PROVE  /\ \A s \in {"OK", "RECV"} : [cl EXCEPT ![c].statue = s] \in [Client -> ClientRec]
         /\ [cl EXCEPT ![c].send_en = 1] \in [Client -> ClientRec]
         /\ \A f \in Frame : [cl EXCEPT ![c].buf = f] \in [Client -> ClientRec]
<1>1. \A s \in {"OK", "RECV"} : [cl EXCEPT ![c].statue = s] \in [Client -> ClientRec]
  BY DEF ClientRec
<1>2. [cl EXCEPT ![c].send_en = 1] \in [Client -> ClientRec]
  BY DEF ClientRec
<1>3. \A f \in Frame : [cl EXCEPT ![c].buf = f] \in [Client -> ClientRec]
  BY DEF ClientRec
<1> QED BY <1>1, <1>2, <1>3

LEMMA ClientStepType ==
  ASSUME NEW k \in ClientRec, k.statue # "RECV"
  PROVE  ClientStep(k) \in ClientRec
BY DEF ClientStep, ClientRec

LEMMA InitData == Init => DataTypes
<1> SUFFICES ASSUME Init PROVE DataTypes
  OBVIOUS
<1>1. client \in [Client -> ClientRec]
  BY FrameFacts DEF Init, ClientRec
<1> QED BY <1>1, FrameFacts, BoundAssumption DEF Init, DataTypes, Datagram

LEMMA NextData == RingTypes /\ DataTypes /\ ControlInv /\ [Next]_vars => DataTypes'
<1> SUFFICES ASSUME RingTypes, DataTypes, ControlInv, [Next]_vars PROVE DataTypes'
  OBVIOUS
<1>0. 0 \in Client /\ 1 \in Client /\ 3 \in Client
  BY DEF Client
<1>1. CASE Photo
  <2>1. passed + 1 \in Car /\ passed' \in 0..MaxCar
    BY <1>1, BoundAssumption DEF Photo, DataTypes, Car
  <2>2. stateQ' \in Seq(Car) /\ Len(stateQ') <= StateCap
    BY <1>1, <2>1, SeqSteps, BoundAssumption DEF Photo, DataTypes
  <2>3. intervalQ' \in Seq(Car) /\ Len(intervalQ') <= IntervalCap
    BY <1>1, <2>1, SeqSteps, BoundAssumption DEF Photo, DataTypes
  <2>4. accepted' \in [state : SUBSET Car, interval : SUBSET Car]
    BY <1>1, <2>1 DEF Photo, DataTypes
  <2> QED BY <1>1, <2>1, <2>2, <2>3, <2>4 DEF Photo, DataTypes
<1>2. CASE PositionReset \/ SecondTick \/ UNCHANGED vars
  BY <1>2 DEF PositionReset, SecondTick, vars, DataTypes
<1>4. CASE Ethernet
  BY <1>4 DEF Ethernet, DataTypes
<1>5. CASE Packet
  <2>0. /\ received' = received \/ (received < MaxRx /\ received' = received + 1)
        /\ \/ UNCHANGED <<client, rx>>
           \/ rx' \in Datagram /\ client' = [client EXCEPT ![0].statue = "RECV"]
    BY <1>5, Zenon DEF Packet
  <2>1. client' \in [Client -> ClientRec]
    <3>1. client \in [Client -> ClientRec]
      BY DEF DataTypes
    <3>2. [client EXCEPT ![0].statue = "RECV"] \in [Client -> ClientRec]
      BY <1>0, <3>1, UpdateType
    <3>3. client' = client \/ client' = [client EXCEPT ![0].statue = "RECV"]
      BY <2>0, Zenon
    <3> QED BY <3>1, <3>2, <3>3, Zenon
  <2>2. rx' \in Datagram \cup {"NONE"}
    BY <2>0 DEF DataTypes
  <2>3. received' \in 0..MaxRx
    BY <2>0, BoundAssumption DEF DataTypes
  <2> QED BY <1>5, <2>1, <2>2, <2>3 DEF Packet, DataTypes
<1>6. CASE Receive
  <2>1. client' \in [Client -> ClientRec]
    BY <1>0, <1>6, UpdateType DEF Receive, DataTypes
  <2> QED BY <1>6, <2>1 DEF Receive, DataTypes
<1>8. CASE Clients
  <2>1. ASSUME NEW c \in Client PROVE ClientStep(client[c]) \in ClientRec
    <3>1. client[c].statue # "RECV" /\ client[c] \in ClientRec
      BY <1>8 DEF Clients, ControlInv, Lockstep, DataTypes
    <3> QED BY <3>1, ClientStepType
  <2>2. client' \in [Client -> ClientRec]
    BY <1>8, <2>1 DEF Clients
  <2>3. ASSUME NEW c \in Client, NEW k PROVE Sent(c, k) \subseteq Car
    BY DEF Sent, DataTypes, ClientRec, Frame
  <2>4. handed' \in [state : SUBSET Car, interval : SUBSET Car,
                     car : SUBSET Car, three : SUBSET Car]
    BY <1>0, <1>8, <2>3 DEF Clients, DataTypes
  <2>5. heart_dely' \in 0..HeartDelay
    BY <1>8, BoundAssumption DEF Clients, DataTypes
  <2> QED BY <1>8, <2>2, <2>4, <2>5 DEF Clients, DataTypes
<1>9. CASE Send
  <2> USE DEF Send
  <2>1. CASE SendBusy
    BY <1>9, <2>1 DEF SendBusy, DataTypes
  <2>2. CASE SendReply
    <3>1. [kind |-> NextToken, car |-> 0] \in Frame
      BY <2>2, FrameFacts DEF SendReply, Token
    <3>2. client' \in [Client -> ClientRec]
      BY <1>0, <2>2, <3>1, ToSendType DEF SendReply, DataTypes
    <3> QED BY <1>9, <2>2, <3>2 DEF SendReply, DataTypes
  <2>3. CASE SendState
    <3>1. Head(stateQ) \in Car /\ stateQ' \in Seq(Car) /\ Len(stateQ') <= StateCap
      BY <2>3, SeqSteps, BoundAssumption DEF SendState, DataTypes
    <3>2. [kind |-> "CMD", car |-> Head(stateQ)] \in Frame
      BY <3>1, FrameFacts, TokenFacts
    <3>3. client' \in [Client -> ClientRec]
      BY <1>0, <2>3, <3>2, ToSendType DEF SendState, DataTypes
    <3>4. threeQ' \in 0..ThreeCap
      BY <2>3, BoundAssumption DEF SendState, DataTypes
    <3> QED BY <1>9, <2>3, <3>1, <3>3, <3>4 DEF SendState, DataTypes
  <2>4. CASE SendNoState
    BY <1>9, <2>4 DEF SendNoState, DataTypes
  <2>5. CASE SendInterval
    <3>1. /\ Head(intervalQ) \in Car /\ intervalQ' \in Seq(Car)
          /\ Len(intervalQ') <= IntervalCap
      BY <2>5, SeqSteps, BoundAssumption DEF SendInterval, DataTypes
    <3>2. [kind |-> "INTERVAL", car |-> Head(intervalQ)] \in Frame
      BY <3>1, FrameFacts, TokenFacts
    <3>3. client' \in [Client -> ClientRec]
      BY <1>0, <2>5, <3>2, UpdateType DEF SendInterval, DataTypes
    <3> QED BY <1>9, <2>5, <3>1, <3>3 DEF SendInterval, DataTypes
  <2>6. CASE SendNoInterval
    <3>1. client' \in [Client -> ClientRec]
      BY <1>0, <2>6, UpdateType DEF SendNoInterval, DataTypes
    <3> QED BY <1>9, <2>6, <3>1 DEF SendNoInterval, DataTypes
  <2>7. CASE SendHeart
    <3>1. [kind |-> "HEART", car |-> 0] \in Frame
      BY FrameFacts
    <3>2. client' \in [Client -> ClientRec]
      BY <1>0, <2>7, <3>1, ToSendType DEF SendHeart, DataTypes
    <3>3. heart_dely' \in 0..HeartDelay
      BY <2>7, BoundAssumption DEF SendHeart, DataTypes
    <3> QED BY <1>9, <2>7, <3>2, <3>3 DEF SendHeart, DataTypes
  <2> QED BY <1>9, <2>1, <2>2, <2>3, <2>4, <2>5, <2>6, <2>7
<1>10. CASE SendIntervalDone
  <2>1. client' \in [Client -> ClientRec]
    BY <1>0, <1>10, UpdateType DEF SendIntervalDone, DataTypes
  <2> QED BY <1>10, <2>1 DEF SendIntervalDone, DataTypes
<1>11. CASE Version \/ StateMsg \/ InEnQueue
  BY <1>11 DEF Version, StateMsg, InEnQueue, DataTypes
<1>12. CASE CarSend
  <2>1. [kind |-> "CAR", car |-> carfunint] \in Frame
    BY FrameFacts DEF DataTypes
  <2>2. client' \in [Client -> ClientRec]
    BY <1>0, <1>12, <2>1, ToSendType DEF CarSend, DataTypes
  <2> QED BY <1>12, <2>2 DEF CarSend, DataTypes
<1>13. CASE CarThreeSend
  <2>1. [kind |-> "CMD", car |-> GndThreemsg] \in Frame
    BY FrameFacts, TokenFacts DEF DataTypes
  <2>2. client' \in [Client -> ClientRec]
    BY <1>0, <1>13, <2>1, ToSendType DEF CarThreeSend, DataTypes
  <2>3. threeQ' \in 0..ThreeCap
    BY <1>13, BoundAssumption DEF CarThreeSend, DataTypes
  <2> QED BY <1>13, <2>2, <2>3 DEF CarThreeSend, DataTypes
<1>14. CASE SecProcess
  <2>1. heart_dely' \in 0..HeartDelay
    BY <1>14, BoundAssumption DEF SecProcess, DataTypes
  <2> QED BY <1>14, <2>1 DEF SecProcess, DataTypes
<1> QED BY <1>1, <1>2, <1>4, <1>5, <1>6, <1>8, <1>9, <1>10, <1>11, <1>12,
           <1>13, <1>14 DEF Next, MainLoop
----------------------------------------------------------------------------
(* Control: where the main loop is, and the clients' states. *)

LEMMA InitControl == Init => ControlInv
BY DEF Init, ControlInv, Calls, Lockstep, AfterClients, NotEn, Client

(* Only the main loop's own calls move it. *)
LEMMA NextCalls == RingTypes /\ ControlInv /\ [Next]_vars => Calls'
<1> SUFFICES ASSUME RingTypes, Calls, [Next]_vars PROVE Calls'
  BY DEF ControlInv
<1>1. CASE Photo \/ PositionReset \/ SecondTick \/ UNCHANGED vars
  BY <1>1 DEF Photo, PositionReset, SecondTick, vars, Calls
<1>2. CASE Ethernet \/ Packet \/ Clients \/ SendIntervalDone \/ CarSend \/ CarThreeSend
             \/ SecProcess
  <2>1. en' = en /\ pc # "enQueue" /\ pc' # "enQueue"
    BY <1>2 DEF Ethernet, Packet, Clients, SendIntervalDone, CarSend, CarThreeSend, SecProcess
  <2> QED BY <2>1 DEF Calls
<1>3. CASE Receive \/ Version \/ StateMsg
  <2>1. pc # "enQueue"
    BY <1>3 DEF Receive, Version, StateMsg
  <2>2. \/ pc' # "enQueue" /\ en' = en
        \/ /\ pc' = "enQueue" /\ en'.step = "test" /\ en'.q = "msg"
           /\ en'.then \in {"version", "clients", "car"}
    BY <1>3 DEF Receive, Version, StateMsg, CallEnQueue, NotEn
  <2> QED BY <2>1, <2>2 DEF Calls
<1>4. CASE Send
  <2>1. CASE SendInterval
    BY <2>1 DEF SendInterval, CallEnQueue, NotEn, Calls
  <2>2. CASE ~SendInterval
    <3>1. en' = en /\ pc # "enQueue" /\ pc' # "enQueue"
      BY <1>4, <2>2 DEF Send, SendBusy, SendReply, SendState, SendNoState, SendNoInterval,
                        SendHeart
    <3> QED BY <3>1 DEF Calls
  <2> QED BY <2>1, <2>2
<1>5. CASE InEnQueue
  <2>1. CASE Return
    <3>1. en.step # "off" /\ en.then # "enQueue"
      BY <1>5 DEF InEnQueue, Calls, RingTypes
    <3> QED BY <2>1, <3>1 DEF Return, NotEn, Calls
  <2>2. CASE ~Return
    <3>1. pc' = pc /\ en'.step # "off" /\ en'.q = en.q /\ en'.then = en.then
      BY <1>5, <2>2 DEF InEnQueue, EnTest, EnCompute, EnStoreRear, EnLoadIndex, EnWrite,
                        RingTypes
    <3> QED BY <1>5, <3>1 DEF InEnQueue, Calls
  <2> QED BY <2>1, <2>2
<1> QED BY <1>1, <1>2, <1>3, <1>4, <1>5 DEF Next, MainLoop

(* The states of the clients change in udp_client_process, and client 0's  *)
(* when a datagram comes and is read.                                      *)
LEMMA NextLockstep ==
  RingTypes /\ DataTypes /\ ControlInv /\ [Next]_vars => Lockstep'
<1> SUFFICES ASSUME RingTypes, DataTypes, Calls, Lockstep, [Next]_vars PROVE Lockstep'
  BY DEF ControlInv
<1>0. /\ 0 \in Client /\ 1 \in Client /\ 3 \in Client
      /\ client \in [Client -> ClientRec]
  BY DEF Client, DataTypes
<1>1. CASE Photo \/ PositionReset \/ SecondTick \/ UNCHANGED vars
  BY <1>1 DEF Photo, PositionReset, SecondTick, vars, Lockstep, AfterClients
<1>2. CASE Ethernet \/ SecProcess
  BY <1>2 DEF Ethernet, SecProcess, Lockstep, AfterClients
<1>3. CASE Packet
  BY <1>0, <1>3 DEF Packet, Lockstep, AfterClients, ClientRec, Datagram
<1>4. CASE Receive
  BY <1>0, <1>4 DEF Receive, CallEnQueue, NotEn, Lockstep, AfterClients, ClientRec
<1>5. CASE Version
  BY <1>5 DEF Version, CallEnQueue, NotEn, Lockstep, AfterClients
<1>6. CASE Clients
  <2>1. \A c \in Client : client'[c] = ClientStep(client[c])
    BY <1>6 DEF Clients
  <2>2. \A c \in Client : client[c].statue = client[0].statue
    BY <1>0, <1>6 DEF Clients, Lockstep
  <2>3. client[0].statue \in {"NEW", "DIS", "OK"}
    BY <1>0, <1>6 DEF Clients, Lockstep, ClientRec
  <2>4. \A c \in Client : client'[c].statue = IF client[0].statue = "NEW" THEN "DIS" ELSE "OK"
    BY <1>0, <2>1, <2>2, <2>3 DEF ClientStep, ClientRec
  <2> QED BY <1>0, <1>6, <2>3, <2>4 DEF Clients, Lockstep
<1>7. ASSUME /\ rx' = rx /\ pc # "receive" /\ AfterClients
             /\ \A c \in Client : client'[c].statue = client[c].statue
      PROVE  Lockstep'
  BY <1>0, <1>7 DEF Lockstep
<1>8. CASE Send
  <2>1. rx' = rx /\ pc = "send"
    BY <1>8 DEF Send
  <2>2. \A c \in Client : client'[c].statue = client[c].statue
    BY <1>0, <1>8 DEF Send, SendBusy, SendReply, SendState, SendNoState, SendInterval,
                      SendNoInterval, SendHeart, ToSend, ClientRec
  <2> QED BY <1>7, <2>1, <2>2 DEF AfterClients
<1>9. CASE SendIntervalDone
  <2>1. \A c \in Client : client'[c].statue = client[c].statue
    BY <1>0, <1>9 DEF SendIntervalDone, ClientRec
  <2> QED BY <1>7, <1>9, <2>1 DEF SendIntervalDone, AfterClients
<1>10. CASE StateMsg
  BY <1>7, <1>10 DEF StateMsg, AfterClients
<1>11. CASE CarSend
  <2>1. \A c \in Client : client'[c].statue = client[c].statue
    BY <1>0, <1>11 DEF CarSend, ToSend, ClientRec
  <2> QED BY <1>7, <1>11, <2>1 DEF CarSend, AfterClients
<1>12. CASE CarThreeSend
  <2>1. \A c \in Client : client'[c].statue = client[c].statue
    BY <1>0, <1>12 DEF CarThreeSend, ToSend, ClientRec
  <2> QED BY <1>7, <1>12, <2>1 DEF CarThreeSend, AfterClients
<1>13. CASE InEnQueue
  <2>1. client' = client /\ rx' = rx /\ pc = "enQueue"
    BY <1>13 DEF InEnQueue
  <2>2. AfterClients' => AfterClients
    <3>1. CASE Return
      BY <1>13, <3>1 DEF InEnQueue, Return, NotEn, AfterClients, RingTypes
    <3>2. CASE ~Return
      <4>1. pc' = pc /\ en'.then = en.then
        BY <1>13, <3>2 DEF InEnQueue, EnTest, EnCompute, EnStoreRear, EnLoadIndex, EnWrite,
                           RingTypes
      <4> QED BY <4>1 DEF AfterClients
    <3> QED BY <3>1, <3>2
  <2> QED BY <1>0, <2>1, <2>2 DEF Lockstep
<1> QED BY <1>1, <1>2, <1>3, <1>4, <1>5, <1>6, <1>8, <1>9, <1>10, <1>11, <1>12,
           <1>13 DEF Next, MainLoop
----------------------------------------------------------------------------
(* Reports: accepted, waiting, in the buffer, handed over. *)

LEMMA RangeSteps ==
  ASSUME NEW S, NEW s \in Seq(S)
  PROVE  /\ \A x \in S : Range(Append(s, x)) = Range(s) \cup {x}
         /\ s # << >> => Range(s) = {Head(s)} \cup Range(Tail(s))
<1>1. ASSUME NEW x \in S PROVE Range(Append(s, x)) = Range(s) \cup {x}
  <2>1. /\ DOMAIN s = 1..Len(s) /\ DOMAIN Append(s, x) = 1..(Len(s) + 1) /\ Len(s) \in Nat
        /\ \A i \in 1..Len(s) : Append(s, x)[i] = s[i]
        /\ Append(s, x)[Len(s) + 1] = x
    OBVIOUS
  <2>2. 1..(Len(s) + 1) = 1..Len(s) \cup {Len(s) + 1}
    BY <2>1
  <2> QED BY <2>1, <2>2 DEF Range
<1>2. ASSUME s # << >> PROVE Range(s) = {Head(s)} \cup Range(Tail(s))
  <2> DEFINE t == Tail(s)
  <2>1. /\ DOMAIN s = 1..Len(s) /\ DOMAIN t = 1..(Len(s) - 1)
        /\ Len(s) \in Nat /\ Len(s) > 0 /\ Head(s) = s[1]
        /\ \A i \in 1..(Len(s) - 1) : t[i] = s[i + 1]
    BY <1>2
  <2>2. ASSUME NEW v \in Range(s) PROVE v \in {Head(s)} \cup Range(t)
    <3>1. PICK i \in 1..Len(s) : v = s[i]
      BY <2>1 DEF Range
    <3>2. CASE i = 1
      BY <2>1, <3>1, <3>2
    <3>3. CASE i # 1
      <4>1. i - 1 \in 1..(Len(s) - 1) /\ t[i - 1] = s[i]
        BY <2>1, <3>1, <3>3
      <4> HIDE DEF t
      <4> QED BY <2>1, <3>1, <4>1 DEF Range
    <3> QED BY <3>2, <3>3
  <2>3. ASSUME NEW v \in Range(t) PROVE v \in Range(s)
    <3> HIDE DEF t
    <3>1. PICK i \in 1..(Len(s) - 1) : v = t[i]
      BY <2>1 DEF Range
    <3>2. i + 1 \in 1..Len(s) /\ v = s[i + 1]
      BY <2>1, <3>1
    <3> QED BY <2>1, <3>2 DEF Range
  <2>4. Head(s) \in Range(s)
    BY <2>1, 1 \in 1..Len(s) DEF Range
  <2> QED BY <2>2, <2>3, <2>4
<1> QED BY <1>1, <1>2

(* What the two parts of ReportInv are about. *)
LEMMA ReportFrame ==
  ASSUME ReportInv, Loading' <=> Loading,
         client'[0].buf = client[0].buf, client'[0].send_en = client[0].send_en,
         UNCHANGED <<stateQ, intervalQ, accepted, handed>>
  PROVE  ReportInv'
BY DEF ReportInv, BufferKnown, NoReportLost, Pending, Loading

LEMMA NotLoading ==
  ASSUME Calls, pc \notin {"enQueue", "intervalDone"}
  PROVE  ~Loading /\ en.q = "msg"
BY DEF Calls, Loading

LEMMA InitReport == Init => ReportInv
<1> SUFFICES ASSUME Init PROVE ReportInv
  OBVIOUS
<1>1. ~Loading /\ client[0].buf = NoFrame /\ client[0].send_en = 0
  BY DEF Init, Loading, NotEn, Client
<1>2. Range(stateQ) = {} /\ Range(intervalQ) = {}
  BY DEF Init, Range
<1> QED BY <1>1, <1>2 DEF Init, ReportInv, BufferKnown, NoReportLost, Pending, NoFrame

LEMMA NextReport ==
  RingTypes /\ DataTypes /\ ControlInv /\ ReportInv /\ [Next]_vars => ReportInv'
<1> SUFFICES ASSUME RingTypes, DataTypes, Calls, Lockstep, ReportInv, [Next]_vars
             PROVE  ReportInv'
  BY DEF ControlInv
<1>0. /\ 0 \in Client /\ 1 \in Client /\ 3 \in Client
      /\ client \in [Client -> ClientRec]
  BY DEF Client, DataTypes
<1>1. CASE Photo
  <2>1. passed + 1 \in Car
    BY <1>1, BoundAssumption DEF Photo, DataTypes, Car
  <2> DEFINE S == IF Len(stateQ) < StateCap THEN {passed + 1} ELSE {}
             I == IF Len(intervalQ) < IntervalCap THEN {passed + 1} ELSE {}
  <2>2. Range(stateQ') = Range(stateQ) \cup S
    BY <1>1, <2>1, RangeSteps DEF Photo, DataTypes
  <2>3. Range(intervalQ') = Range(intervalQ) \cup I
    BY <1>1, <2>1, RangeSteps DEF Photo, DataTypes
  <2>4. accepted'.state = accepted.state \cup S /\ accepted'.interval = accepted.interval \cup I
    BY <1>1 DEF Photo
  <2>5. client' = client /\ pc' = pc /\ en' = en /\ handed' = handed
    BY <1>1 DEF Photo
  <2> HIDE DEF S, I
  <2>6. /\ Pending("CMD")' = Pending("CMD") /\ Pending("INTERVAL")' = Pending("INTERVAL")
        /\ BufferKnown'
    BY <2>5 DEF Pending, ReportInv, BufferKnown, Loading
  <2> QED BY <2>2, <2>3, <2>4, <2>5, <2>6 DEF ReportInv, NoReportLost
<1>2. CASE PositionReset \/ SecondTick \/ UNCHANGED vars
  BY <1>2, ReportFrame DEF PositionReset, SecondTick, vars, Loading
<1>3. CASE Ethernet \/ SecProcess
  BY <1>3, ReportFrame DEF Ethernet, SecProcess, Loading
<1>4. CASE Packet
  <2>1. client'[0].buf = client[0].buf /\ client'[0].send_en = client[0].send_en
    BY <1>0, <1>4 DEF Packet, ClientRec
  <2> QED BY <1>4, <2>1, ReportFrame DEF Packet, Loading
<1>5. CASE Receive
  <2>1. client'[0].buf = client[0].buf /\ client'[0].send_en = client[0].send_en
    BY <1>0, <1>5 DEF Receive, ClientRec
  <2>2. ~Loading /\ ~Loading'
    BY <1>5, NotLoading DEF Receive, CallEnQueue, NotEn, Loading
  <2> QED BY <1>5, <2>1, <2>2, ReportFrame DEF Receive
<1>6. CASE Version \/ StateMsg
  <2>1. ~Loading /\ ~Loading'
    BY <1>6, NotLoading DEF Version, StateMsg, CallEnQueue, NotEn, Loading
  <2> QED BY <1>6, <2>1, ReportFrame DEF Version, StateMsg
<1>7. CASE CarSend
  <2>1. client'[0] = client[0]
    BY <1>0, <1>7 DEF CarSend, ToSend
  <2> QED BY <1>7, <2>1, ReportFrame DEF CarSend, Loading
<1>8. CASE CarThreeSend
  <2>1. client'[0] = client[0]
    BY <1>0, <1>8 DEF CarThreeSend, ToSend
  <2> QED BY <1>8, <2>1, ReportFrame DEF CarThreeSend, Loading
<1>9. CASE InEnQueue
  <2>1. Loading' <=> Loading
    <3>1. CASE Return
      BY <1>9, <3>1 DEF InEnQueue, Return, NotEn, Loading, Calls, RingTypes
    <3>2. CASE ~Return
      BY <1>9, <3>2 DEF InEnQueue, EnTest, EnCompute, EnStoreRear, EnLoadIndex, EnWrite,
                        RingTypes, Loading
    <3> QED BY <3>1, <3>2
  <2> QED BY <1>9, <2>1, ReportFrame DEF InEnQueue
<1>10. CASE Clients
  <2>1. ~Loading /\ ~Loading' /\ client[0].statue \in {"NEW", "DIS", "OK"}
    BY <1>0, <1>10, NotLoading DEF Clients, Loading, Lockstep, ClientRec
  <2>2. client[0].statue = "NEW" => client[0].send_en = 0
    BY DEF Lockstep
  <2>3. /\ client'[0].buf = client[0].buf
        /\ client'[0].send_en = IF Sends(0) THEN 0 ELSE client[0].send_en
    BY <1>0, <1>10, <2>1, <2>2 DEF Clients, ClientStep, Sends, ClientRec
  <2>4. /\ handed'.state = handed.state \cup Sent(0, "CMD")
        /\ handed'.interval = handed.interval \cup Sent(0, "INTERVAL")
        /\ UNCHANGED <<stateQ, intervalQ, accepted>>
    BY <1>10 DEF Clients
  <2>5. CASE Sends(0)
    BY <2>1, <2>3, <2>4, <2>5 DEF Sends, Sent, ReportInv, BufferKnown, NoReportLost,
                                  Pending, Loading
  <2>6. CASE ~Sends(0)
    BY <2>1, <2>3, <2>4, <2>6 DEF Sent, ReportInv, BufferKnown, NoReportLost, Pending, Loading
  <2> QED BY <2>5, <2>6
<1>11. CASE Send
  <2>0. ~Loading /\ en.q = "msg" /\ UNCHANGED <<accepted, handed>>
    BY <1>11, NotLoading DEF Send
  <2>1. CASE SendBusy
    BY <2>0, <2>1, ReportFrame DEF SendBusy, Loading
  <2>2. CASE SendNoState
    BY <2>0, <2>2, ReportFrame DEF SendNoState, Loading
  <2>a. SUFFICES ASSUME client[0].send_en = 0 PROVE ReportInv'
    BY <1>11, <2>1 DEF Send
  <2>b. Pending("CMD") = {} /\ Pending("INTERVAL") = {}
    BY <2>0, <2>a DEF Pending, Loading
  <2>3. CASE SendReply
    <3>1. /\ client'[0].buf = [kind |-> NextToken, car |-> 0] /\ client'[0].send_en = 1
          /\ NextToken \notin {"CMD", "INTERVAL"}
      BY <1>0, <2>3 DEF SendReply, ToSend, ClientRec
    <3>2. ~Loading'
      BY <2>0, <2>3 DEF SendReply, Loading
    <3>3. Pending("CMD")' = {} /\ Pending("INTERVAL")' = {}
      BY <3>1 DEF Pending
    <3>4. BufferKnown'
      BY <3>1, <3>2 DEF BufferKnown
    <3> QED BY <2>0, <2>3, <2>b, <3>3, <3>4 DEF SendReply, ReportInv, NoReportLost
  <2>4. CASE SendState
    <3>1. /\ client'[0].buf = [kind |-> "CMD", car |-> Head(stateQ)]
          /\ client'[0].send_en = 1
      BY <1>0, <2>4 DEF SendState, ToSend, ClientRec
    <3>2. ~Loading' /\ UNCHANGED intervalQ
      BY <2>0, <2>4 DEF SendState, Loading
    <3>3. Range(stateQ) = {Head(stateQ)} \cup Range(stateQ')
      BY <2>4, RangeSteps DEF SendState, DataTypes
    <3>4. Pending("CMD")' = {Head(stateQ)} /\ Pending("INTERVAL")' = {}
      BY <3>1, <3>2 DEF Pending, Loading
    <3>5. BufferKnown'
      BY <3>1, <3>2 DEF BufferKnown
    <3> QED BY <2>0, <2>b, <3>2, <3>3, <3>4, <3>5 DEF ReportInv, NoReportLost
  <2>5. CASE SendInterval
    <3>1. /\ client'[0].buf = [kind |-> "INTERVAL", car |-> Head(intervalQ)]
          /\ client'[0].send_en = 0
      BY <1>0, <2>5, <2>a DEF SendInterval, ClientRec
    <3>2. Loading' /\ UNCHANGED stateQ
      BY <2>5 DEF SendInterval, CallEnQueue, NotEn, Loading
    <3>3. Range(intervalQ) = {Head(intervalQ)} \cup Range(intervalQ')
      BY <2>5, RangeSteps DEF SendInterval, DataTypes
    <3>4. Pending("INTERVAL")' = {Head(intervalQ)} /\ Pending("CMD")' = {}
      BY <3>1, <3>2 DEF Pending, Loading
    <3>5. BufferKnown'
      BY <3>1, <3>2 DEF BufferKnown
    <3> QED BY <2>0, <2>b, <3>2, <3>3, <3>4, <3>5 DEF ReportInv, NoReportLost
  <2>6. CASE SendNoInterval
    <3>1. client'[0].buf = client[0].buf /\ client'[0].send_en = 1
      BY <1>0, <2>6 DEF SendNoInterval, ClientRec
    <3>2. ~Loading' /\ UNCHANGED <<stateQ, intervalQ>>
      BY <2>0, <2>6 DEF SendNoInterval, Loading
    <3>3. /\ client[0].buf.kind = "CMD" => client[0].buf.car \in handed.state
          /\ client[0].buf.kind = "INTERVAL" => client[0].buf.car \in handed.interval
      BY <2>0, <2>a DEF ReportInv, BufferKnown
    <3>4. Pending("CMD")' \subseteq handed.state /\ Pending("INTERVAL")' \subseteq handed.interval
      BY <3>1, <3>2, <3>3 DEF Pending
    <3>5. BufferKnown'
      BY <3>1, <3>2 DEF BufferKnown
    <3> QED BY <2>0, <2>b, <3>2, <3>4, <3>5 DEF ReportInv, NoReportLost
  <2>7. CASE SendHeart
    <3>1. ~Loading' /\ UNCHANGED <<stateQ, intervalQ>>
      BY <2>0, <2>7 DEF SendHeart, Loading
    <3>2. CASE UNCHANGED client
      BY <2>0, <3>1, <3>2, ReportFrame
    <3>3. CASE ToSend(0, [kind |-> "HEART", car |-> 0])
      <4>1. client'[0].buf = [kind |-> "HEART", car |-> 0] /\ client'[0].send_en = 1
        BY <1>0, <3>3 DEF ToSend, ClientRec
      <4>2. Pending("CMD")' = {} /\ Pending("INTERVAL")' = {}
        BY <4>1 DEF Pending
      <4>3. BufferKnown'
        BY <3>1, <4>1 DEF BufferKnown
      <4> QED BY <2>0, <2>b, <3>1, <4>2, <4>3 DEF ReportInv, NoReportLost
    <3> QED BY <2>7, <3>2, <3>3 DEF SendHeart
  <2> QED BY <1>11, <2>1, <2>2, <2>3, <2>4, <2>5, <2>6, <2>7 DEF Send
<1>12. CASE SendIntervalDone
  <2>1. client'[0].buf = client[0].buf /\ client'[0].send_en = 1
    BY <1>0, <1>12 DEF SendIntervalDone, ClientRec
  <2>2. Loading /\ ~Loading' /\ UNCHANGED <<stateQ, intervalQ, accepted, handed>>
    BY <1>12 DEF SendIntervalDone, Loading, Calls
  <2> QED BY <2>1, <2>2 DEF ReportInv, BufferKnown, NoReportLost, Pending, Loading
<1> QED BY <1>1, <1>2, <1>3, <1>4, <1>5, <1>6, <1>7, <1>8, <1>9, <1>10, <1>11,
           <1>12 DEF Next, MainLoop
----------------------------------------------------------------------------
(* Mirror: what client 3 is told. *)

LEMMA InitMirror == Init => MirrorInv
BY DEF Init, MirrorInv, MirrorComplete, NoFrame, Client

(* What MirrorInv is about, when the register is not involved. *)
LEMMA MirrorFrame ==
  ASSUME MirrorInv, ToldNext => ToldNext',
         client'[0].buf = client[0].buf, client'[0].send_en = client[0].send_en,
         client'[3].buf = client[3].buf, client'[3].send_en = client[3].send_en,
         UNCHANGED <<threeQ, GndThreemsg, handed>>
  PROVE  MirrorInv'
BY DEF MirrorInv, MirrorComplete

LEMMA NextMirror ==
  /\ RingTypes /\ DataTypes /\ ControlInv /\ ReportInv /\ MirrorInv
  /\ [Next]_vars
  => MirrorInv'
<1> SUFFICES ASSUME RingTypes, DataTypes, Calls, Lockstep, ReportInv, MirrorInv, [Next]_vars
             PROVE  MirrorInv'
  BY DEF ControlInv
<1>0. /\ 0 \in Client /\ 1 \in Client /\ 3 \in Client
      /\ client \in [Client -> ClientRec]
  BY DEF Client, DataTypes
<1>1. CASE Photo \/ PositionReset \/ SecondTick \/ UNCHANGED vars
  BY <1>1, MirrorFrame DEF Photo, PositionReset, SecondTick, vars, ToldNext
<1>2. CASE Ethernet \/ SecProcess \/ Version
  BY <1>2, MirrorFrame DEF Ethernet, SecProcess, Version, ToldNext
<1>3. CASE Packet
  <2>1. /\ client'[0].buf = client[0].buf /\ client'[0].send_en = client[0].send_en
        /\ client'[3] = client[3]
    BY <1>0, <1>3 DEF Packet, ClientRec
  <2> QED BY <1>3, <2>1, MirrorFrame DEF Packet, ToldNext
<1>4. CASE Receive
  <2>1. /\ client'[0].buf = client[0].buf /\ client'[0].send_en = client[0].send_en
        /\ client'[3] = client[3]
    BY <1>0, <1>4 DEF Receive, ClientRec
  <2> QED BY <1>4, <2>1, MirrorFrame DEF Receive, ToldNext
<1>5. CASE StateMsg
  BY <1>5, MirrorFrame DEF StateMsg, CallEnQueue, NotEn, ToldNext
<1>6. CASE InEnQueue
  <2>1. ToldNext => ToldNext'
    <3>1. CASE Return
      BY <1>6, <3>1 DEF InEnQueue, Return, ToldNext
    <3>2. CASE ~Return
      BY <1>6, <3>2 DEF InEnQueue, EnTest, EnCompute, EnStoreRear, EnLoadIndex, EnWrite,
                        RingTypes, ToldNext
    <3> QED BY <3>1, <3>2
  <2> QED BY <1>6, <2>1, MirrorFrame DEF InEnQueue
<1>7. CASE CarSend
  <2>1. client'[0] = client[0] /\ client'[3] = client[3]
    BY <1>0, <1>7 DEF CarSend, ToSend
  <2> QED BY <1>7, <2>1, MirrorFrame DEF CarSend, ToldNext
<1>8. CASE CarThreeSend
  <2>1. CASE threeQ = 1
    <3>1. /\ client[0].send_en = 1 /\ client[3].send_en = 0
          /\ client[0].buf = [kind |-> "CMD", car |-> GndThreemsg]
      BY <2>1 DEF MirrorInv
    <3>2. /\ client'[0] = client[0] /\ client'[3].send_en = 1 /\ threeQ' = 0
          /\ client'[3].buf = [kind |-> "CMD", car |-> GndThreemsg]
      BY <1>0, <1>8, <2>1, <3>1 DEF CarThreeSend, ToSend, ClientRec
    <3> QED BY <1>8, <3>1, <3>2 DEF CarThreeSend, MirrorInv, MirrorComplete
  <2>2. CASE threeQ = 0
    <3>1. UNCHANGED <<client, threeQ, GndThreemsg, handed>>
      BY <1>8, <2>2 DEF CarThreeSend
    <3> QED BY <2>2, <3>1 DEF MirrorInv, MirrorComplete
  <2> QED BY <2>1, <2>2 DEF MirrorInv
<1>9. CASE SendIntervalDone
  <2>1. Loading /\ client[0].send_en = 0 /\ client[0].buf.kind = "INTERVAL"
    BY <1>9 DEF SendIntervalDone, Loading, ReportInv, BufferKnown
  <2>2. client'[0].buf = client[0].buf /\ client'[0].send_en = 1 /\ client'[3] = client[3]
    BY <1>0, <1>9 DEF SendIntervalDone, ClientRec
  <2>3. threeQ = 0 /\ client[3].send_en = 0
    BY <1>0, <1>9, <2>1 DEF SendIntervalDone, MirrorInv, ClientRec
  <2> QED BY <1>9, <2>1, <2>2, <2>3 DEF SendIntervalDone, MirrorInv, MirrorComplete
<1>10. CASE Clients
  <2>1. threeQ = 0 /\ threeQ' = threeQ
    BY <1>10 DEF Clients, MirrorInv, ToldNext
  <2>2. client[0].statue \in {"NEW", "DIS", "OK"} /\ client[3].statue = client[0].statue
    BY <1>0, <1>10 DEF Clients, Lockstep, ClientRec
  <2>3. client[0].statue = "NEW" => client[0].send_en = 0 /\ client[3].send_en = 0
    BY DEF Lockstep
  <2>4. /\ client'[0] = ClientStep(client[0]) /\ client'[3] = ClientStep(client[3])
        /\ handed'.state = handed.state \cup Sent(0, "CMD")
        /\ handed'.three = handed.three \cup Sent(3, "CMD")
    BY <1>0, <1>10 DEF Clients
  <2>5. CASE client[0].statue = "OK"
    <3>1. client'[0].send_en = 0 /\ client'[3].send_en = 0
      BY <1>0, <2>2, <2>4, <2>5 DEF ClientStep, ClientRec
    <3>2. Sent(3, "CMD") \subseteq Sent(0, "CMD")
      BY <2>2, <2>5 DEF Sent, Sends, MirrorInv
    <3>3. Sent(0, "CMD") \subseteq handed.state \cup Sent(3, "CMD")
      BY <2>1, <2>2, <2>5 DEF Sent, Sends, MirrorInv
    <3> QED BY <2>1, <2>4, <3>1, <3>2, <3>3 DEF MirrorInv, MirrorComplete
  <2>6. CASE client[0].statue # "OK"
    <3>1. Sent(0, "CMD") = {} /\ Sent(3, "CMD") = {}
      BY <2>2, <2>6 DEF Sent, Sends
    <3>2. /\ client'[0].send_en = client[0].send_en /\ client'[0].buf = client[0].buf
          /\ client'[3].send_en = client[3].send_en /\ client'[3].buf = client[3].buf
      BY <1>0, <2>2, <2>3, <2>4, <2>6 DEF ClientStep, ClientRec
    <3> QED BY <2>1, <2>4, <3>1, <3>2 DEF MirrorInv, MirrorComplete
  <2> QED BY <2>5, <2>6
<1>11. CASE Send
  <2>0. ~ToldNext /\ threeQ = 0 /\ handed' = handed
    BY <1>11 DEF Send, MirrorInv, ToldNext
  <2>1. CASE SendBusy \/ SendNoState
    BY <2>0, <2>1, MirrorFrame DEF SendBusy, SendNoState
  <2>a. SUFFICES ASSUME client[0].send_en = 0 PROVE MirrorInv'
    BY <1>11, <2>1 DEF Send
  <2>b. client[3].send_en = 0
    BY <1>0, <2>a DEF MirrorInv, ClientRec
  <2>3. CASE SendReply
    <3>1. /\ client'[0].buf = [kind |-> NextToken, car |-> 0] /\ client'[0].send_en = 1
          /\ client'[3] = client[3] /\ NextToken # "CMD" /\ threeQ' = threeQ
      BY <1>0, <2>3 DEF SendReply, ToSend, ClientRec
    <3> QED BY <2>0, <2>b, <3>1 DEF MirrorInv, MirrorComplete
  <2>4. CASE SendState
    <3>1. /\ client'[0].buf = [kind |-> "CMD", car |-> Head(stateQ)]
          /\ client'[0].send_en = 1 /\ client'[3] = client[3]
          /\ GndThreemsg' = Head(stateQ) /\ threeQ' = 1 /\ pc' = "state"
      BY <1>0, <2>0, <2>4, BoundAssumption DEF SendState, ToSend, ClientRec
    <3>2. ToldNext'
      BY <3>1 DEF ToldNext
    <3> QED BY <2>0, <2>b, <3>1, <3>2 DEF MirrorInv, MirrorComplete
  <2>5. CASE SendInterval
    <3>1. client'[0].send_en = 0 /\ client'[3] = client[3] /\ threeQ' = threeQ
      BY <1>0, <2>5, <2>a DEF SendInterval, ClientRec
    <3> QED BY <2>0, <2>b, <3>1 DEF MirrorInv, MirrorComplete
  <2>6. CASE SendNoInterval
    <3>1. /\ client'[0].buf = client[0].buf /\ client'[0].send_en = 1
          /\ client'[3] = client[3] /\ threeQ' = threeQ
      BY <1>0, <2>6 DEF SendNoInterval, ClientRec
    <3>2. client[0].buf.kind = "CMD" => client[0].buf.car \in handed.state
      BY <1>11, <2>a, NotLoading DEF Send, ReportInv, BufferKnown
    <3> QED BY <2>0, <2>b, <3>1, <3>2 DEF MirrorInv, MirrorComplete
  <2>7. CASE SendHeart
    <3>1. CASE UNCHANGED client
      BY <2>0, <2>7, <3>1, MirrorFrame DEF SendHeart
    <3>2. CASE ToSend(0, [kind |-> "HEART", car |-> 0])
      <4>1. /\ client'[0].buf = [kind |-> "HEART", car |-> 0] /\ client'[0].send_en = 1
            /\ client'[3] = client[3] /\ threeQ' = threeQ
        BY <1>0, <2>7, <3>2 DEF SendHeart, ToSend, ClientRec
      <4> QED BY <2>0, <2>b, <4>1 DEF MirrorInv, MirrorComplete
    <3> QED BY <2>7, <3>1, <3>2 DEF SendHeart
  <2> QED BY <1>11, <2>1, <2>3, <2>4, <2>5, <2>6, <2>7 DEF Send
<1> QED BY <1>1, <1>2, <1>3, <1>4, <1>5, <1>6, <1>7, <1>8, <1>9, <1>10,
           <1>11 DEF Next, MainLoop
----------------------------------------------------------------------------
(* Order. *)

LEMMA CarNat == Car \subseteq Nat
BY BoundAssumption DEF Car

LEMMA CarOrder ==
  \A a, b, c \in Car : a <= a /\ (a < b => a <= b) /\ (a <= b /\ b < c => a <= c)
BY CarNat

LEMMA OrderAppend ==
  ASSUME NEW s \in Seq(Car), NEW m \in Nat, m + 1 \in Car,
         Increasing(s), UpTo(Range(s), m)
  PROVE  /\ Increasing(Append(s, m + 1))
         /\ \A S \in SUBSET Car : Newer(s, S) /\ UpTo(S, m) => Newer(Append(s, m + 1), S)
<1> DEFINE t == Append(s, m + 1)
<1>1. /\ Len(t) = Len(s) + 1 /\ Len(s) \in Nat /\ t[Len(s) + 1] = m + 1
      /\ \A i \in 1..Len(s) : t[i] = s[i]
      /\ \A i \in 1..Len(s) : s[i] \in Car
  OBVIOUS
<1>2. \A i \in 1..Len(s) : s[i] <= m /\ s[i] \in Nat
  <2>1. \A i \in 1..Len(s) : s[i] \in Range(s)
    BY DEF Range
  <2> QED BY <1>1, <2>1, CarNat DEF UpTo
<1> HIDE DEF t
<1>3. ASSUME NEW i \in 1..Len(t), NEW j \in 1..Len(t), i < j PROVE t[i] < t[j]
  <2>1. i \in 1..Len(s)
    BY <1>1, <1>3
  <2>2. CASE j \in 1..Len(s)
    BY <1>1, <1>3, <2>1, <2>2 DEF Increasing
  <2>3. CASE j = Len(s) + 1
    BY <1>1, <1>2, <2>1, <2>3
  <2> QED BY <1>1, <2>2, <2>3
<1>4. ASSUME NEW S \in SUBSET Car, Newer(s, S), UpTo(S, m), NEW i \in 1..Len(t),
             NEW old \in S
      PROVE  old < t[i]
  <2>1. CASE i \in 1..Len(s)
    BY <1>1, <1>4, <2>1 DEF Newer
  <2>2. CASE i = Len(s) + 1
    BY <1>1, <1>4, <2>2, CarNat DEF UpTo
  <2> QED BY <1>1, <2>1, <2>2
<1> QED BY <1>3, <1>4 DEF t, Increasing, Newer

LEMMA OrderTail ==
  ASSUME NEW s \in Seq(Car), s # << >>, Increasing(s)
  PROVE  /\ Increasing(Tail(s)) /\ Newer(Tail(s), {Head(s)})
         /\ \A S : Newer(s, S) => Newer(Tail(s), S) /\ \A old \in S : old < Head(s)
<1> DEFINE t == Tail(s)
<1>1. /\ Len(t) = Len(s) - 1 /\ Len(s) \in Nat /\ Len(s) > 0 /\ Head(s) = s[1]
      /\ \A i \in 1..Len(t) : t[i] = s[i + 1]
  OBVIOUS
<1> HIDE DEF t
<1>2. \A i \in 1..Len(t) : i + 1 \in 1..Len(s) /\ 1 < i + 1
  BY <1>1
<1>3. Increasing(t)
  BY <1>1, <1>2 DEF Increasing
<1>4. 1 \in 1..Len(s)
  BY <1>1
<1>5. Newer(t, {Head(s)})
  BY <1>1, <1>2, <1>4 DEF Increasing, Newer
<1>6. ASSUME NEW S, Newer(s, S) PROVE Newer(t, S) /\ \A old \in S : old < Head(s)
  BY <1>1, <1>2, <1>4, <1>6 DEF Newer
<1> QED BY <1>3, <1>5, <1>6 DEF t

LEMMA InitOrder == Init => OrderInv
<1> SUFFICES ASSUME Init PROVE OrderInv
  OBVIOUS
<1>1. Len(stateQ) = 0 /\ Len(intervalQ) = 0 /\ Range(stateQ) = {} /\ Range(intervalQ) = {}
  BY DEF Init, Range
<1>2. client[0].buf.kind = "NONE" /\ client[1].buf.kind = "NONE"
  BY DEF Init, NoFrame, Client
<1> QED BY <1>1, <1>2 DEF Init, OrderInv, Increasing, Newer, UpTo

LEMMA OrderFrame ==
  ASSUME OrderInv, client'[0].buf = client[0].buf, client'[1].buf = client[1].buf,
         UNCHANGED <<stateQ, intervalQ, handed, carfunint, passed>>
  PROVE  OrderInv'
BY DEF OrderInv

(* A frame that is no report has no place in the order. *)
LEMMA OrderOther ==
  ASSUME OrderInv, client'[0].buf.kind \notin {"CMD", "INTERVAL"}, client'[1] = client[1],
         UNCHANGED <<stateQ, intervalQ, handed, carfunint, passed>>
  PROVE  OrderInv'
BY DEF OrderInv

LEMMA NextOrder ==
  RingTypes /\ DataTypes /\ ControlInv /\ OrderInv /\ [Next]_vars => OrderInv'
<1> SUFFICES ASSUME RingTypes, DataTypes, Lockstep, OrderInv, [Next]_vars
             PROVE  OrderInv'
  BY DEF ControlInv
<1>0. /\ 0 \in Client /\ 1 \in Client /\ 3 \in Client
      /\ client \in [Client -> ClientRec]
      /\ stateQ \in Seq(Car) /\ intervalQ \in Seq(Car) /\ passed \in Nat
      /\ handed.state \in SUBSET Car /\ handed.interval \in SUBSET Car
      /\ carfunint \in Car /\ client[0].buf.car \in Car /\ client[1].buf.car \in Car
  BY DEF Client, DataTypes, ClientRec, Frame
<1>1. CASE Photo
  <2>1. /\ passed' = passed + 1 /\ passed + 1 \in Car
        /\ UNCHANGED <<client, carfunint, handed>>
    BY <1>1, BoundAssumption DEF Photo, DataTypes, Car
  <2>2. stateQ' = stateQ \/ stateQ' = Append(stateQ, passed + 1)
    BY <1>1 DEF Photo
  <2>3. intervalQ' = intervalQ \/ intervalQ' = Append(intervalQ, passed + 1)
    BY <1>1 DEF Photo
  <2>4. /\ Increasing(stateQ')
        /\ \A S \in SUBSET Car : Newer(stateQ, S) /\ UpTo(S, passed) => Newer(stateQ', S)
    BY <1>0, <2>1, <2>2, OrderAppend DEF OrderInv, UpTo
  <2>5. /\ Increasing(intervalQ')
        /\ \A S \in SUBSET Car : Newer(intervalQ, S) /\ UpTo(S, passed) => Newer(intervalQ', S)
    BY <1>0, <2>1, <2>3, OrderAppend DEF OrderInv, UpTo
  <2>6. \A c \in Car : c <= passed => c <= passed'
    BY <1>0, <2>1, CarNat
  <2>7. UpTo(Range(stateQ') \cup Range(intervalQ'), passed')
    <3>a. /\ Range(Append(stateQ, passed + 1)) = Range(stateQ) \cup {passed + 1}
          /\ Range(Append(intervalQ, passed + 1)) = Range(intervalQ) \cup {passed + 1}
      BY <1>0, <2>1, RangeSteps
    <3>1. Range(stateQ') \subseteq Range(stateQ) \cup {passed + 1}
      BY <2>2, <3>a
    <3>2. Range(intervalQ') \subseteq Range(intervalQ) \cup {passed + 1}
      BY <2>3, <3>a
    <3>3. Range(stateQ) \subseteq Car /\ Range(intervalQ) \subseteq Car
      BY <1>0 DEF Range
    <3>4. passed + 1 <= passed'
      BY <1>0, <2>1
    <3> QED BY <2>6, <3>1, <3>2, <3>3, <3>4 DEF OrderInv, UpTo
  <2>8. UpTo(handed.state \cup handed.interval \cup {carfunint}, passed')
    BY <1>0, <2>6 DEF OrderInv, UpTo
  <2>9. Newer(stateQ', handed.state) /\ Newer(intervalQ', handed.interval)
    BY <1>0, <2>4, <2>5 DEF OrderInv, UpTo
  <2>10. Newer(intervalQ', {carfunint})
    BY <1>0, <2>5 DEF OrderInv, UpTo
  <2>11. client[0].buf.kind = "CMD" => Newer(stateQ', {client[0].buf.car})
    BY <1>0, <2>4 DEF OrderInv, UpTo
  <2>12. client[0].buf.kind = "INTERVAL" => Newer(intervalQ', {client[0].buf.car})
    BY <1>0, <2>5 DEF OrderInv, UpTo
  <2> QED BY <1>0, <2>1, <2>4, <2>5, <2>6, <2>7, <2>8, <2>9, <2>10, <2>11, <2>12 DEF OrderInv
<1>2. CASE PositionReset \/ SecondTick \/ UNCHANGED vars
  BY <1>2, OrderFrame DEF PositionReset, SecondTick, vars
<1>3. CASE Ethernet \/ SecProcess \/ Version \/ StateMsg \/ InEnQueue
  BY <1>3, OrderFrame DEF Ethernet, SecProcess, Version, StateMsg, InEnQueue
<1>4. CASE Packet
  <2>1. client'[0].buf = client[0].buf /\ client'[1] = client[1]
    BY <1>0, <1>4 DEF Packet, ClientRec
  <2> QED BY <1>4, <2>1, OrderFrame DEF Packet
<1>5. CASE Receive
  <2>1. client'[0].buf = client[0].buf /\ client'[1] = client[1]
    BY <1>0, <1>5 DEF Receive, ClientRec
  <2> QED BY <1>5, <2>1, OrderFrame DEF Receive
<1>6. CASE CarThreeSend
  <2>1. client'[0] = client[0] /\ client'[1] = client[1]
    BY <1>0, <1>6 DEF CarThreeSend, ToSend
  <2> QED BY <1>6, <2>1, OrderFrame DEF CarThreeSend
<1>7. CASE SendIntervalDone
  <2>1. client'[0].buf = client[0].buf /\ client'[1] = client[1]
    BY <1>0, <1>7 DEF SendIntervalDone, ClientRec
  <2> QED BY <1>7, <2>1, OrderFrame DEF SendIntervalDone
<1>8. CASE CarSend
  <2>1. client'[0] = client[0] /\ UNCHANGED <<stateQ, intervalQ, handed, carfunint, passed>>
    BY <1>0, <1>8 DEF CarSend, ToSend
  <2>2. \/ client'[1] = client[1]
        \/ client'[1].buf = [kind |-> "CAR", car |-> carfunint]
    BY <1>0, <1>8 DEF CarSend, ToSend, ClientRec
  <2>3. CASE client'[1] = client[1]
    BY <2>1, <2>3, OrderFrame
  <2>4. CASE client'[1].buf = [kind |-> "CAR", car |-> carfunint]
    <3>1. carfunint <= carfunint
      BY <1>0, CarNat
    <3> QED BY <2>1, <2>4, <3>1 DEF OrderInv
  <2> QED BY <2>2, <2>3, <2>4
<1>9. CASE Clients
  <2>1. \A c \in Client : client'[c].buf = client[c].buf
    <3>1. \A c \in Client : client[c].statue \in {"NEW", "DIS", "OK"}
      BY <1>0, <1>9 DEF Clients, Lockstep, ClientRec
    <3> QED BY <1>0, <1>9, <3>1 DEF Clients, ClientStep, ClientRec
  <2>2. /\ handed'.state = handed.state \cup Sent(0, "CMD")
        /\ handed'.interval = handed.interval \cup Sent(0, "INTERVAL")
        /\ handed'.car = handed.car \cup Sent(1, "CAR")
        /\ UNCHANGED <<stateQ, intervalQ, carfunint, passed>>
    BY <1>9 DEF Clients
  <2>3. /\ Sent(0, "CMD") # {} =>
             client[0].buf.kind = "CMD" /\ Sent(0, "CMD") = {client[0].buf.car}
        /\ Sent(0, "INTERVAL") # {} =>
             client[0].buf.kind = "INTERVAL" /\ Sent(0, "INTERVAL") = {client[0].buf.car}
        /\ Sent(1, "CAR") # {} =>
             client[1].buf.kind = "CAR" /\ Sent(1, "CAR") = {client[1].buf.car}
    BY DEF Sent
  <2>4. client[0].buf.car <= client[0].buf.car /\ client[1].buf.car <= client[1].buf.car
    BY <1>0, CarOrder
  <2>5. Newer(stateQ, handed'.state) /\ Newer(intervalQ, handed'.interval)
    BY <2>2, <2>3 DEF OrderInv, Newer
  <2>6. UpTo(handed'.state \cup handed'.interval \cup {carfunint}, passed)
    BY <2>2, <2>3 DEF OrderInv, UpTo
  <2>7. client[0].buf.kind = "CMD" => UpTo(handed'.state, client[0].buf.car)
    BY <2>2, <2>3, <2>4 DEF OrderInv, UpTo
  <2>8. client[0].buf.kind = "INTERVAL" => UpTo(handed'.interval, client[0].buf.car)
    BY <2>2, <2>3, <2>4 DEF OrderInv, UpTo
  <2>9. /\ UpTo(handed'.car, carfunint)
        /\ client[1].buf.kind = "CAR" => UpTo(handed'.car, client[1].buf.car)
    BY <2>2, <2>3, <2>4 DEF OrderInv, UpTo
  <2> QED BY <1>0, <2>1, <2>2, <2>5, <2>6, <2>7, <2>8, <2>9 DEF OrderInv
<1>10. CASE Send
  <2>0. UNCHANGED <<handed, passed>>
    BY <1>10 DEF Send
  <2>1. CASE SendBusy \/ SendNoState
    BY <2>0, <2>1, OrderFrame DEF SendBusy, SendNoState
  <2>2. CASE SendReply
    <3>1. client'[0].buf.kind = NextToken /\ client'[1] = client[1]
      BY <1>0, <2>2 DEF SendReply, ToSend, ClientRec
    <3> QED BY <2>0, <2>2, <3>1, OrderOther DEF SendReply
  <2>3. CASE SendHeart
    <3>1. \/ client' = client
          \/ client'[0].buf.kind = "HEART" /\ client'[1] = client[1]
      BY <1>0, <2>3 DEF SendHeart, ToSend, ClientRec
    <3>2. CASE client' = client
      BY <2>0, <2>3, <3>2, OrderFrame DEF SendHeart
    <3>3. CASE client'[0].buf.kind = "HEART" /\ client'[1] = client[1]
      BY <2>0, <2>3, <3>3, OrderOther DEF SendHeart
    <3> QED BY <3>1, <3>2, <3>3
  <2>4. CASE SendNoInterval
    <3>1. client'[0].buf = client[0].buf /\ client'[1] = client[1]
      BY <1>0, <2>4 DEF SendNoInterval, ClientRec
    <3> QED BY <2>0, <2>4, <3>1, OrderFrame DEF SendNoInterval
  <2>5. CASE SendState
    <3> DEFINE h == Head(stateQ)
    <3>1. /\ client'[0].buf = [kind |-> "CMD", car |-> h] /\ client'[1] = client[1]
          /\ stateQ # << >> /\ stateQ' = Tail(stateQ) /\ UNCHANGED <<intervalQ, carfunint>>
      BY <1>0, <2>5 DEF SendState, ToSend, ClientRec
    <3>2. h \in Car /\ h \in Range(stateQ) /\ Range(stateQ') \subseteq Range(stateQ)
      BY <1>0, <3>1, SeqSteps, RangeSteps
    <3>3. /\ Increasing(stateQ') /\ Newer(stateQ', {h})
          /\ Newer(stateQ', handed.state) /\ \A old \in handed.state : old < h
      BY <1>0, <3>1, OrderTail DEF OrderInv
    <3>4. UpTo(handed.state, h)
      BY <1>0, <3>2, <3>3, CarNat DEF UpTo
    <3>5. h <= passed /\ UpTo(Range(stateQ') \cup Range(intervalQ), passed)
      BY <3>2 DEF OrderInv, UpTo
    <3> HIDE DEF h
    <3> QED BY <2>0, <3>1, <3>3, <3>4, <3>5 DEF OrderInv
  <2>6. CASE SendInterval
    <3> DEFINE h == Head(intervalQ)
    <3>1. /\ client'[0].buf = [kind |-> "INTERVAL", car |-> h] /\ client'[1] = client[1]
          /\ intervalQ # << >> /\ intervalQ' = Tail(intervalQ) /\ UNCHANGED stateQ
          /\ carfunint' = h
      BY <1>0, <2>6 DEF SendInterval, ClientRec
    <3>2. h \in Car /\ h \in Range(intervalQ) /\ Range(intervalQ') \subseteq Range(intervalQ)
      BY <1>0, <3>1, SeqSteps, RangeSteps
    <3>3. /\ Increasing(intervalQ') /\ Newer(intervalQ', {h})
          /\ Newer(intervalQ', handed.interval) /\ \A old \in handed.interval : old < h
          /\ carfunint < h
      BY <1>0, <3>1, OrderTail DEF OrderInv
    <3>4. UpTo(handed.interval, h)
      BY <1>0, <3>2, <3>3, CarNat DEF UpTo
    <3>5. h <= passed /\ UpTo(Range(stateQ) \cup Range(intervalQ'), passed)
      BY <3>2 DEF OrderInv, UpTo
    <3>6. UpTo(handed.state \cup handed.interval \cup {h}, passed)
      BY <3>5 DEF OrderInv, UpTo
    <3>7. handed.car \subseteq Car
      BY DEF DataTypes
    <3> HIDE DEF h
    <3>8. UpTo(handed.car, h)
      BY <1>0, <3>2, <3>3, <3>7, CarOrder DEF OrderInv, UpTo
    <3>9. client[1].buf.kind = "CAR" => client[1].buf.car <= h
      BY <1>0, <3>2, <3>3, CarOrder DEF OrderInv
    <3> QED BY <2>0, <3>1, <3>3, <3>4, <3>5, <3>6, <3>8, <3>9 DEF OrderInv
  <2> QED BY <1>10, <2>1, <2>2, <2>3, <2>4, <2>5, <2>6 DEF Send
<1> QED BY <1>1, <1>2, <1>3, <1>4, <1>5, <1>6, <1>7, <1>8, <1>9, <1>10 DEF Next, MainLoop
----------------------------------------------------------------------------
(* The whole. *)

LEMMA NextFlag == FlagType /\ [Next]_vars => FlagType'
<1> SUFFICES ASSUME positionreset \in BOOLEAN, [Next]_vars
             PROVE  positionreset' \in BOOLEAN
  BY DEF FlagType
<1>1. positionreset' = positionreset \/ positionreset' = TRUE \/ positionreset' = FALSE
  <2>1. CASE PositionReset \/ SendIntervalDone
    BY <2>1, Zenon DEF PositionReset, SendIntervalDone
  <2>2. CASE Photo \/ SecondTick \/ UNCHANGED vars
    BY <2>2, Zenon DEF Photo, SecondTick, vars
  <2>3. CASE Ethernet \/ Packet \/ Receive \/ Version \/ Clients \/ Send
               \/ StateMsg \/ CarSend \/ CarThreeSend \/ SecProcess \/ InEnQueue
    BY <2>3, Zenon DEF Ethernet, Packet, Receive, Version, Clients, Send, StateMsg, CarSend,
                       CarThreeSend, SecProcess, InEnQueue
  <2> QED BY <2>1, <2>2, <2>3, Zenon DEF Next, MainLoop
<1> QED BY <1>1, Zenon

LEMMA InitG == Init => GInv
<1>1. Init => FlagType
  BY Zenon DEF Init, FlagType
<1> QED BY <1>1, InitRings, InitData, InitControl, InitReport, InitMirror, InitOrder DEF GInv

LEMMA NextG == GInv /\ [Next]_vars => GInv'
<1> SUFFICES ASSUME GInv, [Next]_vars PROVE GInv'
  OBVIOUS
<1>1. RingTypes' /\ DataTypes' /\ FlagType'
  BY NextRings, NextData, NextFlag DEF GInv
<1>2. ControlInv'
  BY NextCalls, NextLockstep DEF GInv, ControlInv
<1>3. ReportInv' /\ MirrorInv' /\ OrderInv'
  BY NextReport, NextMirror, NextOrder DEF GInv
<1> QED BY <1>1, <1>2, <1>3 DEF GInv

(* The inductive invariant of the reporting path: types, the state of the  *)
(* main loop's calls and of the clients, and where every report is.        *)
THEOREM GInvHolds == Spec => []GInv
<1> QED BY InitG, NextG, PTL DEF Spec

LEMMA GInvType == GInv => TypeOK
<1> SUFFICES ASSUME GInv PROVE TypeOK
  OBVIOUS
<1> USE DEF GInv
<1>1. /\ stateQ \in BoundedSeq(Car, StateCap)
      /\ intervalQ \in BoundedSeq(Car, IntervalCap)
  <2>1. ASSUME NEW n \in Nat, NEW s \in Seq(Car), Len(s) <= n PROVE s \in BoundedSeq(Car, n)
    <3>1. Len(s) \in 0..n /\ s \in [1..Len(s) -> Car]
      BY <2>1
    <3> QED BY <3>1 DEF BoundedSeq, SeqOf
  <2>2. /\ stateQ \in Seq(Car) /\ Len(stateQ) <= StateCap /\ StateCap \in Nat
        /\ intervalQ \in Seq(Car) /\ Len(intervalQ) <= IntervalCap /\ IntervalCap \in Nat
    BY BoundAssumption DEF DataTypes
  <2> QED BY <2>1, <2>2, Zenon
<1>2. /\ \A k \in DOMAIN accepted : accepted[k] \subseteq Car
      /\ \A k \in DOMAIN handed : handed[k] \subseteq Car
  BY DEF DataTypes
<1>3. positionreset \in BOOLEAN
  BY Zenon DEF FlagType
<1>4. msgQ \in RingOf(Token, MsgLen) /\ carQ \in RingOf(CarToken, CarLen)
  BY DEF RingTypes
<1>5. /\ passed \in 0..MaxCar /\ received \in 0..MaxRx /\ eth \in {0, 1}
      /\ client \in [Client -> ClientRec] /\ rx \in Datagram \cup {"NONE"}
      /\ carfunint \in Car /\ GndThreemsg \in Car /\ threeQ \in 0..ThreeCap
      /\ heart_dely \in 0..HeartDelay /\ sec_flag \in {0, 1}
  BY DEF DataTypes
<1> QED BY <1>1, <1>2, <1>3, <1>4, <1>5, Zenon DEF TypeOK, ClientRec

(* Every variable of the reporting path keeps its type, for all sizes and  *)
(* whatever the race on the token rings does: the indices stay inside the  *)
(* arrays and the queues inside their bounds.                              *)
THEOREM TypesHold == Spec => []TypeOK
<1> QED BY GInvHolds, GInvType, PTL

(* No state or interval report is lost between the queue that accepted it  *)
(* and udp_send (main.c:77-127, fun.c:236-318), whatever happens to the    *)
(* tokens.                                                                 *)
THEOREM NoReportIsLost == Spec => []NoReportLost
<1>1. GInv => NoReportLost
  BY DEF GInv, ReportInv
<1> QED BY <1>1, GInvHolds, PTL

(* Client 3 is sent exactly the state reports the WCS is sent: the single  *)
(* register GndThreemsg is read before it is overwritten.                  *)
THEOREM MirrorIsComplete == Spec => []MirrorComplete
<1>1. GInv => MirrorComplete
  BY DEF GInv, MirrorInv
<1> QED BY <1>1, GInvHolds, PTL

(* Reports of one kind leave in the order the cars passed, to the WCS and  *)
(* to the clients 1 and 3, frames sent a second time included.             *)
THEOREM ReportsInOrder == Spec => InOrder
<1>1. GInv => [Clients =>
         /\ \A c \in Sent(0, "CMD"), old \in handed.state : old <= c
         /\ \A c \in Sent(0, "INTERVAL"), old \in handed.interval : old <= c
         /\ \A c \in Sent(1, "CAR"), old \in handed.car : old <= c
         /\ \A c \in Sent(3, "CMD"), old \in handed.three : old <= c]_vars
  <2> SUFFICES ASSUME GInv
               PROVE  /\ \A c \in Sent(0, "CMD"), old \in handed.state : old <= c
                      /\ \A c \in Sent(0, "INTERVAL"), old \in handed.interval : old <= c
                      /\ \A c \in Sent(1, "CAR"), old \in handed.car : old <= c
                      /\ \A c \in Sent(3, "CMD"), old \in handed.three : old <= c
    OBVIOUS
  <2>1. \A c \in Sent(0, "CMD"), old \in handed.state : old <= c
    BY DEF GInv, OrderInv, Sent, UpTo
  <2>2. \A c \in Sent(0, "INTERVAL"), old \in handed.interval : old <= c
    BY DEF GInv, OrderInv, Sent, UpTo
  <2>3. \A c \in Sent(1, "CAR"), old \in handed.car : old <= c
    BY DEF GInv, OrderInv, Sent, UpTo
  <2>4. ASSUME NEW c \in Sent(3, "CMD") PROVE client[0].buf.kind = "CMD" /\ c = client[0].buf.car
    BY DEF GInv, MirrorInv, Sent, Sends
  <2>5. \A c \in Sent(3, "CMD"), old \in handed.three : old <= c
    BY <2>4 DEF GInv, MirrorInv, MirrorComplete, OrderInv, UpTo
  <2> QED BY <2>1, <2>2, <2>3, <2>5
<1> QED BY <1>1, GInvHolds, PTL DEF InOrder
----------------------------------------------------------------------------
(* The two channels. *)
StateDue == Transit("CMD", handed.state) \o stateQ
IntervalDue == Transit("INTERVAL", handed.interval) \o intervalQ

LEMMA Join ==
  ASSUME NEW s \in Seq(Car), NEW c \in Car
  PROVE  /\ << >> \o s = s
         /\ <<c>> \o s \in Seq(Car) /\ <<c>> \o s # << >>
         /\ Len(<<c>> \o s) = Len(s) + 1 /\ Head(<<c>> \o s) = c /\ Tail(<<c>> \o s) = s
         /\ s # << >> => <<Head(s)>> \o Tail(s) = s
         /\ \A x \in Car : <<c>> \o Append(s, x) = Append(<<c>> \o s, x)
<1>1. << >> \o s = s
  OBVIOUS
<1>2. <<c>> \o s \in Seq(Car) /\ <<c>> \o s # << >>
  OBVIOUS
<1>3. Len(<<c>> \o s) = Len(s) + 1 /\ Head(<<c>> \o s) = c
  OBVIOUS
<1>4. Tail(<<c>> \o s) = s
  OBVIOUS
<1>5. s # << >> => <<Head(s)>> \o Tail(s) = s
  OBVIOUS
<1>6. \A x \in Car : <<c>> \o Append(s, x) = Append(<<c>> \o s, x)
  OBVIOUS
<1> QED BY <1>1, <1>2, <1>3, <1>4, <1>5, <1>6

LEMMA HeadIsNew ==
  ASSUME NEW s \in Seq(Car), s # << >>, Increasing(s), NEW S \in SUBSET Car, Newer(s, S)
  PROVE  Head(s) \in Car /\ Head(s) \notin S
<1>1. Head(s) \in Car
  BY SeqSteps
<1>2. \A old \in S : old < Head(s)
  BY OrderTail
<1>3. \A c \in Car : ~(c < c)
  BY CarNat
<1> QED BY <1>1, <1>2, <1>3

(* A car is appended to a queue s of cap places, with t before it. *)
LEMMA JoinPass ==
  ASSUME NEW s \in Seq(Car), NEW c \in Car, NEW x \in Car, NEW cap \in Nat, NEW t \in {<< >>, <<c>>}
  PROVE  LET now == IF Len(s) < cap THEN Append(s, x) ELSE s
         IN  \/ Len(t \o s) <= cap /\ t \o now = Append(t \o s, x)
             \/ Len(t \o s) >= cap /\ t \o now = t \o s
<1>1. Append(s, x) \in Seq(Car) /\ Len(s) \in Nat
  OBVIOUS
<1>2. CASE t = << >>
  <2>1. t \o s = s /\ t \o Append(s, x) = Append(s, x)
    BY <1>1, <1>2, Join
  <2> QED BY <1>1, <2>1
<1>3. CASE t = <<c>>
  <2>1. Len(<<c>> \o s) = Len(s) + 1
    BY Join
  <2>2. <<c>> \o Append(s, x) = Append(<<c>> \o s, x)
    BY Join
  <2>3. Len(t \o s) = Len(s) + 1 /\ t \o Append(s, x) = Append(t \o s, x)
    BY <1>3, <2>1, <2>2
  <2>4. CASE Len(s) < cap
    <3>1. Len(s) + 1 <= cap
      BY <1>1, <2>4
    <3>2. Len(t \o s) <= cap
      BY <2>3, <3>1, Zenon
    <3> QED BY <2>3, <2>4, <3>2, ZenonT(40)
  <2>5. CASE ~(Len(s) < cap)
    <3>1. Len(s) + 1 >= cap
      BY <1>1, <2>5
    <3>2. Len(t \o s) >= cap
      BY <2>3, <3>1, ZenonT(40)
    <3> QED BY <2>5, <3>2, Zenon
  <2> QED BY <2>4, <2>5, Zenon
<1> QED BY <1>2, <1>3

LEMMA TransitFrame ==
  ASSUME Loading' <=> Loading,
         client'[0].buf = client[0].buf, client'[0].send_en = client[0].send_en,
         UNCHANGED <<stateQ, intervalQ, handed>>
  PROVE  StateDue' = StateDue /\ IntervalDue' = IntervalDue
BY DEF StateDue, IntervalDue, Transit, Pending, Loading

(* A car passes: both channels accept it, or are full. *)
LEMMA ChannelPass ==
  ASSUME GInv, Photo
  PROVE  StateChannel!Pass /\ IntervalChannel!Pass
<1>1. /\ passed' = passed + 1 /\ passed + 1 \in Car
      /\ UNCHANGED <<client, handed, pc, en>>
  BY BoundAssumption DEF GInv, Photo, DataTypes, Car
<1>2. /\ stateQ \in Seq(Car) /\ intervalQ \in Seq(Car) /\ client[0].buf.car \in Car
      /\ stateQ' = IF Len(stateQ) < StateCap THEN Append(stateQ, passed + 1) ELSE stateQ
      /\ intervalQ' = IF Len(intervalQ) < IntervalCap THEN Append(intervalQ, passed + 1)
                                                      ELSE intervalQ
      /\ StateCap \in Nat /\ IntervalCap \in Nat
  BY BoundAssumption DEF GInv, DataTypes, ClientRec, Frame, Client, Photo
<1>3. ASSUME NEW s \in Seq(Car), NEW cap \in Nat, NEW t \in {<< >>, <<client[0].buf.car>>}
      PROVE  LET now == IF Len(s) < cap THEN Append(s, passed + 1) ELSE s
             IN  \/ Len(t \o s) <= cap /\ t \o now = Append(t \o s, passed + 1)
                 \/ Len(t \o s) >= cap /\ t \o now = t \o s
  BY <1>1, <1>2, JoinPass
<1>4. /\ Transit("CMD", handed.state)' = Transit("CMD", handed.state)
      /\ Transit("INTERVAL", handed.interval)' = Transit("INTERVAL", handed.interval)
  BY <1>1 DEF Transit, Pending
<1>5. /\ Transit("CMD", handed.state) \in {<< >>, <<client[0].buf.car>>}
      /\ Transit("INTERVAL", handed.interval) \in {<< >>, <<client[0].buf.car>>}
  BY DEF Transit
<1>6. StateChannel!Pass
  BY <1>1, <1>2, <1>3, <1>4, <1>5 DEF StateChannel!Pass
<1>7. IntervalChannel!Pass
  BY <1>1, <1>2, <1>3, <1>4, <1>5 DEF IntervalChannel!Pass
<1> QED BY <1>6, <1>7

(* udp_client_process sends the frame in the buffer: a report leaves its   *)
(* channel if it is the first time.                                        *)
LEMMA ChannelHandOver ==
  ASSUME GInv, Clients
  PROVE  /\ StateChannel!HandOver \/ UNCHANGED StateChannel!vars
         /\ IntervalChannel!HandOver \/ UNCHANGED IntervalChannel!vars
<1>0. /\ 0 \in Client /\ client \in [Client -> ClientRec] /\ client[0].buf.car \in Car
      /\ stateQ \in Seq(Car) /\ intervalQ \in Seq(Car) /\ Calls /\ Lockstep
  BY DEF Client, GInv, DataTypes, ClientRec, Frame, ControlInv
<1>1. ~Loading /\ ~Loading' /\ client[0].statue \in {"NEW", "DIS", "OK"}
  BY <1>0, NotLoading DEF Clients, Loading, Lockstep, ClientRec
<1>2. /\ client'[0].buf = client[0].buf
      /\ client'[0].send_en = IF Sends(0) THEN 0 ELSE client[0].send_en
  BY <1>0, <1>1 DEF Clients, ClientStep, Sends, ClientRec, Lockstep
<1>3. /\ handed'.state = handed.state \cup Sent(0, "CMD")
      /\ handed'.interval = handed.interval \cup Sent(0, "INTERVAL")
      /\ UNCHANGED <<stateQ, intervalQ, passed>>
  BY DEF Clients
<1> DEFINE S == Transit("CMD", handed.state)
           I == Transit("INTERVAL", handed.interval)
<1>5. S' = IF Sends(0) THEN << >> ELSE S
  <2>1. CASE Sends(0)
    BY <1>1, <1>2, <2>1 DEF Transit, Pending, Loading
  <2>2. CASE ~Sends(0)
    BY <1>1, <1>2, <1>3, <2>2 DEF Transit, Pending, Loading, Sent
  <2> QED BY <2>1, <2>2
<1>6. I' = IF Sends(0) THEN << >> ELSE I
  <2>1. CASE Sends(0)
    BY <1>1, <1>2, <2>1 DEF Transit, Pending, Loading
  <2>2. CASE ~Sends(0)
    BY <1>1, <1>2, <1>3, <2>2 DEF Transit, Pending, Loading, Sent
  <2> QED BY <2>1, <2>2
<1>7. /\ S = IF Sent(0, "CMD") \subseteq handed.state \/ ~Sends(0) THEN S ELSE <<client[0].buf.car>>
      /\ Sends(0) /\ Sent(0, "CMD") \subseteq handed.state => S = << >>
      /\ I = IF Sent(0, "INTERVAL") \subseteq handed.interval \/ ~Sends(0)
               THEN I ELSE <<client[0].buf.car>>
      /\ Sends(0) /\ Sent(0, "INTERVAL") \subseteq handed.interval => I = << >>
  BY <1>1 DEF Transit, Pending, Sent, Sends, Loading
<1>8. /\ Sent(0, "CMD") \in {{}, {client[0].buf.car}}
      /\ Sent(0, "INTERVAL") \in {{}, {client[0].buf.car}}
      /\ ~Sends(0) => Sent(0, "CMD") = {} /\ Sent(0, "INTERVAL") = {}
  BY DEF Sent
<1> HIDE DEF S, I
<1>9. StateChannel!HandOver \/ UNCHANGED StateChannel!vars
  <2>1. CASE Sent(0, "CMD") \subseteq handed.state
    <3>1. handed'.state = handed.state /\ S' = S
      BY <1>3, <1>5, <1>7, <2>1
    <3> QED BY <1>3, <3>1 DEF StateChannel!vars, S
  <2>2. CASE ~(Sent(0, "CMD") \subseteq handed.state)
    <3>1. Sent(0, "CMD") = {client[0].buf.car} /\ S = <<client[0].buf.car>> /\ S' = << >>
      BY <1>5, <1>7, <1>8, <2>2
    <3>2. /\ S \o stateQ # << >> /\ Head(S \o stateQ) = client[0].buf.car
          /\ Tail(S \o stateQ) = stateQ /\ S' \o stateQ' = stateQ
      BY <1>0, <1>3, <3>1, Join
    <3> QED BY <1>3, <3>1, <3>2 DEF StateChannel!HandOver, S
  <2> QED BY <2>1, <2>2
<1>10. IntervalChannel!HandOver \/ UNCHANGED IntervalChannel!vars
  <2>1. CASE Sent(0, "INTERVAL") \subseteq handed.interval
    <3>1. handed'.interval = handed.interval /\ I' = I
      BY <1>3, <1>6, <1>7, <2>1
    <3> QED BY <1>3, <3>1 DEF IntervalChannel!vars, I
  <2>2. CASE ~(Sent(0, "INTERVAL") \subseteq handed.interval)
    <3>1. Sent(0, "INTERVAL") = {client[0].buf.car} /\ I = <<client[0].buf.car>> /\ I' = << >>
      BY <1>6, <1>7, <1>8, <2>2
    <3>2. /\ I \o intervalQ # << >> /\ Head(I \o intervalQ) = client[0].buf.car
          /\ Tail(I \o intervalQ) = intervalQ /\ I' \o intervalQ' = intervalQ
      BY <1>0, <1>3, <3>1, Join
    <3> QED BY <1>3, <3>1, <3>2 DEF IntervalChannel!HandOver, I
  <2> QED BY <2>1, <2>2
<1> QED BY <1>9, <1>10

(* send_message_to_sever takes a report from its queue into the buffer,    *)
(* where it is still due.                                                  *)
LEMMA ChannelSend ==
  ASSUME GInv, Send
  PROVE  UNCHANGED <<passed, handed>> /\ StateDue' = StateDue /\ IntervalDue' = IntervalDue
<1>0. /\ 0 \in Client /\ client \in [Client -> ClientRec]
      /\ stateQ \in Seq(Car) /\ intervalQ \in Seq(Car)
      /\ ~Loading /\ en.q = "msg" /\ UNCHANGED <<passed, handed>>
      /\ OrderInv /\ BufferKnown /\ 0 \in Car
      /\ handed.state \subseteq Car /\ handed.interval \subseteq Car
  BY NotLoading, BoundAssumption
     DEF Client, GInv, DataTypes, ControlInv, Send, ReportInv, Car
<1>1. CASE SendBusy \/ SendNoState
  BY <1>0, <1>1, TransitFrame DEF SendBusy, SendNoState, Loading
<1>a. SUFFICES ASSUME client[0].send_en = 0
               PROVE  StateDue' = StateDue /\ IntervalDue' = IntervalDue
  BY <1>0, <1>1 DEF Send
<1>b. Pending("CMD") = {} /\ Pending("INTERVAL") = {}
  BY <1>0, <1>a DEF Pending, Loading
<1>c. StateDue = stateQ /\ IntervalDue = intervalQ
  BY <1>0, <1>b, Join DEF StateDue, IntervalDue, Transit
<1>d. ASSUME UNCHANGED <<stateQ, intervalQ>>,
             Pending("CMD")' \subseteq handed.state, Pending("INTERVAL")' \subseteq handed.interval
      PROVE  StateDue' = StateDue /\ IntervalDue' = IntervalDue
  BY <1>0, <1>c, <1>d, Join DEF StateDue, IntervalDue, Transit
<1>2. CASE SendReply
  <2>1. client'[0].buf.kind \notin {"CMD", "INTERVAL"}
    BY <1>0, <1>2 DEF SendReply, ToSend, ClientRec
  <2> QED BY <1>2, <1>d, <2>1 DEF SendReply, Pending
<1>3. CASE SendState
  <2>1. /\ client'[0].buf = [kind |-> "CMD", car |-> Head(stateQ)]
        /\ client'[0].send_en = 1
        /\ stateQ # << >> /\ stateQ' = Tail(stateQ) /\ UNCHANGED intervalQ
    BY <1>0, <1>3 DEF SendState, ToSend, ClientRec
  <2>2. Increasing(stateQ) /\ Newer(stateQ, handed.state)
    BY <1>0 DEF OrderInv
  <2>3. Head(stateQ) \in Car /\ Head(stateQ) \notin handed.state
    BY <1>0, <2>1, <2>2, HeadIsNew
  <2>4. Transit("CMD", handed.state)' = <<Head(stateQ)>>
    BY <1>0, <2>1, <2>3 DEF Transit, Pending
  <2>5. Transit("INTERVAL", handed.interval)' = << >>
    BY <1>0, <2>1 DEF Transit, Pending
  <2> QED BY <1>0, <1>c, <2>1, <2>3, <2>4, <2>5, Join DEF StateDue, IntervalDue
<1>4. CASE SendInterval
  <2>1. /\ client'[0].buf = [kind |-> "INTERVAL", car |-> Head(intervalQ)]
        /\ en'.q = "car"
        /\ intervalQ # << >> /\ intervalQ' = Tail(intervalQ) /\ UNCHANGED stateQ
    BY <1>0, <1>4 DEF SendInterval, CallEnQueue, NotEn, ClientRec
  <2>2. Increasing(intervalQ) /\ Newer(intervalQ, handed.interval)
    BY <1>0 DEF OrderInv
  <2>3. Head(intervalQ) \in Car /\ Head(intervalQ) \notin handed.interval
    BY <1>0, <2>1, <2>2, HeadIsNew
  <2>4. Transit("INTERVAL", handed.interval)' = <<Head(intervalQ)>>
    BY <1>0, <2>1, <2>3 DEF Transit, Pending
  <2>5. Transit("CMD", handed.state)' = << >>
    BY <1>0, <2>1 DEF Transit, Pending
  <2> QED BY <1>0, <1>c, <2>1, <2>3, <2>4, <2>5, Join DEF StateDue, IntervalDue
<1>5. CASE SendNoInterval
  <2>1. client'[0].buf = client[0].buf
    BY <1>0, <1>5 DEF SendNoInterval, ClientRec
  <2>2. /\ client[0].buf.kind = "CMD" => client[0].buf.car \in handed.state
        /\ client[0].buf.kind = "INTERVAL" => client[0].buf.car \in handed.interval
    BY <1>0, <1>a DEF BufferKnown
  <2> QED BY <1>5, <1>d, <2>1, <2>2 DEF SendNoInterval, Pending
<1>6. CASE SendHeart
  <2>1. CASE UNCHANGED client
    BY <1>0, <1>6, <2>1, TransitFrame DEF SendHeart, Loading
  <2>2. CASE ToSend(0, [kind |-> "HEART", car |-> 0])
    <3>1. client'[0].buf.kind = "HEART"
      BY <1>0, <2>2 DEF ToSend, ClientRec
    <3> QED BY <1>6, <1>d, <3>1 DEF SendHeart, Pending
  <2> QED BY <1>6, <2>1, <2>2 DEF SendHeart
<1> QED BY <1>1, <1>2, <1>3, <1>4, <1>5, <1>6 DEF Send

LEMMA ChannelRest ==
  ASSUME GInv, [Next]_vars, ~Photo, ~Clients
  PROVE  UNCHANGED <<passed, handed>> /\ StateDue' = StateDue /\ IntervalDue' = IntervalDue
<1>0. /\ 0 \in Client /\ client \in [Client -> ClientRec] /\ Calls /\ RingTypes
      /\ BufferKnown
  BY DEF Client, GInv, DataTypes, ControlInv, ReportInv
<1>1. CASE Send
  BY <1>1, ChannelSend
<1>2. CASE PositionReset \/ SecondTick \/ UNCHANGED vars \/ Ethernet \/ SecProcess
  BY <1>2, TransitFrame DEF PositionReset, SecondTick, vars, Ethernet, SecProcess, Loading
<1>3. CASE Packet
  <2>1. client'[0].buf = client[0].buf /\ client'[0].send_en = client[0].send_en
    BY <1>0, <1>3 DEF Packet, ClientRec
  <2> QED BY <1>3, <2>1, TransitFrame DEF Packet, Loading, isrVars, ghostVars
<1>4. CASE Receive
  <2>1. client'[0].buf = client[0].buf /\ client'[0].send_en = client[0].send_en
    BY <1>0, <1>4 DEF Receive, ClientRec
  <2>2. ~Loading /\ ~Loading'
    BY <1>0, <1>4, NotLoading DEF Receive, CallEnQueue, NotEn, Loading
  <2> QED BY <1>4, <2>1, <2>2, TransitFrame DEF Receive, isrVars, ghostVars
<1>5. CASE Version \/ StateMsg
  <2>1. ~Loading /\ ~Loading'
    BY <1>0, <1>5, NotLoading DEF Version, StateMsg, CallEnQueue, NotEn, Loading
  <2> QED BY <1>5, <2>1, TransitFrame DEF Version, StateMsg
<1>6. CASE CarSend \/ CarThreeSend
  <2>1. client'[0] = client[0]
    BY <1>0, <1>6 DEF CarSend, CarThreeSend, ToSend
  <2> QED BY <1>6, <2>1, TransitFrame DEF CarSend, CarThreeSend, Loading
<1>7. CASE InEnQueue
  <2>1. Loading' <=> Loading
    <3>1. CASE Return
      BY <1>0, <1>7, <3>1 DEF InEnQueue, Return, NotEn, Loading, Calls, RingTypes
    <3>2. CASE ~Return
      BY <1>0, <1>7, <3>2 DEF InEnQueue, EnTest, EnCompute, EnStoreRear, EnLoadIndex, EnWrite,
                              RingTypes, Loading
    <3> QED BY <3>1, <3>2
  <2> QED BY <1>7, <2>1, TransitFrame DEF InEnQueue, isrVars, mainVars, ghostVars
<1>8. CASE SendIntervalDone
  <2>1. client'[0].buf = client[0].buf /\ client'[0].send_en = 1
    BY <1>0, <1>8 DEF SendIntervalDone, ClientRec
  <2>2. /\ Loading /\ client[0].buf.kind = "INTERVAL"
        /\ UNCHANGED <<stateQ, intervalQ, passed, handed>>
    BY <1>0, <1>8 DEF SendIntervalDone, Loading, BufferKnown
  <2> QED BY <2>1, <2>2 DEF StateDue, IntervalDue, Transit, Pending, Loading
<1> QED BY <1>1, <1>2, <1>3, <1>4, <1>5, <1>6, <1>7, <1>8 DEF Next, MainLoop

(* The reporting path implements a channel for each kind of report         *)
(* (ReportChannel): cars are accepted unless the queue is full, and what   *)
(* was accepted is handed to udp_send in order and once, whatever the race *)
(* on msgSendQueue does to the tokens.                                     *)
THEOREM ChannelsImplemented == Spec => StateChannel!Spec /\ IntervalChannel!Spec
<1>1. Init => StateChannel!Init /\ IntervalChannel!Init
  <2> SUFFICES ASSUME Init PROVE StateChannel!Init /\ IntervalChannel!Init
    OBVIOUS
  <2>1. /\ client[0].buf = NoFrame /\ stateQ = << >> /\ intervalQ = << >>
        /\ passed = 0 /\ handed.state = {} /\ handed.interval = {}
    BY DEF Init, Client
  <2>2. /\ Transit("CMD", handed.state) = << >>
        /\ Transit("INTERVAL", handed.interval) = << >>
    BY <2>1 DEF Transit, Pending, NoFrame
  <2>3. << >> \o << >> = << >>
    OBVIOUS
  <2> QED BY <2>1, <2>2, <2>3 DEF StateChannel!Init, IntervalChannel!Init
<1>2. GInv /\ [Next]_vars => /\ [StateChannel!Next]_(StateChannel!vars)
                             /\ [IntervalChannel!Next]_(IntervalChannel!vars)
  <2> SUFFICES ASSUME GInv, [Next]_vars
               PROVE  /\ StateChannel!Next \/ UNCHANGED StateChannel!vars
                      /\ IntervalChannel!Next \/ UNCHANGED IntervalChannel!vars
    OBVIOUS
  <2>1. CASE Photo
    BY <2>1, ChannelPass DEF StateChannel!Next, IntervalChannel!Next
  <2>2. CASE Clients
    BY <2>2, ChannelHandOver DEF StateChannel!Next, IntervalChannel!Next
  <2>3. CASE ~Photo /\ ~Clients
    BY <2>3, ChannelRest DEF StateChannel!vars, IntervalChannel!vars, StateDue, IntervalDue
  <2> QED BY <2>1, <2>2, <2>3
<1> QED BY <1>1, <1>2, GInvHolds, PTL DEF Spec, StateChannel!Spec, IntervalChannel!Spec
----------------------------------------------------------------------------
(* The tokens of the interval reports, as long as EXTI4 neither preempts   *)
(* enQueue where the main loop is past its test of msgSendQueue, nor finds *)
(* the queue full.                                                         *)
Undisturbed ==
  Photo => /\ ~(en.q = "msg" /\ en.step \in {"advance", "store", "index", "write"})
           /\ ~IsFull(msgQ, MsgLen)

(* The slots of msgSendQueue in use; the last one may still be unwritten. *)
Occ(f, r) == {i \in 0..(MsgLen - 1) : IF f <= r THEN f < i /\ i <= r ELSE f < i \/ i <= r}
Unwritten == en.q = "msg" /\ en.step \in {"index", "write"}
IntervalTokens == {i \in Occ(msgQ.front, msgQ.rear) :
                     msgQ.slot[i] = "INTERVAL" /\ ~(Unwritten /\ i = msgQ.rear)}

(* An interval node waits, but nothing in msgSendQueue will ever send it. *)
Stranded == intervalQ # << >> /\ IntervalTokens = {}

TokenInv ==
  /\ Len(intervalQ) <= Cardinality(IntervalTokens)
  /\ en.q = "msg" => /\ en.token # "INTERVAL"
                     /\ en.step \in {"advance", "store"} => ~IsFull(msgQ, MsgLen)
                     /\ en.step = "store" => en.newRear = After(msgQ.rear, MsgLen)
                     /\ en.step = "write" => en.index = msgQ.rear

LEMMA AfterValue ==
  ASSUME NEW i \in 0..(MsgLen - 1)
  PROVE  /\ After(i, MsgLen) = IF i = MsgLen - 1 THEN 0 ELSE i + 1
         /\ After(i, MsgLen) \in 0..(MsgLen - 1)
<1>1. MsgLen \in Nat \ {0}
  BY Sizes
<1>2. CASE i = MsgLen - 1
  BY <1>1, <1>2 DEF After
<1>3. CASE i # MsgLen - 1
  <2>1. i + 1 \in 0..(MsgLen - 1)
    BY <1>1, <1>3
  <2>2. (i + 1) % MsgLen = i + 1
    BY <1>1, <2>1
  <2> QED BY <1>3, <2>1, <2>2 DEF After
<1> QED BY <1>2, <1>3

LEMMA OccSteps ==
  ASSUME NEW f \in 0..(MsgLen - 1), NEW r \in 0..(MsgLen - 1)
  PROVE  /\ After(r, MsgLen) # f => /\ Occ(f, After(r, MsgLen)) = Occ(f, r) \cup {After(r, MsgLen)}
                                    /\ After(r, MsgLen) \notin Occ(f, r)
         /\ f # r => /\ Occ(After(f, MsgLen), r) = Occ(f, r) \ {After(f, MsgLen)}
                     /\ After(f, MsgLen) \in Occ(f, r)
<1> DEFINE a == After(r, MsgLen)
           b == After(f, MsgLen)
<1>1. /\ a = IF r = MsgLen - 1 THEN 0 ELSE r + 1
      /\ b = IF f = MsgLen - 1 THEN 0 ELSE f + 1
      /\ a \in 0..(MsgLen - 1) /\ b \in 0..(MsgLen - 1)
  BY AfterValue
<1>2. MsgLen \in Nat
  BY Sizes
<1> HIDE DEF a, b
<1>3. a # f => Occ(f, a) = Occ(f, r) \cup {a} /\ a \notin Occ(f, r)
  BY <1>1, <1>2 DEF Occ
<1>4. f # r => Occ(b, r) = Occ(f, r) \ {b} /\ b \in Occ(f, r)
  BY <1>1, <1>2 DEF Occ
<1> QED BY <1>3, <1>4 DEF a, b

LEMMA TokensFinite == IsFiniteSet(IntervalTokens) /\ Cardinality(IntervalTokens) \in Nat
<1>1. IsFiniteSet(0..(MsgLen - 1))
  BY FS_Interval, Sizes
<1>2. IntervalTokens \subseteq 0..(MsgLen - 1)
  BY DEF IntervalTokens, Occ
<1> QED BY <1>1, <1>2, FS_Subset, FS_CardinalityType

LEMMA TokenInit == Init => TokenInv
<1> SUFFICES ASSUME Init PROVE TokenInv
  OBVIOUS
<1>1. Len(intervalQ) = 0 /\ en = NotEn
  BY DEF Init
<1> QED BY <1>1, TokensFinite DEF TokenInv, NotEn

LEMMA TokenFrame ==
  ASSUME TokenInv, UNCHANGED <<msgQ, intervalQ, en>>
  PROVE  TokenInv'
BY DEF TokenInv, IntervalTokens, Unwritten

(* The main loop calls enQueue, or returns from a full queue. *)
LEMMA TokenCall ==
  ASSUME TokenInv, UNCHANGED <<msgQ, intervalQ>>, ~Unwritten,
         en'.step \in {"off", "test"}, en'.q = "msg" => en'.token # "INTERVAL"
  PROVE  TokenInv'
<1>1. ~Unwritten' /\ IntervalTokens' = IntervalTokens
  BY DEF IntervalTokens, Unwritten
<1> QED BY <1>1 DEF TokenInv

(* What Photo does to the tokens: one more, whatever becomes of the CMD    *)
(* token that follows it.                                                  *)
LEMMA TokenPhoto ==
  ASSUME GInv, TokenInv, Photo, Undisturbed
  PROVE  TokenInv'
<1> DEFINE q1 == enQueue(msgQ, "INTERVAL", MsgLen)
           a == After(msgQ.rear, MsgLen)
           b == After(a, MsgLen)
           f == msgQ.front
           r == msgQ.rear
<1>1. /\ msgQ \in RingOf(Token, MsgLen) /\ intervalQ \in Seq(Car)
      /\ passed + 1 \in Car
  BY BoundAssumption DEF GInv, RingTypes, DataTypes, Photo, Car
<1>2. /\ ~Unwritten /\ a # f /\ en' = en
      /\ en.q = "msg" => en.step \notin {"advance", "store", "write"}
      /\ msgQ' = enQueue(q1, "CMD", MsgLen)
      /\ intervalQ' = intervalQ \/ intervalQ' = Append(intervalQ, passed + 1)
  BY DEF Undisturbed, Unwritten, Photo, IsFull
<1>3. /\ f \in 0..(MsgLen - 1) /\ r \in 0..(MsgLen - 1)
      /\ a \in 0..(MsgLen - 1) /\ b \in 0..(MsgLen - 1)
  BY <1>1, AfterValue DEF RingOf
<1>4. q1.front = f /\ q1.rear = a /\ q1.slot = [msgQ.slot EXCEPT ![a] = "INTERVAL"]
  BY <1>1, <1>2 DEF enQueue, IsFull, RingOf
<1>5. q1 \in RingOf(Token, MsgLen)
  BY <1>1, EnQueueType, Sizes, TokenFacts
<1>6. \/ msgQ' = q1
      \/ /\ b # f /\ msgQ'.front = f /\ msgQ'.rear = b
         /\ msgQ'.slot = [q1.slot EXCEPT ![b] = "CMD"]
  BY <1>2, <1>4, <1>5 DEF enQueue, IsFull, RingOf
<1>7. Occ(f, a) = Occ(f, r) \cup {a} /\ a \notin Occ(f, r)
  BY <1>2, <1>3, OccSteps
<1>8. b # f => Occ(f, b) = Occ(f, a) \cup {b} /\ b \notin Occ(f, a)
  BY <1>3, OccSteps
<1>9. IntervalTokens = {i \in Occ(f, r) : msgQ.slot[i] = "INTERVAL"}
  BY <1>2 DEF IntervalTokens
<1>10. IntervalTokens' = {i \in Occ(f, msgQ'.rear) : msgQ'.slot[i] = "INTERVAL"}
  BY <1>2, <1>4, <1>6 DEF IntervalTokens, Unwritten
<1>11. DOMAIN msgQ.slot = 0..(MsgLen - 1) /\ DOMAIN q1.slot = 0..(MsgLen - 1)
  BY <1>1, <1>5 DEF RingOf
<1>12. Occ(f, r) \subseteq 0..(MsgLen - 1) /\ Occ(f, a) \subseteq 0..(MsgLen - 1)
  BY DEF Occ
<1> HIDE DEF q1, a, b, f, r
<1>13. {i \in Occ(f, a) : q1.slot[i] = "INTERVAL"} = IntervalTokens \cup {a}
  BY <1>3, <1>4, <1>7, <1>9, <1>11, <1>12
<1>14. IntervalTokens' = IntervalTokens \cup {a}
  <2>1. CASE msgQ' = q1
    BY <1>4, <1>10, <1>13, <2>1
  <2>2. CASE /\ b # f /\ msgQ'.front = f /\ msgQ'.rear = b
             /\ msgQ'.slot = [q1.slot EXCEPT ![b] = "CMD"]
    <3>1. \A i \in Occ(f, b) : msgQ'.slot[i] = "INTERVAL" <=> i \in Occ(f, a) /\ q1.slot[i] = "INTERVAL"
      BY <1>3, <1>8, <1>11, <1>12, <2>2
    <3>2. Occ(f, a) \subseteq Occ(f, b)
      BY <1>8, <2>2
    <3>3. IntervalTokens' = {i \in Occ(f, a) : q1.slot[i] = "INTERVAL"}
      BY <1>10, <2>2, <3>1, <3>2
    <3> QED BY <1>13, <3>3
  <2> QED BY <1>6, <2>1, <2>2
<1>15. a \notin IntervalTokens
  BY <1>7, <1>9
<1>16. Cardinality(IntervalTokens') = Cardinality(IntervalTokens) + 1
  BY <1>14, <1>15, TokensFinite, FS_AddElement
<1>17. Len(intervalQ') <= Len(intervalQ) + 1 /\ Len(intervalQ) \in Nat /\ Len(intervalQ') \in Nat
  BY <1>1, <1>2
<1>18. Len(intervalQ') <= Cardinality(IntervalTokens')
  BY <1>16, <1>17, TokensFinite DEF TokenInv
<1> QED BY <1>2, <1>18 DEF TokenInv

(* The main loop's own enQueue: the slot it has taken and not yet written  *)
(* holds what it held, but does not count.                                 *)
LEMMA TokenEnQueue ==
  ASSUME GInv, TokenInv, InEnQueue
  PROVE  TokenInv'
<1> DEFINE f == msgQ.front
           r == msgQ.rear
           a == After(msgQ.rear, MsgLen)
<1>1. /\ msgQ \in RingOf(Token, MsgLen) /\ RingTypes
      /\ UNCHANGED intervalQ
  BY DEF GInv, RingTypes, InEnQueue, isrVars
<1>2. /\ f \in 0..(MsgLen - 1) /\ r \in 0..(MsgLen - 1)
      /\ DOMAIN msgQ.slot = 0..(MsgLen - 1)
  BY <1>1 DEF RingOf
<1>3. CASE EnTest
  <2>1. UNCHANGED msgQ /\ ~Unwritten
    BY <1>3 DEF EnTest, Unwritten
  <2>2. CASE Return
    BY <1>1, <2>1, <2>2, TokenCall DEF Return, NotEn
  <2>3. CASE ~Return
    <3>1. /\ en'.step = "advance" /\ en'.q = en.q /\ en'.token = en.token
          /\ ~IsFull(Ring(en.q), Size(en.q))
      BY <1>1, <1>3, <2>3 DEF EnTest, RingTypes
    <3>2. IntervalTokens' = IntervalTokens
      BY <2>1, <3>1 DEF IntervalTokens, Unwritten
    <3> QED BY <1>1, <2>1, <3>1, <3>2 DEF TokenInv, Ring, Size
  <2> QED BY <2>2, <2>3
<1>4. CASE EnCompute
  <2>1. /\ UNCHANGED msgQ /\ en'.step = "store" /\ en'.q = en.q /\ en'.token = en.token
        /\ en'.newRear = After(Ring(en.q).rear, Size(en.q)) /\ en.step = "advance"
    BY <1>1, <1>4 DEF EnCompute, RingTypes
  <2>2. IntervalTokens' = IntervalTokens
    BY <2>1 DEF IntervalTokens, Unwritten
  <2> QED BY <1>1, <2>1, <2>2 DEF TokenInv, Ring, Size
<1>5. CASE EnStoreRear
  <2>1. /\ en.step = "store" /\ en'.step = "index" /\ en'.q = en.q /\ en'.token = en.token
    BY <1>1, <1>5 DEF EnStoreRear, RingTypes
  <2>2. CASE en.q = "car"
    <3>1. UNCHANGED msgQ
      BY <1>5, <2>2 DEF EnStoreRear, SetRing
    <3>2. IntervalTokens' = IntervalTokens
      BY <2>1, <2>2, <3>1 DEF IntervalTokens, Unwritten
    <3> QED BY <1>1, <2>1, <2>2, <3>2 DEF TokenInv
  <2>3. CASE en.q = "msg"
    <3>1. msgQ' = [msgQ EXCEPT !.rear = a] /\ a # f
      BY <1>5, <2>1, <2>3 DEF EnStoreRear, SetRing, Ring, TokenInv, IsFull
    <3>2. msgQ'.rear = a /\ msgQ'.front = f /\ msgQ'.slot = msgQ.slot
      BY <1>1, <3>1 DEF RingOf
    <3>3. Occ(f, a) = Occ(f, r) \cup {a} /\ a \notin Occ(f, r)
      BY <1>2, <3>1, OccSteps
    <3>4. IntervalTokens = {i \in Occ(f, r) : msgQ.slot[i] = "INTERVAL"}
      BY <2>1 DEF IntervalTokens, Unwritten
    <3>5. IntervalTokens' = {i \in Occ(f, a) : msgQ.slot[i] = "INTERVAL" /\ i # a}
      BY <2>1, <2>3, <3>2 DEF IntervalTokens, Unwritten
    <3>6. IntervalTokens' = IntervalTokens
      BY <3>3, <3>4, <3>5
    <3> QED BY <1>1, <2>1, <2>3, <3>6 DEF TokenInv
  <2> QED BY <1>1, <2>2, <2>3 DEF RingTypes
<1>6. CASE EnLoadIndex
  <2>1. /\ UNCHANGED msgQ /\ en.step = "index" /\ en'.step = "write"
        /\ en'.q = en.q /\ en'.token = en.token /\ en'.index = Ring(en.q).rear
    BY <1>1, <1>6 DEF EnLoadIndex, RingTypes
  <2>2. IntervalTokens' = IntervalTokens
    BY <2>1 DEF IntervalTokens, Unwritten
  <2> QED BY <1>1, <2>1, <2>2 DEF TokenInv, Ring
<1>7. CASE EnWrite
  <2>1. en.step = "write" /\ en' = NotEn
    BY <1>7 DEF EnWrite, Return
  <2>2. CASE en.q = "car"
    <3>1. UNCHANGED msgQ /\ ~Unwritten
      BY <1>7, <2>2 DEF EnWrite, SetRing, Unwritten
    <3> QED BY <1>1, <2>1, <3>1, TokenCall DEF NotEn
  <2>3. CASE en.q = "msg"
    <3>1. msgQ' = [msgQ EXCEPT !.slot[r] = en.token] /\ en.token # "INTERVAL"
      BY <1>7, <2>1, <2>3 DEF EnWrite, SetRing, Ring, TokenInv
    <3>2. /\ msgQ'.rear = r /\ msgQ'.front = f
          /\ msgQ'.slot = [msgQ.slot EXCEPT ![r] = en.token]
      BY <1>1, <3>1 DEF RingOf
    <3>3. IntervalTokens = {i \in Occ(f, r) : msgQ.slot[i] = "INTERVAL" /\ i # r}
      BY <2>1, <2>3 DEF IntervalTokens, Unwritten
    <3>4. ~Unwritten'
      BY <2>1 DEF Unwritten, NotEn
    <3>5. IntervalTokens' = {i \in Occ(f, r) : msgQ'.slot[i] = "INTERVAL"}
      BY <3>2, <3>4 DEF IntervalTokens
    <3>6. Occ(f, r) \subseteq DOMAIN msgQ.slot
      BY <1>2 DEF Occ
    <3>7. IntervalTokens' = IntervalTokens
      BY <1>2, <3>1, <3>2, <3>3, <3>5, <3>6
    <3> QED BY <1>1, <2>1, <3>7 DEF TokenInv, NotEn
  <2> QED BY <1>1, <2>2, <2>3 DEF RingTypes
<1> QED BY <1>3, <1>4, <1>5, <1>6, <1>7 DEF InEnQueue

(* send_message_to_sever takes an INTERVAL token together with a node, or  *)
(* when no node waits.                                                     *)
LEMMA TokenSend ==
  ASSUME GInv, TokenInv, Send
  PROVE  TokenInv'
<1> DEFINE f == msgQ.front
           r == msgQ.rear
           b == After(msgQ.front, MsgLen)
<1>1. /\ msgQ \in RingOf(Token, MsgLen) /\ intervalQ \in Seq(Car)
      /\ ~Unwritten /\ en.q = "msg" /\ en.step = "off" /\ en.token # "INTERVAL"
  BY DEF GInv, RingTypes, DataTypes, ControlInv, Calls, Send, Unwritten, TokenInv
<1>2. f \in 0..(MsgLen - 1) /\ r \in 0..(MsgLen - 1)
  BY <1>1 DEF RingOf
<1>3. en' = en \/ (en'.step = "test" /\ en'.q = "car")
  BY DEF Send, SendBusy, SendReply, SendState, SendNoState, SendInterval, SendNoInterval, SendHeart,
         CallEnQueue, NotEn
<1>4. ~Unwritten' /\ en'.step \in {"off", "test"} /\ (en'.q = "msg" => en'.token # "INTERVAL")
  BY <1>1, <1>3 DEF Unwritten
<1>5. CASE SendBusy
  BY <1>5, TokenFrame DEF SendBusy
<1>6. CASE TakeToken /\ IsEmpty(msgQ)
  <2>1. UNCHANGED msgQ /\ NextToken = "NONE"
    BY <1>6 DEF TakeToken, NextToken
  <2>2. UNCHANGED intervalQ
    BY <2>1 DEF Send, SendBusy, SendReply, SendState, SendNoState, SendInterval, SendNoInterval,
                SendHeart
  <2> QED BY <1>1, <1>4, <2>1, <2>2, TokenCall
<1>7. CASE TakeToken /\ ~IsEmpty(msgQ) /\ ~SendBusy
  <2>1. f # r /\ msgQ' = [msgQ EXCEPT !.front = b] /\ NextToken = msgQ.slot[b]
    BY <1>7 DEF TakeToken, NextToken, IsEmpty, outQueue, NextOut
  <2>2. msgQ'.front = b /\ msgQ'.rear = r /\ msgQ'.slot = msgQ.slot
    BY <1>1, <2>1 DEF RingOf
  <2>3. Occ(b, r) = Occ(f, r) \ {b} /\ b \in Occ(f, r)
    BY <1>2, <2>1, OccSteps
  <2>4. /\ IntervalTokens = {i \in Occ(f, r) : msgQ.slot[i] = "INTERVAL"}
        /\ IntervalTokens' = {i \in Occ(b, r) : msgQ.slot[i] = "INTERVAL"}
    BY <1>1, <1>4, <2>2 DEF IntervalTokens
  <2>5. IntervalTokens' = IntervalTokens \ {b} /\ (b \in IntervalTokens <=> NextToken = "INTERVAL")
    BY <2>1, <2>3, <2>4
  <2>6. Cardinality(IntervalTokens') = IF NextToken = "INTERVAL" THEN Cardinality(IntervalTokens) - 1
                                                                 ELSE Cardinality(IntervalTokens)
    BY <2>5, TokensFinite, FS_RemoveElement
  <2>7. Cardinality(IntervalTokens) \in Nat /\ Cardinality(IntervalTokens)' \in Nat
    <3>1. IsFiniteSet(IntervalTokens')
      BY <2>5, TokensFinite, FS_RemoveElement
    <3> QED BY <3>1, TokensFinite, FS_CardinalityType
  <2>8. IF NextToken = "INTERVAL"
          THEN \/ intervalQ # << >> /\ intervalQ' = Tail(intervalQ)
               \/ intervalQ = << >> /\ intervalQ' = intervalQ
          ELSE intervalQ' = intervalQ
    BY <1>7 DEF Send, SendReply, SendState, SendNoState, SendInterval, SendNoInterval, SendHeart
  <2>9. /\ Len(intervalQ) \in Nat /\ (intervalQ = << >> => Len(intervalQ) = 0)
        /\ intervalQ # << >> => Len(Tail(intervalQ)) = Len(intervalQ) - 1
    BY <1>1
  <2>10. Len(intervalQ') <= Cardinality(IntervalTokens)'
    BY <2>6, <2>7, <2>8, <2>9 DEF TokenInv
  <2> QED BY <1>4, <2>10 DEF TokenInv
<1> QED BY <1>5, <1>6, <1>7 DEF Send

LEMMA TokenNext ==
  ASSUME GInv, TokenInv, [Next]_vars, Undisturbed
  PROVE  TokenInv'
<1>0. Calls /\ RingTypes
  BY DEF GInv, ControlInv
<1>1. CASE Photo
  BY <1>1, TokenPhoto
<1>2. CASE InEnQueue
  BY <1>2, TokenEnQueue
<1>3. CASE Send
  BY <1>3, TokenSend
<1>4. CASE Receive \/ Version \/ StateMsg
  <2>1. UNCHANGED <<msgQ, intervalQ>> /\ en.step = "off"
    BY <1>0, <1>4 DEF Receive, Version, StateMsg, isrVars, Calls
  <2>2. \/ en' = en
        \/ en'.step = "test" /\ en'.q = "msg" /\ en'.token \in {"REPLY", "REPLY_REPAIR", "VERSION", "CMD"}
    BY <1>4 DEF Receive, Version, StateMsg, CallEnQueue, NotEn
  <2> QED BY <2>1, <2>2, TokenFrame, TokenCall DEF Unwritten
<1>5. CASE PositionReset \/ SecondTick \/ UNCHANGED vars
  BY <1>5, TokenFrame DEF PositionReset, SecondTick, vars
<1>6. CASE Ethernet \/ Packet \/ Clients \/ SendIntervalDone \/ CarSend \/ CarThreeSend \/ SecProcess
  BY <1>6, TokenFrame DEF Ethernet, Packet, Clients, SendIntervalDone, CarSend, CarThreeSend,
                          SecProcess, isrVars
<1> QED BY <1>1, <1>2, <1>3, <1>4, <1>5, <1>6 DEF Next, MainLoop

(* An interval report is stranded in its queue only by an EXTI4 that       *)
(* preempts the main loop inside enQueue of msgSendQueue, or that finds    *)
(* that queue full (fun.c:37-46): as long as neither happens, a waiting    *)
(* node has its token.                                                     *)
THEOREM IntervalHasToken == Spec /\ [][Undisturbed]_vars => [](~Stranded)
<1>1. GInv /\ TokenInv => ~Stranded
  <2> SUFFICES ASSUME GInv, TokenInv, intervalQ # << >>, IntervalTokens = {} PROVE FALSE
    BY DEF Stranded
  <2>1. Cardinality(IntervalTokens) = 0
    BY FS_EmptySet
  <2>2. Len(intervalQ) \in Nat /\ Len(intervalQ) > 0
    BY DEF GInv, DataTypes
  <2> QED BY <2>1, <2>2 DEF TokenInv
<1>2. GInv /\ TokenInv /\ [Next]_vars /\ [Undisturbed]_vars => TokenInv'
  <2>1. CASE UNCHANGED vars
    BY <2>1, TokenFrame DEF vars
  <2>2. CASE Undisturbed
    BY <2>2, TokenNext
  <2> QED BY <2>1, <2>2
<1> QED BY <1>1, <1>2, TokenInit, GInvHolds, PTL DEF Spec
=============================================================================
