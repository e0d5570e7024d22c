--------------------------- MODULE ServoLinkProofs ---------------------------
(* No mixture of frames is obeyed, for every set of frequencies whose      *)
(* mixtures the CRC detects, and any number of interrupts and commands;    *)
(* and a call that nothing hit is obeyed.                                  *)
EXTENDS ServoLink, TLAPS

Index == 1..FrameLen

(* Byte i of the frames of the frequencies in use. *)
FrameByte(type, i) == {pbuf(type, f)[i] : f \in Freqs}

(* When the copy loop stores byte i of line u. *)
Turn(u, i) == 2 * (i - 1) + (IF u = 2 THEN 0 ELSE 1)

(* A byte of a buffer is one of a frame, or has not been written yet; in   *)
(* that case the line has not sent anything yet.                           *)
BuffInv ==
  \A u \in Line, i \in Index :
    \/ buff[u][i] \in FrameByte(inverter_type, i)
    \/ /\ left[u] = 0 /\ wire[u] = <<>>
       /\ ~InCall \/ (pc = "copy" /\ pos <= Turn(u, i))

(* What is on the wire is the beginning of one frame's worth of bytes, or  *)
(* is going to be too long for a frame.                                    *)
WireInv ==
  \A u \in Line :
    \/ wire[u] = <<>> /\ left[u] = 0
    \/ wire[u] = Junk
    \/ Len(wire[u]) + left[u] > FrameLen
    \/ /\ Len(wire[u]) + left[u] = FrameLen
       /\ \A i \in 1..Len(wire[u]) : wire[u][i] \in FrameByte(inverter_type, i)

CallInv == pc = "copy" => pos < 2 * FrameLen

IInv == TypeOK /\ BuffInv /\ WireInv /\ CallInv /\ NoPhantom

----------------------------------------------------------------------------
LEMMA CodeType ==
  ASSUME NEW type \in Types, NEW f \in Freqs
  PROVE  /\ Code(type, f) \in Nat /\ Code(type, f) < 65536
         /\ Code(type, f) \div 256 \in Byte /\ Code(type, f) % 256 \in Byte
<1>1. f \in Nat /\ f < 65536
  BY FreqAssumption
<1>2. Code(type, f) \in Nat /\ Code(type, f) < 65536
  BY <1>1, SMT DEF Code
<1>3. QED
  BY <1>2, SMT DEF Byte

LEMMA BytesOf ==
  ASSUME NEW n \in Nat, n < 65536
  PROVE  n \div 256 \in Byte /\ n % 256 \in Byte
BY SMT DEF Byte

LEMMA PbufType ==
  ASSUME NEW type \in Types, NEW f \in Freqs
  PROVE  pbuf(type, f) \in [Index -> Byte]
<1> DEFINE hi == Code(type, f) \div 256
           lo == Code(type, f) % 256
           crc == Crc[type][hi][lo]
<1>1. hi \in Byte /\ lo \in Byte
  BY CodeType
<1>2. crc \in Nat /\ crc < 65536
  BY CrcTypeAssumption
<1>4. pbuf(type, f) = <<hi, lo, crc \div 256, crc % 256>>
  BY DEF pbuf
<1> HIDE DEF hi, lo, crc
<1>3. crc \div 256 \in Byte /\ crc % 256 \in Byte
  BY <1>2, BytesOf
<1>5. QED
  BY <1>1, <1>3, <1>4 DEF Index, FrameLen

LEMMA FrameByteType ==
  ASSUME NEW type \in Types, NEW i \in Index, NEW b \in FrameByte(type, i)
  PROVE  b \in Byte
BY PbufType DEF FrameByte

(* Four bytes of frames, the CRC being right: a frequency in use. *)
LEMMA ValidIsFrame ==
  ASSUME NEW type \in Types, NEW w \in Seq(Int), Len(w) = FrameLen,
         \A i \in Index : w[i] \in FrameByte(type, i),
         Crc[type][w[1]][w[2]] = 256 * w[3] + w[4]
  PROVE  \E f \in Freqs : Code(type, f) = 256 * w[1] + w[2]
<1>1. PICK a \in Freqs : w[1] = pbuf(type, a)[1]
  BY DEF FrameByte, Index, FrameLen
<1>2. PICK b \in Freqs : w[2] = pbuf(type, b)[2]
  BY DEF FrameByte, Index, FrameLen
<1>3. PICK c \in Freqs : w[3] = pbuf(type, c)[3]
  BY DEF FrameByte, Index, FrameLen
<1>4. PICK d \in Freqs : w[4] = pbuf(type, d)[4]
  BY DEF FrameByte, Index, FrameLen
<1>5. Crc[type][pbuf(type, a)[1]][pbuf(type, b)[2]] = 256 * pbuf(type, c)[3] + pbuf(type, d)[4]
  BY <1>1, <1>2, <1>3, <1>4
<1>6. PICK f \in Freqs : Code(type, f) = 256 * pbuf(type, a)[1] + pbuf(type, b)[2]
  BY <1>5, CrcAssumption
<1>7. QED
  BY <1>1, <1>2, <1>6

(* The copy loop stores each byte of each line when its turn comes. *)
LEMMA TurnOf ==
  ASSUME NEW n \in Nat, n < 2 * FrameLen, NEW u \in Line, NEW i \in Index
  PROVE  /\ Turn(u, i) \in Nat /\ Turn(u, i) < 2 * FrameLen
         /\ Turn(u, i) = n <=> u = (IF n % 2 = 0 THEN 2 ELSE 4) /\ i = n \div 2 + 1
BY DEF Turn, Line, Index, FrameLen
----------------------------------------------------------------------------
LEMMA InitIInv == Init => IInv
<1> SUFFICES ASSUME Init PROVE IInv
  OBVIOUS
<1>1. TypeOK
  <2>1. buff \in [Line -> [1..FrameLen -> Byte]]
    BY DEF Init, Byte, FrameLen
  <2>2. wire \in [Line -> Seq(Int)] /\ \A u \in Line : Len(wire[u]) <= FrameLen
    BY DEF Init, FrameLen
  <2>3. left \in [Line -> 0..FrameLen] /\ got \in [Line -> Int]
    BY DEF Init, FrameLen, None
  <2>4. spoilt \in BOOLEAN
    BY Zenon DEF Init
  <2>5. QED
    BY <2>1, <2>2, <2>3, <2>4, FreqAssumption DEF Init, TypeOK, ModeOK, Pcs, FrameLen
<1>2. BuffInv
  BY DEF Init, BuffInv, InCall
<1>3. WireInv
  BY DEF Init, WireInv
<1>4. CallInv /\ NoPhantom
  BY DEF Init, CallInv, NoPhantom
<1>5. QED
  BY <1>1, <1>2, <1>3, <1>4 DEF IInv

(* A call of the main loop leaves the lines alone. *)
LEMMA CallStep ==
  ASSUME IInv, ~InCall, NEW f \in Freqs, Call(f), last' \in {"sec", "other"},
         UNCHANGED <<inverter_type, lineVars, modeVars, sent, irqs, cmds>>
  PROVE  IInv'
<1>1. spoilt' \in BOOLEAN
  BY Zenon DEF Call
<1>2. TypeOK'
  <2>1. servo_hz' \in Freqs /\ val' \in Freqs /\ pos' \in 0..(2 * FrameLen)
    BY DEF Call, FrameLen
  <2>2. pc' \in Pcs
    BY DEF Call, Pcs
  <2>3. QED
    BY <1>1, <2>1, <2>2, Zenon DEF IInv, TypeOK, ModeOK, lineVars, modeVars
<1>3. BuffInv'
  BY TurnOf DEF IInv, BuffInv, InCall, Call, lineVars, TypeOK, Turn, Index
<1>4. WireInv'
  BY DEF IInv, WireInv, lineVars
<1>5. CallInv' /\ NoPhantom'
  BY DEF IInv, CallInv, NoPhantom, Call, lineVars, FrameLen
<1>6. QED
  BY <1>2, <1>3, <1>4, <1>5 DEF IInv

LEMMA SecOutStep == IInv /\ SecOut => IInv'
<1> SUFFICES ASSUME IInv, SecOut PROVE IInv'
  OBVIOUS
<1>1. ~InCall /\ fwInitHz \in Freqs
  BY DEF SecOut, InCall, IInv, TypeOK, ModeOK
<1>2. QED
  BY <1>1, CallStep DEF SecOut

LEMMA RepairOutStep == IInv /\ RepairOut => IInv'
<1> SUFFICES ASSUME IInv, RepairOut PROVE IInv'
  OBVIOUS
<1>1. ~InCall /\ val \in Freqs
  BY DEF RepairOut, InCall, IInv, TypeOK
<1>2. QED
  BY <1>1, CallStep DEF RepairOut

(* Outside a call only the mode changes. *)
LEMMA ModeStep ==
  ASSUME IInv, ~InCall, ~InCall', ModeOK', pc' \in Pcs, val' \in Freqs, sent' \subseteq Line,
         cmds' \in 0..MaxCmd,
         UNCHANGED <<inverter_type, servo_hz, lineVars, pos, last, spoilt, irqs>>
  PROVE  IInv'
<1>1. TypeOK'
  BY Zenon DEF IInv, TypeOK, lineVars
<1>2. BuffInv' /\ WireInv'
  BY DEF IInv, BuffInv, WireInv, lineVars, InCall
<1>3. CallInv' /\ NoPhantom'
  BY DEF IInv, CallInv, NoPhantom, lineVars, InCall
<1>4. QED
  BY <1>1, <1>2, <1>3 DEF IInv

(* The steps between the main loop's calls, and the end of a stage. *)
ModeNext == SecTest \/ Repair \/ RepairNear \/ Para \/ ParaEnd \/ Stage

LEMMA ModeFrame ==
  ASSUME IInv, ModeNext
  PROVE  /\ ~InCall /\ ~InCall'
         /\ UNCHANGED <<inverter_type, servo_hz, lineVars, pos, last, spoilt, irqs>>
<1>1. CASE SecTest
  BY <1>1 DEF SecTest, InCall
<1>2. CASE Repair
  BY <1>2 DEF Repair, InCall
<1>3. CASE RepairNear
  BY <1>3 DEF RepairNear, InCall
<1>4. CASE Para
  BY <1>4 DEF Para, InCall
<1>5. CASE ParaEnd
  BY <1>5 DEF ParaEnd, InCall
<1>6. CASE Stage
  BY <1>6 DEF Stage, InCall
<1>7. QED
  BY <1>1, <1>2, <1>3, <1>4, <1>5, <1>6 DEF ModeNext

LEMMA ModeNextStep == IInv /\ ModeNext => IInv'
<1> SUFFICES ASSUME IInv, ModeNext PROVE IInv'
  OBVIOUS
<1> DEFINE Rest == /\ ModeOK' /\ pc' \in Pcs /\ val' \in Freqs /\ sent' \subseteq Line
                   /\ cmds' \in 0..MaxCmd
<1>1. ASSUME SecTest PROVE Rest
  BY <1>1 DEF SecTest, IInv, TypeOK, ModeOK, Pcs, modeVars
<1>2. ASSUME Repair PROVE Rest
  BY <1>2, FreqAssumption DEF Repair, IInv, TypeOK, ModeOK, Pcs
<1>3. ASSUME RepairNear PROVE Rest
  BY <1>3, FreqAssumption DEF RepairNear, IInv, TypeOK, ModeOK, Pcs
<1>4. ASSUME Para PROVE Rest
  BY <1>4, FreqAssumption DEF Para, IInv, TypeOK, ModeOK, Pcs
<1>5. ASSUME ParaEnd PROVE Rest
  BY <1>5, FreqAssumption DEF ParaEnd, IInv, TypeOK, ModeOK, Pcs
<1>6. ASSUME Stage PROVE Rest
  BY <1>6 DEF Stage, IInv, TypeOK, ModeOK
<1>7. Rest
  BY <1>1, <1>2, <1>3, <1>4, <1>5, <1>6 DEF ModeNext
<1>8. QED
  BY <1>7, ModeFrame, ModeStep

(* The copy loop replaces the byte whose turn it is by one of a frame. *)
LEMMA CopyStep == IInv /\ Copy => IInv'
<1> SUFFICES ASSUME IInv, Copy PROVE IInv'
  OBVIOUS
<1> DEFINE u0 == IF pos % 2 = 0 THEN 2 ELSE 4
           i0 == pos \div 2 + 1
           b0 == pbuf(inverter_type, val)[i0]
<1>1. /\ pc = "copy" /\ val \in Freqs /\ inverter_type \in Types
      /\ pos \in Nat /\ pos < 2 * FrameLen
  BY DEF IInv, TypeOK, CallInv, Copy
<1>2. u0 \in Line /\ i0 \in Index
  <2>1. u0 \in Line
    BY DEF Line
  <2>2. i0 \in Index
    BY <1>1, SMT DEF Index, FrameLen
  <2>3. QED
    BY <2>1, <2>2
<1>3. b0 \in Byte /\ b0 \in FrameByte(inverter_type, i0)
  BY <1>1, <1>2, PbufType DEF FrameByte
<1>4. buff' = [buff EXCEPT ![u0][i0] = b0]
  BY DEF Copy
<1>5. \A u \in Line, i \in Index : Turn(u, i) = pos <=> u = u0 /\ i = i0
  BY <1>1, TurnOf
<1>6. \A u \in Line, i \in Index : Turn(u, i) \in Nat /\ Turn(u, i) < 2 * FrameLen
  BY <1>1, TurnOf
<1> HIDE DEF u0, i0, b0
<1>7. /\ buff' \in [Line -> [Index -> Byte]]
      /\ \A u \in Line, i \in Index : buff'[u][i] = IF u = u0 /\ i = i0 THEN b0 ELSE buff[u][i]
  BY <1>2, <1>3, <1>4 DEF IInv, TypeOK, Index
<1>8. TypeOK'
  <2>1. pos' \in 0..(2 * FrameLen)
    BY <1>1 DEF Copy, FrameLen
  <2>2. pc' \in Pcs
    BY DEF Copy, Pcs
  <2>3. QED
    BY <1>7, <2>1, <2>2, Zenon DEF IInv, TypeOK, ModeOK, modeVars, Copy, Index
<1>9. BuffInv'
  <2> SUFFICES ASSUME NEW u \in Line, NEW i \in Index
               PROVE  \/ buff'[u][i] \in FrameByte(inverter_type', i)
                      \/ /\ left'[u] = 0 /\ wire'[u] = <<>>
                         /\ ~InCall' \/ (pc' = "copy" /\ pos' <= Turn(u, i))
    BY DEF BuffInv, InCall
  <2>1. inverter_type' = inverter_type /\ left' = left /\ wire' = wire /\ pos' = pos + 1
        /\ pc' = (IF pos + 1 = 2 * FrameLen THEN "send2" ELSE "copy")
    BY DEF Copy
  <2>2. CASE u = u0 /\ i = i0
    BY <2>1, <2>2, <1>3, <1>7
  <2>3. CASE ~(u = u0 /\ i = i0) /\ buff[u][i] \in FrameByte(inverter_type, i)
    BY <2>1, <2>3, <1>7
  <2>4. CASE ~(u = u0 /\ i = i0) /\ buff[u][i] \notin FrameByte(inverter_type, i)
    <3>1. left[u] = 0 /\ wire[u] = <<>> /\ pos <= Turn(u, i)
      BY <2>4, <1>1 DEF IInv, BuffInv, InCall
    <3>2. pos # Turn(u, i)
      BY <2>4, <1>5
    <3>3. QED
      BY <3>1, <3>2, <2>1, <1>1, <1>6 DEF FrameLen
  <2>5. QED
    BY <2>2, <2>3, <2>4
<1>10. WireInv'
  BY DEF IInv, WireInv, Copy
<1>11. CallInv' /\ NoPhantom'
  BY <1>1 DEF IInv, CallInv, NoPhantom, Copy, FrameLen
<1>12. QED
  BY <1>8, <1>9, <1>10, <1>11 DEF IInv

(* Restarting DMA on line u: what has come before makes the frame too      *)
(* long, and the buffer is ready.                                          *)
LEMMA RestartWire ==
  ASSUME TypeOK, WireInv, NEW u \in Line, Restart(u),
         UNCHANGED <<inverter_type, wire>>
  PROVE  WireInv' /\ left' \in [Line -> 0..FrameLen]
<1>1. left' \in [Line -> 0..FrameLen]
  BY DEF TypeOK, Restart, FrameLen
<1>2. WireInv'
  <2> SUFFICES ASSUME NEW w \in Line
               PROVE  \/ wire[w] = <<>> /\ left'[w] = 0
                      \/ wire[w] = Junk
                      \/ Len(wire[w]) + left'[w] > FrameLen
                      \/ /\ Len(wire[w]) + left'[w] = FrameLen
                         /\ \A i \in 1..Len(wire[w]) : wire[w][i] \in FrameByte(inverter_type, i)
    BY DEF WireInv
  <2>1. CASE w = u
    <3>1. left'[w] = FrameLen
      BY <2>1 DEF Restart, TypeOK
    <3>2. Len(wire[w]) \in Nat
      BY DEF TypeOK
    <3>3. QED
      BY <3>1, <3>2 DEF FrameLen
  <2>2. CASE w # u
    BY <2>2 DEF Restart, TypeOK, WireInv
  <2>3. QED
    BY <2>1, <2>2
<1>3. QED
  BY <1>1, <1>2

LEMMA UartStep == IInv /\ (uart2_send \/ uart4_send) => IInv'
<1> SUFFICES ASSUME IInv, uart2_send \/ uart4_send PROVE IInv'
  OBVIOUS
<1>1. PICK u \in Line : Restart(u) /\ UNCHANGED <<inverter_type, wire>>
  BY DEF uart2_send, uart4_send, Line
<1>2. WireInv' /\ left' \in [Line -> 0..FrameLen]
  BY <1>1, RestartWire DEF IInv
<1>3. TypeOK'
  <2>1. val' \in Freqs /\ pos' \in 0..(2 * FrameLen) /\ sent' \subseteq Line /\ pc' \in Pcs
    BY FreqAssumption DEF IInv, TypeOK, uart2_send, uart4_send, FrameLen, Pcs
  <2>2. QED
    BY <1>2, <2>1, Zenon DEF IInv, TypeOK, ModeOK, modeVars, uart2_send, uart4_send
<1>4. BuffInv'
  BY DEF IInv, BuffInv, uart2_send, uart4_send, InCall, Restart
<1>5. CallInv' /\ NoPhantom'
  BY DEF IInv, CallInv, NoPhantom, uart2_send, uart4_send
<1>6. QED
  BY <1>2, <1>3, <1>4, <1>5 DEF IInv

(* An interrupt fills both buffers and restarts both lines. *)
LEMMA InterruptStep == IInv /\ Interrupt => IInv'
<1> SUFFICES ASSUME IInv, Interrupt PROVE IInv'
  OBVIOUS
<1>1. PICK f \in Freqs :
        /\ \/ repair_flag = 1 /\ repair_flag' \in (IF f = 0 THEN {0, 1} ELSE {1})
           \/ repair_flag = 0 /\ servo_start = 1 /\ UNCHANGED repair_flag
        /\ servo_hz' = f
        /\ spoilt' = (InCall \/ ~Quiet)
        /\ IF Sends
             THEN /\ buff' = [u \in Line |-> pbuf(inverter_type, f)]
                  /\ left' = [u \in Line |-> FrameLen]
             ELSE UNCHANGED <<buff, left>>
        /\ last' = IF InCall THEN last ELSE "other"
  BY Zenon DEF Interrupt
<1>2. irqs' \in 0..MaxIrq
  BY FreqAssumption DEF Interrupt, IInv, TypeOK
<1>3. spoilt' \in BOOLEAN
  BY <1>1, Zenon
<1>4. UNCHANGED <<inverter_type, wire, got, fwInitHz, first_stage_hz, second_stage_hz,
                  servo_start, adjust_stage_flag, pc, val, pos, sent, cmds>>
  BY DEF Interrupt
<1>5. inverter_type \in Types
  BY DEF IInv, TypeOK
<1>6. CallInv' /\ NoPhantom'
  BY <1>4 DEF IInv, CallInv, NoPhantom
<1>7. ModeOK' /\ servo_hz' \in Freqs /\ last' \in {"sec", "other"}
  <2>1. repair_flag' \in {0, 1}
    BY <1>1
  <2>2. QED
    BY <2>1, <1>1, <1>4 DEF IInv, TypeOK, ModeOK
<1>8. CASE Sends
  <2>1. buff' = [u \in Line |-> pbuf(inverter_type, f)] /\ left' = [u \in Line |-> FrameLen]
    BY <1>1, <1>8
  <2>2. TypeOK'
    <3>1. buff' \in [Line -> [1..FrameLen -> Byte]]
      BY <2>1, <1>5, PbufType DEF Index
    <3>2. left' \in [Line -> 0..FrameLen]
      BY <2>1 DEF FrameLen
    <3>3. QED
      BY <1>2, <1>3, <1>4, <1>7, <3>1, <3>2, Zenon DEF IInv, TypeOK
  <2>3. BuffInv'
    BY <2>1, <1>4, <1>5 DEF BuffInv, FrameByte
  <2>4. WireInv'
    <3> SUFFICES ASSUME NEW w \in Line
                 PROVE  Len(wire[w]) > 0 \/ wire[w] = <<>>
      BY <2>1, <1>4 DEF WireInv, FrameLen, IInv, TypeOK
    <3>1. QED
      BY DEF IInv, TypeOK
  <2>5. QED
    BY <2>2, <2>3, <2>4, <1>6 DEF IInv
<1>9. CASE ~Sends
  <2>1. UNCHANGED <<buff, left>>
    BY <1>1, <1>9
  <2>2. TypeOK'
    BY <1>2, <1>3, <1>4, <1>7, <2>1, Zenon DEF IInv, TypeOK
  <2>3. BuffInv' /\ WireInv'
    BY <2>1, <1>4 DEF IInv, BuffInv, WireInv, InCall
  <2>4. QED
    BY <2>2, <2>3, <1>6 DEF IInv
<1>10. QED
  BY <1>8, <1>9

LEMMA Appended ==
  ASSUME NEW s \in Seq(Int), NEW b \in Int
  PROVE  /\ Append(s, b) \in Seq(Int) /\ Len(Append(s, b)) = Len(s) + 1
         /\ \A i \in 1..(Len(s) + 1) : Append(s, b)[i] = IF i = Len(s) + 1 THEN b ELSE s[i]
OBVIOUS

LEMMA Shorter ==
  ASSUME NEW n \in Nat, n <= FrameLen, n # FrameLen
  PROVE  n < FrameLen /\ n + 1 <= FrameLen
BY DEF FrameLen

LEMMA JunkType == Junk \in Seq(Int) /\ Len(Junk) = 1
BY DEF Junk

(* n bytes are on the wire, l are left: the next is the one at place n+1. *)
LEMMA Places ==
  ASSUME NEW n \in Nat, NEW l \in 1..FrameLen, n + l = FrameLen
  PROVE  FrameLen - l + 1 = n + 1 /\ n + 1 \in 1..FrameLen /\ n # FrameLen
BY DEF FrameLen

(* DMA reads a byte of a frame: the line has been started, so every byte   *)
(* of its buffer has been written.                                         *)
LEMMA SendStep == ASSUME IInv, NEW u \in Line, Send(u) PROVE IInv'
<1> DEFINE k == FrameLen - left[u] + 1
           w0 == IF wire[u] = Junk \/ Len(wire[u]) = FrameLen THEN Junk
                 ELSE Append(wire[u], buff[u][k])
<1>1. left[u] \in 1..FrameLen /\ left' = [left EXCEPT ![u] = left[u] - 1]
  BY DEF Send, IInv, TypeOK, FrameLen
<1>2. k \in Index
  BY <1>1 DEF Index, FrameLen
<1>3. wire' = [wire EXCEPT ![u] = w0]
  BY DEF Send
<1> HIDE DEF k
<1>4. buff[u][k] \in FrameByte(inverter_type, k) /\ buff[u][k] \in Int
  <2>1. left[u] # 0
    BY <1>1
  <2>2. buff[u][k] \in Byte
    BY <1>2 DEF IInv, TypeOK, Index
  <2>3. buff[u][k] \in FrameByte(inverter_type, k)
    BY <1>2, <2>1, Zenon DEF IInv, BuffInv
  <2>4. QED
    BY <2>2, <2>3 DEF Byte
<1>5. UNCHANGED <<inverter_type, servo_hz, buff, got, modeVars, pc, val, pos, last, spoilt, irqs, cmds>>
  BY DEF Send
<1>6. wire[u] \in Seq(Int) /\ Len(wire[u]) \in Nat /\ Len(wire[u]) <= FrameLen
  BY DEF IInv, TypeOK
<1>71. wire[u] = Junk \/ Len(wire[u]) = FrameLen => w0 = Junk
  OBVIOUS
<1>72. ~(wire[u] = Junk \/ Len(wire[u]) = FrameLen) => w0 = Append(wire[u], buff[u][k])
  OBVIOUS
<1> HIDE DEF w0
<1>73. w0 = Append(wire[u], buff[u][k]) =>
         /\ w0 \in Seq(Int) /\ Len(w0) = Len(wire[u]) + 1
         /\ \A i \in 1..Len(w0) : w0[i] = IF i = Len(w0) THEN buff[u][k] ELSE wire[u][i]
  <2> SUFFICES ASSUME w0 = Append(wire[u], buff[u][k])
               PROVE  /\ w0 \in Seq(Int) /\ Len(w0) = Len(wire[u]) + 1
                      /\ \A i \in 1..Len(w0) : w0[i] = IF i = Len(w0) THEN buff[u][k] ELSE wire[u][i]
    OBVIOUS
  <2>1. w0 \in Seq(Int) /\ Len(w0) = Len(wire[u]) + 1
    BY <1>4, <1>6, Appended
  <2>2. \A i \in 1..(Len(wire[u]) + 1) :
          w0[i] = IF i = Len(wire[u]) + 1 THEN buff[u][k] ELSE wire[u][i]
    BY <1>4, <1>6, Appended
  <2>3. QED
    BY <2>1, <2>2, Zenon
<1>7. w0 \in Seq(Int) /\ Len(w0) <= FrameLen
  <2>1. CASE w0 = Junk
    BY <2>1, JunkType DEF FrameLen
  <2>2. CASE w0 # Junk
    <3>1. w0 \in Seq(Int) /\ Len(w0) = Len(wire[u]) + 1 /\ Len(wire[u]) # FrameLen
      BY <2>2, <1>71, <1>72, <1>73
    <3>2. QED
      BY <3>1, <1>6, Shorter, Zenon
  <2>3. QED
    BY <2>1, <2>2
<1>8. \/ w0 = Junk
      \/ /\ Len(wire[u]) < FrameLen /\ Len(w0) = Len(wire[u]) + 1
         /\ \A i \in 1..Len(w0) : w0[i] = IF i = Len(w0) THEN buff[u][k] ELSE wire[u][i]
  <2> SUFFICES ASSUME w0 # Junk
               PROVE  /\ Len(wire[u]) < FrameLen /\ Len(w0) = Len(wire[u]) + 1
                      /\ \A i \in 1..Len(w0) : w0[i] = IF i = Len(w0) THEN buff[u][k] ELSE wire[u][i]
    OBVIOUS
  <2>1. w0 = Append(wire[u], buff[u][k]) /\ Len(wire[u]) # FrameLen
    BY <1>71, <1>72
  <2>2. Len(wire[u]) < FrameLen
    BY <2>1, <1>6, Shorter, Zenon
  <2>3. QED
    BY <2>1, <2>2, <1>73, Zenon
<1>9. wire[u] = Junk => w0 = Junk
  BY <1>71
<1>10. TypeOK'
  <2>1. wire' \in [Line -> Seq(Int)] /\ \A w \in Line : Len(wire'[w]) <= FrameLen
    BY <1>3, <1>7 DEF IInv, TypeOK
  <2>2. left' \in [Line -> 0..FrameLen]
    BY <1>1 DEF IInv, TypeOK, FrameLen
  <2>3. sent' \subseteq Line
    BY DEF IInv, TypeOK, Send
  <2>4. QED
    BY <1>5, <2>1, <2>2, <2>3, Zenon DEF IInv, TypeOK, ModeOK, modeVars
<1>11. BuffInv'
  <2> SUFFICES ASSUME NEW w \in Line, NEW i \in Index,
                      buff[w][i] \notin FrameByte(inverter_type, i)
               PROVE  /\ left'[w] = 0 /\ wire'[w] = <<>>
                      /\ ~InCall \/ (pc = "copy" /\ pos <= Turn(w, i))
    BY <1>5 DEF BuffInv, InCall
  <2>1. left[w] = 0 /\ wire[w] = <<>> /\ (~InCall \/ (pc = "copy" /\ pos <= Turn(w, i)))
    BY DEF IInv, BuffInv
  <2>2. w # u
    BY <2>1, <1>1
  <2>3. QED
    BY <2>1, <2>2, <1>1, <1>3 DEF IInv, TypeOK
<1>12. WireInv'
  <2> SUFFICES ASSUME NEW w \in Line
               PROVE  \/ wire'[w] = <<>> /\ left'[w] = 0
                      \/ wire'[w] = Junk
                      \/ Len(wire'[w]) + left'[w] > FrameLen
                      \/ /\ Len(wire'[w]) + left'[w] = FrameLen
                         /\ \A i \in 1..Len(wire'[w]) : wire'[w][i] \in FrameByte(inverter_type, i)
    BY <1>5 DEF WireInv
  <2>1. CASE w # u
    BY <2>1, <1>1, <1>3 DEF IInv, TypeOK, WireInv
  <2>2. CASE w = u
    <3>1. wire'[u] = w0 /\ left'[u] = left[u] - 1
      BY <1>1, <1>3 DEF IInv, TypeOK
    <3>2. CASE w0 = Junk
      BY <2>2, <3>1, <3>2
    <3>3. CASE w0 # Junk /\ Len(wire[u]) + left[u] > FrameLen
      BY <2>2, <3>1, <3>3, <1>1, <1>6, <1>8 DEF FrameLen
    <3>4. CASE w0 # Junk /\ ~(Len(wire[u]) + left[u] > FrameLen)
      <4>1. /\ Len(wire[u]) + left[u] = FrameLen
            /\ \A i \in 1..Len(wire[u]) : wire[u][i] \in FrameByte(inverter_type, i)
        BY <3>4, <1>1, <1>9 DEF IInv, WireInv
      <4>2. Len(w0) = Len(wire[u]) + 1 /\ k = Len(w0)
        <5>1. Len(w0) = Len(wire[u]) + 1
          BY <3>4, <1>8
        <5>2. FrameLen - left[u] + 1 = Len(wire[u]) + 1
          BY <4>1, <1>1, <1>6, Places
        <5>3. QED
          BY <5>1, <5>2 DEF k
      <4>3. \A i \in 1..Len(w0) : w0[i] \in FrameByte(inverter_type, i)
        BY <4>1, <4>2, <3>4, <1>4, <1>6, <1>8
      <4>4. QED
        BY <4>1, <4>2, <4>3, <3>1, <2>2, <1>1, <1>6 DEF FrameLen
    <3>5. QED
      BY <3>2, <3>3, <3>4
  <2>3. QED
    BY <2>1, <2>2
<1>13. CallInv' /\ NoPhantom'
  BY <1>5 DEF IInv, CallInv, NoPhantom
<1>14. QED
  BY <1>10, <1>11, <1>12, <1>13 DEF IInv

(* An inverter obeys four bytes of frames whose CRC is right. *)
LEMMA PauseStep == ASSUME IInv, NEW u \in Line, Pause(u) PROVE IInv'
<1> DEFINE g == IF Valid(wire[u]) THEN 256 * wire[u][1] + wire[u][2] ELSE got[u]
<1>1. left[u] = 0 /\ wire' = [wire EXCEPT ![u] = <<>>] /\ got' = [got EXCEPT ![u] = g]
  BY DEF Pause
<1>2. UNCHANGED <<inverter_type, servo_hz, buff, left, modeVars, pc, val, pos, last, spoilt, sent, irqs,
                  cmds>>
  BY DEF Pause
<1>3. wire[u] \in Seq(Int) /\ got[u] \in Int /\ inverter_type \in Types
  BY DEF IInv, TypeOK
<1>4. ASSUME Valid(wire[u]) PROVE \E f \in Freqs : g = Code(inverter_type, f)
  <2>1. Len(wire[u]) = FrameLen
        /\ Crc[inverter_type][wire[u][1]][wire[u][2]] = 256 * wire[u][3] + wire[u][4]
    BY <1>4 DEF Valid
  <2>2. \A i \in Index : wire[u][i] \in FrameByte(inverter_type, i)
    <3>1. wire[u] # <<>> /\ wire[u] # Junk /\ ~(Len(wire[u]) + left[u] > FrameLen)
      BY <2>1, <1>1, JunkType DEF FrameLen
    <3>2. QED
      BY <2>1, <3>1 DEF IInv, WireInv, Index
  <2>3. \E f \in Freqs : Code(inverter_type, f) = 256 * wire[u][1] + wire[u][2]
    BY <2>1, <2>2, <1>3, ValidIsFrame, ZenonT(30)
  <2>4. QED
    BY <2>3, <1>4, Zenon
<1>5. g \in Int
  <2>1. Valid(wire[u]) => wire[u][1] \in Int /\ wire[u][2] \in Int
    BY <1>3 DEF Valid, FrameLen
  <2>2. QED
    BY <2>1, <1>3
<1>6. ~Valid(wire[u]) => g = got[u]
  OBVIOUS
<1> HIDE DEF g
<1>7. TypeOK'
  <2>1. wire' \in [Line -> Seq(Int)] /\ \A w \in Line : Len(wire'[w]) <= FrameLen
    BY <1>1 DEF IInv, TypeOK, FrameLen
  <2>2. got' \in [Line -> Int]
    BY <1>1, <1>5 DEF IInv, TypeOK
  <2>3. QED
    BY <1>2, <2>1, <2>2, Zenon DEF IInv, TypeOK, ModeOK, modeVars
<1>8. BuffInv'
  BY <1>1, <1>2 DEF IInv, TypeOK, BuffInv, InCall
<1>9. WireInv'
  BY <1>1, <1>2 DEF IInv, TypeOK, WireInv
<1>10. NoPhantom'
  BY <1>1, <1>2, <1>4, <1>6 DEF IInv, TypeOK, NoPhantom
<1>11. CallInv'
  BY <1>2 DEF IInv, CallInv
<1>12. QED
  BY <1>7, <1>8, <1>9, <1>10, <1>11 DEF IInv

LEMMA StepIInv == IInv /\ [Next]_vars => IInv'
<1> SUFFICES ASSUME IInv, [Next]_vars PROVE IInv'
  OBVIOUS
<1>1. CASE UNCHANGED vars
  BY <1>1 DEF IInv, TypeOK, ModeOK, BuffInv, WireInv, CallInv, NoPhantom, InCall, vars, lineVars,
              modeVars
<1>2. CASE Main \/ Repair \/ Para \/ Interrupt \/ Stage
  BY <1>2, SecOutStep, RepairOutStep, ModeNextStep, CopyStep, UartStep, InterruptStep
     DEF Main, ModeNext
<1>3. CASE \E u \in Line : Send(u) \/ Pause(u)
  BY <1>3, SendStep, PauseStep
<1>4. QED
  BY <1>1, <1>2, <1>3 DEF Next

THEOREM IInvHolds == Spec => []IInv
BY InitIInv, StepIInv, PTL DEF Spec

(* Types: in particular a DMA channel never reads past the frame, whatever *)
(* interrupts restart it (DMA_SetCurrDataCounter of uart2_send and         *)
(* uart4_send).                                                            *)
THEOREM TypesHold == Spec => []TypeOK
<1>1. IInv => TypeOK
  BY DEF IInv
<1>2. QED
  BY <1>1, IInvHolds, PTL

(* However calls of ServoFreqSet overlap, an inverter only ever obeys a    *)
(* frequency RS485_OUT was called with.                                    *)
THEOREM NoPhantomHolds == Spec => []NoPhantom
<1>1. IInv => NoPhantom
  BY DEF IInv
<1>2. QED
  BY <1>1, IInvHolds, PTL
----------------------------------------------------------------------------
(* The frame of a call nothing has spoilt: it is being written, while the  *)
(* lines are idle, or is on the wire as it was written, or is obeyed.      *)
Frame == pbuf(inverter_type, servo_hz)
Idle(u) == left[u] = 0 /\ wire[u] = <<>>
Going(u) == /\ Len(wire[u]) + left[u] = FrameLen
            /\ \A i \in 1..Len(wire[u]) : wire[u][i] = Frame[i]
Obeyed(u) == Idle(u) /\ got[u] = Code(inverter_type, servo_hz)

(* Line u has not been started yet. *)
Held(u) == pc \in {"copy", "send2"} \/ (pc = "send4" /\ u = 4)
Written(u, i) == pc = "copy" => Turn(u, i) < pos

CallClean == servo_hz \in Freqs /\ (InCall => val = servo_hz)
BuffClean == \A u \in Line, i \in Index : Written(u, i) => buff[u][i] = Frame[i]
LinesClean == \A u \in Line : IF Held(u) THEN Idle(u) ELSE Going(u) \/ Obeyed(u)
CleanInv == ~spoilt /\ Sends => CallClean /\ BuffClean /\ LinesClean

(* The frame of f is valid, and says f. *)
LEMMA FrameValid ==
  ASSUME NEW type \in Types, NEW f \in Freqs
  PROVE  /\ 256 * pbuf(type, f)[1] + pbuf(type, f)[2] = Code(type, f)
         /\ Crc[type][pbuf(type, f)[1]][pbuf(type, f)[2]] = 256 * pbuf(type, f)[3] + pbuf(type, f)[4]
<1> DEFINE c == Code(type, f)
           hi == c \div 256
           lo == c % 256
           crc == Crc[type][hi][lo]
<1>1. c \in Nat /\ crc \in Nat
  BY CodeType, CrcTypeAssumption
<1>2. /\ pbuf(type, f)[1] = hi /\ pbuf(type, f)[2] = lo
      /\ pbuf(type, f)[3] = crc \div 256 /\ pbuf(type, f)[4] = crc % 256
  BY DEF pbuf
<1> HIDE DEF crc, c
<1>3. 256 * hi + lo = c /\ 256 * (crc \div 256) + (crc % 256) = crc
  BY <1>1, SMT
<1> HIDE DEF hi, lo
<1> QED BY <1>2, <1>3 DEF crc, c

LEMMA CleanInit == Init => CleanInv
BY DEF Init, CleanInv

LEMMA CleanCall ==
  ASSUME IInv, NEW f \in Freqs, Call(f), UNCHANGED <<inverter_type, lineVars>>
  PROVE  CleanInv'
<1> SUFFICES ASSUME ~spoilt', Sends PROVE (CallClean /\ BuffClean /\ LinesClean)'
  BY DEF CleanInv, Sends
<1>1. Quiet /\ servo_hz' = f /\ val' = f /\ pc' = "copy" /\ pos' = 0
  BY DEF Call
<1>2. CallClean'
  BY <1>1 DEF CallClean
<1>3. BuffClean'
  <2>1. \A u \in Line, i \in Index : ~Written(u, i)'
    BY <1>1, TurnOf DEF Written, Turn, Index, Line
  <2> QED BY <2>1 DEF BuffClean
<1>4. LinesClean'
  BY <1>1 DEF LinesClean, Held, Idle, Quiet, lineVars
<1> QED BY <1>2, <1>3, <1>4

LEMMA CleanMode == ASSUME IInv, CleanInv, ModeNext PROVE CleanInv'
BY ModeFrame DEF CleanInv, Sends, CallClean, BuffClean, LinesClean, Held, Written, Idle, Going,
                 Obeyed, Frame, InCall, lineVars

LEMMA CleanCopy ==
  ASSUME IInv, CleanInv, Copy
  PROVE  CleanInv'
<1> SUFFICES ASSUME ~spoilt', Sends' PROVE (CallClean /\ BuffClean /\ LinesClean)'
  BY DEF CleanInv
<1>1. CallClean /\ BuffClean /\ LinesClean
  BY DEF CleanInv, Copy, Sends
<1> DEFINE u0 == IF pos % 2 = 0 THEN 2 ELSE 4
           i0 == pos \div 2 + 1
<1>2. /\ pc = "copy" /\ pos \in Nat /\ pos < 2 * FrameLen
      /\ UNCHANGED <<inverter_type, servo_hz, val, left, wire>>
      /\ pos' = pos + 1 /\ pc' \in {"copy", "send2"} /\ (pc' = "send2" => pos + 1 = 2 * FrameLen)
      /\ buff' = [buff EXCEPT ![u0][i0] = pbuf(inverter_type, val)[i0]]
  BY DEF IInv, TypeOK, CallInv, Copy, FrameLen
<1>3. val = servo_hz /\ Frame' = Frame
  BY <1>1, <1>2 DEF CallClean, Frame, InCall
<1>4. u0 \in Line /\ i0 \in Index
  <2>1. u0 \in Line
    BY DEF Line
  <2>2. i0 \in Index
    BY <1>2, SMT DEF Index, FrameLen
  <2> QED BY <2>1, <2>2
<1>5. \A u \in Line, i \in Index : /\ Turn(u, i) = pos <=> u = u0 /\ i = i0
                                   /\ Turn(u, i) \in Nat /\ Turn(u, i) < 2 * FrameLen
  BY <1>2, TurnOf
<1> HIDE DEF u0, i0
<1>6. \A u \in Line, i \in Index :
        buff'[u][i] = IF u = u0 /\ i = i0 THEN Frame[i] ELSE buff[u][i]
  BY <1>2, <1>3, <1>4 DEF IInv, TypeOK, Index, Frame
<1>7. CallClean'
  BY <1>1, <1>2, <1>3 DEF CallClean
<1>8. BuffClean'
  <2> SUFFICES ASSUME NEW u \in Line, NEW i \in Index, Written(u, i)' PROVE buff'[u][i] = Frame[i]
    BY <1>3 DEF BuffClean
  <2>1. Turn(u, i) < pos + 1
    BY <1>2, <1>5 DEF Written
  <2>2. CASE u = u0 /\ i = i0
    BY <1>6, <2>2
  <2>3. CASE ~(u = u0 /\ i = i0)
    <3>1. Turn(u, i) < pos
      BY <1>2, <1>5, <2>1, <2>3
    <3> QED BY <1>1, <1>6, <2>3, <3>1 DEF BuffClean, Written
  <2> QED BY <2>2, <2>3
<1>9. LinesClean'
  BY <1>1, <1>2 DEF LinesClean, Held, Idle
<1> QED BY <1>7, <1>8, <1>9

(* Line u is started with its buffer written. *)
LEMMA Started ==
  ASSUME NEW u \in Line, wire'[u] = <<>>, left'[u] = FrameLen
  PROVE  Going(u)'
<1>1. Len(<<>>) = 0
  OBVIOUS
<1> QED BY <1>1 DEF Going, FrameLen

LEMMA CleanUart ==
  ASSUME IInv, CleanInv, uart2_send \/ uart4_send
  PROVE  CleanInv'
<1> SUFFICES ASSUME ~spoilt', Sends' PROVE (CallClean /\ BuffClean /\ LinesClean)'
  BY DEF CleanInv
<1>0. UNCHANGED <<inverter_type, servo_hz, buff, wire, got, spoilt>>
  BY DEF uart2_send, uart4_send
<1>1. CallClean /\ BuffClean /\ LinesClean
  BY <1>0 DEF CleanInv, Sends
<1>2. pc \in {"send2", "send4"} /\ pc' \in {"send4", "loop"} /\ Frame' = Frame
  BY <1>0 DEF uart2_send, uart4_send, Frame
<1>3. CallClean'
  BY <1>0, <1>1 DEF CallClean, uart2_send, uart4_send, InCall
<1>4. BuffClean'
  BY <1>0, <1>1, <1>2 DEF BuffClean, Written
<1>5. LinesClean'
  <2>1. CASE uart2_send
    <3>1. pc = "send2" /\ pc' = "send4" /\ left'[2] = FrameLen /\ left'[4] = left[4]
      BY <2>1 DEF uart2_send, Restart, IInv, TypeOK, Line
    <3>2. Idle(2) /\ Idle(4)
      BY <1>1, <3>1 DEF LinesClean, Held, Line
    <3>3. Going(2)' /\ Idle(4)'
      BY <1>0, <3>1, <3>2, Started DEF Idle, Line
    <3> QED BY <3>1, <3>3 DEF LinesClean, Held, Line
  <2>2. CASE uart4_send
    <3>1. pc = "send4" /\ pc' = "loop" /\ left'[4] = FrameLen /\ left'[2] = left[2]
      BY <2>2 DEF uart4_send, Restart, IInv, TypeOK, Line
    <3>2. Idle(4) /\ (Going(2) \/ Obeyed(2))
      BY <1>1, <3>1 DEF LinesClean, Held, Line
    <3>3. Going(4)' /\ (Going(2)' \/ Obeyed(2)')
      <4>1. Going(4)'
        BY <1>0, <3>1, <3>2, Started DEF Idle, Line
      <4>2. Going(2)' \/ Obeyed(2)'
        BY <1>0, <1>2, <3>1, <3>2 DEF Going, Obeyed, Idle
      <4> QED BY <4>1, <4>2
    <3> QED BY <3>1, <3>3 DEF LinesClean, Held, Line
  <2> QED BY <2>1, <2>2
<1> QED BY <1>3, <1>4, <1>5

LEMMA CleanInterrupt ==
  ASSUME IInv, Interrupt
  PROVE  CleanInv'
<1> SUFFICES ASSUME ~spoilt', Sends PROVE (CallClean /\ BuffClean /\ LinesClean)'
  BY DEF CleanInv, Sends, Interrupt
<1>1. PICK f \in Freqs :
        /\ servo_hz' = f
        /\ spoilt' = (InCall \/ ~Quiet)
        /\ buff' = [u \in Line |-> pbuf(inverter_type, f)]
        /\ left' = [u \in Line |-> FrameLen]
  BY Zenon DEF Interrupt
<1>2. ~InCall /\ Quiet /\ UNCHANGED <<inverter_type, wire, pc>>
  BY <1>1 DEF Interrupt
<1>3. Frame' = pbuf(inverter_type, f)
  BY <1>1, <1>2 DEF Frame
<1>4. CallClean'
  BY <1>1, <1>2 DEF CallClean, InCall
<1>5. BuffClean'
  BY <1>1, <1>3 DEF BuffClean
<1>6. LinesClean'
  <2>1. \A u \in Line : Going(u)'
    BY <1>1, <1>2, Started DEF Quiet
  <2> QED BY <1>2, <2>1 DEF LinesClean, Held, InCall
<1> QED BY <1>4, <1>5, <1>6

LEMMA CleanSend ==
  ASSUME IInv, CleanInv, NEW u \in Line, Send(u)
  PROVE  CleanInv'
<1> SUFFICES ASSUME ~spoilt', Sends' PROVE (CallClean /\ BuffClean /\ LinesClean)'
  BY DEF CleanInv
<1>0. UNCHANGED <<inverter_type, servo_hz, buff, got, pc, val, pos, spoilt>>
  BY DEF Send
<1>1. CallClean /\ BuffClean /\ LinesClean
  BY <1>0 DEF CleanInv, Sends
<1>2. Frame' = Frame /\ CallClean' /\ BuffClean'
  BY <1>0, <1>1 DEF Frame, CallClean, BuffClean, Written, InCall
<1> DEFINE k == FrameLen - left[u] + 1
<1>3. /\ left[u] \in 1..FrameLen /\ left' = [left EXCEPT ![u] = left[u] - 1]
      /\ wire[u] \in Seq(Int)
  BY DEF Send, IInv, TypeOK, FrameLen
<1>4. ~Held(u) /\ Going(u)
  BY <1>1, <1>3 DEF LinesClean, Idle, Obeyed
<1>5. k = Len(wire[u]) + 1 /\ k \in Index /\ Len(wire[u]) \in Nat /\ Len(wire[u]) # FrameLen
  <2>1. Len(wire[u]) \in Nat
    BY <1>3
  <2>2. Len(wire[u]) + left[u] = FrameLen
    BY <1>4 DEF Going
  <2> QED BY <1>3, <2>1, <2>2, Places DEF k, Index
<1>6. wire[u] # Junk
  <2> SUFFICES ASSUME wire[u] = Junk PROVE FALSE
    OBVIOUS
  <2>1. wire[u][1] = -1 /\ 1 \in 1..Len(wire[u])
    BY DEF Junk
  <2>2. Frame[1] \in Byte
    BY <1>1, PbufType DEF Frame, CallClean, IInv, TypeOK, Index, FrameLen
  <2>3. wire[u][1] = Frame[1]
    BY <1>4, <2>1 DEF Going
  <2>4. -1 \notin Byte
    BY DEF Byte
  <2> QED BY <2>1, <2>2, <2>3, <2>4
<1> HIDE DEF k
<1>7. buff[u][k] = Frame[k] /\ buff[u][k] \in Int
  <2>1. pc # "copy"
    BY <1>4 DEF Held
  <2>2. buff[u][k] \in Byte
    BY <1>5 DEF IInv, TypeOK, Index
  <2>3. buff[u][k] = Frame[k]
    BY <1>1, <1>5, <2>1 DEF BuffClean, Written
  <2> QED BY <2>2, <2>3 DEF Byte
<1>8. wire' = [wire EXCEPT ![u] = Append(wire[u], buff[u][k])]
  BY <1>5, <1>6 DEF Send, k
<1>9. /\ wire'[u] = Append(wire[u], buff[u][k]) /\ left'[u] = left[u] - 1
      /\ \A w \in Line \ {u} : wire'[w] = wire[w] /\ left'[w] = left[w]
  BY <1>3, <1>8 DEF IInv, TypeOK
<1>10. Going(u)'
  <2>1. /\ Len(wire'[u]) = Len(wire[u]) + 1
        /\ \A i \in 1..(Len(wire[u]) + 1) :
             wire'[u][i] = IF i = Len(wire[u]) + 1 THEN buff[u][k] ELSE wire[u][i]
    BY <1>3, <1>7, <1>9, Appended
  <2>2. Len(wire'[u]) + left'[u] = FrameLen
    BY <1>3, <1>4, <1>5, <1>9, <2>1 DEF Going, FrameLen
  <2>3. \A i \in 1..Len(wire'[u]) : wire'[u][i] = Frame[i]
    BY <1>4, <1>5, <1>7, <2>1 DEF Going
  <2> QED BY <1>2, <2>2, <2>3 DEF Going
<1>11. LinesClean'
  <2>1. ASSUME NEW w \in Line \ {u} PROVE IF Held(w) THEN Idle(w)' ELSE Going(w)' \/ Obeyed(w)'
    <3>1. IF Held(w) THEN Idle(w) ELSE Going(w) \/ Obeyed(w)
      BY <1>1 DEF LinesClean
    <3>2. /\ Idle(w) => Idle(w)'
          /\ Going(w) => Going(w)'
          /\ Obeyed(w) => Obeyed(w)'
      BY <1>0, <1>2, <1>9 DEF Idle, Going, Obeyed
    <3> QED BY <3>1, <3>2
  <2>2. \A w \in Line : Held(w)' <=> Held(w)
    BY <1>0 DEF Held
  <2> QED BY <1>4, <1>10, <2>1, <2>2 DEF LinesClean
<1> QED BY <1>2, <1>11

(* The inverter finds the frame as it was written. *)
LEMMA CleanPause ==
  ASSUME IInv, CleanInv, NEW u \in Line, Pause(u)
  PROVE  CleanInv'
<1> SUFFICES ASSUME ~spoilt', Sends' PROVE (CallClean /\ BuffClean /\ LinesClean)'
  BY DEF CleanInv
<1>0. UNCHANGED <<inverter_type, servo_hz, buff, left, pc, val, pos, spoilt>>
  BY DEF Pause
<1>1. CallClean /\ BuffClean /\ LinesClean
  BY <1>0 DEF CleanInv, Sends
<1>2. Frame' = Frame /\ CallClean' /\ BuffClean'
  BY <1>0, <1>1 DEF Frame, CallClean, BuffClean, Written, InCall
<1>3. left[u] = 0 /\ wire[u] # <<>> /\ wire[u] \in Seq(Int) /\ wire' = [wire EXCEPT ![u] = <<>>]
  BY DEF Pause, IInv, TypeOK
<1>4. ~Held(u) /\ Going(u)
  BY <1>1, <1>3 DEF LinesClean, Idle, Obeyed
<1>5. Len(wire[u]) = FrameLen /\ \A i \in Index : wire[u][i] = Frame[i]
  BY <1>3, <1>4 DEF Going, Index, FrameLen
<1>6. Valid(wire[u]) /\ 256 * wire[u][1] + wire[u][2] = Code(inverter_type, servo_hz)
  <2>1. \A i \in {1, 2, 3, 4} : wire[u][i] = pbuf(inverter_type, servo_hz)[i]
    BY <1>5 DEF Index, FrameLen, Frame
  <2>2. inverter_type \in Types /\ servo_hz \in Freqs
    BY <1>1 DEF IInv, TypeOK, CallClean
  <2> QED BY <1>5, <2>1, <2>2, FrameValid DEF Valid
<1>7. got' = [got EXCEPT ![u] = Code(inverter_type, servo_hz)]
  BY <1>6 DEF Pause
<1>8. /\ got'[u] = Code(inverter_type, servo_hz) /\ wire'[u] = <<>>
      /\ \A w \in Line \ {u} : wire'[w] = wire[w] /\ got'[w] = got[w]
  BY <1>3, <1>7 DEF IInv, TypeOK
<1>9. Obeyed(u)'
  BY <1>0, <1>3, <1>8 DEF Obeyed, Idle
<1>10. LinesClean'
  <2>1. ASSUME NEW w \in Line \ {u} PROVE IF Held(w) THEN Idle(w)' ELSE Going(w)' \/ Obeyed(w)'
    <3>1. IF Held(w) THEN Idle(w) ELSE Going(w) \/ Obeyed(w)
      BY <1>1 DEF LinesClean
    <3>2. /\ Idle(w) => Idle(w)'
          /\ Going(w) => Going(w)'
          /\ Obeyed(w) => Obeyed(w)'
      BY <1>0, <1>2, <1>8 DEF Idle, Going, Obeyed
    <3> QED BY <3>1, <3>2
  <2>2. \A w \in Line : Held(w)' <=> Held(w)
    BY <1>0 DEF Held
  <2> QED BY <1>4, <1>9, <2>1, <2>2 DEF LinesClean
<1> QED BY <1>2, <1>10

LEMMA CleanStep == IInv /\ CleanInv /\ [Next]_vars => CleanInv'
<1> SUFFICES ASSUME IInv, CleanInv, [Next]_vars PROVE CleanInv'
  OBVIOUS
<1>1. CASE SecOut
  <2>1. fwInitHz \in Freqs
    BY DEF IInv, TypeOK, ModeOK
  <2> QED BY <1>1, <2>1, CleanCall DEF SecOut
<1>2. CASE RepairOut
  <2>1. val \in Freqs
    BY DEF IInv, TypeOK
  <2> QED BY <1>2, <2>1, CleanCall DEF RepairOut
<1>3. CASE Copy
  BY <1>3, CleanCopy
<1>4. CASE uart2_send \/ uart4_send
  BY <1>4, CleanUart
<1>5. CASE Interrupt
  BY <1>5, CleanInterrupt
<1>6. CASE \E u \in Line : Send(u) \/ Pause(u)
  BY <1>6, CleanSend, CleanPause
<1>7. CASE UNCHANGED vars
  BY <1>7 DEF vars, CleanInv, Sends, CallClean, BuffClean, LinesClean, Held, Written, Idle, Going,
              Obeyed, Frame, InCall, lineVars
<1>8. CASE ModeNext
  BY <1>8, CleanMode
<1> QED BY <1>1, <1>2, <1>3, <1>4, <1>5, <1>6, <1>7, <1>8 DEF Next, Main, ModeNext

(* A call that nothing hit, on quiet lines, is obeyed: only an overlap of  *)
(* two calls, or of a call and a frame, can lose a frequency.              *)
THEOREM ObeyedHolds == Spec => []ObeyedUnlessSpoilt
<1>1. IInv /\ CleanInv => ObeyedUnlessSpoilt
  <2> SUFFICES ASSUME IInv, CleanInv, pc = "loop", Quiet, Sends, ~spoilt, NEW u \in Line
               PROVE  got[u] = Code(inverter_type, servo_hz)
    BY DEF ObeyedUnlessSpoilt
  <2>1. Going(u) \/ Obeyed(u)
    BY DEF CleanInv, LinesClean, Held
  <2>2. Len(<<>>) = 0 /\ left[u] = 0 /\ wire[u] = <<>>
    BY DEF Quiet
  <2> QED BY <2>1, <2>2 DEF Going, Obeyed, FrameLen
<1>2. Spec => []CleanInv
  BY CleanInit, CleanStep, IInvHolds, PTL DEF Spec
<1> QED BY <1>1, <1>2, IInvHolds, PTL
=============================================================================
