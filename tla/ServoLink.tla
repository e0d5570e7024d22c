------------------------------ MODULE ServoLink ------------------------------
(***************************************************************************)
(* The serial lines to the two inverters.  RS485_OUT notes the frequency   *)
(* in servo_hz and calls ServoFreqSet, which builds a Modbus frame, copies *)
(* it byte by byte into the send buffers of USART2 and UART4 and restarts  *)
(* the DMA channel of each.  The main loop calls it (sec_process, repair   *)
(* command), and so do the photo-eye interrupts, between any two of the    *)
(* main loop's stores, while DMA sends what the buffers hold.              *)
(*                                                                         *)
(* Who calls it depends on the mode: sec_process in a start-up (the PID    *)
(* controller off), the PID controller once servo_start is 1, the repair   *)
(* positioning while repair_flag is 1.  The cars that end a stage of the   *)
(* start-up and the place of the line are abstracted (LineControl has      *)
(* them): a stage ends, and a repair starts or ends, at any time.          *)
(*                                                                         *)
(* An inverter (external) takes a pause for the end of a frame and obeys   *)
(* only what is exactly one frame with a right CRC.                        *)
(*                                                                         *)
(* The first bytes of a frame never change and are left out; then come the *)
(* two bytes of the frequency and the two of the CRC.                      *)
(***************************************************************************)
EXTENDS Integers, Sequences

CONSTANTS Freqs,      \* frequencies in use, u16; 0 stops the line
          Paras,      \* parameter commands: first_stage_hz, second_stage_hz
          RepairHz,   \* standard_hz of repair commands
          Types,      \* values of inverter_type
          Crc,        \* CRC of the frame: of type, high and low byte
          MaxIrq,     \* bound: calls by interrupts
          MaxCmd      \* bound: commands

Line == {2, 4}
FrameLen == 4
Byte == 0..255

(* The number in the frame: Siemens counts 16#4000 for 50.00 Hz. *)
Code(type, f) == IF type = 2 THEN ((f * 16384) \div 5000) % 65536 ELSE f

(* pbuf, filled for frequency f. *)
pbuf(type, f) ==
  LET hi == Code(type, f) \div 256
      lo == Code(type, f) % 256
      crc == Crc[type][hi][lo]
  IN <<hi, lo, crc \div 256, crc % 256>>

ASSUME FreqAssumption ==
  /\ 0 \in Freqs /\ Freqs \subseteq Nat /\ \A f \in Freqs : f < 65536
  /\ Paras \subseteq [first : Freqs, second : Freqs]
  /\ RepairHz \subseteq Freqs /\ Types \subseteq Nat
  /\ MaxIrq \in Nat /\ MaxCmd \in Nat

ASSUME CrcTypeAssumption ==
  \A type \in Types : \A a, b \in Freqs :
    LET crc == Crc[type][Code(type, a) \div 256][Code(type, b) % 256]
    IN crc \in Nat /\ crc < 65536

(* The CRC tells the frames of the frequencies in use from every mixture   *)
(* of their bytes.                                                         *)
ASSUME CrcAssumption ==
  \A type \in Types : \A a, b, c, d \in Freqs :
    Crc[type][pbuf(type, a)[1]][pbuf(type, b)[2]] = 256 * pbuf(type, c)[3] + pbuf(type, d)[4]
      => \E f \in Freqs : Code(type, f) = 256 * pbuf(type, a)[1] + pbuf(type, b)[2]

VARIABLES
  inverter_type,
  servo_hz,
  buff,      \* uart2_send_buff and uart4_send_buff
  left,      \* bytes DMA has still to send, per line
  wire,      \* bytes the inverter has got since the last pause, or Junk
  got,       \* the number the inverter obeys; None before the first frame
  fwInitHz, first_stage_hz, second_stage_hz,
  servo_start, repair_flag, adjust_stage_flag,
  pc, val,   \* the main loop, and the argument of its RS485_OUT
  pos,       \* stores of the copy loop done: one per byte and line
  last,      \* who called last: "sec" for sec_process, or "other"
  spoilt,    \* history: the last call began with a frame, or a call, unfinished
  sent,      \* lines that have sent a byte during the main loop's call (bound)
  irqs, cmds

lineVars == <<buff, left, wire, got>>
modeVars == <<fwInitHz, first_stage_hz, second_stage_hz, servo_start, repair_flag, adjust_stage_flag>>
vars == <<inverter_type, servo_hz, lineVars, modeVars, pc, val, pos, last, spoilt, sent, irqs, cmds>>

Junk == <<-1>>
None == -1

Init == /\ inverter_type \in Types
        /\ servo_hz = 0
        /\ buff = [u \in Line |-> <<0, 0, 0, 0>>]
        /\ left = [u \in Line |-> 0]
        /\ wire = [u \in Line |-> <<>>]
        /\ got = [u \in Line |-> None]
        /\ fwInitHz = 0 /\ first_stage_hz = 0 /\ second_stage_hz = 0
        /\ servo_start = 0 /\ repair_flag = 0 /\ adjust_stage_flag = 0
        /\ pc = "loop" /\ val = 0 /\ pos = 0 /\ last = "other" /\ spoilt = TRUE /\ sent = {}
        /\ irqs = 0 /\ cmds = 0

Sends == inverter_type <= 4
InCall == pc \in {"copy", "send2", "send4"}
Quiet == \A u \in Line : left[u] = 0 /\ wire[u] = <<>>

----------------------------------------------------------------------------
(* The main loop's RS485_OUT: the store of servo_hz, the stores of the     *)
(* copy loop, each line's byte in turn, uart2_send, uart4_send.            *)

Call(f) == /\ servo_hz' = f /\ val' = f
           /\ pc' = IF Sends THEN "copy" ELSE "loop"
           /\ pos' = 0
           /\ spoilt' = ~Quiet

(* Mutant: the test takes adjust_stage_flag for repair_flag. *)
SecTestWrongFlag ==
  /\ pc = "loop"
  /\ Quiet \/ last = "other"
  /\ pc' = IF servo_start = 0 /\ adjust_stage_flag = 0 THEN "sec" ELSE "loop"
  /\ UNCHANGED <<inverter_type, servo_hz, lineVars, modeVars, val, pos, last, spoilt, sent, irqs, cmds>>

(* sec_process: the test, then the call.  A second is far longer than a    *)
(* frame: the frame of its last call is out, but another call may have     *)
(* come just now.                                                          *)
SecTest == /\ pc = "loop"
           /\ Quiet \/ last = "other"
           /\ pc' = IF servo_start = 0 /\ repair_flag = 0 THEN "sec" ELSE "loop"
           /\ UNCHANGED <<inverter_type, servo_hz, lineVars, modeVars, val, pos, last, spoilt, sent,
                          irqs, cmds>>

SecOut == /\ pc = "sec"
          /\ Call(fwInitHz)
          /\ last' = "sec"
          /\ UNCHANGED <<inverter_type, lineVars, modeVars, sent, irqs, cmds>>

(* A repair command comes at any time: repair_flag, then standard_hz,      *)
(* unless the target is near.                                              *)
Repair == /\ pc = "loop" /\ cmds < MaxCmd
          /\ repair_flag' = 1 /\ val' \in RepairHz
          /\ pc' = "repair" /\ cmds' = cmds + 1
          /\ UNCHANGED <<inverter_type, servo_hz, lineVars, fwInitHz, first_stage_hz, second_stage_hz,
                         servo_start, adjust_stage_flag, pos, last, spoilt, sent, irqs>>

RepairOut == /\ pc = "repair"
             /\ Call(val)
             /\ last' = "other"
             /\ UNCHANGED <<inverter_type, lineVars, modeVars, sent, irqs, cmds>>

RepairNear == /\ pc = "repair"
              /\ repair_flag' = 0 /\ val' = 0
              /\ pc' = "loop" /\ sent' = {}
              /\ UNCHANGED <<inverter_type, servo_hz, lineVars, fwInitHz, first_stage_hz,
                             second_stage_hz, servo_start, adjust_stage_flag, pos, last, spoilt,
                             irqs, cmds>>

(* A parameter command: both flags, then fwInitServo's frequencies and the *)
(* start-up.  It sends nothing itself.                                     *)
Para == /\ pc = "loop" /\ cmds < MaxCmd
        /\ repair_flag' = 0 /\ adjust_stage_flag' = 0
        /\ pc' = "para" /\ cmds' = cmds + 1
        /\ UNCHANGED <<inverter_type, servo_hz, lineVars, fwInitHz, first_stage_hz, second_stage_hz,
                       servo_start, val, pos, last, spoilt, sent, irqs>>

ParaEnd == /\ pc = "para"
           /\ \E p \in Paras : /\ second_stage_hz' = p.second /\ first_stage_hz' = p.first
                               /\ fwInitHz' = p.first
           /\ servo_start' = 0
           /\ pc' = "loop" /\ sent' = {}
           /\ UNCHANGED <<inverter_type, servo_hz, lineVars, repair_flag, adjust_stage_flag, val, pos,
                          last, spoilt, irqs, cmds>>

(* Mutant: the frame is built in the send buffer itself. *)
CopyInPlace ==
  /\ pc = "copy"
  /\ LET u == IF pos % 2 = 0 THEN 2 ELSE 4
         i == pos \div 2 + 1
         crc == Crc[inverter_type][buff[u][1]][buff[u][2]]
     IN buff' = [buff EXCEPT ![u][i] = CASE i = 3 -> crc \div 256
                                         [] i = 4 -> crc % 256
                                         [] OTHER -> pbuf(inverter_type, val)[i]]
  /\ pos' = pos + 1
  /\ pc' = IF pos + 1 = 2 * FrameLen THEN "send2" ELSE "copy"
  /\ UNCHANGED <<inverter_type, servo_hz, left, wire, got, modeVars, val, last, spoilt, sent, irqs,
                 cmds>>

Copy == /\ pc = "copy"
        /\ LET u == IF pos % 2 = 0 THEN 2 ELSE 4
               i == pos \div 2 + 1
           IN buff' = [buff EXCEPT ![u][i] = pbuf(inverter_type, val)[i]]
        /\ pos' = pos + 1
        /\ pc' = IF pos + 1 = 2 * FrameLen THEN "send2" ELSE "copy"
        /\ UNCHANGED <<inverter_type, servo_hz, left, wire, got, modeVars, val, last, spoilt, sent, irqs,
                 cmds>>

(* Mutant: one byte more than the frame has. *)
RestartLonger(u) == left' = [left EXCEPT ![u] = FrameLen + 1]

(* DMA starts again at the first byte. *)
Restart(u) == left' = [left EXCEPT ![u] = FrameLen]

uart2_send == /\ pc = "send2"
              /\ Restart(2)
              /\ pc' = "send4"
              /\ UNCHANGED <<inverter_type, servo_hz, buff, wire, got, modeVars, val, pos, last, spoilt, sent,
                             irqs, cmds>>

(* Mutant: the channel of UART4 is not restarted. *)
uart4_sendNot == /\ pc = "send4"
                 /\ pc' = "loop" /\ val' = 0 /\ pos' = 0 /\ sent' = {}
                 /\ UNCHANGED <<inverter_type, servo_hz, lineVars, modeVars, last, spoilt, irqs, cmds>>

uart4_send == /\ pc = "send4"
              /\ Restart(4)
              /\ pc' = "loop" /\ val' = 0 /\ pos' = 0 /\ sent' = {}
              /\ UNCHANGED <<inverter_type, servo_hz, buff, wire, got, modeVars, last, spoilt, irqs, cmds>>

----------------------------------------------------------------------------
(* A photo-eye interrupt calls RS485_OUT: repairLocationCtrl in repair     *)
(* mode, which ends with frequency 0, fwPIDctrl with the controller on.    *)
Interrupt == /\ irqs < MaxIrq
             /\ irqs' = irqs + 1
             /\ \E f \in Freqs :
                  /\ \/ repair_flag = 1 /\ repair_flag' \in (IF f = 0 THEN {0, 1} ELSE {1})
                     \/ repair_flag = 0 /\ servo_start = 1 /\ UNCHANGED repair_flag
                  /\ servo_hz' = f
                  /\ spoilt' = (InCall \/ ~Quiet)
                  /\ IF Sends
                       THEN /\ buff' = [u \in Line |-> pbuf(inverter_type, f)]
                            /\ left' = [u \in Line |-> FrameLen]
                       ELSE UNCHANGED <<buff, left>>
                  /\ last' = IF InCall THEN last ELSE "other"
             /\ UNCHANGED <<inverter_type, wire, got, fwInitHz, first_stage_hz, second_stage_hz,
                            servo_start, adjust_stage_flag, pc, val, pos, sent, cmds>>

(* TIM_EXTI_Process, photo eye 1: the last car of a stage of the start-up. *)
(* RS485_OUT reads nothing of the mode, and the next car is a tenth of a   *)
(* second away: a stage that ends within a call might as well end after.   *)
Stage == /\ repair_flag = 0 /\ servo_start = 0 /\ ~InCall
         /\ IF adjust_stage_flag = 0 /\ second_stage_hz # 0
              THEN adjust_stage_flag' = 1 /\ fwInitHz' = second_stage_hz /\ UNCHANGED servo_start
              ELSE /\ adjust_stage_flag' = 0 /\ servo_start' = 1
                   /\ fwInitHz' = IF adjust_stage_flag = 1 THEN first_stage_hz ELSE fwInitHz
         /\ UNCHANGED <<inverter_type, servo_hz, lineVars, first_stage_hz, second_stage_hz, repair_flag,
                        pc, val, pos, last, spoilt, sent, irqs, cmds>>

----------------------------------------------------------------------------
(* DMA and the UART: one byte.  A call, with the test before it, takes     *)
(* some microseconds, a byte half a millisecond or more: at most one byte  *)
(* falls into a call.  Both lines run at the same rate: neither gets ahead *)
(* by more than a byte.                                                    *)
Send(u) == /\ left[u] > 0
           /\ IF pc = "loop" THEN \A w \in Line : left[u] >= left[w] ELSE u \notin sent
           /\ sent' = IF pc = "loop" THEN {} ELSE sent \cup {u}
           /\ left' = [left EXCEPT ![u] = @ - 1]
           /\ wire' = [wire EXCEPT ![u] =
                IF wire[u] = Junk \/ Len(wire[u]) = FrameLen THEN Junk
                ELSE Append(@, buff[u][FrameLen - left[u] + 1])]
           /\ UNCHANGED <<inverter_type, servo_hz, buff, got, modeVars, pc, val, pos, last, spoilt, irqs,
                          cmds>>

(* One whole frame with its CRC. *)
Valid(w) == /\ Len(w) = FrameLen
            /\ Crc[inverter_type][w[1]][w[2]] = 256 * w[3] + w[4]

(* A pause after the last byte: the inverter looks at what it has got. *)
Pause(u) == /\ left[u] = 0 /\ wire[u] # <<>>
            /\ got' = [got EXCEPT ![u] = IF Valid(wire[u]) THEN 256 * wire[u][1] + wire[u][2] ELSE @]
            /\ wire' = [wire EXCEPT ![u] = <<>>]
            /\ UNCHANGED <<inverter_type, servo_hz, buff, left, modeVars, pc, val, pos, last, spoilt, sent,
                           irqs, cmds>>

----------------------------------------------------------------------------
Main == SecTest \/ SecOut \/ Copy \/ uart2_send \/ uart4_send \/ RepairOut \/ RepairNear \/ ParaEnd
Next == \/ Main \/ Repair \/ Para \/ Interrupt \/ Stage
        \/ \E u \in Line : Send(u) \/ Pause(u)
Spec == Init /\ [][Next]_vars

(* The main loop and the hardware run on; interrupts and commands end, and *)
(* cars need not come.                                                     *)
FairSpec == /\ Spec /\ WF_vars(Main)
            /\ \A u \in Line : WF_vars(Send(u)) /\ WF_vars(Pause(u))
----------------------------------------------------------------------------
Pcs == {"loop", "sec", "repair", "para", "copy", "send2", "send4"}
ModeOK ==
  /\ fwInitHz \in Freqs /\ first_stage_hz \in Freqs /\ second_stage_hz \in Freqs
  /\ servo_start \in {0, 1} /\ repair_flag \in {0, 1} /\ adjust_stage_flag \in {0, 1}
TypeOK ==
  /\ inverter_type \in Types /\ servo_hz \in Freqs /\ val \in Freqs
  /\ buff \in [Line -> [1..FrameLen -> Byte]]
  /\ left \in [Line -> 0..FrameLen]
  /\ got \in [Line -> Int]
  /\ wire \in [Line -> Seq(Int)] /\ \A u \in Line : Len(wire[u]) <= FrameLen
  /\ ModeOK /\ pc \in Pcs /\ pos \in 0..(2 * FrameLen)
  /\ last \in {"sec", "other"} /\ spoilt \in BOOLEAN
  /\ sent \subseteq Line /\ irqs \in 0..MaxIrq /\ cmds \in 0..MaxCmd

(* However the main loop and an interrupt mix their bytes in the buffers,  *)
(* and whatever DMA has read of them by then, an inverter never obeys a    *)
(* frequency nobody called RS485_OUT with: a mixture is rejected.          *)
NoPhantom ==
  \A u \in Line : got[u] # None => \E f \in Freqs : got[u] = Code(inverter_type, f)

(* What an interrupt or a command has spoilt is healed by sec_process,     *)
(* but only in a start-up: from when on neither the PID controller nor the *)
(* repair positioning has the line, both inverters come to run at          *)
(* fwInitHz, and servo_hz, which the state report tells the WCS, comes to  *)
(* agree with them.  In the other modes a lost frame is made up only by    *)
(* the mode's next call (ObeyedUnlessSpoilt).                              *)
Healed == /\ servo_hz = fwInitHz
          /\ \A u \in Line : got[u] = Code(inverter_type, fwInitHz)
SecHeals ==
  inverter_type <= 4 => (<>[](servo_start = 0 /\ repair_flag = 0) => <>[]Healed)

(* A frame is lost only if the call was hit by another one, or came while  *)
(* a frame was still on the wire: otherwise, once the lines are quiet,     *)
(* both inverters run at the frequency of the last call, and it is the one *)
(* servo_hz tells of.                                                      *)
ObeyedUnlessSpoilt ==
  (pc = "loop" /\ Quiet /\ Sends /\ ~spoilt) =>
     \A u \in Line : got[u] = Code(inverter_type, servo_hz)
=============================================================================
