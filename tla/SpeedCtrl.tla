------------------------------ MODULE SpeedCtrl ------------------------------
(***************************************************************************)
(* The speed controller: fwErrCalculate and fwPIDctrl, which the interrupt *)
(* of photo eye 2 calls with a measurement, fwInitServo, which the main    *)
(* loop calls for a parameter command and which that interrupt can cut in  *)
(* two, and the line they close the loop over.                             *)
(*                                                                         *)
(* The floats are whole numbers of 1/1000 m/s, frequencies are hundredths  *)
(* of a hertz as in the code.  fwErr[0], fwErrD and fwbV are assigned      *)
(* before they are read in every call, so they are not state.              *)
(*                                                                         *)
(* The repair mode is not here (LineControl has it): repair_flag is 0, and *)
(* sec_process asks for servo_start only.                                  *)
(*                                                                         *)
(* The line is external: speed_ctrl.c:5-9 gives the speeds of two          *)
(* frequencies, the model takes the straight line through them.  At most   *)
(* MaxLag measurements are taken before the line follows a new frequency,  *)
(* and at most MaxGlitch measurements are not the line's speed at all.     *)
(***************************************************************************)
EXTENDS Integers

CONSTANTS Paras,      \* parameter commands: kp, ki, kd, target, factor, and
                      \* second, standard_hz, any u16
          Starts,     \* frequencies the controller may find the line at
          Glitches,   \* wrong measurements; pe_time = 0 is NoTime
          IMax,       \* fwErrIMax, 0.25 m/s
          OutHzMax,   \* fwOutHzMax, 50.00 Hz
          DMax,       \* 0.1 m/s, speed_ctrl.c:143
          Settled,    \* 0.001 m/s, speed_ctrl.c:268
          MaxLag, MaxGlitch, MaxCmd

ASSUME LimitAssumption ==
  /\ IMax \in Nat /\ OutHzMax \in Nat /\ DMax \in Nat /\ Settled \in Nat
  /\ MaxLag \in Nat /\ MaxGlitch \in Nat /\ MaxCmd \in Nat
  /\ Starts \subseteq 0..OutHzMax /\ Glitches \subseteq Nat
ASSUME ParaAssumption ==
  /\ Paras \subseteq [kp : Nat, ki : Nat, kd : Nat, target : Nat, factor : Nat, second : Nat]
  /\ \A p \in Paras : p.second < 65536

VARIABLES
  fwErr,       \* fwErr[1], the last error
  fwErrI,      \* the sum of the errors
  fwHz,        \* the frequency the controller goes on from
  para,        \* fwKp, fwKi, fwKd, speed_target, and the stage frequencies' sources
  servo_start, fwInitHz,
  pc,          \* where the main loop is in fwInitServo
  cmd,         \* the command it works on
  out,         \* line: the frequency last sent
  v,           \* line: its speed
  lag, glitches, cmds,
  hit,         \* a measurement has cut this fwInitServo in two (bound only)
  zero         \* history: a pe_time of 0 since fwInitServo last set fwHz

pidVars == <<fwErr, fwErrI, fwHz>>
mainVars == <<para, fwInitHz, pc, cmd, cmds>>
eyeVars == <<glitches, zero, hit>>
lineVars == <<v, lag>>
vars == <<pidVars, mainVars, servo_start, out, lineVars, eyeVars>>

Abs(x) == IF x < 0 THEN -x ELSE x
Clip(x, lo, hi) == IF x < lo THEN lo ELSE IF x > hi THEN hi ELSE x

(* The line: 28.00 Hz make 2 m/s, 15.00 Hz 1 m/s. *)
LineSpeed(hz) == IF hz <= 200 THEN 0 ELSE ((hz - 200) * 10) \div 13

(* first_stage_hz = speed_target * speed_factor, a u16, at most fwOutHzMax. *)
first_stage_hz(p) == Clip(((p.target * p.factor) \div 1000) % 65536, 0, OutHzMax)

(* Where the PID controller starts: standard_hz, or first_stage_hz. *)
StartHz(p) == IF p.second = 0 THEN first_stage_hz(p) ELSE p.second

Init == /\ para \in Paras /\ fwErr = 0 /\ fwErrI = 0
        /\ fwHz \in Starts \cup {StartHz(para)}
        /\ servo_start = 1 /\ fwInitHz = first_stage_hz(para)
        /\ pc = "loop" /\ cmd = para
        /\ out = fwHz /\ v = LineSpeed(fwHz)
        /\ lag = 0 /\ glitches = 0 /\ cmds = 0 /\ zero = FALSE /\ hit = FALSE

----------------------------------------------------------------------------
(* The PID law. *)

SameSign(x, y) == (x > 0 /\ y > 0) \/ (x < 0 /\ y < 0)

(* Mutant: the sum is kept when the error changes its sign. *)
ErrINoJump(sum, e0, e) ==
  IF Abs(e) > IMax THEN 0
  ELSE IF Abs(sum) >= IMax /\ SameSign(sum, e) THEN sum
  ELSE Clip(sum + e, -IMax, IMax)

(* fwErrCalculate: the sum after error e, the error before being e0. *)
ErrI(sum, e0, e) ==
  IF Abs(e) > IMax THEN 0
  ELSE IF Abs(sum) >= IMax /\ SameSign(sum, e) THEN sum
  ELSE IF SameSign(-e0, e) THEN 0
  ELSE Clip(sum + e, -IMax, IMax)

(* fwErrCalculate: fwErrD, without steep changes and without a start. *)
ErrD(e0, e) == IF Abs(e - e0) > DMax \/ e0 = 0 THEN 0 ELSE e - e0

(* fwPIDctrl: the factor of fwKp, in tenths, by the size of the error. *)
KpFactor(e) ==
  CASE e < -500 -> 200
    [] -500 <= e /\ e < -300 -> 150
    [] -300 <= e /\ e < -200 -> 20
    [] -200 <= e /\ e < -150 -> 15
    [] -150 <= e /\ e < -100 -> 10
    [] -100 <= e /\ e < -50 -> 9
    [] -50 <= e /\ e < -30 -> 8
    [] -30 <= e /\ e < -10 -> 7
    [] -10 <= e /\ e < 50 -> 6
    [] OTHER -> 3

(* Mutant: no rounding. *)
RoundingNone(e) == 0

(* What is added before the conversion to int, in 1/10000: 0.5 and 1.0 on  *)
(* the way up, so that it rounds up, nothing on the way down.              *)
Rounding(e) == IF e >= 50 THEN 5000 ELSE IF e > 0 THEN 10000 ELSE 0

(* The new frequency; the conversion to int cuts the fraction off. *)
PidHz(hz, p, e, sum, d) ==
  IF e = 0 THEN hz
  ELSE (10000 * hz + p.kp * e * KpFactor(e) + 10 * p.ki * sum + 10 * p.kd * d + Rounding(e)) \div 10000

(* pe_time = 0: the quotient is infinite, and the conversion of minus      *)
(* infinity gives the least int.  A speed of NoTime does the same.         *)
NoTime == 100000

(* Mutant: no lower limit. *)
LimitHzNoFloor(hz) == IF hz > OutHzMax THEN OutHzMax ELSE hz

LimitHz(hz) == Clip(hz, 0, OutHzMax)

(* fwPIDctrl for the measured speed w. *)
fwPIDctrl(w) ==
  LET e == para.target - w
      sum == ErrI(fwErrI, fwErr, e)
      d == ErrD(fwErr, e)
  IN /\ fwErr' = e
     /\ fwErrI' = IF Abs(e) <= Settled THEN 0 ELSE sum
     /\ fwHz' = LimitHz(PidHz(fwHz, para, e, sum, d))
     /\ out' = fwHz'

----------------------------------------------------------------------------
(* The interrupt of photo eye 2, with the controller on.  fwInitServo      *)
(* takes microseconds, the next car a tenth of a second: at most one       *)
(* measurement falls into it.                                              *)
Cut == ~hit /\ hit' = (pc # "loop")

Measure == /\ servo_start = 1 /\ v > 0
           /\ lag < MaxLag /\ Cut
           /\ fwPIDctrl(v)
           /\ lag' = lag + 1
           /\ UNCHANGED <<mainVars, servo_start, v, glitches, zero>>

MeasureWrong == /\ servo_start = 1 /\ v > 0 /\ glitches < MaxGlitch /\ Cut
                /\ \E w \in Glitches : fwPIDctrl(w) /\ zero' = (zero \/ w = NoTime)
                /\ glitches' = glitches + 1
                /\ UNCHANGED <<mainVars, servo_start, lineVars>>

(* The line follows the frequency. *)
Follow == /\ v # LineSpeed(out) \/ lag > 0
          /\ v' = LineSpeed(out) /\ lag' = 0
          /\ UNCHANGED <<pidVars, mainVars, servo_start, out, eyeVars>>

----------------------------------------------------------------------------
(* recv_msg_process, the parameter command: fwInitServo, in the order in   *)
(* which the interrupt can tell its assignments apart, then fwInitHz and   *)
(* servo_start.                                                            *)

Command(p) == /\ pc = "loop" /\ cmds < MaxCmd
              /\ cmd' = p /\ cmds' = cmds + 1
              /\ fwErr' = 0
              /\ pc' = "errI"
              /\ UNCHANGED <<fwErrI, fwHz, para, fwInitHz, servo_start, out, lineVars, eyeVars>>

InitErrI == /\ pc = "errI"
            /\ fwErrI' = 0
            /\ pc' = "hz"
            /\ UNCHANGED <<fwErr, fwHz, para, fwInitHz, cmd, cmds, servo_start, out, lineVars,
                           eyeVars>>

InitHz == /\ pc = "hz"
          /\ fwHz' = 0
          /\ pc' = "gains"
          /\ UNCHANGED <<fwErr, fwErrI, para, fwInitHz, cmd, cmds, servo_start, out, lineVars,
                         eyeVars>>

InitKp == /\ pc = "gains"
          /\ para' = [para EXCEPT !.kp = cmd.kp]
          /\ pc' = "ki"
          /\ UNCHANGED <<pidVars, fwInitHz, cmd, cmds, servo_start, out, lineVars, eyeVars>>

InitKi == /\ pc = "ki"
          /\ para' = [para EXCEPT !.ki = cmd.ki]
          /\ pc' = "kd"
          /\ UNCHANGED <<pidVars, fwInitHz, cmd, cmds, servo_start, out, lineVars, eyeVars>>

InitKd == /\ pc = "kd"
          /\ para' = [para EXCEPT !.kd = cmd.kd]
          /\ pc' = "target"
          /\ UNCHANGED <<pidVars, fwInitHz, cmd, cmds, servo_start, out, lineVars, eyeVars>>

(* The target, and the sources of the stage frequencies, which fwPIDctrl   *)
(* does not read.                                                          *)
InitTarget == /\ pc = "target"
              /\ para' = cmd
              /\ pc' = "startHz"
              /\ UNCHANGED <<pidVars, fwInitHz, cmd, cmds, servo_start, out, lineVars, eyeVars>>

(* Mutant: the test for standard_hz = 0 is left out. *)
InitStartHzNoTest ==
  /\ pc = "startHz"
  /\ fwHz' = para.second
  /\ fwInitHz' = first_stage_hz(para)
  /\ pc' = "servoStart"
  /\ zero' = FALSE
  /\ UNCHANGED <<fwErr, fwErrI, para, cmd, cmds, servo_start, out, lineVars, glitches, hit>>

InitStartHz == /\ pc = "startHz"
               /\ fwHz' = StartHz(para)
               /\ fwInitHz' = first_stage_hz(para)
               /\ pc' = "servoStart"
               /\ zero' = FALSE
               /\ UNCHANGED <<fwErr, fwErrI, para, cmd, cmds, servo_start, out, lineVars, glitches, hit>>

ServoStart == /\ pc = "servoStart"
              /\ servo_start' = 0
              /\ pc' = "loop"
              /\ hit' = FALSE
              /\ UNCHANGED <<pidVars, para, fwInitHz, cmd, cmds, out, lineVars, glitches, zero>>

(* Mutant: sec_process does not ask whether the controller is on. *)
SecAlways == /\ pc = "loop"
             /\ out' = fwInitHz
             /\ UNCHANGED <<pidVars, mainVars, servo_start, lineVars, eyeVars>>

(* sec_process, once a second: fwInitHz again while the controller is off. *)
Sec == /\ pc = "loop"
       /\ out' = IF servo_start = 0 THEN fwInitHz ELSE out
       /\ UNCHANGED <<pidVars, mainVars, servo_start, lineVars, eyeVars>>

(* The first 12 cars have passed (LineControl counts them). *)
StageTwo == /\ servo_start = 0 /\ v > 0 /\ para.second # 0
            /\ fwInitHz = first_stage_hz(para) /\ pc = "loop"
            /\ fwInitHz' = para.second
            /\ UNCHANGED <<pidVars, para, pc, cmd, cmds, servo_start, out, lineVars, eyeVars>>

(* The last car of the start-up has passed; by then the line has followed. *)
StartUpDone == /\ servo_start = 0 /\ v > 0 /\ v = LineSpeed(out) /\ pc = "loop"
               /\ para.second = 0 \/ fwInitHz = para.second
               /\ servo_start' = 1
               /\ fwInitHz' = first_stage_hz(para)
               /\ UNCHANGED <<pidVars, para, pc, cmd, cmds, out, lineVars, eyeVars>>

----------------------------------------------------------------------------
Main == InitErrI \/ InitHz \/ InitKp \/ InitKi \/ InitKd \/ InitTarget \/ InitStartHz \/ ServoStart \/ Sec
Next == \/ Measure \/ MeasureWrong \/ Follow
        \/ \E p \in Paras : Command(p)
        \/ Main \/ StageTwo \/ StartUpDone
Spec == Init /\ [][Next]_vars

(* The main loop runs on, sec_process with it; cars pass while the line    *)
(* moves, and the line follows its frequency.  Commands and wrong          *)
(* measurements need not come.                                             *)
FairSpec == /\ Spec /\ WF_vars(Main) /\ WF_vars(Measure) /\ WF_vars(Follow)
            /\ WF_vars(StageTwo) /\ WF_vars(StartUpDone)

----------------------------------------------------------------------------
(* A frequency the controller or first_stage_hz has computed is within the *)
(* inverter's range; a standard_hz is taken as the command has it.         *)
Seconds == {p.second : p \in Paras}
Frequencies == 0..OutHzMax \cup Seconds

TypeOK ==
  /\ fwErr \in Int /\ fwErrI \in (-IMax)..IMax
  /\ fwHz \in Frequencies /\ out \in Frequencies /\ fwInitHz \in Frequencies
  /\ para \in [kp : Nat, ki : Nat, kd : Nat, target : Nat, factor : Nat, second : Seconds]
  /\ cmd \in Paras
  /\ servo_start \in {0, 1} /\ zero \in BOOLEAN /\ hit \in BOOLEAN
  /\ pc \in {"loop", "errI", "hz", "gains", "ki", "kd", "target", "startHz", "servoStart"}
  /\ v \in Nat /\ lag \in 0..MaxLag /\ glitches \in 0..MaxGlitch /\ cmds \in 0..MaxCmd

(* The sum of the errors never works against the present error, whatever   *)
(* measurement or parameter command came in between: no wind-up.  Only     *)
(* between the two assignments of fwInitServo that clear the error and     *)
(* the sum can they disagree.                                              *)
IntegralFollowsError ==
  pc # "errI" => (fwErrI > 0 => fwErr > 0) /\ (fwErrI < 0 => fwErr < 0)

(* With the controller on, and no pe_time of 0 since fwInitServo, the line *)
(* is kept moving: neither an interrupt inside fwInitServo, where fwHz is  *)
(* 0 for a while, nor another wrong measurement stalls it.  A line that    *)
(* stands gives no measurements, and nothing would start it again.         *)
NeverStalls ==
  (servo_start = 1 /\ pc = "loop" /\ ~zero) => LineSpeed(out) > 0 /\ LineSpeed(fwHz) > 0

(* The controller has no dead band: an error below 0.05 m/s, or any excess *)
(* of speed, moves the frequency the right way by a whole step, unless the *)
(* error is already falling (the derivative brakes) or the limit is        *)
(* reached.  The conversion to int, which cuts the fraction off, does not  *)
(* take the step away.                                                     *)
NoDeadBand ==
  [][Measure /\ pc # "errI" =>
       LET d == ErrD(fwErr, fwErr')
       IN /\ fwErr' < 0 /\ d <= 0 => fwHz' < fwHz \/ fwHz' = 0
          /\ fwErr' > 0 /\ fwErr' < 50 /\ d >= 0 => fwHz' > fwHz \/ fwHz' = OutHzMax]_vars

(* Once commands and wrong measurements have ended the speed reaches its   *)
(* target and stays there, from every start, unless a pe_time of 0 has     *)
(* stopped the line.                                                       *)
SpeedReached ==
  <>[](Abs(para.target - v) <= Settled \/ (zero /\ v = 0))
=============================================================================
