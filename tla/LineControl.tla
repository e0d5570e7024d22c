----------------------------- MODULE LineControl -----------------------------
(***************************************************************************)
(* What decides the frequency the inverters run the line at:               *)
(*   - after a parameter command (recv_msg_process, fwInitServo) the line  *)
(*     starts at first_stage_hz for 12 cars, then at second_stage_hz, if   *)
(*     that is not 0, for 60 cars, then the PID controller takes over;     *)
(*   - until then sec_process sends fwInitHz once a second;                *)
(*   - a repair command (repair_car_para_init) takes the line to a given   *)
(*     car position at standard_hz or faster; the photo eye steers         *)
(*     (repairLocationCtrl) and stops it there.                            *)
(*                                                                         *)
(* Actors: the main loop (commands, sec_process), cut where an interrupt   *)
(* reaches the state it works on; the interrupts of photo eye 1 (Eye1),    *)
(* photo eye 2 (Eye2) and the proximity switch (CarNoReset), which run to  *)
(* their end.  The plant closes the loop: a car passes a photo eye only    *)
(* while the line moves.  Of two marked cars in a row the switch misses    *)
(* one at most (a pulse too short for EXTI9_5_IRQHandler's debounce loop). *)
(*                                                                         *)
(* Frequencies are small numbers, 0 the standstill.  The PID law is a free *)
(* choice of frequency.  When the measurement it starts from counts is in  *)
(* PhotoTimer, the messages of the same handlers are in GroundReport.      *)
(***************************************************************************)
EXTENDS Integers

CONSTANTS FirstCars,   \* 12, timExti.c:146
          SecondCars,  \* 60, timExti.c:163
          Tot,         \* cars of the line; car_tot_num of every repair command
          Adjust,      \* adjust_para of every repair command
          Mid, Far,    \* 50 and 100, timExti.c:114-118
          Standard,    \* standard_hz of every repair command, not 0
          MaxHz,       \* maxHz, 30.00 Hz
          FirstHz,     \* values of first_stage_hz
          SecondHz,    \* values of second_stage_hz
          PidHz,       \* values the PID controller sends
          U16,         \* the modulus of the u16 arithmetic: 2^16
          Coast,       \* cars that pass after the line was told to stop
          MaxCmd       \* bound: commands received

ASSUME CarAssumption ==
  /\ FirstCars \in Nat \ {0} /\ SecondCars \in Nat \ {0}
  /\ Tot \in Nat \ {0} /\ Adjust \in Nat
  /\ Mid \in Nat /\ Far \in Nat /\ Mid <= Far /\ 2 + Adjust <= Mid
  /\ U16 \in Nat /\ U16 > 2 * Tot + Far
  /\ Coast \in Nat /\ MaxCmd \in Nat
ASSUME HzAssumption ==
  /\ Standard \in Nat \ {0} /\ MaxHz \in Nat \ {0}
  /\ FirstHz \subseteq Nat /\ SecondHz \subseteq Nat /\ PidHz \subseteq Nat
  /\ 0 \in FirstHz /\ 0 \in SecondHz

Position == 1..Tot
Between == (Standard + MaxHz) \div 2
Hz == {0, Standard, Between, MaxHz} \cup FirstHz \cup SecondHz \cup PidHz

VARIABLES
  carNo,              \* gnd2WcsCmdData.carNo
  reset_flag,         \* carNo has been reset by the switch, so it is exact
  since,              \* plant: cars since the marked one passed the switch
  missed,             \* plant: 1 if the switch did not see it
  coast,              \* plant: cars that still pass when the line is stopped
  hz,                 \* plant: the frequency of the last frame sent
  servo_hz,           \* what the state report says of hz
  repair_flag, repair_locate_real,
  servo_start,        \* 1: the PID controller is on
  adjust_stage_flag, first_stage_cnt, second_stage_cnt,
  first_stage_hz, second_stage_hz, fwInitHz,
  pc,                 \* where the main loop is
  cmd,                \* the command it works on
  val,                \* the frequency RS485_OUT was called with
  cmds                \* commands received (bound only)

stageVars == <<servo_start, adjust_stage_flag, first_stage_cnt, second_stage_cnt, fwInitHz>>
paraVars == <<first_stage_hz, second_stage_hz>>
repairVars == <<repair_flag, repair_locate_real>>
plantVars == <<carNo, reset_flag, since, missed, coast>>
outVars == <<hz, servo_hz>>
mainVars == <<pc, cmd, val, cmds>>
vars == <<stageVars, paraVars, repairVars, plantVars, outVars, mainVars>>

NoCmd == [target |-> 0, first |-> 0, second |-> 0]

Init == /\ carNo = 0 /\ reset_flag = 0 /\ since \in 0..Tot /\ missed = 0 /\ coast = 0
        /\ hz = 0 /\ servo_hz = 0
        /\ repair_flag = 0 /\ repair_locate_real = 0
        /\ servo_start = 0 /\ adjust_stage_flag = 0
        /\ first_stage_cnt = 0 /\ second_stage_cnt = 0
        /\ first_stage_hz = 0 /\ second_stage_hz = 0 /\ fwInitHz = 0
        /\ pc = "loop" /\ cmd = NoCmd /\ val = 0 /\ cmds = 0

----------------------------------------------------------------------------
(* Distances, in cars. *)

(* Mutant: the way is the difference, whichever is ahead. *)
cal_move_distanceEither(cur, target) ==
  IF cur <= target THEN target - cur ELSE cur - target

(* From position cur on to position target, in u16: a car number of a lap  *)
(* and more gives a distance near 2^16.                                    *)
cal_move_distance(cur, target) ==
  IF cur <= target THEN target - cur
  ELSE IF cur <= Tot + target THEN Tot - cur + target ELSE Tot - cur + target + U16

cal_distance_to_real_locate(cur, target) ==
  IF cur <= target THEN target - cur ELSE cur - target

----------------------------------------------------------------------------
(* Mutants: the errors the properties below must detect. *)

(* repairLocationCtrl stops the line only at the very distance. *)
repairHzOnlyExactly(d) ==
  CASE d > Far -> MaxHz
    [] d > Mid /\ d <= Far -> Between
    [] d <= Mid /\ d # 2 + Adjust -> Standard
    [] OTHER -> 0

(* sec_process does not ask for the repair mode. *)
SecTestNoRepair ==
  /\ pc = "loop"
  /\ pc' = IF servo_start = 0 THEN "secOut" ELSE "loop"
  /\ UNCHANGED <<stageVars, paraVars, repairVars, plantVars, outVars, cmd, val, cmds>>

(* The switch resets carNo but not reset_flag. *)
CarNoResetNoFlag ==
  /\ hz > 0 \/ coast > 0
  /\ since = Tot
  /\ since' = 0
  /\ carNo' = 0 /\ missed' = 0
  /\ UNCHANGED <<stageVars, paraVars, repairVars, reset_flag, coast, outVars, mainVars>>

(* The end of the second stage does not switch the PID controller on. *)
CountSecondNoStart ==
  /\ adjust_stage_flag = 1
  /\ IF second_stage_cnt + 1 >= SecondCars
       THEN /\ second_stage_cnt' = 0 /\ adjust_stage_flag' = 0
            /\ fwInitHz' = first_stage_hz
       ELSE /\ second_stage_cnt' = second_stage_cnt + 1
            /\ UNCHANGED <<adjust_stage_flag, fwInitHz>>
  /\ UNCHANGED <<first_stage_cnt, servo_start>>

(* "first_stage_cnt > 12" for ">= 12". *)
CountFirstLater ==
  /\ adjust_stage_flag = 0
  /\ IF first_stage_cnt + 1 > FirstCars
       THEN /\ first_stage_cnt' = 0
            /\ IF second_stage_hz # 0
                 THEN adjust_stage_flag' = 1 /\ fwInitHz' = second_stage_hz /\ UNCHANGED servo_start
                 ELSE servo_start' = 1 /\ UNCHANGED <<adjust_stage_flag, fwInitHz>>
       ELSE /\ first_stage_cnt' = first_stage_cnt + 1
            /\ UNCHANGED <<adjust_stage_flag, servo_start, fwInitHz>>
  /\ UNCHANGED second_stage_cnt

----------------------------------------------------------------------------
(* RS485_OUT of the main loop: servo_hz = val, then ServoFreqSet(val). *)

Out(v) == servo_hz' = v /\ val' = v /\ pc' = "send"

ServoFreqSet == /\ pc = "send"
                /\ hz' = val
                /\ pc' = "loop" /\ val' = 0 /\ cmd' = NoCmd
                /\ UNCHANGED <<stageVars, paraVars, repairVars, plantVars, servo_hz, cmds>>

----------------------------------------------------------------------------
(* sec_process: the test, then the call. *)

SecTest == /\ pc = "loop"
           /\ pc' = IF servo_start = 0 /\ repair_flag = 0 THEN "secOut" ELSE "loop"
           /\ UNCHANGED <<stageVars, paraVars, repairVars, plantVars, outVars, cmd, val, cmds>>

SecOut == /\ pc = "secOut"
          /\ Out(fwInitHz)
          /\ UNCHANGED <<stageVars, paraVars, repairVars, plantVars, hz, cmd, cmds>>

----------------------------------------------------------------------------
(* recv_msg_process, the parameter command: repair_flag = 0, fwInitServo,  *)
(* fwInitHz and servo_start.                                               *)

Para(first, second) ==
  /\ pc = "loop" /\ cmds < MaxCmd
  /\ cmds' = cmds + 1
  /\ cmd' = [NoCmd EXCEPT !.first = first, !.second = second]
  /\ repair_flag' = 0
  /\ pc' = "stageFlag"
  /\ UNCHANGED <<stageVars, paraVars, repair_locate_real, plantVars, outVars, val>>

StageFlag == /\ pc = "stageFlag"
             /\ adjust_stage_flag' = 0
             /\ pc' = "firstCnt"
             /\ UNCHANGED <<servo_start, first_stage_cnt, second_stage_cnt, fwInitHz, paraVars,
                            repairVars, plantVars, outVars, cmd, val, cmds>>

FirstCnt == /\ pc = "firstCnt"
            /\ first_stage_cnt' = 0
            /\ pc' = "secondCnt"
            /\ UNCHANGED <<servo_start, adjust_stage_flag, second_stage_cnt, fwInitHz, paraVars,
                           repairVars, plantVars, outVars, cmd, val, cmds>>

SecondCnt == /\ pc = "secondCnt"
             /\ second_stage_cnt' = 0
             /\ pc' = "stageHz"
             /\ UNCHANGED <<servo_start, adjust_stage_flag, first_stage_cnt, fwInitHz, paraVars,
                            repairVars, plantVars, outVars, cmd, val, cmds>>

(* second_stage_hz, then first_stage_hz: an interrupt that needs the one   *)
(* does not need the other.                                                *)
StageHz == /\ pc = "stageHz"
           /\ second_stage_hz' = cmd.second
           /\ first_stage_hz' = cmd.first
           /\ pc' = "initHz"
           /\ UNCHANGED <<stageVars, repairVars, plantVars, outVars, cmd, val, cmds>>

InitHz == /\ pc = "initHz"
          /\ fwInitHz' = first_stage_hz
          /\ pc' = "servoStart"
          /\ UNCHANGED <<servo_start, adjust_stage_flag, first_stage_cnt, second_stage_cnt, paraVars,
                         repairVars, plantVars, outVars, cmd, val, cmds>>

ServoStart == /\ pc = "servoStart"
              /\ servo_start' = 0
              /\ pc' = "loop" /\ cmd' = NoCmd
              /\ UNCHANGED <<adjust_stage_flag, first_stage_cnt, second_stage_cnt, fwInitHz, paraVars,
                             repairVars, plantVars, outVars, val, cmds>>

----------------------------------------------------------------------------
(* recv_msg_process, the repair command: repair_car_para_init.  The target *)
(* is repair_locate + car_no - 1, less car_tot_num if it is beyond that.   *)

RepairFlag(target) ==
  /\ pc = "loop" /\ cmds < MaxCmd
  /\ cmds' = cmds + 1
  /\ cmd' = [NoCmd EXCEPT !.target = target]
  /\ repair_flag' = 1
  /\ pc' = "target"
  /\ UNCHANGED <<stageVars, paraVars, repair_locate_real, plantVars, outVars, val>>

RepairTarget == /\ pc = "target"
                /\ repair_locate_real' = cmd.target
                /\ pc' = "repairTest"
                /\ UNCHANGED <<stageVars, paraVars, repair_flag, plantVars, outVars, cmd, val, cmds>>

RepairTest == /\ pc = "repairTest"
              /\ IF reset_flag = 1 /\ cal_distance_to_real_locate(carNo, repair_locate_real) <= 2
                   THEN repair_flag' = 0 /\ pc' = "loop" /\ cmd' = NoCmd
                   ELSE pc' = "repairOut" /\ UNCHANGED <<repair_flag, cmd>>
              /\ UNCHANGED <<stageVars, paraVars, repair_locate_real, plantVars, outVars, val, cmds>>

RepairOut == /\ pc = "repairOut"
             /\ Out(Standard)
             /\ UNCHANGED <<stageVars, paraVars, repairVars, plantVars, hz, cmd, cmds>>

----------------------------------------------------------------------------
(* The interrupts. *)

(* TIM_EXTI_Process(1), the stage counters. *)
CountFirst ==
  /\ adjust_stage_flag = 0
  /\ IF first_stage_cnt + 1 >= FirstCars
       THEN /\ first_stage_cnt' = 0
            /\ IF second_stage_hz # 0
                 THEN adjust_stage_flag' = 1 /\ fwInitHz' = second_stage_hz /\ UNCHANGED servo_start
                 ELSE servo_start' = 1 /\ UNCHANGED <<adjust_stage_flag, fwInitHz>>
       ELSE /\ first_stage_cnt' = first_stage_cnt + 1
            /\ UNCHANGED <<adjust_stage_flag, servo_start, fwInitHz>>
  /\ UNCHANGED second_stage_cnt

CountSecond ==
  /\ adjust_stage_flag = 1
  /\ IF second_stage_cnt + 1 >= SecondCars
       THEN /\ second_stage_cnt' = 0 /\ adjust_stage_flag' = 0
            /\ servo_start' = 1
            /\ fwInitHz' = first_stage_hz
       ELSE /\ second_stage_cnt' = second_stage_cnt + 1
            /\ UNCHANGED <<adjust_stage_flag, servo_start, fwInitHz>>
  /\ UNCHANGED first_stage_cnt

CountStage == IF repair_flag = 0 /\ servo_start = 0
                THEN CountFirst \/ CountSecond
                ELSE UNCHANGED stageVars

(* repairLocationCtrl: the frequency d cars before the target. *)
repairHz(d) ==
  CASE d > Far -> MaxHz
    [] d > Mid /\ d <= Far -> Between
    [] d > 2 + Adjust /\ d <= Mid -> Standard
    [] OTHER -> 0

repairLocationCtrl ==
  IF reset_flag = 0 \/ repair_flag = 0
    THEN UNCHANGED <<repair_flag, outVars>>
    ELSE LET out == repairHz(cal_move_distance(carNo', repair_locate_real))
         IN /\ repair_flag' = IF out = 0 THEN 0 ELSE 1
            /\ hz' = out /\ servo_hz' = out

Moving == hz > 0 \/ coast > 0

(* EXTI4_IRQHandler: the next car passes photo eye 1. *)
Eye1 == /\ Moving
        /\ since < Tot
        /\ since' = since + 1
        /\ coast' = IF hz > 0 THEN Coast ELSE coast - 1
        /\ carNo' = carNo + 1
        /\ CountStage
        /\ repairLocationCtrl
        /\ UNCHANGED <<paraVars, reset_flag, missed, repair_locate_real, mainVars>>

(* EXTI9_5_IRQHandler, photo eye 2: with the PID controller on, a          *)
(* measurement that counts gives a new frequency.                          *)
Eye2 == /\ Moving
        /\ repair_flag = 0 /\ servo_start = 1
        /\ \E out \in PidHz : hz' = out /\ servo_hz' = out
        /\ UNCHANGED <<stageVars, paraVars, repairVars, plantVars, mainVars>>

(* EXTI9_5_IRQHandler, the proximity switch: the marked car, once a lap. *)
CarNoReset == /\ Moving
              /\ since = Tot
              /\ since' = 0 /\ missed' = 0
              /\ carNo' = 0
              /\ reset_flag' = 1
              /\ UNCHANGED <<stageVars, paraVars, repairVars, coast, outVars, mainVars>>

(* The same with a pulse that ends within the debounce loop. *)
CarNoMissed == /\ Moving
               /\ since = Tot /\ missed = 0
               /\ since' = 0 /\ missed' = 1
               /\ UNCHANGED <<stageVars, paraVars, repairVars, carNo, reset_flag, coast, outVars,
                              mainVars>>

----------------------------------------------------------------------------
Command == \/ \E first \in FirstHz, second \in SecondHz : Para(first, second)
           \/ \E target \in Position : RepairFlag(target)

Main == \/ ServoFreqSet \/ SecTest \/ SecOut
        \/ StageFlag \/ FirstCnt \/ SecondCnt \/ StageHz \/ InitHz \/ ServoStart
        \/ RepairTarget \/ RepairTest \/ RepairOut

Next == Command \/ Main \/ Eye1 \/ Eye2 \/ CarNoReset \/ CarNoMissed

Spec == Init /\ [][Next]_vars

(* The main loop runs on and sec_process with it; a moving line takes the  *)
(* next car to photo eye 1 and the marked one to the switch.  Commands and *)
(* PID outputs need not come.                                              *)
FairSpec == Spec /\ WF_vars(Main) /\ WF_vars(Eye1) /\ WF_vars(CarNoReset)

----------------------------------------------------------------------------
TypeOK ==
  /\ carNo \in 0..(2 * Tot) /\ reset_flag \in {0, 1}
  /\ since \in 0..Tot /\ missed \in {0, 1} /\ coast \in 0..Coast
  /\ hz \in Hz /\ servo_hz \in Hz /\ val \in Hz
  /\ repair_flag \in {0, 1} /\ repair_locate_real \in 0..Tot
  /\ servo_start \in {0, 1} /\ adjust_stage_flag \in {0, 1}
  /\ first_stage_cnt \in 0..(FirstCars - 1) /\ second_stage_cnt \in 0..(SecondCars - 1)
  /\ first_stage_hz \in FirstHz /\ second_stage_hz \in SecondHz
  /\ fwInitHz \in FirstHz \cup SecondHz
  /\ pc \in {"loop", "send", "secOut", "stageFlag", "firstCnt", "secondCnt", "stageHz",
             "initHz", "servoStart", "target", "repairTest", "repairOut"}
  /\ cmd \in [target : 0..Tot, first : FirstHz, second : SecondHz]
  /\ cmds \in 0..MaxCmd

(* Between two commands a line in repair mode moves: neither sec_process,  *)
(* nor the PID controller, nor a stop at an earlier target has the last    *)
(* word over the repair command.                                           *)
RepairMoves == (repair_flag = 1 /\ pc = "loop") => hz > 0

(* A line in repair mode whose car number is exact never runs past its     *)
(* target: every car that passes brings it one car nearer, or ends the     *)
(* repair mode.  Otherwise it would go round once more.                    *)
Distance == cal_move_distance(carNo, repair_locate_real)
NeverPastTarget ==
  [][(Eye1 /\ reset_flag = 1 /\ missed = 0 /\ repair_flag = 1 /\ pc = "loop") =>
       repair_flag' = 0 \/ Distance' = Distance - 1]_vars

(* Where repairLocationCtrl stops the line, it is at its target, and not   *)
(* only by the car number: the marked car is as far away as the target     *)
(* says, even if the switch missed it last time and carNo counts on.       *)
TrueDistance == IF since <= repair_locate_real THEN repair_locate_real - since
                                               ELSE Tot - since + repair_locate_real
StopsAtTarget ==
  [][(Eye1 /\ repair_flag = 1 /\ repair_flag' = 0) => TrueDistance' <= 2 + Adjust]_vars

(* Every repair comes to its end: the line moves until the car number is   *)
(* exact, and then until the target is near.                               *)
RepairEnds == (repair_flag = 1) ~> (repair_flag = 0)

(* Once a parameter command with a speed has been worked off, and no other *)
(* command comes, the start-up ends with the PID controller on, even if    *)
(* an interrupt counted a car in the middle of fwInitServo.                *)
StartUpEnds ==
  (cmds = MaxCmd /\ pc = "loop" /\ repair_flag = 0 /\ first_stage_hz > 0)
    ~> (servo_start = 1)

(* timExti.c:94: "less than two cars from the target: nothing to adjust"   *)
(* is the condition under which repair_flag is cleared: apart from a       *)
(* parameter command, the repair mode ends only near the position the last *)
(* repair command named.                                                   *)
Wanted == IF pc \in {"target", "repairTest", "repairOut", "send"} /\ cmd.target # 0
            THEN cmd.target ELSE repair_locate_real
EndsNearWanted ==
  (repair_flag = 1 /\ repair_flag' = 0 /\ pc' # "stageFlag") =>
    \/ cal_move_distance(carNo', Wanted) <= 2 + Adjust
    \/ cal_distance_to_real_locate(carNo, Wanted) <= 2
RepairEndsAtTarget == [][EndsNearWanted]_vars
=============================================================================
