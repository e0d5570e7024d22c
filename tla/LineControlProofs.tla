-------------------------- MODULE LineControlProofs --------------------------
(***************************************************************************)
(* Line control: a line in repair mode moves, and it does not run past its *)
(* target.  For every line, every stage length and every set of            *)
(* frequencies the assumptions of LineControl allow.                       *)
(***************************************************************************)
EXTENDS LineControl, TLAPS

(* The car number never runs ahead of the cars that passed since the       *)
(* marked one, and a lap more if the switch missed that one; once it has   *)
(* been reset, it is exactly that number.                                  *)
Passed == IF missed = 1 THEN Tot + since ELSE since
CarNoBehind == carNo <= Passed /\ (reset_flag = 1 => carNo = Passed)

(* Where the main loop is between commands and calls, it tells how much of *)
(* the repair mode it has established.                                     *)
StartUpSteps == {"secOut", "stageFlag", "firstCnt", "secondCnt", "stageHz", "initHz", "servoStart"}

ModeAtPc == /\ pc \in StartUpSteps => repair_flag = 0
            /\ pc = "send" => repair_flag = 0 \/ val = Standard

(* The target of the repair mode is known, a position, and once the        *)
(* distance has been tested it is not the car that just passed.            *)
TargetKnown == /\ pc = "target" => cmd.target >= 1
               /\ repair_flag = 1 /\ pc # "target" => repair_locate_real >= 1
TargetAhead ==
  repair_flag = 1 /\ reset_flag = 1 /\ missed = 0 /\ pc \notin {"target", "repairTest"}
    => carNo # repair_locate_real

Inv == TypeOK /\ CarNoBehind /\ ModeAtPc /\ RepairMoves /\ TargetKnown /\ TargetAhead

----------------------------------------------------------------------------
(* The helpers. *)

(* Every frequency of the program is a natural number, and those of the    *)
(* repair mode are positive.                                               *)
LEMMA HzNat == Hz \subseteq Nat /\ Between > 0
  BY HzAssumption DEF Hz, Between

(* cal_move_distance is 0 only at the target, and one less a car later     *)
(* unless the line stands at the target; with a car number of a lap and    *)
(* more it is no less than U16 - Tot, which is far, or the way to go.      *)
LEMMA DistanceFacts ==
  ASSUME NEW c \in 0..(2 * Tot + 1), NEW t \in 0..Tot
  PROVE  /\ cal_move_distance(c, t) \in Int
         /\ cal_move_distance(t, t) = 0
         /\ c # t /\ c < Tot => cal_move_distance(c + 1, t) = cal_move_distance(c, t) - 1
         /\ c > Tot + t => cal_move_distance(c, t) > 2 + Adjust
  BY CarAssumption DEF cal_move_distance

(* repairHz stops the line whenever the target is within 2 + adjust_para.  *)
LEMMA RepairHzFacts ==
  ASSUME NEW d \in Int
  PROVE  /\ repairHz(d) \in {0, Standard, Between, MaxHz}
         /\ repairHz(d) # 0 => d > 2 + Adjust
<1>1. CASE d > Far
  BY <1>1, CarAssumption DEF repairHz
<1>2. CASE d > Mid /\ d <= Far
  BY <1>2, CarAssumption DEF repairHz
<1>3. CASE d > 2 + Adjust /\ d <= Mid
  BY <1>3, CarAssumption DEF repairHz
<1>4. CASE d <= 2 + Adjust
  BY <1>4, CarAssumption DEF repairHz
<1> QED
  BY <1>1, <1>2, <1>3, <1>4, CarAssumption

(* Conversely it stops the line nowhere else. *)
LEMMA RepairHzZero ==
  ASSUME NEW d \in Int, repairHz(d) = 0
  PROVE  d <= 2 + Adjust
<1>1. CASE d > Far
  BY <1>1, CarAssumption, HzAssumption DEF repairHz
<1>2. CASE d > Mid /\ d <= Far
  BY <1>2, CarAssumption, HzNat DEF repairHz
<1>3. CASE d > 2 + Adjust /\ d <= Mid
  BY <1>3, CarAssumption, HzAssumption DEF repairHz
<1> QED
  BY <1>1, <1>2, <1>3, CarAssumption

(* What repairLocationCtrl does: nothing outside the repair mode or while  *)
(* the car number is not exact; otherwise it stops the line and ends the   *)
(* mode, or keeps it moving with the target ahead.                         *)
LEMMA RepairCtrl ==
  ASSUME TypeOK, carNo' \in 0..(2 * Tot + 1), repairLocationCtrl
  PROVE  /\ repair_flag' \in {0, 1} /\ hz' \in Hz /\ servo_hz' \in Hz
         /\ repair_flag = 0 => repair_flag' = 0
         /\ repair_flag' = 1 => \/ hz' = hz
                                \/ hz' > 0
         /\ repair_flag' = 1 /\ reset_flag = 1 => carNo' # repair_locate_real
<1> DEFINE d == cal_move_distance(carNo', repair_locate_real)
<1>1. CASE reset_flag = 0 \/ repair_flag = 0
  BY <1>1 DEF repairLocationCtrl, outVars, TypeOK
<1>2. CASE ~(reset_flag = 0 \/ repair_flag = 0)
  <2>1. repair_locate_real \in 0..Tot
    BY DEF TypeOK
  <2>2. d \in Int /\ (carNo' = repair_locate_real => d = 0)
    BY <2>1, DistanceFacts
  <2>3. /\ repair_flag' = IF repairHz(d) = 0 THEN 0 ELSE 1
        /\ hz' = repairHz(d) /\ servo_hz' = repairHz(d)
    BY <1>2 DEF repairLocationCtrl
  <2> HIDE DEF d
  <2>4. repairHz(d) \in {0, Standard, Between, MaxHz} /\ (repairHz(d) # 0 => d > 2 + Adjust)
    BY <2>2, RepairHzFacts
  <2>5. repairHz(d) \in Hz /\ (repairHz(d) # 0 => repairHz(d) > 0)
    BY <2>4, HzNat, HzAssumption DEF Hz
  <2> QED
    BY <1>2, <2>2, <2>3, <2>4, <2>5, CarAssumption DEF TypeOK
<1> QED
  BY <1>1, <1>2

(* What counting a car does to the stage variables. *)
LEMMA StageTypes ==
  ASSUME TypeOK, CountStage
  PROVE  /\ servo_start' \in {0, 1} /\ adjust_stage_flag' \in {0, 1}
         /\ first_stage_cnt' \in 0..(FirstCars - 1)
         /\ second_stage_cnt' \in 0..(SecondCars - 1)
         /\ fwInitHz' \in FirstHz \cup SecondHz
<1>1. CASE CountFirst
  BY <1>1, CarAssumption DEF CountFirst, TypeOK
<1>2. CASE CountSecond
  BY <1>2, CarAssumption DEF CountSecond, TypeOK
<1>3. CASE UNCHANGED stageVars
  BY <1>3 DEF stageVars, TypeOK
<1> QED
  BY <1>1, <1>2, <1>3 DEF CountStage

----------------------------------------------------------------------------
LEMMA InitInv == Init => Inv
  BY CarAssumption, HzAssumption
  DEF Init, Inv, TypeOK, CarNoBehind, ModeAtPc, RepairMoves, TargetKnown, TargetAhead,
      Passed, StartUpSteps, Hz, NoCmd

(* The interrupt of photo eye 1: the one that moves the car number and     *)
(* ends the repair mode.                                                   *)
LEMMA Eye1Inv == Inv /\ Eye1 => Inv'
<1> SUFFICES ASSUME Inv, Eye1 PROVE Inv'
  OBVIOUS
<1> USE DEF Inv
<1>1. carNo \in Int /\ since \in Int /\ carNo' = carNo + 1 /\ since' = since + 1
      /\ carNo' \in 0..(2 * Tot + 1) /\ missed' = missed
  BY CarAssumption DEF TypeOK, Eye1
<1>2. /\ repair_flag' \in {0, 1} /\ hz' \in Hz /\ servo_hz' \in Hz
      /\ repair_flag = 0 => repair_flag' = 0
      /\ repair_flag' = 1 => hz' = hz \/ hz' > 0
      /\ repair_flag' = 1 /\ reset_flag = 1 => carNo' # repair_locate_real
  BY <1>1, RepairCtrl DEF Eye1
<1>3. coast' \in 0..Coast
  BY HzNat, CarAssumption DEF Eye1, Moving, TypeOK
<1>4. UNCHANGED <<pc, cmd, val, cmds, reset_flag, repair_locate_real,
                  first_stage_hz, second_stage_hz>>
  BY DEF Eye1, mainVars, paraVars
<1>5. TypeOK' /\ CarNoBehind'
  <2>1. carNo' \in 0..(2 * Tot) /\ since' \in 0..Tot /\ CarNoBehind'
    BY <1>1, <1>4, CarAssumption DEF TypeOK, CarNoBehind, Passed, Eye1
  <2>2. /\ servo_start' \in {0, 1} /\ adjust_stage_flag' \in {0, 1}
        /\ first_stage_cnt' \in 0..(FirstCars - 1)
        /\ second_stage_cnt' \in 0..(SecondCars - 1)
        /\ fwInitHz' \in FirstHz \cup SecondHz
    BY StageTypes DEF Eye1
  <2> QED
    BY <1>1, <2>1, <2>2, <1>2, <1>3, <1>4 DEF TypeOK
<1>6. ModeAtPc'
  BY <1>2, <1>4 DEF ModeAtPc, TypeOK
<1>7. RepairMoves'
  BY <1>2, <1>4 DEF RepairMoves, TypeOK
<1>8. TargetKnown' /\ TargetAhead'
  BY <1>2, <1>4 DEF TargetKnown, TargetAhead, TypeOK
<1> QED
  BY <1>5, <1>6, <1>7, <1>8

(* The other interrupts. *)
LEMMA EyesInv == Inv /\ (Eye2 \/ CarNoReset \/ CarNoMissed) => Inv'
<1> SUFFICES ASSUME Inv, Eye2 \/ CarNoReset \/ CarNoMissed PROVE Inv'
  OBVIOUS
<1> USE DEF Inv, stageVars, paraVars, repairVars, plantVars, outVars, mainVars
<1>1. CASE Eye2
  <2>1. repair_flag' = 0 /\ hz' \in Hz /\ servo_hz' \in Hz
    BY <1>1 DEF Eye2, Hz
  <2>2. UNCHANGED <<stageVars, paraVars, repairVars, plantVars, mainVars>>
    BY <1>1 DEF Eye2
  <2>3. TypeOK'
    BY <2>1, <2>2 DEF TypeOK
  <2> QED
    BY <2>1, <2>2, <2>3
    DEF CarNoBehind, Passed, ModeAtPc, RepairMoves, TargetKnown, TargetAhead
<1>2. CASE CarNoReset
  <2>1. carNo' = 0 /\ since' = 0 /\ reset_flag' = 1 /\ missed' = 0
    BY <1>2 DEF CarNoReset
  <2>2. UNCHANGED <<stageVars, paraVars, repairVars, coast, outVars, mainVars>>
    BY <1>2 DEF CarNoReset
  <2>3. TypeOK'
    BY <2>1, <2>2, CarAssumption DEF TypeOK
  <2>4. TargetAhead'
    BY <2>1, <2>2 DEF TargetAhead, TargetKnown
  <2> QED
    BY <2>1, <2>2, <2>3, <2>4
    DEF CarNoBehind, Passed, ModeAtPc, RepairMoves, TargetKnown
<1>3. CASE CarNoMissed
  <2>1. since = Tot /\ since' = 0 /\ missed = 0 /\ missed' = 1
    BY <1>3 DEF CarNoMissed
  <2>2. UNCHANGED <<stageVars, paraVars, repairVars, carNo, reset_flag, coast, outVars, mainVars>>
    BY <1>3 DEF CarNoMissed
  <2>3. TypeOK'
    BY <2>1, <2>2, CarAssumption DEF TypeOK
  <2>4. CarNoBehind'
    BY <2>1, <2>2, CarAssumption DEF CarNoBehind, Passed, TypeOK
  <2> QED
    BY <2>1, <2>2, <2>3, <2>4
    DEF ModeAtPc, RepairMoves, TargetKnown, TargetAhead
<1> QED
  BY <1>1, <1>2, <1>3

(* A command: outside the main loop's calls, so nothing is on its way. *)
LEMMA CommandInv == Inv /\ Command => Inv'
<1> SUFFICES ASSUME Inv, Command PROVE Inv'
  OBVIOUS
<1> USE DEF Inv, stageVars, paraVars, repairVars, plantVars, outVars, mainVars
<1>1. ASSUME NEW first \in FirstHz, NEW second \in SecondHz, Para(first, second) PROVE Inv'
  <2>1. cmd' = [target |-> 0, first |-> first, second |-> second]
    BY <1>1 DEF Para, NoCmd
  <2>2. cmd' \in [target : 0..Tot, first : FirstHz, second : SecondHz]
    BY <2>1, CarAssumption
  <2>3. TypeOK'
    BY <1>1, <2>2, CarAssumption DEF Para, TypeOK
  <2> QED
    BY <1>1, <2>3
    DEF Para, CarNoBehind, Passed, ModeAtPc, RepairMoves, TargetKnown, TargetAhead
<1>2. ASSUME NEW target \in Position, RepairFlag(target) PROVE Inv'
  <2>1. target \in 1..Tot /\ cmd' = [target |-> target, first |-> 0, second |-> 0]
    BY <1>2 DEF RepairFlag, Position, NoCmd
  <2>2. cmd' \in [target : 0..Tot, first : FirstHz, second : SecondHz]
    BY <2>1, CarAssumption, HzAssumption
  <2>3. TypeOK'
    BY <1>2, <2>2, CarAssumption DEF RepairFlag, TypeOK
  <2> QED
    BY <1>2, <2>1, <2>3, CarAssumption
    DEF RepairFlag, CarNoBehind, Passed, ModeAtPc, RepairMoves, TargetKnown, TargetAhead, StartUpSteps
<1> QED
  BY <1>1, <1>2 DEF Command

(* The frame goes out: in repair mode it is the one with standard_hz. *)
LEMMA SendInv == Inv /\ ServoFreqSet => Inv'
<1> SUFFICES ASSUME Inv, ServoFreqSet PROVE Inv'
  OBVIOUS
<1> USE DEF Inv, stageVars, paraVars, repairVars, plantVars, mainVars
<1>1. NoCmd \in [target : 0..Tot, first : FirstHz, second : SecondHz] /\ 0 \in Hz
  BY CarAssumption, HzAssumption DEF NoCmd, Hz
<1>2. TypeOK'
  BY <1>1 DEF ServoFreqSet, TypeOK
<1>3. RepairMoves'
  BY HzAssumption DEF ServoFreqSet, ModeAtPc, RepairMoves, TypeOK
<1> QED
  BY <1>2, <1>3
  DEF ServoFreqSet, CarNoBehind, Passed, ModeAtPc, TargetKnown, TargetAhead, StartUpSteps

(* sec_process: it sends only if it found no repair mode, and no interrupt *)
(* starts one.                                                             *)
LEMMA SecInv == Inv /\ (SecTest \/ SecOut) => Inv'
<1> SUFFICES ASSUME Inv, SecTest \/ SecOut PROVE Inv'
  OBVIOUS
<1> USE DEF Inv, stageVars, paraVars, repairVars, plantVars, outVars, mainVars
<1>1. CASE SecTest
  <2>1. TypeOK'
    BY <1>1 DEF SecTest, TypeOK
  <2> QED
    BY <1>1, <2>1
    DEF SecTest, CarNoBehind, Passed, ModeAtPc, RepairMoves, TargetKnown, TargetAhead, StartUpSteps
<1>2. CASE SecOut
  <2>1. fwInitHz \in Hz
    BY DEF TypeOK, Hz
  <2>2. TypeOK'
    BY <1>2, <2>1 DEF SecOut, Out, TypeOK
  <2> QED
    BY <1>2, <2>2
    DEF SecOut, Out, CarNoBehind, Passed, ModeAtPc, RepairMoves, TargetKnown, TargetAhead, StartUpSteps
<1> QED
  BY <1>1, <1>2

(* The parameter command, which works with the repair mode off. *)
StartUp == StageFlag \/ FirstCnt \/ SecondCnt \/ StageHz \/ InitHz \/ ServoStart

LEMMA StartUpInv == Inv /\ StartUp => Inv'
<1> SUFFICES ASSUME Inv, StartUp PROVE Inv'
  OBVIOUS
<1> USE DEF Inv, stageVars, paraVars, repairVars, plantVars, outVars, mainVars
<1>1. /\ repair_flag = 0 /\ repair_flag' = 0 /\ pc' \in StartUpSteps \cup {"loop"}
      /\ UNCHANGED <<carNo, since, missed, reset_flag>>
  BY DEF StartUp, StageFlag, FirstCnt, SecondCnt, StageHz, InitHz, ServoStart,
         ModeAtPc, StartUpSteps
<1>2. TypeOK'
  <2>1. CASE StageFlag
    BY <2>1 DEF StageFlag, TypeOK
  <2>2. CASE FirstCnt
    BY <2>2, CarAssumption DEF FirstCnt, TypeOK
  <2>3. CASE SecondCnt
    BY <2>3, CarAssumption DEF SecondCnt, TypeOK
  <2>4. CASE StageHz
    BY <2>4 DEF StageHz, TypeOK
  <2>5. CASE InitHz
    BY <2>5 DEF InitHz, TypeOK
  <2>6. CASE ServoStart
    BY <2>6, CarAssumption, HzAssumption DEF ServoStart, TypeOK, NoCmd
  <2> QED
    BY <2>1, <2>2, <2>3, <2>4, <2>5, <2>6 DEF StartUp
<1> QED
  BY <1>1, <1>2
  DEF CarNoBehind, Passed, ModeAtPc, RepairMoves, TargetKnown, TargetAhead, StartUpSteps

(* The repair command: the target, the test that it is not near already,   *)
(* the call with standard_hz.                                              *)
Repair == RepairTarget \/ RepairTest \/ RepairOut

LEMMA RepairInv == Inv /\ Repair => Inv'
<1> SUFFICES ASSUME Inv, Repair PROVE Inv'
  OBVIOUS
<1> USE DEF Inv, stageVars, paraVars, repairVars, plantVars, outVars, mainVars
<1>1. CASE RepairTarget
  <2>1. TypeOK'
    BY <1>1 DEF RepairTarget, TypeOK
  <2> QED
    BY <1>1, <2>1
    DEF RepairTarget, CarNoBehind, Passed, ModeAtPc, RepairMoves, TargetKnown, TargetAhead,
        StartUpSteps, TypeOK
<1>2. CASE RepairTest
  <2>1. TypeOK'
    BY <1>2, CarAssumption, HzAssumption DEF RepairTest, TypeOK, NoCmd
  <2>2. TargetAhead'
    BY <1>2 DEF RepairTest, TargetAhead, TypeOK, cal_distance_to_real_locate
  <2> QED
    BY <1>2, <2>1, <2>2
    DEF RepairTest, CarNoBehind, Passed, ModeAtPc, RepairMoves, TargetKnown, StartUpSteps
<1>3. CASE RepairOut
  <2>1. TypeOK'
    BY <1>3 DEF RepairOut, Out, TypeOK, Hz
  <2> QED
    BY <1>3, <2>1
    DEF RepairOut, Out, CarNoBehind, Passed, ModeAtPc, RepairMoves, TargetKnown, TargetAhead,
        StartUpSteps
<1> QED
  BY <1>1, <1>2, <1>3 DEF Repair

LEMMA NextInv == Inv /\ [Next]_vars => Inv'
<1> SUFFICES ASSUME Inv, [Next]_vars PROVE Inv'
  OBVIOUS
<1>1. CASE Command
  BY <1>1, CommandInv
<1>2. CASE Main
  BY <1>2, SendInv, SecInv, StartUpInv, RepairInv DEF Main, StartUp, Repair
<1>3. CASE Eye1
  BY <1>3, Eye1Inv
<1>4. CASE Eye2 \/ CarNoReset \/ CarNoMissed
  BY <1>4, EyesInv
<1>5. CASE UNCHANGED vars
  BY <1>5 DEF vars, stageVars, paraVars, repairVars, plantVars, outVars, mainVars,
              Inv, TypeOK, CarNoBehind, Passed, ModeAtPc, RepairMoves, TargetKnown, TargetAhead
<1> QED
  BY <1>1, <1>2, <1>3, <1>4, <1>5 DEF Next

----------------------------------------------------------------------------
(* The inductive invariant holds: types, what the main loop has            *)
(* established where it is, and a target ahead (timExti.c:75-132).         *)
THEOREM InvHolds == Spec => []Inv
  BY InitInv, NextInv, PTL DEF Spec

(* The car number stays within the line and the stage counters within      *)
(* their stages, although the main loop resets them one by one             *)
(* (fwInitServo, speed_ctrl.c:57-108) while an interrupt counts.           *)
THEOREM TypesHold == Spec => []TypeOK
<1>1. Inv => TypeOK
  BY DEF Inv
<1> QED
  BY <1>1, InvHolds, PTL

(* In repair mode the line moves whenever no command is being worked off:  *)
(* nothing has the last word over repair_car_para_init (timExti.c:77-102). *)
THEOREM RepairMovesHolds == Spec => []RepairMoves
<1>1. Inv => RepairMoves
  BY DEF Inv
<1> QED
  BY <1>1, InvHolds, PTL

(* With an exact car number, each car brings the line one car nearer to    *)
(* the repair target or ends the repair mode (timExti.c:104-124).          *)
THEOREM NeverPastTargetHolds == Spec => NeverPastTarget
<1> DEFINE Nearer == (Eye1 /\ reset_flag = 1 /\ missed = 0 /\ repair_flag = 1 /\ pc = "loop") =>
                       repair_flag' = 0 \/ Distance' = Distance - 1
<1>1. Inv /\ [Next]_vars => [Nearer]_vars
  <2> SUFFICES ASSUME Inv, Eye1, reset_flag = 1, missed = 0, repair_flag = 1, pc = "loop"
               PROVE  Distance' = Distance - 1
    OBVIOUS
  <2>1. /\ carNo \in 0..(2 * Tot + 1) /\ repair_locate_real \in 0..Tot
        /\ carNo # repair_locate_real /\ carNo < Tot
    BY CarAssumption DEF Inv, TypeOK, TargetAhead, CarNoBehind, Passed, Eye1
  <2>2. carNo' = carNo + 1 /\ repair_locate_real' = repair_locate_real
    BY DEF Eye1
  <2>3. Distance' = cal_move_distance(carNo + 1, repair_locate_real)
    BY <2>2 DEF Distance, cal_move_distance
  <2> QED
    BY <2>1, <2>3, DistanceFacts DEF Distance
<1> QED
  BY <1>1, InvHolds, PTL DEF Spec, NeverPastTarget

(* The line is stopped only where the marked car says it is at its target, *)
(* even if the switch missed that car the last time: the u16 distance of   *)
(* timExti.c:52 is then the way to go, or far.                             *)
THEOREM StopsAtTargetHolds == Spec => StopsAtTarget
<1> DEFINE Stop == (Eye1 /\ repair_flag = 1 /\ repair_flag' = 0) => TrueDistance' <= 2 + Adjust
<1>1. Inv /\ [Next]_vars => [Stop]_vars
  <2> SUFFICES ASSUME Inv, Eye1, repair_flag = 1, repair_flag' = 0
               PROVE  TrueDistance' <= 2 + Adjust
    OBVIOUS
  <2> DEFINE d == cal_move_distance(carNo', repair_locate_real)
  <2>1. reset_flag = 1
    BY DEF Eye1, repairLocationCtrl, Inv, TypeOK
  <2>2. repairHz(d) = 0
    BY <2>1 DEF Eye1, repairLocationCtrl
  <2>3. /\ since' = since + 1 /\ since < Tot /\ since \in 0..Tot /\ missed \in {0, 1}
        /\ carNo' = IF missed = 1 THEN Tot + since + 1 ELSE since + 1
        /\ repair_locate_real \in 0..Tot /\ repair_locate_real' = repair_locate_real
    BY <2>1, CarAssumption DEF Inv, TypeOK, CarNoBehind, Passed, Eye1
  <2>4. carNo' \in 0..(2 * Tot + 1)
    BY <2>3, CarAssumption
  <2>5. d \in Int
    BY <2>3, <2>4, DistanceFacts
  <2>6. d <= 2 + Adjust
    <3> HIDE DEF d
    <3> QED BY <2>2, <2>5, RepairHzZero
  <2>7. ~(carNo' > Tot + repair_locate_real)
    BY <2>3, <2>4, <2>5, <2>6, DistanceFacts, CarAssumption
  <2> QED
    BY <2>3, <2>6, <2>7, CarAssumption DEF TrueDistance, cal_move_distance
<1> QED
  BY <1>1, InvHolds, PTL DEF Spec, StopsAtTarget

(* Once the target is stored, it is the one the command named; sec_process *)
(* calls RS485_OUT without a command.                                      *)
TargetStored ==
  /\ pc \in {"repairTest", "repairOut", "send"} /\ cmd.target # 0 => repair_locate_real = cmd.target
  /\ pc \in {"loop", "secOut"} => cmd = NoCmd

LEMMA StoredInit == Init => TargetStored
BY DEF Init, TargetStored, NoCmd

(* Only RepairTarget stores a target. *)
LEMMA StoredNext == Inv /\ TargetStored /\ [Next]_vars => TargetStored'
<1> SUFFICES ASSUME Inv, TargetStored, [Next]_vars PROVE TargetStored'
  OBVIOUS
<1> USE DEF TargetStored, stageVars, paraVars, repairVars, plantVars, outVars, mainVars
<1>1. CASE Command
  BY <1>1 DEF Command, Para, RepairFlag
<1>2. CASE SecTest \/ SecOut
  BY <1>2 DEF SecTest, SecOut, Out, NoCmd
<1>3. CASE ServoFreqSet \/ StageFlag \/ FirstCnt \/ SecondCnt \/ StageHz \/ InitHz \/ ServoStart
  BY <1>3 DEF ServoFreqSet, StageFlag, FirstCnt, SecondCnt, StageHz, InitHz, ServoStart
<1>4. CASE RepairTarget \/ RepairTest \/ RepairOut
  BY <1>4 DEF RepairTarget, RepairTest, RepairOut, Out, NoCmd
<1>5. CASE Eye1 \/ Eye2 \/ CarNoReset \/ CarNoMissed
  BY <1>5 DEF Eye1, Eye2, CarNoReset, CarNoMissed
<1>6. CASE UNCHANGED vars
  BY <1>6 DEF vars
<1> QED
  BY <1>1, <1>2, <1>3, <1>4, <1>5, <1>6 DEF Next, Main

(* The gap between repair_flag = 1 and the store of the target             *)
(* (timExti.c:77-86) is the only place where a repair can end at a         *)
(* position its command did not name: everywhere else steering and the     *)
(* test of repair_car_para_init end it near the one that was.              *)
THEOREM EndsAtTargetOutsideTheGap == Spec => [][pc # "target" => EndsNearWanted]_vars
<1>1. Inv /\ TargetStored /\ [Next]_vars => [pc # "target" => EndsNearWanted]_vars
  <2> SUFFICES ASSUME Inv, TargetStored, Next, pc # "target",
                      repair_flag = 1, repair_flag' = 0, pc' # "stageFlag"
               PROVE  \/ cal_move_distance(carNo', Wanted) <= 2 + Adjust
                      \/ cal_distance_to_real_locate(carNo, Wanted) <= 2
    BY DEF EndsNearWanted, vars, repairVars
  <2>1. Wanted = repair_locate_real
    BY DEF Wanted, TargetStored
  <2>2. RepairTest \/ Eye1
    <3> USE DEF stageVars, paraVars, repairVars, plantVars, outVars, mainVars
    <3>1. ~Command
      <4>1. \A first \in FirstHz, second \in SecondHz : ~Para(first, second)
        BY DEF Para
      <4>2. \A target \in Position : ~RepairFlag(target)
        BY DEF RepairFlag
      <4> QED BY <4>1, <4>2 DEF Command
    <3>2. ~(ServoFreqSet \/ SecTest \/ SecOut \/ RepairTarget \/ RepairOut \/ Eye2
              \/ CarNoReset \/ CarNoMissed)
      BY DEF ServoFreqSet, SecTest, SecOut, RepairTarget, RepairOut, Eye2, CarNoReset, CarNoMissed
    <3>3. ~(StageFlag \/ FirstCnt \/ SecondCnt \/ StageHz \/ InitHz \/ ServoStart)
      BY DEF StageFlag, FirstCnt, SecondCnt, StageHz, InitHz, ServoStart
    <3> QED BY <3>1, <3>2, <3>3 DEF Next, Main
  <2>3. CASE RepairTest
    BY <2>1, <2>3 DEF RepairTest
  <2>4. CASE Eye1
    <3>1. carNo' \in 0..(2 * Tot + 1) /\ repair_locate_real \in 0..Tot
      BY <2>4, CarAssumption DEF Eye1, Inv, TypeOK
    <3>2. cal_move_distance(carNo', repair_locate_real) \in Int
      BY <3>1, DistanceFacts
    <3>3. repairHz(cal_move_distance(carNo', repair_locate_real)) = 0
      BY <2>4 DEF Eye1, repairLocationCtrl
    <3> QED BY <2>1, <3>2, <3>3, RepairHzZero
  <2> QED BY <2>2, <2>3, <2>4
<1>2. Spec => []TargetStored
  BY StoredInit, StoredNext, InvHolds, PTL DEF Spec
<1> QED
  BY <1>1, <1>2, InvHolds, PTL DEF Spec
=============================================================================
