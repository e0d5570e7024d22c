--------------------------- MODULE SpeedCtrlProofs ---------------------------
(* SpeedCtrl's type invariant and the absence of wind-up and of a dead     *)
(* band, for every gain, limit, target and sequence of measurements.       *)
EXTENDS SpeedCtrl, TLAPS

ParaType == [kp : Nat, ki : Nat, kd : Nat, target : Nat, factor : Nat, second : Seconds]

LEMMA FrequencyType ==
  /\ Paras \subseteq ParaType /\ Seconds \subseteq Frequencies /\ 0..OutHzMax \subseteq Frequencies
  /\ Frequencies \subseteq Nat
<1> DEFINE Record == [kp : Nat, ki : Nat, kd : Nat, target : Nat, factor : Nat, second : Nat]
<1>1. ASSUME NEW p \in Paras PROVE p \in Record /\ p.second \in Nat /\ p.second \in Seconds
  <2>1. p \in Record
    BY ParaAssumption
  <2> QED BY <2>1 DEF Seconds
<1>2. ASSUME NEW p \in Paras PROVE p \in ParaType
  BY <1>1 DEF ParaType
<1>3. Seconds \subseteq Nat
  <2> SUFFICES ASSUME NEW p \in Paras PROVE p.second \in Nat
    BY Zenon DEF Seconds
  <2> QED BY <1>1
<1>4. Seconds \subseteq Frequencies /\ 0..OutHzMax \subseteq Frequencies
  BY Zenon DEF Frequencies
<1>5. 0..OutHzMax \subseteq Nat
  BY LimitAssumption
<1>6. Frequencies \subseteq Nat
  BY <1>3, <1>5, Zenon DEF Frequencies
<1> QED BY <1>2, <1>4, <1>6, Zenon

(* LimitHz is within the limits. *)
LEMMA LimitType ==
  ASSUME NEW x \in Int PROVE LimitHz(x) \in 0..OutHzMax
BY LimitAssumption DEF LimitHz, Clip

(* The sum of the errors stays within fwErrIMax. *)
LEMMA ErrIType ==
  ASSUME NEW sum \in (-IMax)..IMax, NEW e0 \in Int, NEW e \in Int
  PROVE  ErrI(sum, e0, e) \in (-IMax)..IMax
BY LimitAssumption DEF ErrI, Clip, Abs, SameSign

(* The sum follows the error if it followed the one before: a change of    *)
(* sign clears it.                                                         *)
LEMMA ErrIFollows ==
  ASSUME NEW sum \in (-IMax)..IMax, NEW e0 \in Int, NEW e \in Int,
         sum > 0 => e0 > 0, sum < 0 => e0 < 0, e # 0
  PROVE  (ErrI(sum, e0, e) > 0 => e > 0) /\ (ErrI(sum, e0, e) < 0 => e < 0)
BY LimitAssumption DEF ErrI, Clip, Abs, SameSign

LEMMA PidHzType ==
  ASSUME NEW hz \in Int, NEW e \in Int, NEW sum \in Int, NEW d \in Int,
         NEW p \in ParaType
  PROVE  PidHz(hz, p, e, sum, d) \in Int
<1>1. KpFactor(e) \in Int
  BY DEF KpFactor
<1>2. Rounding(e) \in Int
  BY DEF Rounding
<1>3. p.kp * e * KpFactor(e) \in Int
  BY <1>1 DEF ParaType
<1>4. 10 * p.ki * sum \in Int /\ 10 * p.kd * d \in Int
  BY DEF ParaType
<1> HIDE DEF KpFactor, Rounding
<1>5. QED
  BY <1>2, <1>3, <1>4 DEF PidHz

LEMMA LineSpeedType == ASSUME NEW hz \in Int PROVE LineSpeed(hz) \in Nat
BY DEF LineSpeed

LEMMA StageHzType ==
  ASSUME NEW p \in ParaType
  PROVE  first_stage_hz(p) \in 0..OutHzMax /\ StartHz(p) \in Frequencies
<1>1. p.target * p.factor \in Int
  BY DEF ParaType
<1>2. ((p.target * p.factor) \div 1000) % 65536 \in Int
  BY <1>1
<1>3. first_stage_hz(p) \in 0..OutHzMax
  BY <1>2, LimitAssumption DEF first_stage_hz, Clip
<1>4. p.second \in Seconds
  BY DEF ParaType
<1>5. QED
  BY <1>3, <1>4, FrequencyType DEF StartHz

----------------------------------------------------------------------------
(* What one call of fwPIDctrl does to the controller's state. *)
Follows == (fwErrI > 0 => fwErr > 0) /\ (fwErrI < 0 => fwErr < 0)

LEMMA PidStep ==
  ASSUME TypeOK, NEW w \in Int, fwPIDctrl(w)
  PROVE  /\ fwErr' \in Int /\ fwErrI' \in (-IMax)..IMax
         /\ fwHz' \in 0..OutHzMax /\ out' \in 0..OutHzMax
         /\ Follows => Follows'
<1> DEFINE e == para.target - w
           sum == ErrI(fwErrI, fwErr, e)
           d == ErrD(fwErr, e)
<1>1. e \in Int
  BY DEF TypeOK
<1>2. sum \in (-IMax)..IMax
  BY <1>1, ErrIType DEF TypeOK
<1>3. d \in Int
  BY <1>1 DEF ErrD, TypeOK
<1>4. PidHz(fwHz, para, e, sum, d) \in Int
  <2>1. sum \in Int /\ fwHz \in Int
    BY <1>2, LimitAssumption, FrequencyType DEF TypeOK
  <2>2. QED
    BY <1>1, <1>3, <2>1, PidHzType DEF TypeOK, ParaType
<1>5. fwHz' \in 0..OutHzMax /\ out' = fwHz'
  BY <1>4, LimitType DEF fwPIDctrl
<1>6. fwErr' = e /\ fwErrI' = IF Abs(e) <= Settled THEN 0 ELSE sum
  BY DEF fwPIDctrl
<1>7. fwErrI' \in (-IMax)..IMax
  BY <1>2, <1>6, LimitAssumption
<1>8. ASSUME Follows PROVE Follows'
  <2>1. CASE e = 0
    BY <1>6, <2>1, LimitAssumption DEF Abs, Follows
  <2>2. CASE e # 0
    <3>1. (sum > 0 => e > 0) /\ (sum < 0 => e < 0)
      BY <1>1, <1>8, <2>2, ErrIFollows DEF TypeOK, Follows
    <3>2. QED
      BY <1>6, <3>1 DEF Follows
  <2>3. QED
    BY <2>1, <2>2
<1>9. QED
  BY <1>1, <1>5, <1>6, <1>7, <1>8

(* NoTime and the other wrong measurements are numbers. *)
LEMMA MeasureStep ==
  ASSUME TypeOK, IntegralFollowsError, Measure \/ MeasureWrong
  PROVE  TypeOK' /\ IntegralFollowsError'
<1>1. PICK w \in Int : fwPIDctrl(w)
  <2>1. CASE Measure
    <3>1. v \in Int /\ fwPIDctrl(v)
      BY <2>1 DEF Measure, TypeOK
    <3>2. QED
      BY <3>1, Zenon
  <2>2. CASE MeasureWrong
    <3>1. \E w \in Glitches : fwPIDctrl(w)
      BY <2>2, Zenon DEF MeasureWrong
    <3>2. \A w \in Glitches : w \in Int
      BY LimitAssumption
    <3>3. QED
      BY <3>1, <3>2, Zenon
  <2>3. QED
    BY <2>1, <2>2
<1>2. /\ fwErr' \in Int /\ fwErrI' \in (-IMax)..IMax
      /\ fwHz' \in 0..OutHzMax /\ out' \in 0..OutHzMax
      /\ Follows => Follows'
  BY <1>1, PidStep
<1>3. hit' \in BOOLEAN /\ zero' \in BOOLEAN
  BY DEF Measure, MeasureWrong, Cut, TypeOK
<1>4. lag' \in 0..MaxLag /\ glitches' \in 0..MaxGlitch
  <2>1. \/ lag < MaxLag /\ lag' = lag + 1 /\ glitches' = glitches
        \/ lag' = lag /\ glitches < MaxGlitch /\ glitches' = glitches + 1
    BY Zenon DEF Measure, MeasureWrong, lineVars
  <2>2. QED
    BY <2>1, LimitAssumption DEF TypeOK
<1>5. UNCHANGED <<mainVars, servo_start, v>>
  BY DEF Measure, MeasureWrong, lineVars
<1>6. TypeOK'
  <2>1. fwHz' \in Frequencies /\ out' \in Frequencies
    BY <1>2, FrequencyType, Zenon
  <2>2. QED
    BY <1>2, <1>3, <1>4, <1>5, <2>1, Zenon DEF TypeOK, mainVars
<1>7. QED
  BY <1>2, <1>5, <1>6 DEF IntegralFollowsError, Follows, mainVars

LEMMA MainStep ==
  ASSUME TypeOK, IntegralFollowsError,
         Follow \/ (\E p \in Paras : Command(p)) \/ Main \/ StageTwo \/ StartUpDone
  PROVE  TypeOK' /\ IntegralFollowsError'
<1> USE DEF eyeVars, lineVars, mainVars, pidVars
<1>p. /\ first_stage_hz(para) \in Frequencies /\ StartHz(para) \in Frequencies
      /\ para.second \in Frequencies /\ 0 \in Frequencies
  <2>1. para \in ParaType
    BY DEF TypeOK, ParaType
  <2>2. first_stage_hz(para) \in 0..OutHzMax /\ StartHz(para) \in Frequencies
    BY <2>1, StageHzType
  <2>3. para.second \in Seconds
    BY <2>1 DEF ParaType
  <2>4. 0 \in 0..OutHzMax
    BY LimitAssumption
  <2>5. QED
    BY <2>2, <2>3, <2>4, FrequencyType, Zenon
<1>1. CASE Follow
  BY <1>1, LineSpeedType, LimitAssumption, FrequencyType DEF Follow, TypeOK, IntegralFollowsError
<1>2. CASE \E p \in Paras : Command(p)
  BY <1>2, LimitAssumption DEF Command, TypeOK, IntegralFollowsError
<1>3. CASE InitErrI
  BY <1>3, LimitAssumption DEF InitErrI, TypeOK, IntegralFollowsError
<1>4. CASE InitHz
  BY <1>4, <1>p DEF InitHz, TypeOK, IntegralFollowsError
<1>5. CASE InitKp \/ InitKi \/ InitKd
  <2>1. cmd \in ParaType /\ para \in ParaType
    BY FrequencyType DEF TypeOK, ParaType
  <2>2. para' \in ParaType
    BY <1>5, <2>1 DEF InitKp, InitKi, InitKd, ParaType
  <2>3. QED
    BY <1>5, <2>2 DEF InitKp, InitKi, InitKd, TypeOK, IntegralFollowsError, ParaType
<1>6. CASE InitTarget
  BY <1>6, FrequencyType DEF InitTarget, TypeOK, IntegralFollowsError, ParaType
<1>7. CASE InitStartHz
  BY <1>7, <1>p DEF InitStartHz, TypeOK, IntegralFollowsError
<1>8. CASE ServoStart
  BY <1>8 DEF ServoStart, TypeOK, IntegralFollowsError
<1>9. CASE Sec
  BY <1>9 DEF Sec, TypeOK, IntegralFollowsError
<1>10. CASE StageTwo
  BY <1>10, <1>p DEF StageTwo, TypeOK, IntegralFollowsError
<1>11. CASE StartUpDone
  BY <1>11, <1>p DEF StartUpDone, TypeOK, IntegralFollowsError
<1>12. QED
  BY <1>1, <1>2, <1>3, <1>4, <1>5, <1>6, <1>7, <1>8, <1>9, <1>10, <1>11 DEF Main

LEMMA InitGood == Init => TypeOK /\ IntegralFollowsError
<1> SUFFICES ASSUME Init PROVE TypeOK /\ IntegralFollowsError
  OBVIOUS
<1>1. para \in ParaType
  BY FrequencyType DEF Init
<1>2. fwHz \in Frequencies /\ fwInitHz \in Frequencies
  BY <1>1, StageHzType, FrequencyType, LimitAssumption DEF Init
<1>3. v \in Nat
  BY <1>2, LineSpeedType, FrequencyType DEF Init
<1>4. cmd \in Paras /\ out = fwHz
  BY DEF Init
<1>5. /\ fwErr = 0 /\ fwErrI = 0 /\ servo_start = 1 /\ pc = "loop"
      /\ lag = 0 /\ glitches = 0 /\ cmds = 0
  BY DEF Init
<1>6. zero \in BOOLEAN /\ hit \in BOOLEAN
  BY Zenon DEF Init
<1>7. QED
  BY <1>1, <1>2, <1>3, <1>4, <1>5, <1>6, LimitAssumption DEF TypeOK, IntegralFollowsError, ParaType

LEMMA NextGood == TypeOK /\ IntegralFollowsError /\ [Next]_vars => (TypeOK /\ IntegralFollowsError)'
<1> SUFFICES ASSUME TypeOK, IntegralFollowsError, [Next]_vars
             PROVE  (TypeOK /\ IntegralFollowsError)'
  OBVIOUS
<1>1. CASE Measure \/ MeasureWrong
  BY <1>1, MeasureStep
<1>2. CASE Follow \/ (\E p \in Paras : Command(p)) \/ Main \/ StageTwo \/ StartUpDone
  BY <1>2, MainStep
<1>3. CASE UNCHANGED vars
  BY <1>3 DEF vars, pidVars, mainVars, lineVars, eyeVars, TypeOK, IntegralFollowsError
<1>4. QED
  BY <1>1, <1>2, <1>3 DEF Next

(* fwErrI never exceeds fwErrIMax, and a frequency outside 0..fwOutHzMax   *)
(* is never one that fwPIDctrl or first_stage_hz has computed, but the     *)
(* standard_hz of a command, which fwInitServo takes over unlimited: for   *)
(* all gains, also ones that make the loop unstable, and any u16           *)
(* standard_hz.                                                            *)
THEOREM TypesHold == Spec => []TypeOK
<1>1. QED
  BY InitGood, NextGood, PTL DEF Spec

(* No wind-up: the sum never works against the present error. *)
THEOREM NoWindUp == Spec => []IntegralFollowsError
<1>1. QED
  BY InitGood, NextGood, PTL DEF Spec
----------------------------------------------------------------------------
(* Every term of the PID law that is not against the step goes with it. *)
LEMMA PidTerms ==
  ASSUME NEW kp \in Nat, NEW e \in Int, NEW k \in Nat, NEW sum \in Int, NEW d \in Int
  PROVE  /\ e > 0 => kp * e * KpFactor(e) >= 0
         /\ e < 0 /\ kp > 0 => kp * e * KpFactor(e) < 0
         /\ (sum >= 0 => 10 * k * sum >= 0) /\ (sum <= 0 => 10 * k * sum <= 0)
<1>1. KpFactor(e) \in Nat /\ KpFactor(e) > 0
  BY DEF KpFactor
<1>2. ASSUME NEW x \in Int, NEW y \in Nat PROVE /\ y > 0 /\ x < 0 => x * y < 0
                                                /\ x >= 0 => x * y >= 0
                                                /\ x <= 0 => x * y <= 0
  OBVIOUS
<1>3. kp * e \in Int /\ (e > 0 => kp * e >= 0) /\ (e < 0 /\ kp > 0 => kp * e < 0)
  <2>1. kp * e = e * kp
    OBVIOUS
  <2> QED BY <1>2, <2>1
<1>4. /\ e > 0 => kp * e * KpFactor(e) >= 0
      /\ e < 0 /\ kp > 0 => kp * e * KpFactor(e) < 0
  BY <1>1, <1>2, <1>3
<1>5. 10 * k * sum = sum * (10 * k) /\ 10 * k \in Nat
  OBVIOUS
<1> QED BY <1>2, <1>4, <1>5

(* The new frequency is off the old one by a whole step, the right way. *)
LEMMA PidMoves ==
  ASSUME NEW hz \in Int, NEW e \in Int, NEW sum \in Int, NEW d \in Int,
         NEW p \in ParaType
  PROVE  /\ (p.kp > 0 /\ e < 0 /\ sum <= 0 /\ d <= 0) => PidHz(hz, p, e, sum, d) < hz
         /\ (e > 0 /\ e < 50 /\ sum >= 0 /\ d >= 0) => PidHz(hz, p, e, sum, d) > hz
<1> DEFINE x == p.kp * e * KpFactor(e)
           i == 10 * p.ki * sum
           r == 10 * p.kd * d
<1>1. KpFactor(e) \in Int
  BY DEF KpFactor
<1>2. x \in Int /\ i \in Int /\ r \in Int
  BY <1>1 DEF ParaType
<1>3. /\ (e > 0 => x >= 0) /\ (e < 0 /\ p.kp > 0 => x < 0)
      /\ (sum >= 0 => i >= 0) /\ (sum <= 0 => i <= 0)
      /\ (d >= 0 => r >= 0) /\ (d <= 0 => r <= 0)
  BY PidTerms DEF ParaType
<1>4. e # 0 => PidHz(hz, p, e, sum, d) = (10000 * hz + x + i + r + Rounding(e)) \div 10000
  BY DEF PidHz
<1> HIDE DEF x, i, r
<1>5. CASE p.kp > 0 /\ e < 0 /\ sum <= 0 /\ d <= 0
  <2>1. Rounding(e) = 0 /\ x + i + r < 0
    BY <1>2, <1>3, <1>5 DEF Rounding
  <2>2. (10000 * hz + x + i + r + 0) \div 10000 < hz
    BY <1>2, <2>1, SMT
  <2> QED BY <1>4, <1>5, <2>1, <2>2
<1>6. CASE e > 0 /\ e < 50 /\ sum >= 0 /\ d >= 0
  <2>1. Rounding(e) = 10000 /\ x + i + r >= 0
    BY <1>2, <1>3, <1>6 DEF Rounding
  <2>2. (10000 * hz + x + i + r + 10000) \div 10000 > hz
    BY <1>2, <2>1, SMT
  <2> QED BY <1>4, <1>6, <2>1, <2>2
<1> QED BY <1>5, <1>6

(* A measurement moves the frequency, whatever the gains. *)
LEMMA MeasureMoves ==
  ASSUME TypeOK, Follows, para.kp > 0, NEW w \in Int, fwPIDctrl(w)
  PROVE  LET d == ErrD(fwErr, fwErr')
         IN /\ fwErr' < 0 /\ d <= 0 => fwHz' < fwHz \/ fwHz' = 0
            /\ fwErr' > 0 /\ fwErr' < 50 /\ d >= 0 => fwHz' > fwHz \/ fwHz' = OutHzMax
<1> DEFINE e == para.target - w
           sum == ErrI(fwErrI, fwErr, e)
           d == ErrD(fwErr, e)
           hz == PidHz(fwHz, para, e, sum, d)
<1>1. e \in Int /\ fwErr \in Int /\ fwErrI \in (-IMax)..IMax /\ fwHz \in Nat
  BY FrequencyType DEF TypeOK
<1>2. d \in Int
  BY <1>1 DEF ErrD
<1>3. sum \in Int
  BY <1>1, ErrIType, LimitAssumption
<1>4. fwErr' = e /\ fwHz' = LimitHz(hz)
  BY DEF fwPIDctrl
<1>5. e # 0 => (sum > 0 => e > 0) /\ (sum < 0 => e < 0)
  BY <1>1, ErrIFollows DEF Follows
<1>6. hz \in Int /\ fwHz \in Int
  BY <1>1, <1>2, <1>3, LimitAssumption, PidHzType DEF TypeOK, ParaType
<1>7. /\ (e < 0 /\ sum <= 0 /\ d <= 0) => hz < fwHz
      /\ (e > 0 /\ e < 50 /\ sum >= 0 /\ d >= 0) => hz > fwHz
  BY <1>1, <1>2, <1>3, <1>6, PidMoves DEF TypeOK, ParaType
<1> HIDE DEF e, sum, d, hz
<1>8. /\ (e < 0 /\ d <= 0) => hz < fwHz
      /\ (e > 0 /\ e < 50 /\ d >= 0) => hz > fwHz
  BY <1>1, <1>3, <1>5, <1>7
<1>9. /\ hz < fwHz => LimitHz(hz) < fwHz \/ LimitHz(hz) = 0
      /\ hz > fwHz => LimitHz(hz) > fwHz \/ LimitHz(hz) = OutHzMax
  BY <1>1, <1>6, LimitAssumption DEF LimitHz, Clip
<1>10. ErrD(fwErr, fwErr') = d
  BY <1>4 DEF d
<1> QED BY <1>4, <1>8, <1>9, <1>10

(* The gains are those of a command, also halfway through fwInitServo. *)
GainsKept == para.kp > 0 /\ cmd \in Paras

LEMMA GainsStep ==
  ASSUME \A p \in Paras : p.kp > 0, TypeOK, GainsKept, [Next]_vars
  PROVE  GainsKept'
<1> USE DEF eyeVars, lineVars, mainVars, pidVars
<1>1. CASE InitKp \/ InitKi \/ InitKd
  <2>1. para \in ParaType
    BY DEF TypeOK, ParaType
  <2> QED BY <1>1, <2>1 DEF InitKp, InitKi, InitKd, GainsKept, ParaType
<1>2. CASE InitTarget
  BY <1>2 DEF InitTarget, GainsKept
<1>3. CASE \E p \in Paras : Command(p)
  BY <1>3 DEF Command, GainsKept
<1>4. CASE Measure \/ MeasureWrong \/ Follow
  BY <1>4 DEF Measure, MeasureWrong, Follow, GainsKept
<1>5. CASE InitErrI \/ InitHz \/ InitStartHz \/ ServoStart \/ Sec \/ StageTwo \/ StartUpDone
  BY <1>5 DEF InitErrI, InitHz, InitStartHz, ServoStart, Sec, StageTwo, StartUpDone, GainsKept
<1>6. CASE UNCHANGED vars
  BY <1>6 DEF vars, GainsKept
<1> QED BY <1>1, <1>2, <1>3, <1>4, <1>5, <1>6 DEF Next, Main

(* With a proportional part the controller has no dead band: for all       *)
(* gains, targets and limits, no measured error is rounded away by the     *)
(* conversion of the frequency to int, also where fwInitServo is cut in    *)
(* two, except between its first two stores.                               *)
THEOREM NoDeadBandHolds ==
  ASSUME \A p \in Paras : p.kp > 0
  PROVE  Spec => NoDeadBand
<1> DEFINE Moves == LET d == ErrD(fwErr, fwErr')
                    IN /\ fwErr' < 0 /\ d <= 0 => fwHz' < fwHz \/ fwHz' = 0
                       /\ fwErr' > 0 /\ fwErr' < 50 /\ d >= 0 => fwHz' > fwHz \/ fwHz' = OutHzMax
<1>1. Init => GainsKept
  BY DEF Init, GainsKept
<1>2. TypeOK /\ GainsKept /\ [Next]_vars => GainsKept'
  BY GainsStep
<1>3. TypeOK /\ IntegralFollowsError /\ GainsKept => [Measure /\ pc # "errI" => Moves]_vars
  <2> SUFFICES ASSUME TypeOK, IntegralFollowsError, GainsKept, Measure, pc # "errI" PROVE Moves
    OBVIOUS
  <2>1. Follows /\ para.kp > 0
    BY DEF IntegralFollowsError, Follows, GainsKept
  <2>2. v \in Int /\ fwPIDctrl(v)
    BY DEF Measure, TypeOK
  <2> QED BY <2>1, <2>2, MeasureMoves
<1> QED BY <1>1, <1>2, <1>3, TypesHold, NoWindUp, PTL DEF Spec, NoDeadBand
=============================================================================
