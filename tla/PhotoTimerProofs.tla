-------------------------- MODULE PhotoTimerProofs --------------------------
(***************************************************************************)
(* The speed measurement for every counter modulus, u32 width and latency: *)
(* the wraps counted by TIM2_IRQHandler account for the time elapsed, and  *)
(* a measurement made while no overflow is pending is right.               *)
(***************************************************************************)
EXTENDS PhotoTimer, TLAPS

Inv == TypeOK /\ ClockAgrees /\ InSuccession

(* The counter's next value. *)
LEMMA NextCounter ==
  ASSUME NEW c \in 0..(M - 1)
  PROVE  /\ (c + 1) % M \in 0..(M - 1)
         /\ (c + 1) % M = IF c + 1 = M THEN 0 ELSE c + 1
<1>1. CASE c + 1 = M
  BY <1>1, TimerAssumption, Z3
<1>2. CASE c + 1 # M
  BY <1>2, TimerAssumption, Z3
<1> QED BY <1>1, <1>2

(* One more wrap is M more ticks, and two wraps are at least 2 * M. *)
LEMMA OneMoreWrap ==
  ASSUME NEW m \in Nat, NEW k \in Int
  PROVE  /\ m * k \in Int
         /\ m * (k + 1) = m * k + m
         /\ k >= 2 => m * k >= 2 * m
         /\ m * 0 = 0
         /\ m * 1 = m
BY Z3

LEMMA InitInv == Init => Inv
<1> SUFFICES ASSUME Init PROVE Inv
  OBVIOUS
<1>1. TypeOK
  <2>1. pending \in BOOLEAN /\ overlap \in BOOLEAN /\ swallowed \in BOOLEAN
    BY DEF Init
  <2>2. 0 \in 0..(M - 1) /\ 0 \in 0..(MaxUpdates - 1) /\ 0 \in 0..Horizon /\ M \in 0..M
    BY TimerAssumption
  <2> QED BY <2>1, <2>2 DEF Init, TypeOK, None
<1>2. ClockAgrees
  BY DEF Init, ClockAgrees
<1>3. InSuccession
  BY DEF Init, InSuccession
<1> QED BY <1>1, <1>2, <1>3 DEF Inv

LEMMA TypeNext == TypeOK /\ [Next]_vars => TypeOK'
<1> SUFFICES ASSUME TypeOK, [Next]_vars PROVE TypeOK'
  OBVIOUS
<1> USE TimerAssumption DEF TypeOK
<1>1. CASE Tick
  <2>1. pending' \in BOOLEAN /\ overlap' \in BOOLEAN /\ swallowed' \in BOOLEAN
    BY <1>1 DEF Tick
  <2>2. counter' \in 0..(M - 1)
    BY <1>1, NextCounter DEF Tick
  <2>3. elapsed' \in 0..Horizon
    BY <1>1 DEF Tick
  <2> QED BY <1>1, <2>1, <2>2, <2>3 DEF Tick
<1>2. CASE TIM2_IRQHandler
  <2>1. timUpdates' \in 0..(MaxUpdates - 1) /\ extid' \in 0..2 /\ timCnt' \in 0..(M - 1)
    BY <1>2 DEF TIM2_IRQHandler
  <2>2. pending' \in BOOLEAN /\ overlap' \in BOOLEAN /\ swallowed' \in BOOLEAN
    BY <1>2 DEF TIM2_IRQHandler
  <2> QED BY <1>2, <2>1, <2>2 DEF TIM2_IRQHandler
<1>3. CASE Eye1
  <2>1. pending' \in BOOLEAN /\ overlap' \in BOOLEAN /\ swallowed' \in BOOLEAN
    BY <1>3 DEF Eye1
  <2> QED BY <1>3, <2>1 DEF Eye1
<1>4. CASE Eye2
  <2>1. Accepted => Count \in 0..M
    <3>1. (M - 1) * timUpdates \in Nat
      BY Z3
    <3> DEFINE k == (M - 1) * timUpdates
    <3> HIDE DEF k
    <3>2. k \in Nat => (Minus(counter + k, timCnt) <= M - 1 =>
                          Minus(counter + k, timCnt) \in 0..M)
      BY DEF Minus
    <3> QED BY <3>1, <3>2 DEF k, Accepted, Count
  <2>2. pending' \in BOOLEAN /\ overlap' \in BOOLEAN /\ swallowed' \in BOOLEAN
    BY <1>4 DEF Eye2
  <2> QED BY <1>4, <2>1, <2>2 DEF Eye2
<1>5. CASE Repair
  BY <1>5 DEF Repair
<1>6. CASE UNCHANGED vars
  BY <1>6 DEF vars
<1> QED BY <1>1, <1>2, <1>3, <1>4, <1>5, <1>6 DEF Next

LEMMA ClockNext == Inv /\ [Next]_vars => ClockAgrees'
<1> SUFFICES ASSUME Inv, [Next]_vars, extid' = 1, elapsed' < Horizon
             PROVE  timCnt' + elapsed' =
                      counter' + M * (timUpdates' + Bit(pending)' - Bit(overlap)')
  BY DEF ClockAgrees
<1> USE TimerAssumption DEF Inv, TypeOK
<1>1. CASE Tick
  <2>1. extid = 1 /\ elapsed < Horizon /\ elapsed' = elapsed + 1
    BY <1>1 DEF Tick
  <2> DEFINE k == timUpdates + Bit(pending) - Bit(overlap)
  <2>2. k \in Int
    BY DEF Bit
  <2>3. timCnt + elapsed = counter + M * k
    BY <2>1 DEF ClockAgrees
  <2>4. CASE counter + 1 = M
    <3>0. ~(counter < Latency)
      BY <2>4
    <3>1. ~pending /\ pending' /\ counter' = 0
      <4>1. ~pending
        BY <1>1, <3>0 DEF Tick
      <4>2. pending'
        BY <1>1, <2>4 DEF Tick
      <4>3. counter' = 0
        BY <1>1, <2>4, NextCounter DEF Tick
      <4> QED BY <4>1, <4>2, <4>3
    <3>2. timUpdates' + Bit(pending)' - Bit(overlap)' = k + 1
      BY <1>1, <3>1 DEF Tick, Bit
    <3>3. M * (k + 1) = M * k + M /\ M * k \in Int
      BY <2>2, OneMoreWrap
    <3> HIDE DEF k
    <3> QED BY <1>1, <2>1, <2>3, <2>4, <3>1, <3>2, <3>3 DEF Tick
  <2>5. CASE counter + 1 # M
    <3>1. counter' = counter + 1 /\ pending' = pending
      BY <1>1, <2>5, NextCounter DEF Tick
    <3>2. timUpdates' + Bit(pending)' - Bit(overlap)' = k
      BY <1>1, <3>1 DEF Tick, Bit
    <3>3. M * k \in Int
      BY <2>2, OneMoreWrap
    <3> HIDE DEF k
    <3> QED BY <1>1, <2>1, <2>3, <3>1, <3>2, <3>3 DEF Tick
  <2> QED BY <2>4, <2>5
<1>2. CASE TIM2_IRQHandler
  <2>1. extid = 1 /\ timUpdates' = timUpdates + 1 /\ pending /\ ~pending'
    BY <1>2 DEF TIM2_IRQHandler
  <2>2. timUpdates' + Bit(pending)' - Bit(overlap)' = timUpdates + Bit(pending) - Bit(overlap)
    BY <1>2, <2>1 DEF TIM2_IRQHandler, Bit
  <2>3. timCnt' = timCnt /\ elapsed' = elapsed /\ counter' = counter
    BY <1>2, <2>1 DEF TIM2_IRQHandler
  <2> QED BY <2>1, <2>2, <2>3 DEF ClockAgrees
<1>3. CASE Eye1
  <2>1. CASE repair_flag = 1
    BY <1>3, <2>1 DEF Eye1, ClockAgrees, Bit
  <2>2. CASE repair_flag # 1
    <3>1. timUpdates' + Bit(pending)' - Bit(overlap)' = 0
      BY <1>3, <2>2 DEF Eye1, Bit
    <3>2. M * 0 = 0
      BY OneMoreWrap
    <3> QED BY <1>3, <2>2, <3>1, <3>2 DEF Eye1
  <2> QED BY <2>1, <2>2
<1>4. CASE Eye2
  <2>1. UNCHANGED <<counter, pending, timUpdates, extid, timCnt, elapsed, overlap>>
    BY <1>4 DEF Eye2
  <2> QED BY <2>1 DEF ClockAgrees, Bit
<1>5. CASE Repair
  BY <1>5 DEF Repair, ClockAgrees, Bit
<1>6. CASE UNCHANGED vars
  BY <1>6 DEF vars, ClockAgrees, Bit
<1> QED BY <1>1, <1>2, <1>3, <1>4, <1>5, <1>6 DEF Next

(* Only an event leaves extid = 1 behind, or makes it so. *)
LEMMA SuccessionNext == Inv /\ [Next]_vars => InSuccession'
<1> SUFFICES ASSUME Inv, [Next]_vars PROVE InSuccession'
  OBVIOUS
<1> USE DEF Inv, TypeOK, InSuccession
<1>1. CASE Tick
  BY <1>1, Zenon DEF Tick
<1>2. CASE TIM2_IRQHandler
  <2>1. extid' = extid \/ extid' = 0
    BY <1>2 DEF TIM2_IRQHandler
  <2>2. UNCHANGED <<lastEye, swallowed>>
    BY <1>2 DEF TIM2_IRQHandler
  <2> QED BY <2>1, <2>2
<1>3. CASE Eye1
  BY <1>3, Zenon DEF Eye1
<1>4. CASE Eye2
  <2>1. CASE repair_flag = 1
    BY <1>4, <2>1, Zenon DEF Eye2
  <2>2. CASE repair_flag # 1
    BY <1>4, <2>2 DEF Eye2
  <2> QED BY <2>1, <2>2
<1>5. CASE Repair
  BY <1>5, Zenon DEF Repair
<1>6. CASE UNCHANGED vars
  BY <1>6, Zenon DEF vars
<1> QED BY <1>1, <1>2, <1>3, <1>4, <1>5, <1>6 DEF Next

(* The inductive invariant: types, clock and succession. *)
THEOREM InvHolds == Spec => []Inv
<1>1. Inv /\ [Next]_vars => Inv'
  BY TypeNext, ClockNext, SuccessionNext DEF Inv
<1> QED BY InitInv, <1>1, PTL DEF Spec

(* timUpdates stays below its limit and a speed is less than a turn of the *)
(* counter, whatever the eyes and the overflow interrupt do.               *)
THEOREM TypesHold == Spec => []TypeOK
<1>1. Inv => TypeOK
  BY DEF Inv
<1> QED BY <1>1, InvHolds, PTL

(* The elapsed time is what counter, timCnt and the wraps say. *)
THEOREM ClockTheorem == Spec => []ClockAgrees
<1>1. Inv => ClockAgrees
  BY DEF Inv
<1> QED BY <1>1, InvHolds, PTL

(* Eye 2 measures from the event right before it, or from an older one if  *)
(* the repair mode ignored that event (timExti.c:137 and 189).             *)
THEOREM SuccessionTheorem == Spec => []InSuccession
<1>1. Inv => InSuccession
  BY DEF Inv
<1> QED BY <1>1, InvHolds, PTL

(* A measurement between two eyes at which no overflow was pending. *)
LEMMA ServedMeasurement ==
  ASSUME Inv, Measures, ~pending, ~overlap, elapsed < Horizon
  PROVE  /\ Accepted <=> elapsed <= M
         /\ Accepted => speed' = elapsed - timUpdates
<1> USE TimerAssumption DEF Inv, TypeOK
<1>1. timCnt + elapsed = counter + M * timUpdates
  <2>1. timUpdates + Bit(pending) - Bit(overlap) = timUpdates
    BY DEF Bit
  <2> QED BY <2>1 DEF ClockAgrees, Measures
<1>2. Accepted => speed' = Count
  BY DEF Measures, Eye2
<1>3. CASE timUpdates = 0
  <2>1. M * timUpdates = 0 /\ (M - 1) * timUpdates = 0
    BY <1>3, OneMoreWrap
  <2>2. elapsed = counter - timCnt
    BY <1>1, <2>1
  <2>3. Count = elapsed
    BY <2>1, <2>2 DEF Count, Minus
  <2> QED BY <1>2, <1>3, <2>2, <2>3 DEF Accepted
<1>4. CASE timUpdates = 1
  <2>1. M * timUpdates = M /\ (M - 1) * timUpdates = M - 1
    BY <1>4, OneMoreWrap
  <2>2. elapsed = counter + M - timCnt
    BY <1>1, <2>1
  <2>3. Count = elapsed - 1
    BY <2>1, <2>2 DEF Count, Minus
  <2> QED BY <1>2, <1>4, <2>2, <2>3 DEF Accepted
<1>5. CASE timUpdates >= 2
  <2>1. M * timUpdates >= 2 * M /\ M * timUpdates \in Int
    BY <1>5, OneMoreWrap
  <2>2. elapsed > M
    BY <1>1, <2>1
  <2> QED BY <1>5, <2>2 DEF Accepted
<1> QED BY <1>3, <1>4, <1>5

(* With the overflow interrupt served at both eyes the controller accepts  *)
(* exactly the times up to one full turn of the counter, and reports them  *)
(* one tick short if the counter wrapped.                                  *)
THEOREM ExactTheorem == Spec => ExactWhenServed
<1>1. Inv => [(Measures /\ ~pending /\ ~overlap /\ elapsed < Horizon) =>
                /\ Accepted <=> elapsed <= M
                /\ Accepted => speed' = elapsed - timUpdates]_vars
  BY ServedMeasurement
<1> QED BY <1>1, InvHolds, PTL DEF ExactWhenServed

(* An accepted measurement, whatever is pending at the eyes. *)
LEMMA AcceptedMeasurement ==
  ASSUME Inv, Measures, Accepted, elapsed < Horizon
  PROVE  speed' + timUpdates + M * (Bit(pending) - Bit(overlap)) = elapsed
<1> USE TimerAssumption DEF Inv, TypeOK
<1> DEFINE b == Bit(pending) - Bit(overlap)
<1>1. b \in {-1, 0, 1} /\ timUpdates + Bit(pending) - Bit(overlap) = timUpdates + b
  BY DEF Bit
<1>2. timCnt + elapsed = counter + M * (timUpdates + b)
  BY <1>1 DEF ClockAgrees, Measures
<1>3. speed' = Count /\ timUpdates \in {0, 1} /\ Count <= M - 1
  BY DEF Measures, Eye2, Accepted
<1> HIDE DEF b
<1>4. Count = counter + (M - 1) * timUpdates - timCnt
  <2>1. CASE timUpdates = 0
    <3>1. (M - 1) * timUpdates = 0
      BY <2>1, OneMoreWrap
    <3> QED BY <1>3, <3>1 DEF Count, Minus
  <2>2. CASE timUpdates = 1
    <3>1. (M - 1) * timUpdates = M - 1
      BY <2>2, OneMoreWrap
    <3> QED BY <1>3, <3>1 DEF Count, Minus
  <2> QED BY <1>3, <2>1, <2>2
<1>5. M * (timUpdates + b) = M * b + (M - 1) * timUpdates + timUpdates /\ M * b \in Int
  <2>1. CASE timUpdates = 0
    BY <1>1, <2>1, OneMoreWrap
  <2>2. CASE timUpdates = 1
    BY <1>1, <2>2, OneMoreWrap
  <2> QED BY <1>3, <2>1, <2>2
<1>6. speed' + timUpdates + M * b = elapsed
  BY <1>2, <1>3, <1>4, <1>5
<1> QED BY <1>6 DEF b

(* Whatever is pending, an accepted measurement is wrong by one turn of    *)
(* the counter or not at all (timExti.c:194, stm32f10x_it.c:134-148).      *)
THEOREM ErrorTheorem == Spec => ErrorIsOneTurn
<1>1. Inv => [(Measures /\ Accepted /\ elapsed < Horizon) =>
                speed' + timUpdates + M * (Bit(pending) - Bit(overlap)) = elapsed]_vars
  BY AcceptedMeasurement
<1> QED BY <1>1, InvHolds, PTL DEF ErrorIsOneTurn
=============================================================================
