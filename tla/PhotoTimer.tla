----------------------------- MODULE PhotoTimer -----------------------------
(***************************************************************************)
(* How the controller measures the line speed: TIM_EXTI_Process takes the  *)
(* TIM2 counter when a car interrupts photo eye 1 and again at photo eye   *)
(* 2; TIM2_IRQHandler counts the wraps of the counter in timUpdates.  The  *)
(* difference, in ticks, is the speed report and the input of the PID.     *)
(*                                                                         *)
(* The counter wraps by itself and only RAISES the overflow interrupt.     *)
(* All interrupts share preemption priority 0 and the photo eyes have the  *)
(* better sub-priority, so a photo eye that fires while the overflow is    *)
(* pending is served first and reads a wrapped counter with an old         *)
(* timUpdates.                                                             *)
(*                                                                         *)
(* What happens to the output frequency in the same handlers is in         *)
(* LineControl.                                                            *)
(***************************************************************************)
EXTENDS Integers

CONSTANTS M,          \* ticks per wrap: 16#10000 (TIM_Period 65535)
          MaxUpdates, \* the 16#FFFF of TIM2_IRQHandler
          U32,        \* the modulus of the u32 arithmetic: 2^32
          Latency,    \* ticks an overflow can stay pending
          Horizon     \* bound of the history clock

ASSUME TimerAssumption ==
  /\ M \in Nat /\ M >= 2
  /\ MaxUpdates \in Nat /\ MaxUpdates >= 2
  /\ U32 \in Nat /\ U32 > 4 * M
  /\ Latency \in Nat /\ Latency < M
  /\ Horizon \in Nat /\ Horizon > 3 * M

None == M       \* "no measurement yet": no count that is accepted equals it

VARIABLES
  counter,     \* TIM2->CNT
  pending,     \* TIM2 update interrupt raised and not served
  timUpdates,
  extid,       \* timExtiHandler.extid: the eye of the last accepted event
  timCnt,      \* timExtiHandler.timCnt
  repair_flag,
  speed,       \* gnd2WcsCmdData.speed, None before the first measurement
  elapsed,     \* history: ticks since eye 1 last started a measurement,
               \* up to Horizon
  overlap,     \* history: an overflow was pending at that start
  lastEye,     \* history: the eye the last car interrupted, 0 if none
  swallowed    \* history: the repair mode has ignored an event since the
               \* last one that was processed

vars == <<counter, pending, timUpdates, extid, timCnt, repair_flag, speed, elapsed,
          overlap, lastEye, swallowed>>

Init == /\ counter = 0 /\ pending = FALSE /\ timUpdates = 0
        /\ extid = 0 /\ timCnt = 0 /\ repair_flag = 0
        /\ speed = None
        /\ elapsed = 0 /\ overlap = FALSE /\ lastEye = 0 /\ swallowed = FALSE

----------------------------------------------------------------------------
(* Mutants. *)

(* timExtiRst forgets timUpdates. *)
Eye1KeepsUpdates ==
  /\ lastEye' = 1 /\ swallowed' = (repair_flag = 1)
  /\ IF repair_flag = 1
       THEN UNCHANGED <<extid, timCnt, elapsed, overlap>>
       ELSE /\ extid' = 1
            /\ timCnt' = counter
            /\ elapsed' = 0
            /\ overlap' = pending
  /\ UNCHANGED <<counter, pending, timUpdates, repair_flag, speed>>

(* timUpdates is not bounded by 16#FFFF. *)
TIM2_IRQHandlerNoLimit ==
  /\ pending
  /\ pending' = FALSE
  /\ timUpdates' = timUpdates + 1
  /\ UNCHANGED <<counter, extid, timCnt, repair_flag, speed, elapsed, overlap, lastEye,
                 swallowed>>

----------------------------------------------------------------------------
(* TIM2.  A pending overflow is served before Latency ticks have passed. *)
Tick == /\ pending => counter < Latency
        /\ counter' = (counter + 1) % M
        /\ pending' = (pending \/ counter + 1 = M)
        /\ elapsed' = IF elapsed < Horizon THEN elapsed + 1 ELSE elapsed
        /\ UNCHANGED <<timUpdates, extid, timCnt, repair_flag, speed, overlap, lastEye,
                       swallowed>>

(* TIM2_IRQHandler: after 16#FFFF wraps the measurement is given up. *)
TIM2_IRQHandler ==
  /\ pending
  /\ pending' = FALSE
  /\ IF timUpdates + 1 >= MaxUpdates
       THEN timUpdates' = 0 /\ extid' = 0 /\ timCnt' = 0
       ELSE timUpdates' = timUpdates + 1 /\ UNCHANGED <<extid, timCnt>>
  /\ UNCHANGED <<counter, repair_flag, speed, elapsed, overlap, lastEye,
                 swallowed>>

----------------------------------------------------------------------------
(* Subtraction of u32 values. *)
Minus(a, b) == IF b <= a THEN a - b ELSE a - b + U32

(* cnt of TIM_EXTI_Process: a wrap is taken for 16#FFFF ticks. *)
Count == Minus(counter + (M - 1) * timUpdates, timCnt)

(* Mutant: one wrap is not accepted any more. *)
AcceptedNoWrap == timUpdates < 1 /\ Count <= M - 1

(* The measurement counts. *)
Accepted == timUpdates <= 1 /\ Count <= M - 1

(* TIM_EXTI_Process(1): in every case timExtiRst. *)
Eye1 == /\ lastEye' = 1 /\ swallowed' = (repair_flag = 1)
        /\ IF repair_flag = 1
             THEN UNCHANGED <<timUpdates, extid, timCnt, elapsed, overlap>>
             ELSE /\ timUpdates' = 0
                  /\ extid' = 1
                  /\ timCnt' = counter
                  /\ elapsed' = 0
                  /\ overlap' = pending
        /\ UNCHANGED <<counter, pending, repair_flag, speed>>

(* Mutant: the end of a measurement does not move extid on. *)
Eye2KeepsEye ==
  /\ lastEye' = 2 /\ swallowed' = (repair_flag = 1)
  /\ IF repair_flag = 1 \/ extid # 1
       THEN UNCHANGED <<timUpdates, timCnt, speed>>
       ELSE /\ timUpdates' = 0
            /\ timCnt' = counter
            /\ speed' = IF Accepted THEN Count ELSE speed
  /\ UNCHANGED <<counter, pending, extid, repair_flag, elapsed, overlap>>

(* TIM_EXTI_Process(2): only the eye after the one of the last event       *)
(* measures; any other sequence gives the measurement up.                  *)
Eye2 == /\ lastEye' = 2 /\ swallowed' = (repair_flag = 1)
        /\ IF repair_flag = 1 \/ extid = 0
             THEN UNCHANGED <<timUpdates, extid, timCnt, speed>>
             ELSE IF extid + 1 = 2
                    THEN /\ timUpdates' = 0
                         /\ extid' = 2
                         /\ timCnt' = counter
                         /\ speed' = IF Accepted THEN Count ELSE speed
                    ELSE /\ extid' = 0
                         /\ UNCHANGED <<timUpdates, timCnt, speed>>
        /\ UNCHANGED <<counter, pending, repair_flag, elapsed, overlap>>

(* recv_msg_process and repair_car_para_init set and clear the repair      *)
(* mode, repairLocationCtrl clears it.                                     *)
Repair == /\ repair_flag' = 1 - repair_flag
          /\ UNCHANGED <<counter, pending, timUpdates, extid, timCnt, speed, elapsed,
                         overlap, lastEye, swallowed>>

Next == Tick \/ TIM2_IRQHandler \/ Eye1 \/ Eye2 \/ Repair

Spec == Init /\ [][Next]_vars
----------------------------------------------------------------------------
TypeOK == /\ counter \in 0..(M - 1) /\ pending \in BOOLEAN
          /\ timUpdates \in 0..(MaxUpdates - 1)
          /\ extid \in 0..2 /\ timCnt \in 0..(M - 1)
          /\ repair_flag \in {0, 1}
          /\ speed \in 0..M
          /\ elapsed \in 0..Horizon /\ overlap \in BOOLEAN /\ lastEye \in 0..2
          /\ swallowed \in BOOLEAN

(* The wraps TIM2_IRQHandler has counted since eye 1, and the one it has   *)
(* not, tell the time elapsed; an overflow that was pending when eye 1     *)
(* fired is counted although it happened before.                           *)
Bit(b) == IF b THEN 1 ELSE 0
ClockAgrees ==
  (extid = 1 /\ elapsed < Horizon) =>
    timCnt + elapsed = counter + M * (timUpdates + Bit(pending) - Bit(overlap))

(* An eye-2 event that completes a measurement. *)
Measures == Eye2 /\ repair_flag = 0 /\ extid = 1

(* With the overflow interrupt served at both eyes, a measurement is taken *)
(* if and only if at most M ticks have passed, and it is exact, or one     *)
(* tick short when the counter wrapped in between (0xFFFF for 0x10000).    *)
(* A reset of extid by TIM2_IRQHandler and the histories' bound aside.     *)
ExactWhenServed ==
  [][(Measures /\ ~pending /\ ~overlap /\ elapsed < Horizon) =>
       /\ Accepted <=> elapsed <= M
       /\ Accepted => speed' = elapsed - timUpdates]_vars

(* speed_ctrl.c:182: pe_time is "the time between the two photo eyes".     *)
(* Where an overflow is pending at one of the eyes that is not so, but an  *)
(* accepted measurement is never wrong by anything else: by one turn of    *)
(* the counter too little if the overflow waits at eye 2, by one too much  *)
(* if it waited at eye 1.                                                  *)
ErrorIsOneTurn ==
  [][(Measures /\ Accepted /\ elapsed < Horizon) =>
       speed' + timUpdates + M * (Bit(pending) - Bit(overlap)) = elapsed]_vars

(* timExti.c:189: "must be two photo eyes in succession".  An eye-2 event  *)
(* is paired with the event right before it, unless the repair mode        *)
(* (timExti.c:137) ignored that one and left an older eye 1 standing.      *)
InSuccession == extid = 1 => lastEye = 1 \/ swallowed
=============================================================================
