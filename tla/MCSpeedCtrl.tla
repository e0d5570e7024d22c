----------------------------- MODULE MCSpeedCtrl -----------------------------
(* SpeedCtrl with the parameters of speed_ctrl.c: 1 m/s, or more with a    *)
(* standard_hz, gains 10, 5 and 40 (speed_ctrl.c:24), and speed_factor so  *)
(* that the first frequency is near the right one.  One standard_hz is     *)
(* above the inverter's range: nothing in the code limits it.              *)
EXTENDS SpeedCtrl

Para(target, second) ==
  [kp |-> 10, ki |-> 5, kd |-> 40, target |-> target, factor |-> 1450, second |-> second]
MCParas == {Para(1000, 0), Para(1050, 1600), Para(1000, 6000)}
MCStarts == {1380, 2400}
MCGlitches == {NoTime, 1900}
=============================================================================
