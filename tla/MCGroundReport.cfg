SPECIFICATION Spec
CONSTANTS
  MaxCar = 3
  MaxRx = 1
  MsgLen = 5
  CarLen = 3
  StateCap = 2
  IntervalCap = 2
  ThreeCap = 2
  HeartDelay = 1
INVARIANTS
  TypeOK
  NoReportLost
  MirrorComplete
PROPERTY
  InOrder
