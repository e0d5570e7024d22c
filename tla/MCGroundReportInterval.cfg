SPECIFICATION FairSpec
CONSTANTS
  MaxCar = 2
  MaxRx = 0
  MsgLen = 8
  CarLen = 3
  StateCap = 2
  IntervalCap = 2
  ThreeCap = 2
  HeartDelay = 1
PROPERTY
  IntervalEventuallySent
