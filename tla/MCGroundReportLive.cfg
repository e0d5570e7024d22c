SPECIFICATION FairSpec
CONSTANTS
  MaxCar = 2
  MaxRx = 1
  MsgLen = 4
  CarLen = 3
  StateCap = 2
  IntervalCap = 2
  ThreeCap = 2
  HeartDelay = 1
PROPERTIES
  StateEventuallySent
  CarEventuallyFresh
  NeverSilent
