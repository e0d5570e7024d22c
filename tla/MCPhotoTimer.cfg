SPECIFICATION Spec
CONSTANTS
  M = 4
  MaxUpdates = 3
  U32 = 64
  Latency = 1
  Horizon = 20
INVARIANTS
  TypeOK
  ClockAgrees
  InSuccession
PROPERTIES
  ExactWhenServed
  ErrorIsOneTurn
