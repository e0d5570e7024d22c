SPECIFICATION Spec
CONSTANTS
  a = a
  b = b
  N = 4
  W = 2
  Val <- MCVal
  Zero = a
INVARIANTS
  TypeOK
  PointerGood
PROPERTY
  ImplementsFifo
