SPECIFICATION Spec
CONSTANTS
  m = m
  i = i
  None = None
  N = 5
  MainMsg <- MCMainMsg
  IsrMsg <- MCIsrMsg
INVARIANT
  TypeOK
PROPERTY
  TokensKept
