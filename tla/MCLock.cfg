SPECIFICATION Spec
CONSTANTS
  h1 = h1
  h2 = h2
  h3 = h3
  Handle <- MCHandle
  Region <- MCRegion
  MaxByte = 2
  Workers = 2
  MaxCalls = 4
  MaxFaults = 1
INVARIANTS
  TypeOK
  GrantIsHeld
  Exclusion
  ConversionKeepsLock
  DeadlockHasCause
PROPERTY
  Answered
\* the program stops when it has made its calls
CHECK_DEADLOCK FALSE
