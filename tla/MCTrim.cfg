SPECIFICATION TrimSpec
CONSTANTS
  Align = 4
  MaxSize = 11
  MaxOthers = 2
  MaxFailures = 1
INVARIANT
  TrimIsTrue
PROPERTY
  KeepsRest
\* the call ends
CHECK_DEADLOCK FALSE
