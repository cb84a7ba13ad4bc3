SPECIFICATION Spec
CONSTANTS
  Req = {r1, r2, r3}
  Path = {a, b, c}
  Temp = {t1, t2, t3}
  Missing = Missing
  Blank = Blank
  MaxCalls = 3
  MaxFaults = 1
SYMMETRY Symmetry
INVARIANT
  NothingLost
PROPERTY
  RefinesExchange
\* the program stops when it has made its calls
CHECK_DEADLOCK FALSE
