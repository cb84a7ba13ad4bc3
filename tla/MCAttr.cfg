SPECIFICATION Spec
CONSTANTS
  r1 = r1
  r2 = r2
  a = a
  b = b
  short = short
  long = long
  Empty = Empty
  Absent = Absent
  Req <- ReqDef
  Name <- NameDef
  Value <- ValueDef
  Size <- SizeDef
  MaxCalls = 3
  MaxFaults = 1
  MaxLags = 1
SYMMETRY Symmetry
INVARIANTS
  TypeOK
  GetIsTrue
  ListIsTrue
  ErrorHasCause
  FreesOnlyOwn
\* the program stops when it has made its calls
CHECK_DEADLOCK FALSE
