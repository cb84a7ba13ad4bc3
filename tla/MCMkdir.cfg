SPECIFICATION Spec
CONSTANTS
  Name <- MCName
  Path <- MCPath
  File <- MCFile
  Targets <- MCTargets
  Req = {r1, r2}
  Trees <- MCTrees
  Denials <- MCDenials
  MaxOthers = 1
INVARIANTS
  TypeOK
  CutsAreContiguous
  SuccessMeansDirectory
  FailureHasCause
PROPERTY
  Returns
\* both calls may have returned
CHECK_DEADLOCK FALSE
