SPECIFICATION Spec
CONSTANTS
  Name <- MCName
  Path <- MCPath
  File <- MCFile
  Targets <- MCTargets
  Req = {r1, r2}
  Trees <- EmptyTree
  Denials <- Permitted
  MaxOthers = 0
INVARIANT SucceedsUnhindered
CHECK_DEADLOCK FALSE
