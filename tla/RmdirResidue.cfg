SPECIFICATION Spec
CONSTANTS
  Name <- MCName
  Path <- MCPath
  File <- MCFile
  Trees <- MCTrees
  Envs <- CleanEnvs
  MaxCreated = 0
INVARIANT SuccessRemovesTop
CHECK_DEADLOCK FALSE
