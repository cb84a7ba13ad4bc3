SPECIFICATION Spec
CONSTANTS
  Name <- MCName
  Path <- MCPath
  File <- MCFile
  Trees <- MCTrees
  Envs <- MCEnvs
  MaxCreated = 1
INVARIANTS
  TypeOK
  MissingIsExact
  NoDanglingStep
  FreesOnlyHeap
  QuietAfterCallback
PROPERTIES
  RefinesRemoval
  ReturnsIfRemovable
\* the operation ends with its callback, and may stall on a path too long
CHECK_DEADLOCK FALSE
