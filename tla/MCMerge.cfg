SPECIFICATION Spec
CONSTANTS
  Name <- MCName
  Path <- MCPath
  File <- MCFile
  BaseTrees <- MCBase
  OntoTrees <- MCOnto
  Envs <- MCEnvs
  MaxTouched = 1
INVARIANTS
  TypeOK
  MissingIsExact
  QuietAfterCallback
  MergeableIsMerged
PROPERTIES
  RefinesMerge
  ReturnsIfJoinable
\* the operation ends with its callback, and may stall on a path too long
CHECK_DEADLOCK FALSE
