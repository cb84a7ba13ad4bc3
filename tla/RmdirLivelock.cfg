SPECIFICATION Spec
CONSTANTS
  Name <- MCName
  Path <- MCPath
  File <- MCFile
  Trees <- MCTrees
  Envs <- DeniedEnvs
  MaxCreated = 0
PROPERTY Returns
CHECK_DEADLOCK FALSE
