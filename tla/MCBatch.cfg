SPECIFICATION Spec
CONSTANTS
  Jobs <- MCJobs
  FileSize <- MCFileSize
  SizeMax = 255
  MaxFaults = 2
INVARIANTS
  TypeOK
  RequestIsNextRun
  NoMisplacedByte
  AnsweredReadIsComplete
  LenCountsBytes
  SuccessIsFinal
PROPERTY
  Returns
\* the batch ends
CHECK_DEADLOCK FALSE
