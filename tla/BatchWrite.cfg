SPECIFICATION Spec
CONSTANTS
  Jobs <- SomeJobs
  FileSize <- MCFileSize
  SizeMax = 255
  MaxFaults = 0
INVARIANT AnsweredWriteIsComplete
CHECK_DEADLOCK FALSE
