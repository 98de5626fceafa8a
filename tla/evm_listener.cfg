SPECIFICATION FairSpec
CONSTANTS
  Modulus = 16
  MaxConcurrency = 10
  StartAt = 1
  Workers = 2
  FinalityBlock = 1
  Retries = 1
  Active = {1, 2, 4}
  FirstHead = 2
  LastHead = 4
  MaxRestarts = 1
  None = None
\* A listener that has returned does nothing any more.
CHECK_DEADLOCK FALSE
INVARIANTS TypeOK Buried AloneOwnLogs
PROPERTIES HandsOverInOrder EventuallyHanded
