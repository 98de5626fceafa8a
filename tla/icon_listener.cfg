SPECIFICATION TimelySpec
CONSTANTS
  Modulus = 16
  MaxConcurrency = 10
  StartAt = 1
  Cap = 2
  Retries = 1
  Active = {2}
  Monitors = {1, 2}
  FirstHead = 2
  LastHead = 3
  MaxBreaks = 1
  MaxRestarts = 1
  None = None
\* A listener that has returned does nothing any more.
CHECK_DEADLOCK FALSE
INVARIANTS TypeOK
PROPERTIES HandsOverInOrder NeverIdle
