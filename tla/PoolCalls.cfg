SPECIFICATION FairSpec
CONSTANTS
  Job = {j1, j2}
  Prewarm = {j2}
  MaxWorkers = 2
  MaxJobs = 1
INVARIANTS WorkersAreSafe
PROPERTIES ImplementsCall LeavingEnds
CHECK_DEADLOCK FALSE
