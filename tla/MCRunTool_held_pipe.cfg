\* A descendant that keeps the pipes keeps the call.
SPECIFICATION FairToolSpec
CONSTANTS
  Cap = 3
  ChunkSize = 2
  PipeSize = 1
  OutBytes = {0}
  ErrBytes = {0}
  LateBytes = {0}
  Workloads <- MCWorkloads
  Targets <- MCTargets
PROPERTIES
  TimeoutEndsTheCall
CHECK_DEADLOCK FALSE
