\* Output below, at and past the cap on one stream, below it on the other;
\* a descendant that writes late; every choice of isolation, both functions.
SPECIFICATION FairToolSpec
CONSTANTS
  Cap = 3
  ChunkSize = 2
  PipeSize = 1
  OutBytes = {0, 3, 5}
  ErrBytes = {0, 2}
  LateBytes = {0, 1}
  Workloads <- MCWorkloads
  Targets <- MCTargets
INVARIANTS
  ToolTypeOK
  CaptureComplete
  ResultIsFinal
  ScriptOutlivesInterpreter
  ScriptRemoved
PROPERTIES
  ToolEnds
  OutputNeverBlocks
  ReturnsOncePipesAreFree
CHECK_DEADLOCK FALSE
