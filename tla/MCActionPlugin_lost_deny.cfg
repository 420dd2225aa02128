\* A deny of group_vars that host_vars shadows.
SPECIFICATION Spec
CONSTANTS
  COLLECTION_DEFAULT_RULES <- Defaults
  Inventories <- ShadowingInventories
  TaskArgs <- MCTaskArgs
  Calls <- MCCalls
INVARIANTS
  DenyWinsAcrossSources
CHECK_DEADLOCK FALSE
