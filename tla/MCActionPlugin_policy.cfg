\* Every combination of layers, overrides and calls of the instance.
SPECIFICATION Spec
CONSTANTS
  COLLECTION_DEFAULT_RULES <- Defaults
  Inventories <- MCInventories
  TaskArgs <- MCTaskArgs
  Calls <- MCCalls
INVARIANTS
  TypeOK
  NothingUnpermittedRuns
  PermittedCallsRun
  TargetNeverRefuses
  BudgetFromHighest
CHECK_DEADLOCK FALSE
