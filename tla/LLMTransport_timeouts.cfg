\* A response that times out is raised, not retried.
SPECIFICATION FairSpec
CONSTANTS
  Retries = 1
  Statuses = {429}
INVARIANTS
  TimeoutsAreRetried
CHECK_DEADLOCK FALSE
