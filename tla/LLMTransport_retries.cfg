\* Three retries; statuses of both kinds.
SPECIFICATION FairSpec
CONSTANTS
  Retries = 3
  Statuses = {404, 408, 425, 429, 500, 501, 503}
INVARIANTS
  OnlyRecoverableRetried
  GivesUpOnlyAtTheEnd
  NeverFallsThrough
  BackoffBounded
PROPERTIES
  RequestEnds
CHECK_DEADLOCK FALSE
