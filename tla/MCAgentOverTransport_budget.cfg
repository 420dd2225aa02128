\* The token budget is met exactly, exceeded, and not reached; requests fail,
\* are retried once and lose their replies.
SPECIFICATION FairAgentSpec
CONSTANTS
  MaxIterations = 3
  MaxTokens = 4
  MaxReply = 3
  NoCall = NoCall
  Retries = 1
  Statuses = {404, 429}
  c1 = c1
  c2 = c2
  CallIds = {c1, c2}
  Sorts = {"runs", "not_offered", "not_a_dict", "done"}
  MaxCalls = 1
  Tokens = {0, 1, 2, 3}
  ReplyTexts = {"empty", "prose"}
  Offered <- MCOffered
  Completions <- MCCompletions
INVARIANTS
  AttemptsBounded
  OverspendBounded
  DiagnosisExplained
  RoundTripAccounting
PROPERTIES
  NoEffectOverBudget
  RunEnds
  Implements
CHECK_DEADLOCK FALSE
