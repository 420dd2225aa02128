\* What the repository says and run_agent does not do: MalformedCallsAreRejected.
SPECIFICATION FairProviderSpec
CONSTANTS
  MaxIterations = 2
  MaxTokens = 100
  MaxReply = 1
  NoCall = NoCall
  c1 = "c1"
  c2 = "c2"
  Offered <- MCOffered
  CallIds <- MCCallIds
  Completions <- MCCompletions
  Replies <- MCReplies
PROPERTY
  MalformedCallsAreRejected
CHECK_DEADLOCK FALSE
