\* Long conversations with every provider: the token budget is out of the way.
SPECIFICATION ProviderSpec
CONSTANTS
  MaxIterations = 4
  MaxTokens = 100
  MaxReply = 1
  NoCall = NoCall
  c1 = "c1"
  c2 = "c2"
  Offered <- MCOffered
  CallIds <- MCCallIds
  Completions <- MCCompletions
  Replies <- MCReplies
INVARIANTS
  TypeOK
  ConversationWellFormed
  ToldAsRecorded
  EffectsRecorded
  TwoBadTurnsAbort
  OpenAIAccepts
  OllamaReadsBack
PROPERTIES
  TextModelsCannotCrash
CHECK_DEADLOCK FALSE
