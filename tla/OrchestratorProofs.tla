------------------------ MODULE OrchestratorProofs ------------------------
(***************************************************************************)
(* Theorems about run_agent for every iteration limit, token budget, set   *)
(* of offered tools and set of replies.                                    *)
(***************************************************************************)
EXTENDS Orchestrator, SequenceTheorems, WellFoundedInduction, TLAPS

(* Where the loop is tells more than the types: a run that has not ended   *)
(* has had at most one bad turn in a row, and the call the target is       *)
(* working on is a dispatchable one other than done.                       *)
ControlInv ==
  /\ pc # "returned" => consecutive_bad < MAX_CONSECUTIVE_BAD
  /\ pc = "exec" => /\ pending # <<>>
                    /\ Dispatchable(Head(pending))
                    /\ Head(pending).name # "done"

TypeInv == TypeOK /\ ControlInv

LEMMA CompletionType ==
  ASSUME NEW c \in Completions
  PROVE  /\ c.tool_calls \in Seq(ToolCall) /\ c.text \in Texts
         /\ c.tokens \in Nat /\ c.tokens <= MaxReply
BY OrchestratorAssumption DEF Completion

(* An assistant turn is a message, whatever calls it mirrors.              *)
LEMMA AssistantTurnType ==
  ASSUME NEW calls \in Seq(ToolCall), NEW text \in Texts
  PROVE  AssistantTurn(text, calls) \in Message
<1>1. DOMAIN calls = 1..Len(calls) /\ Len(calls) \in Nat
  BY LenProperties
<1>2. \A i \in 1..Len(calls) : calls[i] \in ToolCall
  BY ElementOfSeq
<1>3. \A i \in 1..Len(calls) : ToolUse(calls[i]) \in Block
  BY <1>2 DEF ToolUse, Block, ToolCall
<1>4. [i \in DOMAIN calls |-> ToolUse(calls[i])] \in Seq(Block)
  BY <1>1, <1>3, IsASeq
<1> QED BY <1>4 DEF AssistantTurn, Message

LEMMA ResultType ==
  ASSUME NEW tc \in ToolCall, NEW e \in BOOLEAN
  PROVE  ToolResult(tc, e) \in Block
BY DEF ToolResult, Block, ToolCall

LEMMA EntryType ==
  ASSUME TypeOK, NEW tc \in ToolCall, NEW e \in BOOLEAN,
         NEW k \in {"rejected", "executed", "done"}
  PROVE  CallEntry(k, tc, e) \in Entry
BY DEF CallEntry, Entry, TypeOK

LEMMA NoteType ==
  ASSUME NEW n \in Int, NEW k \in {"error", "text_only"}
  PROVE  Note(k, n) \in Entry
BY DEF Note, Entry

LEMMA TurnOverType ==
  ASSUME TurnOver
  PROVE  /\ pending' \in Seq(ToolCall) /\ tool_results' \in Seq(Block)
         /\ iter_had_good_call' \in BOOLEAN
<1>1. pending' \in Seq(ToolCall) /\ tool_results' \in Seq(Block)
  BY EmptySeq DEF TurnOver
<1>2. iter_had_good_call' \in BOOLEAN
  BY Zenon DEF TurnOver
<1> QED BY <1>1, <1>2

-----------------------------------------------------------------------------
LEMMA TypeInit == Init => TypeInv
<1> SUFFICES ASSUME Init PROVE TypeInv
  OBVIOUS
<1>1. Opening \in Message
  BY EmptySeq DEF Opening, Message, Texts
<1>2. messages \in Seq(Message)
  BY <1>1 DEF Init
<1>3. /\ transcript \in Seq(Entry) /\ pending \in Seq(ToolCall)
      /\ tool_results \in Seq(Block) /\ ran \in Seq(ToolCall)
  BY EmptySeq DEF Init
<1>4a. iter_had_good_call \in BOOLEAN
  BY Zenon DEF Init
<1>4. /\ pc \in PCs /\ diagnosis \in Diagnoses
      /\ iterations \in Nat /\ roundTrips \in Nat /\ spent \in Nat
      /\ consecutive_bad \in 0..MAX_CONSECUTIVE_BAD
  BY DEF Init, PCs, Diagnoses, MAX_CONSECUTIVE_BAD
<1>5. ControlInv
  BY DEF Init, ControlInv, MAX_CONSECUTIVE_BAD
<1> QED
  BY <1>2, <1>3, <1>4, <1>4a, <1>5 DEF TypeInv, TypeOK

LEMMA TypeStep == TypeInv /\ [Next]_vars => TypeInv'
<1> SUFFICES ASSUME TypeInv, [Next]_vars PROVE TypeInv'
  OBVIOUS
<1> USE DEF TypeInv, TypeOK, ControlInv, PCs, Diagnoses, MAX_CONSECUTIVE_BAD
<1>1. CASE ExhaustIterations
  BY <1>1 DEF ExhaustIterations, turn
<1>2. CASE StopOnBudget
  BY <1>2, NoteType DEF StopOnBudget, Stop, turn
<1>3. CASE AskModel
  BY <1>3 DEF AskModel, turn
<1>4. CASE ModelFails
  BY <1>4, NoteType DEF ModelFails, Stop, turn
<1>5. CASE ModelRaises
  BY <1>5 DEF ModelRaises, Raise, turn
<1>6. ASSUME NEW c \in Completions, OverBudgetReply(c) PROVE TypeInv'
  BY <1>6, CompletionType, NoteType DEF OverBudgetReply, Stop, turn
<1>7. ASSUME NEW c \in Completions, TextOnlyReply(c) PROVE TypeInv'
  <2>1. AssistantTurn(c.text, <<>>) \in Message
    BY EmptySeq, CompletionType, AssistantTurnType
  <2> QED BY <2>1, <1>7, CompletionType, NoteType DEF TextOnlyReply, Stop, turn
<1>8. ASSUME NEW c \in Completions, ToolReply(c) PROVE TypeInv'
  <2>1. AssistantTurn(c.text, c.tool_calls) \in Message
    BY CompletionType, AssistantTurnType
  <2>2. tool_results' \in Seq(Block) /\ pending' \in Seq(ToolCall)
    BY <1>8, CompletionType, EmptySeq DEF ToolReply
  <2>3. iter_had_good_call' \in BOOLEAN
    BY <1>8, Zenon DEF ToolReply
  <2> QED BY <2>1, <2>2, <2>3, <1>8, CompletionType DEF ToolReply
<1>9. CASE AtCall /\ (RejectCall \/ CrashOnInput \/ CallDone \/ DispatchCall)
  <2>1. Head(pending) \in ToolCall /\ Tail(pending) \in Seq(ToolCall)
    BY <1>9, HeadTailProperties DEF AtCall
  <2>2. CASE RejectCall
    <3>1. tool_results' \in Seq(Block)
      BY <2>1, <2>2, ResultType, AppendProperties DEF RejectCall, RejectionResults
    <3>2. transcript' \in Seq(Entry)
      BY <2>1, <2>2, EntryType, AppendProperties DEF RejectCall
    <3> QED BY <2>1, <2>2, <3>1, <3>2 DEF RejectCall, AtCall
  <2>3. CASE CrashOnInput
    BY <2>3 DEF CrashOnInput, Raise, turn, AtCall
  <2>4. CASE CallDone
    <3>1. transcript' \in Seq(Entry)
      BY <2>1, <2>4, EntryType, AppendProperties DEF CallDone, Stop
    <3> QED BY <2>4, <3>1, TurnOverType DEF CallDone, Stop
  <2>5. CASE DispatchCall
    BY <2>1, <2>5 DEF DispatchCall, turn, AtCall, Dispatchable
  <2> QED BY <1>9, <2>2, <2>3, <2>4, <2>5
<1>10. ASSUME NEW is_error \in BOOLEAN, ExecReturns(is_error) PROVE TypeInv'
  <2>1. Head(pending) \in ToolCall /\ Tail(pending) \in Seq(ToolCall)
    BY <1>10, HeadTailProperties DEF ExecReturns
  <2> QED BY <2>1, <1>10, ResultType, EntryType DEF ExecReturns, ExecutedTranscript
<1>11. CASE GiveUpOnModel
  <2>1. BadStreak \in 0..MAX_CONSECUTIVE_BAD
    BY <1>11 DEF GiveUpOnModel, TurnHandled, BadStreak
  <2>2. transcript' \in Seq(Entry)
    BY <1>11, NoteType, AppendProperties DEF GiveUpOnModel, Stop
  <2> QED BY <1>11, <2>1, <2>2, TurnOverType DEF GiveUpOnModel, Stop
<1>12. CASE ReportResults
  <2>1. UserTurn(tool_results) \in Message
    BY DEF UserTurn, Message, Texts
  <2>2. BadStreak \in 0..(MAX_CONSECUTIVE_BAD - 1)
    BY <1>12 DEF ReportResults, TurnHandled, BadStreak
  <2>3. messages' \in Seq(Message)
    BY <1>12, <2>1, AppendProperties DEF ReportResults
  <2> QED BY <1>12, <2>2, <2>3, TurnOverType DEF ReportResults
<1>13. CASE UNCHANGED vars
  BY <1>13 DEF vars, turn, Dispatchable
<1> QED
  BY <1>1, <1>2, <1>3, <1>4, <1>5, <1>6, <1>7, <1>8, <1>9, <1>10, <1>11, <1>12, <1>13
  DEF Next, AgentStep, ModelAnswers, Reply, TargetAnswers, RejectCall, CrashOnInput, CallDone,
      DispatchCall

LEMMA TypeInvariant == Spec => []TypeInv
BY TypeInit, TypeStep, PTL DEF Spec

(* Every variable of run_agent keeps its type, and consecutive_bad never   *)
(* passes the limit.                                                       *)
THEOREM TypeCorrect == Spec => []TypeOK
BY TypeInvariant, PTL DEF TypeInv

-----------------------------------------------------------------------------
(* Budgets.  What has been counted when the loop is at each of its points: *)
(* a question is only open below the token budget, and calls are only      *)
(* handled while the budget is not broken.                                 *)
AccountInv ==
  /\ pc # "returned" => iterations = roundTrips /\ diagnosis = "none"
  /\ pc = "head" => spent <= Positive(MaxTokens)
  /\ pc = "llm" => spent < MaxTokens
  /\ pc \in {"calls", "exec"} => spent <= MaxTokens
  /\ pc \in {"llm", "calls", "exec"} => MaxIterations > 0 /\ MaxTokens > 0
  /\ OverspendBounded
  /\ RoundTripAccounting

LEMMA AccountInit == Init => AccountInv
BY OrchestratorAssumption
   DEF Init, AccountInv, OverspendBounded, RoundTripAccounting, Positive

LEMMA AccountStep == TypeInv /\ AccountInv /\ [Next]_vars => AccountInv'
<1> SUFFICES ASSUME TypeInv, AccountInv, [Next]_vars PROVE AccountInv'
  OBVIOUS
<1>0. /\ MaxTokens \in Int /\ MaxIterations \in Int /\ MaxReply \in Nat
      /\ spent \in Nat /\ iterations \in Nat /\ roundTrips \in Nat /\ pc \in PCs
  BY OrchestratorAssumption DEF TypeInv, TypeOK
<1> USE <1>0 DEF AccountInv, OverspendBounded, RoundTripAccounting, Positive, PCs
<1>1. CASE ExhaustIterations
  BY <1>1 DEF ExhaustIterations, RangeExhausted
<1>2. CASE StopOnBudget
  BY <1>2 DEF StopOnBudget, Stop, TokensUsedUp
<1>3. CASE AskModel
  BY <1>3 DEF AskModel, TokensUsedUp, RangeExhausted
<1>4. CASE ModelFails
  BY <1>4 DEF ModelFails, Stop
<1>5. CASE ModelRaises
  BY <1>5 DEF ModelRaises, Raise
<1>6. ASSUME NEW c \in Completions,
             OverBudgetReply(c) \/ TextOnlyReply(c) \/ ToolReply(c)
      PROVE  AccountInv'
  <2>1. c.tokens \in Nat /\ c.tokens <= MaxReply
    BY CompletionType
  <2> QED
    BY <1>6, <2>1 DEF OverBudgetReply, TextOnlyReply, ToolReply, BreaksBudget, Stop
<1>7. CASE RejectCall \/ CrashOnInput \/ CallDone \/ DispatchCall
  BY <1>7 DEF RejectCall, CrashOnInput, CallDone, DispatchCall, AtCall, Raise, Stop
<1>8. ASSUME NEW is_error \in BOOLEAN, ExecReturns(is_error) PROVE AccountInv'
  BY <1>8 DEF ExecReturns
<1>9. CASE GiveUpOnModel \/ ReportResults
  BY <1>9 DEF GiveUpOnModel, ReportResults, TurnHandled, Stop
<1>10. CASE UNCHANGED vars
  BY <1>10 DEF vars
<1> QED
  BY <1>1, <1>2, <1>3, <1>4, <1>5, <1>6, <1>7, <1>8, <1>9, <1>10
  DEF Next, AgentStep, ModelAnswers, Reply, TargetAnswers

LEMMA AccountInvariant == Spec => []AccountInv
BY AccountInit, AccountStep, TypeInvariant, PTL DEF Spec

(* Zero or less for either budget ends the run before any call reaches the *)
(* target: what ActionPlugin takes of run_agent.                           *)
THEOREM DispatchNeedsBudgets ==
  Spec => [](pc = "exec" => MaxIterations > 0 /\ MaxTokens > 0)
<1>1. AccountInv => (pc = "exec" => MaxIterations > 0 /\ MaxTokens > 0)
  BY DEF AccountInv
<1> QED BY <1>1, AccountInvariant, PTL

(* The tokens counted exceed the budget by at most the last reply, because *)
(* a question is asked only below it.                                      *)
THEOREM OverspendIsBounded == Spec => []OverspendBounded
BY AccountInvariant, PTL DEF AccountInv

(* iterations_used equals the round trips, or is one more when the tokens  *)
(* were used up exactly; the round trips stay within max_iterations.       *)
THEOREM RoundTripsAccounted == Spec => []RoundTripAccounting
BY AccountInvariant, PTL DEF AccountInv

(* No call reaches the target once the counted tokens exceed the budget.   *)
THEOREM NoEffectOverBudgetHolds == Spec => NoEffectOverBudget
<1>1. AccountInv /\ [Next]_vars => [ran' # ran => spent <= MaxTokens]_vars
  <2> SUFFICES ASSUME AccountInv, [Next]_vars, ran' # ran PROVE spent <= MaxTokens
    OBVIOUS
  <2>1. DispatchCall
    BY DEF Next, AgentStep, ModelAnswers, Reply, TargetAnswers, vars, turn, ExhaustIterations,
           StopOnBudget, AskModel, ModelFails, ModelRaises, OverBudgetReply,
           TextOnlyReply, ToolReply, RejectCall, CrashOnInput, CallDone, ExecReturns,
           GiveUpOnModel, ReportResults
  <2> QED BY <2>1 DEF AccountInv, DispatchCall, AtCall
<1> QED BY <1>1, AccountInvariant, PTL DEF Spec, NoEffectOverBudget

-----------------------------------------------------------------------------
(* run_agent implements the investigation it is meant to be. *)

LEMMA AbstractInit == Init => Abstract!Init
BY DEF Init, Abstract!Init, Phase

LEMMA AbstractStep ==
  TypeInv /\ TypeInv' /\ AccountInv /\ [Next]_vars => [Abstract!Next]_Abstract!vars
<1> SUFFICES ASSUME TypeInv, TypeInv', AccountInv, [Next]_vars
             PROVE  [Abstract!Next]_Abstract!vars
  OBVIOUS
<1>0. spent \in Nat /\ spent' \in Nat /\ MaxTokens \in Int /\ MaxIterations \in Int
      /\ (iterations = roundTrips \/ pc = "returned")
  BY OrchestratorAssumption DEF TypeInv, TypeOK, AccountInv
<1> USE <1>0 DEF Phase, Abstract!Next, Abstract!vars
<1>1. CASE ExhaustIterations
  BY <1>1 DEF ExhaustIterations, Abstract!Close
<1>2. CASE StopOnBudget
  BY <1>2 DEF StopOnBudget, Stop, Abstract!Close
<1>3. CASE AskModel
  BY <1>3 DEF AskModel, TokensUsedUp, RangeExhausted, Abstract!Ask, TypeInv, TypeOK
<1>4. CASE ModelFails
  BY <1>4 DEF ModelFails, Stop, Abstract!Close
<1>5. CASE ModelRaises
  BY <1>5 DEF ModelRaises, Raise, Abstract!Close
<1>6. ASSUME NEW c \in Completions,
             OverBudgetReply(c) \/ TextOnlyReply(c) \/ ToolReply(c)
      PROVE  [Abstract!Next]_Abstract!vars
  <2>1. c.tokens \in Nat
    BY CompletionType
  <2>2. Abstract!Answer
    BY <1>6, <2>1
    DEF OverBudgetReply, TextOnlyReply, ToolReply, BreaksBudget, Stop, Abstract!Answer
  <2> QED BY <2>2
<1>7. CASE RejectCall
  BY <1>7 DEF RejectCall, AtCall
<1>8. CASE CrashOnInput
  BY <1>8 DEF CrashOnInput, AtCall, Raise, Abstract!Close
<1>9. CASE CallDone
  BY <1>9 DEF CallDone, AtCall, Stop, Abstract!Close
<1>10. CASE DispatchCall
  <2>1. Head(pending) \in ToolCall
    BY <1>10, HeadTailProperties DEF DispatchCall, AtCall, TypeInv, TypeOK
  <2>2. Abstract!Act
    BY <1>10, <2>1 DEF DispatchCall, AtCall, Dispatchable, Abstract!Act
  <2> QED BY <2>2
<1>11. ASSUME NEW is_error \in BOOLEAN, ExecReturns(is_error)
       PROVE  [Abstract!Next]_Abstract!vars
  BY <1>11 DEF ExecReturns
<1>12. CASE GiveUpOnModel
  BY <1>12 DEF GiveUpOnModel, TurnHandled, Stop, Abstract!Close
<1>13. CASE ReportResults
  BY <1>13 DEF ReportResults, TurnHandled, Abstract!EndRound
<1>14. CASE UNCHANGED vars
  BY <1>14 DEF vars
<1> QED
  BY <1>1, <1>2, <1>3, <1>4, <1>5, <1>6, <1>7, <1>8, <1>9, <1>10, <1>11, <1>12, <1>13, <1>14
  DEF Next, AgentStep, ModelAnswers, Reply, TargetAnswers

(* Every behaviour of run_agent is one of the abstract investigation.      *)
THEOREM OrchestratorImplements == Spec => Implements
BY AbstractInit, AbstractStep, TypeInvariant, AccountInvariant, PTL
   DEF Spec, Implements, Abstract!Spec

-----------------------------------------------------------------------------
(* The conversation.  An invariant about the moment of a request is not    *)
(* inductive: it needs what holds of the half-finished turn in between.    *)

(* a's blocks are answered by b's, one by one and in order.                *)
Answered(a, b) ==
  /\ Len(a) = Len(b) /\ Len(a) # 0
  /\ \A i \in 1..Len(a) : a[i].id = b[i].id

(* The turn being handled: results so far, then the calls still pending.   *)
Halfway(content) ==
  /\ Len(content) = Len(tool_results) + Len(pending) /\ Len(content) # 0
  /\ \A i \in 1..Len(tool_results) : content[i].id = tool_results[i].id
  /\ \A i \in 1..Len(pending) : content[Len(tool_results) + i].id = pending[i].id

Roles ==
  \A i \in 1..Len(messages) : messages[i].role = IF i % 2 = 1 THEN "user" ELSE "assistant"

Answers ==
  \A i \in 1..(Len(messages) - 1) :
    i % 2 = 0 => Answered(messages[i].content, messages[i + 1].content)

ConversationInv ==
  ~Stopped =>
    /\ Roles
    /\ Answers
    /\ pc = "head" => Len(messages) = 2 * roundTrips + 1
    /\ pc = "llm" => Len(messages) = 2 * roundTrips - 1
    /\ pc \in {"calls", "exec"} =>
         Len(messages) = 2 * roundTrips /\ Halfway(messages[Len(messages)].content)

LEMMA ConversationInit == Init => ConversationInv
<1> SUFFICES ASSUME Init PROVE ConversationInv
  OBVIOUS
<1>1. Len(messages) = 1 /\ messages[1] = Opening
  BY DEF Init
<1>2. Roles /\ Answers
  BY <1>1 DEF Roles, Answers, Opening
<1> QED BY <1>1, <1>2 DEF Init, ConversationInv

(* A step that leaves the messages and the turn's blocks alone, and moves  *)
(* pc only between points with the same obligation.                        *)
LEMMA ConversationFrame ==
  ASSUME ConversationInv, messages' = messages, tool_results' = tool_results,
         pending' = pending, roundTrips' = roundTrips,
         pc' = pc \/ (pc = "calls" /\ pc' = "exec") \/ Stopped'
  PROVE  ConversationInv'
BY DEF ConversationInv, Stopped, Roles, Answers, Halfway, Answered

(* One call handled: its id moves from the pending calls to the results.   *)
LEMMA HalfwayStep ==
  ASSUME TypeOK, NEW content, Halfway(content), pending # <<>>, NEW e \in BOOLEAN,
         tool_results' = Append(tool_results, ToolResult(Head(pending), e)),
         pending' = Tail(pending)
  PROVE  Halfway(content)'
<1>1. /\ pending \in Seq(ToolCall) /\ tool_results \in Seq(Block)
      /\ Len(pending) \in Nat /\ Len(tool_results) \in Nat
  BY LenProperties DEF TypeOK
<1>2. /\ Head(pending) = pending[1] /\ Head(pending) \in ToolCall
      /\ Len(pending') = Len(pending) - 1
      /\ \A i \in 1..Len(pending') : pending'[i] = pending[i + 1]
  BY <1>1, HeadTailProperties
<1>3. ToolResult(Head(pending), e) \in Block
  BY <1>2, ResultType
<1>4. /\ Len(tool_results') = Len(tool_results) + 1
      /\ \A i \in 1..Len(tool_results) : tool_results'[i] = tool_results[i]
      /\ tool_results'[Len(tool_results) + 1].id = pending[1].id
  BY <1>1, <1>2, <1>3, AppendProperties DEF ToolResult
<1>5. Len(pending) >= 1
  BY <1>1, EmptySeq
<1>6. \A i \in 1..Len(tool_results') : content[i].id = tool_results'[i].id
  <2> TAKE i \in 1..Len(tool_results')
  <2>1. CASE i \in 1..Len(tool_results)
    BY <2>1, <1>4 DEF Halfway
  <2>2. CASE i = Len(tool_results) + 1
    BY <2>2, <1>1, <1>4, <1>5 DEF Halfway
  <2> QED BY <1>1, <1>4, <2>1, <2>2
<1>7. \A i \in 1..Len(pending') :
        content[Len(tool_results') + i].id = pending'[i].id
  <2> TAKE i \in 1..Len(pending')
  <2>1. i + 1 \in 1..Len(pending)
    BY <1>1, <1>2
  <2>2. content[Len(tool_results) + (i + 1)].id = pending[i + 1].id
    BY <2>1 DEF Halfway
  <2>3. Len(tool_results') + i = Len(tool_results) + (i + 1)
    BY <1>1, <1>4
  <2> QED BY <1>2, <2>2, <2>3
<1>8. Len(content) = Len(tool_results') + Len(pending')
  BY <1>1, <1>2, <1>4 DEF Halfway
<1> QED BY <1>6, <1>7, <1>8 DEF Halfway

LEMMA ConversationStep == TypeInv /\ ConversationInv /\ [Next]_vars => ConversationInv'
<1> SUFFICES ASSUME TypeInv, ConversationInv, [Next]_vars PROVE ConversationInv'
  OBVIOUS
<1>0. messages \in Seq(Message) /\ Len(messages) \in Nat /\ roundTrips \in Nat /\ TypeOK
  BY LenProperties DEF TypeInv, TypeOK
<1>1. CASE ExhaustIterations \/ StopOnBudget \/ ModelFails \/ ModelRaises
  BY <1>1 DEF ExhaustIterations, StopOnBudget, ModelFails, ModelRaises, Stop, Raise,
              ConversationInv, Stopped
<1>2. CASE AskModel
  <2>1. /\ pc = "head" /\ pc' = "llm" /\ roundTrips' = roundTrips + 1 /\ messages' = messages
    BY <1>2 DEF AskModel
  <2>2. Len(messages) = 2 * roundTrips + 1 /\ Roles /\ Answers
    BY <2>1 DEF ConversationInv, Stopped
  <2>3. Len(messages') = 2 * roundTrips' - 1
    BY <1>0, <2>1, <2>2
  <2>4. Roles' /\ Answers'
    BY <2>1, <2>2 DEF Roles, Answers, Answered
  <2> QED BY <2>1, <2>3, <2>4 DEF ConversationInv, Stopped
<1>3. ASSUME NEW c \in Completions, OverBudgetReply(c) \/ TextOnlyReply(c)
      PROVE  ConversationInv'
  BY <1>3 DEF OverBudgetReply, TextOnlyReply, Stop, ConversationInv, Stopped
<1>4. ASSUME NEW c \in Completions, ToolReply(c) PROVE ConversationInv'
  <2> DEFINE msg == AssistantTurn(c.text, c.tool_calls)
  <2>1. c.tool_calls \in Seq(ToolCall) /\ c.tool_calls # <<>>
    BY <1>4, CompletionType DEF ToolReply
  <2>2. Len(c.tool_calls) \in Nat \ {0} /\ DOMAIN c.tool_calls = 1..Len(c.tool_calls)
    BY <2>1, EmptySeq, LenProperties
  <2>3. msg \in Message
    BY <2>1, CompletionType, AssistantTurnType
  <2>4. /\ Len(msg.content) = Len(c.tool_calls) /\ msg.role = "assistant"
        /\ \A i \in 1..Len(c.tool_calls) : msg.content[i].id = c.tool_calls[i].id
    BY <2>2 DEF AssistantTurn, ToolUse
  <2>5. /\ Len(messages') = Len(messages) + 1
        /\ \A i \in 1..Len(messages) : messages'[i] = messages[i]
        /\ messages'[Len(messages) + 1] = msg
    BY <1>0, <1>4, <2>3, AppendProperties DEF ToolReply
  <2>6. /\ pc = "llm" /\ pc' = "calls" /\ roundTrips' = roundTrips
        /\ tool_results' = <<>> /\ pending' = c.tool_calls
    BY <1>4 DEF ToolReply
  <2>7. Len(messages) = 2 * roundTrips - 1 /\ Roles /\ Answers
    BY <2>6 DEF ConversationInv, Stopped
  <2>8. Roles'
    <3>1. (Len(messages) + 1) % 2 = 0 /\ Len(messages) + 1 # 1
      BY <1>0, <2>7
    <3>2. ASSUME NEW i \in 1..Len(messages')
          PROVE  messages'[i].role = IF i % 2 = 1 THEN "user" ELSE "assistant"
      <4>1. CASE i \in 1..Len(messages)
        BY <4>1, <2>5, <2>7 DEF Roles
      <4>2. CASE i = Len(messages) + 1
        BY <4>2, <3>1, <2>4, <2>5
      <4> QED BY <1>0, <2>5, <4>1, <4>2
    <3> QED BY <3>2 DEF Roles
  <2>9. Answers'
    <3>1. ASSUME NEW i \in 1..(Len(messages') - 1), i % 2 = 0
          PROVE  Answered(messages'[i].content, messages'[i + 1].content)
      <4>1. i # Len(messages)
        BY <1>0, <2>7, <3>1
      <4>2. i \in 1..(Len(messages) - 1) /\ i + 1 \in 1..Len(messages)
        BY <1>0, <2>5, <4>1
      <4>3. Answered(messages[i].content, messages[i + 1].content)
        BY <2>7, <3>1, <4>2 DEF Answers
      <4>4. messages'[i] = messages[i] /\ messages'[i + 1] = messages[i + 1]
        BY <1>0, <2>5, <4>2
      <4> QED BY <4>3, <4>4
    <3> QED BY <3>1 DEF Answers, Answered
  <2>10. Halfway(msg.content)'
    BY <2>2, <2>4, <2>6 DEF Halfway
  <2>11. Len(messages') = 2 * roundTrips' /\ messages'[Len(messages')].content = msg.content
    BY <1>0, <2>5, <2>6, <2>7
  <2> QED BY <2>6, <2>8, <2>9, <2>10, <2>11 DEF ConversationInv, Stopped, Halfway
<1>5. ASSUME NEW e \in BOOLEAN, pc \in {"calls", "exec"}, pending # <<>>, pc' = "calls",
             tool_results' = Append(tool_results, ToolResult(Head(pending), e)),
             pending' = Tail(pending), messages' = messages, roundTrips' = roundTrips
      PROVE  ConversationInv'
  <2>0. PICK content : content = messages[Len(messages)].content
    OBVIOUS
  <2>1. Halfway(content)
    BY <1>5, <2>0 DEF ConversationInv, Stopped
  <2>2. Halfway(content)'
    BY <1>0, <1>5, <2>1, HalfwayStep
  <2>3. Halfway(messages[Len(messages)].content)'
    BY <1>5, <2>0, <2>2 DEF Halfway
  <2> QED BY <1>5, <2>3 DEF ConversationInv, Stopped, Roles, Answers, Answered
<1>6. CASE RejectCall
  BY <1>5, <1>6 DEF RejectCall, AtCall, RejectionResults
<1>7. CASE CrashOnInput \/ CallDone \/ DispatchCall
  BY <1>7, ConversationFrame
  DEF CrashOnInput, CallDone, DispatchCall, AtCall, Raise, Stop, turn, Stopped,
      ConversationInv
<1>8. ASSUME NEW is_error \in BOOLEAN, ExecReturns(is_error) PROVE ConversationInv'
  BY <1>5, <1>8 DEF ExecReturns, TypeInv, ControlInv
<1>9. CASE GiveUpOnModel
  BY <1>9 DEF GiveUpOnModel, Stop, ConversationInv, Stopped
<1>10. CASE ReportResults
  <2> DEFINE msg == UserTurn(tool_results)
             last == messages[Len(messages)].content
  <2>1. /\ pc = "calls" /\ pc' = "head" /\ pending = <<>> /\ roundTrips' = roundTrips
        /\ messages' = Append(messages, msg)
    BY <1>10 DEF ReportResults, TurnHandled
  <2>2. Len(messages) = 2 * roundTrips /\ Roles /\ Answers /\ Halfway(last)
    BY <2>1 DEF ConversationInv, Stopped
  <2>3. msg \in Message /\ msg.role = "user" /\ msg.content = tool_results
    BY <1>0 DEF UserTurn, Message, TypeOK, Texts
  <2>4. /\ Len(messages') = Len(messages) + 1
        /\ \A i \in 1..Len(messages) : messages'[i] = messages[i]
        /\ messages'[Len(messages) + 1] = msg
    BY <1>0, <2>1, <2>3, AppendProperties
  <2>5. Answered(last, msg.content)
    <3>1. Len(pending) = 0 /\ Len(tool_results) \in Nat
      BY <1>0, <2>1, LenProperties DEF TypeOK
    <3> QED BY <2>2, <2>3, <3>1 DEF Halfway, Answered
  <2>6. Roles'
    BY <1>0, <2>2, <2>3, <2>4 DEF Roles
  <2>7. Answers'
    <3> SUFFICES ASSUME NEW i \in 1..(Len(messages') - 1), i % 2 = 0
                 PROVE  Answered(messages'[i].content, messages'[i + 1].content)
      BY DEF Answers, Answered
    <3>1. CASE i = Len(messages)
      BY <1>0, <2>4, <2>5, <3>1
    <3>2. CASE i \in 1..(Len(messages) - 1)
      BY <1>0, <2>2, <2>4, <3>2 DEF Answers
    <3> QED BY <1>0, <2>4, <3>1, <3>2
  <2> QED BY <1>0, <2>1, <2>2, <2>4, <2>6, <2>7 DEF ConversationInv, Stopped
<1>11. CASE UNCHANGED vars
  BY <1>11, ConversationFrame DEF vars, turn
<1> QED
  BY <1>1, <1>2, <1>3, <1>4, <1>6, <1>7, <1>8, <1>9, <1>10, <1>11
  DEF Next, AgentStep, ModelAnswers, Reply, TargetAnswers

LEMMA ConversationInvariant == Spec => []ConversationInv
BY ConversationInit, ConversationStep, TypeInvariant, PTL DEF Spec

(* Every request carries a conversation a provider accepts, however many   *)
(* turns came before and however their calls were answered.                *)
THEOREM ConversationHolds == Spec => []ConversationWellFormed
<1>1. TypeInv /\ ConversationInv => ConversationWellFormed
  <2> SUFFICES ASSUME TypeInv, ConversationInv, pc = "llm"
               PROVE  /\ Len(messages) = 2 * roundTrips - 1
                      /\ \A i \in DOMAIN messages :
                           messages[i].role = IF i % 2 = 1 THEN "user" ELSE "assistant"
                      /\ \A i \in DOMAIN messages :
                           i % 2 = 0 =>
                             /\ messages[i].content # <<>>
                             /\ Ids(messages[i].content) = Ids(messages[i + 1].content)
    BY DEF ConversationWellFormed
  <2>1. /\ messages \in Seq(Message) /\ DOMAIN messages = 1..Len(messages)
        /\ Len(messages) \in Nat /\ roundTrips \in Nat
    BY LenProperties DEF TypeInv, TypeOK
  <2>2. Len(messages) = 2 * roundTrips - 1 /\ Roles /\ Answers
    BY DEF ConversationInv, Stopped
  <2>3. ASSUME NEW i \in DOMAIN messages, i % 2 = 0
        PROVE  /\ messages[i].content # <<>>
               /\ Ids(messages[i].content) = Ids(messages[i + 1].content)
    <3>1. i \in 1..(Len(messages) - 1)
      BY <2>1, <2>2, <2>3
    <3>2. Answered(messages[i].content, messages[i + 1].content)
      BY <2>2, <2>3, <3>1 DEF Answers
    <3>3. messages[i] \in Message /\ messages[i + 1] \in Message
      BY <2>1, <3>1, ElementOfSeq
    <3>4. messages[i].content \in Seq(Block) /\ messages[i + 1].content \in Seq(Block)
      BY <3>3 DEF Message
    <3>5. /\ DOMAIN messages[i].content = 1..Len(messages[i].content)
          /\ DOMAIN messages[i + 1].content = 1..Len(messages[i + 1].content)
      BY <3>4, LenProperties
    <3>6. Ids(messages[i].content) = Ids(messages[i + 1].content)
      BY <3>2, <3>5 DEF Answered, Ids
    <3> QED BY <3>2, <3>6, EmptySeq DEF Answered
  <2> QED BY <2>1, <2>2, <2>3 DEF Roles
<1> QED BY <1>1, TypeInvariant, ConversationInvariant, PTL

-----------------------------------------------------------------------------
(* The end of a run. *)

(* Until the run has returned, the transcript holds calls only.            *)
CallsOnly == \A i \in 1..Len(transcript) : transcript[i].kind \in {"rejected", "executed"}

ExplainInv ==
  /\ pc # "returned" => CallsOnly
  /\ DiagnosisExplained

LEMMA ExplainInit == Init => ExplainInv
BY DEF Init, ExplainInv, CallsOnly, DiagnosisExplained

(* A run that has not returned yet needs no explanation.                   *)
LEMMA NothingToExplain ==
  ASSUME TypeOK', CallsOnly', pc' # "returned", diagnosis' = "none"
  PROVE  DiagnosisExplained'
<1>1. /\ transcript' \in Seq(Entry) /\ Len(transcript') \in Nat
      /\ DOMAIN transcript' = 1..Len(transcript')
  BY LenProperties DEF TypeOK
<1>2. transcript' # <<>> => Last(transcript').kind \in {"rejected", "executed"}
  BY <1>1, EmptySeq DEF CallsOnly, Last
<1> QED BY <1>1, <1>2 DEF CallsOnly, DiagnosisExplained

(* The last entry says why the run stops.                                  *)
LEMMA StopExplained ==
  ASSUME TypeOK, CallsOnly, NEW why \in Diagnoses, NEW entry \in Entry, Stop(why, entry),
         \/ why \in {"token_budget", "llm_error", "invalid_calls"} /\ entry.kind = "error"
         \/ why \in {"text", "no_text"} /\ entry.kind = "text_only"
         \/ why = "summary" /\ entry.kind = "done"
  PROVE  ExplainInv'
<1>1. transcript \in Seq(Entry) /\ Len(transcript) \in Nat
  BY LenProperties DEF TypeOK
<1>2. /\ transcript' \in Seq(Entry) /\ Len(transcript') = Len(transcript) + 1
      /\ \A i \in 1..Len(transcript) : transcript'[i] = transcript[i]
      /\ transcript'[Len(transcript) + 1] = entry
  BY <1>1, AppendProperties DEF Stop
<1>3. DOMAIN transcript' = 1..Len(transcript')
  BY <1>2, LenProperties
<1>4. transcript' # <<>> /\ Last(transcript') = entry
  BY <1>1, <1>2 DEF Last
<1>5. \A i \in DOMAIN transcript' :
        i < Len(transcript') => transcript'[i].kind \in {"rejected", "executed"}
  BY <1>1, <1>2, <1>3 DEF CallsOnly
<1>6. pc' = "returned" /\ diagnosis' = why /\ why # "none" /\ why # "max_iterations"
  BY DEF Stop
<1> QED BY <1>4, <1>5, <1>6 DEF ExplainInv, DiagnosisExplained

LEMMA ExplainStep ==
  TypeInv /\ TypeInv' /\ AccountInv /\ AccountInv' /\ ExplainInv /\ [Next]_vars => ExplainInv'
<1> SUFFICES ASSUME TypeInv, TypeInv', AccountInv, AccountInv', ExplainInv, [Next]_vars
             PROVE  ExplainInv'
  OBVIOUS
<1>0. /\ TypeOK /\ TypeOK' /\ transcript \in Seq(Entry) /\ Len(transcript) \in Nat
      /\ iterations \in Int /\ iterations + 1 \in Int
  BY LenProperties DEF TypeInv, TypeOK
<1>1. CASE ExhaustIterations
  <2>1. /\ pc = "head" /\ pc' = "returned" /\ diagnosis' = "max_iterations"
        /\ transcript' = transcript /\ iterations' = iterations /\ roundTrips' = roundTrips
        /\ iterations >= MaxIterations
    BY <1>1 DEF ExhaustIterations, RangeExhausted
  <2>2. CallsOnly
    BY <2>1 DEF ExplainInv
  <2>3. iterations = Positive(MaxIterations) /\ roundTrips = iterations
    BY <2>1, <1>0, OrchestratorAssumption
    DEF AccountInv, RoundTripAccounting, Positive, TypeOK
  <2>4. DOMAIN transcript = 1..Len(transcript)
    BY <1>0, LenProperties
  <2>5. transcript # <<>> => Last(transcript).kind \in {"rejected", "executed"}
    BY <1>0, <2>2, EmptySeq DEF CallsOnly, Last
  <2> QED BY <2>1, <2>2, <2>3, <2>4, <2>5 DEF ExplainInv, DiagnosisExplained, CallsOnly
<1>2. CASE StopOnBudget \/ ModelFails
  <2>1. pc # "returned"
    BY <1>2 DEF StopOnBudget, ModelFails
  <2>2. PICK n \in Int, why \in {"token_budget", "llm_error"} : Stop(why, Note("error", n))
    BY <1>0, <1>2 DEF StopOnBudget, ModelFails
  <2>3. Note("error", n) \in Entry /\ Note("error", n).kind = "error"
    BY NoteType DEF Note
  <2> QED BY <1>0, <2>1, <2>2, <2>3, StopExplained DEF ExplainInv, Diagnoses
<1>3. ASSUME NEW c \in Completions, OverBudgetReply(c) \/ TextOnlyReply(c)
      PROVE  ExplainInv'
  <2>1. pc # "returned"
    BY <1>3 DEF OverBudgetReply, TextOnlyReply
  <2>2. Note("error", iterations) \in Entry /\ Note("error", iterations).kind = "error"
        /\ Note("text_only", iterations) \in Entry
        /\ Note("text_only", iterations).kind = "text_only"
    BY <1>0, NoteType DEF Note
  <2>3. CASE OverBudgetReply(c)
    BY <1>0, <2>1, <2>2, <2>3, StopExplained DEF ExplainInv, Diagnoses, OverBudgetReply
  <2>4. CASE TextOnlyReply(c)
    BY <1>0, <2>1, <2>2, <2>4, StopExplained DEF ExplainInv, Diagnoses, TextOnlyReply
  <2> QED BY <1>3, <2>3, <2>4
<1>4. CASE CallDone \/ GiveUpOnModel
  <2>1. pc = "calls"
    BY <1>4 DEF CallDone, GiveUpOnModel, AtCall, TurnHandled
  <2>2. CASE CallDone
    <3>1. Head(pending) \in ToolCall
      BY <1>0, <2>2, HeadTailProperties DEF CallDone, AtCall, TypeOK
    <3>2. CallEntry("done", Head(pending), FALSE) \in Entry
          /\ CallEntry("done", Head(pending), FALSE).kind = "done"
      BY <1>0, <3>1, EntryType DEF CallEntry
    <3> QED BY <1>0, <2>1, <2>2, <3>2, StopExplained DEF ExplainInv, Diagnoses, CallDone
  <2>3. CASE GiveUpOnModel
    <3>1. Note("error", iterations) \in Entry /\ Note("error", iterations).kind = "error"
      BY <1>0, NoteType DEF Note
    <3> QED BY <1>0, <2>1, <2>3, <3>1, StopExplained DEF ExplainInv, Diagnoses, GiveUpOnModel
  <2> QED BY <1>4, <2>2, <2>3
<1>5. ASSUME pc # "returned", pc' # "returned",
             \/ transcript' = transcript
             \/ \E entry \in Entry : /\ entry.kind \in {"rejected", "executed"}
                                     /\ transcript' = Append(transcript, entry)
      PROVE  ExplainInv'
  <2>1. CallsOnly
    BY <1>5 DEF ExplainInv
  <2>2. CallsOnly'
    <3>1. CASE transcript' = transcript
      BY <2>1, <3>1 DEF CallsOnly
    <3>2. ASSUME NEW entry \in Entry, entry.kind \in {"rejected", "executed"},
                 transcript' = Append(transcript, entry)
          PROVE  CallsOnly'
      BY <1>0, <2>1, <3>2, AppendProperties DEF CallsOnly
    <3> QED BY <1>5, <3>1, <3>2
  <2>3. diagnosis' = "none"
    BY <1>5 DEF AccountInv
  <2>4. DiagnosisExplained'
    BY <1>0, <1>5, <2>2, <2>3, NothingToExplain
  <2> QED BY <2>2, <2>4 DEF ExplainInv
<1>6. CASE AskModel \/ ModelRaises \/ CrashOnInput \/ DispatchCall \/ ReportResults
  BY <1>5, <1>6 DEF AskModel, ModelRaises, CrashOnInput, DispatchCall, ReportResults, Raise,
                    AtCall, TurnHandled
<1>7. ASSUME NEW c \in Completions, ToolReply(c) PROVE ExplainInv'
  BY <1>5, <1>7 DEF ToolReply
<1>8. CASE RejectCall
  <2>1. Head(pending) \in ToolCall
    BY <1>0, <1>8, HeadTailProperties DEF RejectCall, AtCall, TypeOK
  <2>2. CallEntry("rejected", Head(pending), TRUE) \in Entry
        /\ CallEntry("rejected", Head(pending), TRUE).kind = "rejected"
    BY <1>0, <2>1, EntryType DEF CallEntry
  <2> QED BY <1>5, <1>8, <2>2 DEF RejectCall, AtCall
<1>9. ASSUME NEW is_error \in BOOLEAN, ExecReturns(is_error) PROVE ExplainInv'
  <2>1. Head(pending) \in ToolCall
    BY <1>0, <1>9, HeadTailProperties DEF ExecReturns, TypeInv, ControlInv, TypeOK
  <2>2. CallEntry("executed", Head(pending), is_error) \in Entry
        /\ CallEntry("executed", Head(pending), is_error).kind = "executed"
    BY <1>0, <2>1, EntryType DEF CallEntry
  <2> QED BY <1>5, <1>9, <2>2 DEF ExecReturns, ExecutedTranscript
<1>10. CASE UNCHANGED vars
  <2>1. /\ pc' = pc /\ transcript' = transcript /\ diagnosis' = diagnosis
        /\ iterations' = iterations /\ roundTrips' = roundTrips
    BY <1>10 DEF vars
  <2>2. CallsOnly' <=> CallsOnly
    BY <2>1 DEF CallsOnly
  <2>3. DiagnosisExplained' <=> DiagnosisExplained
    BY <2>1 DEF DiagnosisExplained
  <2> QED BY <2>1, <2>2, <2>3 DEF ExplainInv
<1> QED
  BY <1>1, <1>2, <1>3, <1>4, <1>6, <1>7, <1>8, <1>9, <1>10
  DEF Next, AgentStep, ModelAnswers, Reply, TargetAnswers

LEMMA ExplainInvariant == Spec => []ExplainInv
BY ExplainInit, ExplainStep, TypeInvariant, AccountInvariant, PTL DEF Spec

(* A run has a diagnosis exactly when it has returned, the last entry of   *)
(* the transcript is the reason it gives, and the iteration limit is       *)
(* blamed only once it was used up.                                        *)
THEOREM DiagnosisIsExplained == Spec => []DiagnosisExplained
BY ExplainInvariant, PTL DEF ExplainInv

-----------------------------------------------------------------------------
(* Bad turns. *)

(* How many turns are over.                                                *)
Finished == IF pc = "head" THEN iterations ELSE iterations - 1

(* What the entries of the turn that is being handled say of it.           *)
TurnInv ==
  /\ tool_results # <<>> \/ pending # <<>>
  /\ tool_results # <<>> => \E i \in 1..Len(transcript) : transcript[i].step = iterations
  /\ iter_had_good_call =>
       \E i \in 1..Len(transcript) :
         transcript[i].step = iterations /\ transcript[i].kind = "executed"
  /\ ~iter_had_good_call =>
       \A i \in 1..Len(transcript) :
         transcript[i].step = iterations => transcript[i].kind = "rejected"

(* consecutive_bad is what the entries of the last turn say.               *)
StreakInv ==
  /\ ~Stopped =>
       /\ pc # "head" => iterations > 0
       /\ \A i \in 1..Len(transcript) : transcript[i].step \in 1..iterations
       /\ pc = "llm" => \A i \in 1..Len(transcript) : transcript[i].step # iterations
       /\ pc \in {"calls", "exec"} => TurnInv
       /\ IF consecutive_bad = 0 THEN ~AllRejected(Finished) ELSE AllRejected(Finished)
       /\ \A k \in 1..(Finished - 1) : ~(AllRejected(k) /\ AllRejected(k + 1))
  /\ diagnosis = "invalid_calls" => AllRejected(iterations) /\ AllRejected(iterations - 1)

(* AllRejected of a transcript t, by position.                             *)
RejectedIn(t, step) ==
  /\ \E i \in 1..Len(t) : t[i].step = step /\ t[i].kind = "rejected"
  /\ \A i \in 1..Len(t) : t[i].step = step => t[i].kind \in {"rejected", "error"}

LEMMA AllRejectedByPosition ==
  ASSUME TypeOK, TypeOK', NEW step
  PROVE  /\ AllRejected(step) <=> RejectedIn(transcript, step)
         /\ AllRejected(step)' <=> RejectedIn(transcript', step)
<1>1. DOMAIN transcript = 1..Len(transcript) /\ DOMAIN transcript' = 1..Len(transcript')
  BY LenProperties DEF TypeOK
<1> QED BY <1>1 DEF AllRejected, RejectedIn

(* An entry matters for its own step only, and the error that ends a run   *)
(* for none.                                                               *)
LEMMA RejectedInAppend ==
  ASSUME NEW t \in Seq(Entry), NEW e \in Entry, NEW step
  PROVE  /\ e.step # step => (RejectedIn(Append(t, e), step) <=> RejectedIn(t, step))
         /\ e.kind = "error" /\ RejectedIn(t, step) => RejectedIn(Append(t, e), step)
<1>1. /\ Len(t) \in Nat /\ Len(Append(t, e)) = Len(t) + 1
      /\ \A i \in 1..Len(t) : Append(t, e)[i] = t[i]
      /\ Append(t, e)[Len(t) + 1] = e
  BY LenProperties, AppendProperties
<1> QED BY <1>1 DEF RejectedIn

LEMMA StreakInit == Init => StreakInv
<1> SUFFICES ASSUME Init PROVE StreakInv
  OBVIOUS
<1>1. ~AllRejected(0)
  BY DEF Init, AllRejected
<1> QED BY <1>1 DEF Init, StreakInv, Finished

(* Steps that add nothing to the transcript and keep the run's place.      *)
LEMMA StreakFrame ==
  ASSUME TypeOK, TypeOK', StreakInv, transcript' = transcript, diagnosis' = diagnosis,
         iterations' = iterations, consecutive_bad' = consecutive_bad,
         \/ pc' = pc /\ tool_results' = tool_results /\ pending' = pending
              /\ iter_had_good_call' = iter_had_good_call
         \/ pc = "calls" /\ pc' = "exec" /\ tool_results' = tool_results /\ pending' = pending
              /\ iter_had_good_call' = iter_had_good_call
         \/ pc' = "raised"
  PROVE  StreakInv'
<1>1. \A k : AllRejected(k)' <=> AllRejected(k)
  BY DEF AllRejected
<1>2. pc' # "raised" => (TurnInv' <=> TurnInv)
  BY DEF TurnInv
<1>3. pc' # "raised" => (pc' = "head" <=> pc = "head") /\ Finished' = Finished
  BY DEF Finished
<1>4. ~Stopped' => StreakInv'
  BY <1>1, <1>2, <1>3 DEF StreakInv, Stopped
<1> QED BY <1>1, <1>4 DEF StreakInv, Stopped

LEMMA StreakStep ==
  TypeInv /\ TypeInv' /\ ExplainInv /\ AccountInv /\ StreakInv /\ [Next]_vars => StreakInv'
<1> SUFFICES ASSUME TypeInv, TypeInv', ExplainInv, AccountInv, StreakInv, [Next]_vars
             PROVE  StreakInv'
  OBVIOUS
<1>0. /\ TypeOK /\ TypeOK' /\ transcript \in Seq(Entry) /\ Len(transcript) \in Nat
      /\ iterations \in Nat /\ consecutive_bad \in Nat
  BY LenProperties DEF TypeInv, TypeOK, MAX_CONSECUTIVE_BAD
<1>a. \A k : /\ AllRejected(k) <=> RejectedIn(transcript, k)
             /\ AllRejected(k)' <=> RejectedIn(transcript', k)
  BY <1>0, AllRejectedByPosition
<1>b. pc # "returned" => diagnosis = "none"
  BY DEF AccountInv
<1>1. ASSUME Stopped', diagnosis' # "invalid_calls" PROVE StreakInv'
  BY <1>1 DEF StreakInv, Stopped
<1>2. CASE ExhaustIterations \/ StopOnBudget \/ ModelFails \/ ModelRaises \/ CrashOnInput
           \/ CallDone
  BY <1>1, <1>2, <1>b DEF ExhaustIterations, StopOnBudget, ModelFails, ModelRaises, CrashOnInput,
                    CallDone, AtCall, Stop, Raise, Stopped
<1>3. ASSUME NEW c \in Completions, OverBudgetReply(c) \/ TextOnlyReply(c)
      PROVE  StreakInv'
  BY <1>1, <1>3 DEF OverBudgetReply, TextOnlyReply, Stop, Stopped
<1>4. CASE AskModel
  <2>1. /\ pc = "head" /\ pc' = "llm" /\ iterations' = iterations + 1
        /\ transcript' = transcript /\ consecutive_bad' = consecutive_bad
        /\ diagnosis' = "none"
    BY <1>4, <1>b DEF AskModel
  <2>2. Finished = iterations /\ Finished' = iterations
    BY <2>1, <1>0 DEF Finished
  <2>3. \A k : AllRejected(k)' <=> AllRejected(k)
    BY <2>1, <1>a
  <2> QED BY <2>1, <2>2, <2>3, <1>0 DEF StreakInv, Stopped
<1>5. ASSUME NEW c \in Completions, ToolReply(c) PROVE StreakInv'
  <2>1. /\ pc = "llm" /\ pc' = "calls" /\ iterations' = iterations
        /\ transcript' = transcript /\ consecutive_bad' = consecutive_bad
        /\ diagnosis' = "none" /\ pending' # <<>> /\ tool_results' = <<>>
    BY <1>5, <1>b DEF ToolReply
  <2>2. Finished' = Finished
    BY <2>1 DEF Finished
  <2>3. \A k : AllRejected(k)' <=> AllRejected(k)
    BY <2>1, <1>a
  <2>4. iter_had_good_call' = FALSE
    BY <1>5 DEF ToolReply
  <2>5. \A i \in 1..Len(transcript) : transcript[i].step # iterations
    BY <2>1 DEF StreakInv, Stopped
  <2>6. TurnInv'
    BY <2>1, <2>4, <2>5 DEF TurnInv
  <2> QED BY <2>1, <2>2, <2>3, <2>6 DEF StreakInv, Stopped
<1>6. ASSUME NEW e \in Entry, e.step = iterations, pc \in {"calls", "exec"},
             transcript' = Append(transcript, e), tool_results' # <<>>,
             \/ e.kind = "executed" /\ iter_had_good_call'
             \/ e.kind = "rejected" /\ (iter_had_good_call' <=> iter_had_good_call),
             pc' = "calls", iterations' = iterations, diagnosis' = diagnosis,
             consecutive_bad' = consecutive_bad
      PROVE  StreakInv'
  <2>1. /\ Len(transcript') = Len(transcript) + 1
        /\ \A i \in 1..Len(transcript) : transcript'[i] = transcript[i]
        /\ transcript'[Len(transcript) + 1] = e
    BY <1>0, <1>6, AppendProperties
  <2>2. /\ TurnInv /\ ~Stopped /\ iterations \in Nat \ {0}
        /\ \A i \in 1..Len(transcript) : transcript[i].step \in 1..iterations
    <3>1. ~Stopped /\ TurnInv
      BY <1>6 DEF StreakInv, Stopped
    <3>2. \A i \in 1..Len(transcript) : transcript[i].step \in 1..iterations
      BY <3>1 DEF StreakInv
    <3>3. iterations \in Nat \ {0}
      BY <1>0, <1>6, <3>1 DEF StreakInv
    <3> QED BY <3>1, <3>2, <3>3
  <2>3. \A i \in 1..Len(transcript') : transcript'[i].step \in 1..iterations
    BY <1>0, <1>6, <2>1, <2>2
  <2>4. TurnInv'
    <3>1. transcript'[Len(transcript')].step = iterations /\ Len(transcript') \in 1..Len(transcript')
      BY <1>0, <1>6, <2>1
    <3>2. CASE e.kind = "executed" /\ iter_had_good_call'
      BY <1>6, <2>1, <3>1, <3>2 DEF TurnInv
    <3>3. CASE e.kind = "rejected" /\ (iter_had_good_call' <=> iter_had_good_call)
      <4>1. CASE iter_had_good_call
        <5>1. PICK i \in 1..Len(transcript) :
                transcript[i].step = iterations /\ transcript[i].kind = "executed"
          BY <2>2, <4>1 DEF TurnInv
        <5>2. i \in 1..Len(transcript') /\ transcript'[i] = transcript[i]
          BY <1>0, <2>1
        <5> QED BY <1>6, <3>1, <3>3, <4>1, <5>1, <5>2 DEF TurnInv
      <4>2. CASE ~iter_had_good_call
        <5>1. \A i \in 1..Len(transcript') :
                transcript'[i].step = iterations => transcript'[i].kind = "rejected"
          BY <1>0, <2>1, <2>2, <3>3, <4>2 DEF TurnInv
        <5> QED BY <1>6, <3>1, <3>3, <4>2, <5>1 DEF TurnInv
      <4> QED BY <4>1, <4>2
    <3> QED BY <1>6, <3>2, <3>3
  <2>5. Finished = iterations - 1 /\ Finished' = iterations - 1
    BY <1>6 DEF Finished
  <2>6. ASSUME NEW k \in Int, k # iterations PROVE AllRejected(k)' <=> AllRejected(k)
    BY <1>0, <1>6, <1>a, <2>6, RejectedInAppend
  <2>7. diagnosis' = "none" /\ ~Stopped'
    BY <1>6, <1>b DEF Stopped
  <2>8. IF consecutive_bad = 0 THEN ~AllRejected(Finished) ELSE AllRejected(Finished)
    BY <2>2 DEF StreakInv
  <2>9. \A k \in 1..(Finished - 1) : ~(AllRejected(k) /\ AllRejected(k + 1))
    BY <2>2 DEF StreakInv
  <2>10. (IF consecutive_bad = 0 THEN ~AllRejected(Finished) ELSE AllRejected(Finished))'
    BY <1>0, <1>6, <2>5, <2>6, <2>8
  <2>11. (\A k \in 1..(Finished - 1) : ~(AllRejected(k) /\ AllRejected(k + 1)))'
    <3> SUFFICES ASSUME NEW k \in 1..(iterations - 2)
                 PROVE  ~(AllRejected(k)' /\ AllRejected(k + 1)')
      BY <1>0, <2>5
    <3> QED BY <1>0, <2>5, <2>6, <2>9
  <2> QED BY <1>6, <2>3, <2>4, <2>7, <2>10, <2>11 DEF StreakInv
<1>7. CASE RejectCall
  <2>1. Head(pending) \in ToolCall
    BY <1>0, <1>7, HeadTailProperties DEF RejectCall, AtCall, TypeOK
  <2>2. CallEntry("rejected", Head(pending), TRUE) \in Entry
    BY <1>0, <2>1, EntryType
  <2>3. tool_results' # <<>>
    <3>1. ToolResult(Head(pending), TRUE) \in Block /\ tool_results \in Seq(Block)
      BY <1>0, <2>1, ResultType DEF TypeOK
    <3> QED BY <3>1, <1>7, AppendProperties DEF RejectCall, RejectionResults
  <2>4. CallEntry("rejected", Head(pending), TRUE).step = iterations
        /\ CallEntry("rejected", Head(pending), TRUE).kind = "rejected"
    BY DEF CallEntry
  <2> QED BY <1>6, <1>7, <2>2, <2>3, <2>4 DEF RejectCall, AtCall
<1>8. ASSUME NEW is_error \in BOOLEAN, ExecReturns(is_error) PROVE StreakInv'
  <2>1. Head(pending) \in ToolCall
    BY <1>0, <1>8, HeadTailProperties DEF ExecReturns, TypeInv, ControlInv, TypeOK
  <2>2. CallEntry("executed", Head(pending), is_error) \in Entry
    BY <1>0, <2>1, EntryType
  <2>3. tool_results' # <<>>
    <3>1. ToolResult(Head(pending), is_error) \in Block /\ tool_results \in Seq(Block)
      BY <1>0, <2>1, ResultType DEF TypeOK
    <3> QED BY <3>1, <1>8, AppendProperties DEF ExecReturns
  <2>4. CallEntry("executed", Head(pending), is_error).step = iterations
        /\ CallEntry("executed", Head(pending), is_error).kind = "executed"
    BY DEF CallEntry
  <2> QED BY <1>6, <1>8, <2>2, <2>3, <2>4 DEF ExecReturns, ExecutedTranscript
<1>9. CASE TurnHandled /\ (GiveUpOnModel \/ ReportResults)
  <2>1. /\ pc = "calls" /\ pending = <<>> /\ iterations' = iterations /\ TurnInv
        /\ consecutive_bad < 2 /\ CallsOnly
    BY <1>9 DEF GiveUpOnModel, ReportResults, TurnHandled, StreakInv, Stopped, TypeInv,
                ControlInv, MAX_CONSECUTIVE_BAD, ExplainInv
  <2>2. Finished = iterations - 1
    BY <2>1 DEF Finished
  <2>3. /\ \A i \in 1..Len(transcript) : transcript[i].step \in 1..iterations
        /\ IF consecutive_bad = 0 THEN ~AllRejected(iterations - 1) ELSE AllRejected(iterations - 1)
        /\ \A k \in 1..(iterations - 2) : ~(AllRejected(k) /\ AllRejected(k + 1))
    BY <1>0, <2>1, <2>2 DEF StreakInv, Stopped
  <2>4. PICK i \in 1..Len(transcript) : transcript[i].step = iterations
    BY <2>1 DEF TurnInv
  <2>a. /\ iter_had_good_call => BadStreak = 0
        /\ ~iter_had_good_call => BadStreak = consecutive_bad + 1
    BY Zenon DEF BadStreak
  <2>5. iter_had_good_call => ~AllRejected(iterations)
    BY <1>a, <2>1 DEF TurnInv, RejectedIn
  <2>6. ~iter_had_good_call => AllRejected(iterations)
    BY <1>a, <2>1, <2>4 DEF TurnInv, RejectedIn
  <2>7. CASE GiveUpOnModel
    <3>1. ~iter_had_good_call /\ consecutive_bad # 0
      BY <1>0, <2>1, <2>7, <2>a DEF GiveUpOnModel, MAX_CONSECUTIVE_BAD
    <3>2. AllRejected(iterations) /\ AllRejected(iterations - 1)
      BY <2>3, <2>6, <3>1
    <3>3. Note("error", iterations) \in Entry /\ Note("error", iterations).kind = "error"
      <4>1. iterations \in Int
        BY <1>0
      <4> QED BY <4>1, NoteType DEF Note
    <3>4. transcript' = Append(transcript, Note("error", iterations)) /\ pc' = "returned"
      BY <2>7 DEF GiveUpOnModel, Stop
    <3>5. AllRejected(iterations)' /\ AllRejected(iterations - 1)'
      BY <1>0, <1>a, <2>1, <3>2, <3>3, <3>4, RejectedInAppend
    <3> QED BY <2>1, <3>4, <3>5 DEF StreakInv, Stopped
  <2>8. CASE ReportResults
    <3>1. /\ pc' = "head" /\ transcript' = transcript /\ diagnosis' = "none"
          /\ consecutive_bad' = BadStreak /\ BadStreak < 2
      BY <1>b, <2>1, <2>8 DEF ReportResults, MAX_CONSECUTIVE_BAD
    <3>2. Finished' = iterations /\ \A k : AllRejected(k)' <=> AllRejected(k)
      BY <2>1, <3>1, <1>a DEF Finished
    <3>3. CASE iter_had_good_call
      <4>1. consecutive_bad' = 0
        BY <2>a, <3>1, <3>3
      <4>2. ~AllRejected(iterations)
        BY <2>5, <3>3
      <4>3. \A k \in 1..(iterations - 1) : ~(AllRejected(k) /\ AllRejected(k + 1))
        BY <1>0, <2>3, <4>2
      <4> QED BY <2>1, <2>3, <3>1, <3>2, <4>1, <4>2, <4>3 DEF StreakInv, Stopped
    <3>4. CASE ~iter_had_good_call
      <4>1. consecutive_bad' = 1 /\ consecutive_bad = 0
        BY <1>0, <2>a, <3>1, <3>4
      <4>2. AllRejected(iterations) /\ ~AllRejected(iterations - 1)
        BY <2>3, <2>6, <3>4, <4>1
      <4>3. ASSUME NEW k \in 1..(iterations - 1)
            PROVE  ~(AllRejected(k) /\ AllRejected(k + 1))
        <5>1. CASE k = iterations - 1
          BY <4>2, <5>1
        <5>2. CASE k \in 1..(iterations - 2)
          BY <2>3, <5>2
        <5> QED BY <1>0, <5>1, <5>2
      <4> QED BY <2>1, <2>3, <3>1, <3>2, <4>1, <4>2, <4>3 DEF StreakInv, Stopped
    <3> QED BY <3>3, <3>4
  <2> QED BY <1>9, <2>7, <2>8
<1>10. CASE DispatchCall
  BY <1>0, <1>10, StreakFrame DEF DispatchCall, AtCall, turn
<1>11. CASE UNCHANGED vars
  BY <1>0, <1>11, StreakFrame DEF vars, turn
<1> QED
  BY <1>2, <1>3, <1>4, <1>5, <1>7, <1>8, <1>9, <1>10, <1>11
  DEF Next, AgentStep, ModelAnswers, Reply, TargetAnswers, GiveUpOnModel, ReportResults

LEMMA StreakInvariant == Spec => []StreakInv
BY StreakInit, StreakStep, TypeInvariant, AccountInvariant, ExplainInvariant, PTL DEF Spec

(* Two turns in a row with nothing but rejected calls end the run, however *)
(* long it has been, and only they end it for invalid calls.               *)
THEOREM TwoBadTurnsAbortHolds == Spec => []TwoBadTurnsAbort
<1>1. StreakInv => TwoBadTurnsAbort
  BY DEF StreakInv, TwoBadTurnsAbort, Stopped, Finished
<1> QED BY <1>1, StreakInvariant, PTL

-----------------------------------------------------------------------------
(* Sequences that are built from others.  What a recursive function is on  *)
(* 0..n takes induction, and induction on naturals is well-foundedness: a  *)
(* set of naturals that is not empty has a minimum.                        *)

(* A set of naturals that is not empty has a least element.                *)
LEMMA LeastNatural ==
  ASSUME NEW T \in SUBSET Nat, T # {}
  PROVE  \E x \in T : \A y \in T : x <= y
<1> DEFINE R == OpToRel(<, Nat)
<1>1. IsWellFoundedOn(R, Nat)
  BY NatLessThanWellFounded
<1>2. \A x, y \in Nat : <<x, y>> \in R <=> x < y
  BY DEF OpToRel
<1> HIDE DEF R
<1>3. PICK x \in T : \A y \in T : ~(<<y, x>> \in R)
  BY <1>1, WFMin
<1>4. \A y \in T : y \in Nat /\ ~(y < x)
  BY <1>2, <1>3
<1>5. x \in Nat
  OBVIOUS
<1>6. \A y \in T : x <= y
  BY <1>4, <1>5
<1> QED BY <1>6

(* Induction, for a set of naturals in place of a predicate.               *)
LEMMA SetInduction ==
  ASSUME NEW S, 0 \in S, \A n \in Nat : n \in S => n + 1 \in S
  PROVE  \A n \in Nat : n \in S
<1> SUFFICES ASSUME Nat \ S # {} PROVE FALSE
  OBVIOUS
<1>1. PICK x \in Nat \ S : \A y \in Nat \ S : x <= y
  BY LeastNatural
<1>2. x # 0 /\ x - 1 \in Nat /\ x - 1 \in S
  BY <1>1
<1> QED BY <1>1, <1>2

Iterates(g, A, a, F, n) ==
  g \in [0..n -> A] /\ g[0] = a /\ \A k \in 1..n : g[k] = F[k][g[k - 1]]

(* A function on 0..n may be defined by what it is at 0 and how the next   *)
(* value comes from the last.                                              *)
LEMMA Iteration ==
  ASSUME NEW A, NEW a \in A, NEW F \in [Nat -> [A -> A]], NEW n \in Nat
  PROVE  \E g : Iterates(g, A, a, F, n)
<1> USE DEF Iterates
<1> DEFINE Defined(m) == \E g : Iterates(g, A, a, F, m)
           S == {m \in Nat : Defined(m)}
<1>1. 0 \in S
  <2> DEFINE g == [k \in 0..0 |-> a]
  <2>1. g \in [0..0 -> A] /\ g[0] = a /\ \A k \in 1..0 : g[k] = F[k][g[k - 1]]
    OBVIOUS
  <2> QED BY <2>1
<1>2. ASSUME NEW m \in Nat, m \in S PROVE m + 1 \in S
  <2>1. PICK g : Iterates(g, A, a, F, m)
    BY <1>2
  <2> DEFINE h == [k \in 0..(m + 1) |-> IF k = m + 1 THEN F[m + 1][g[m]] ELSE g[k]]
  <2>2. F[m + 1][g[m]] \in A
    BY <2>1
  <2>3. h \in [0..(m + 1) -> A]
    BY <2>1, <2>2
  <2>4. h[0] = a
    BY <2>1
  <2>5. ASSUME NEW k \in 1..(m + 1) PROVE h[k] = F[k][h[k - 1]]
    <3>1. CASE k = m + 1
      <4>1. h[m + 1] = F[m + 1][g[m]] /\ h[m] = g[m]
        OBVIOUS
      <4> HIDE DEF h
      <4> QED BY <3>1, <4>1
    <3>2. CASE k \in 1..m
      <4>1. h[k] = g[k] /\ h[k - 1] = g[k - 1]
        BY <3>2
      <4> HIDE DEF h
      <4> QED BY <2>1, <3>2, <4>1
    <3> QED BY <3>1, <3>2
  <2> HIDE DEF h
  <2>6. Defined(m + 1)
    BY <2>3, <2>4, <2>5
  <2> QED BY <2>6
<1> HIDE DEF S
<1>3. n \in S
  BY <1>1, <1>2, SetInduction
<1> QED BY <1>3 DEF S

(* g is what has been selected after every element of s.                   *)
Selects(g, s, I, A) ==
  /\ g \in [0..Len(s) -> Seq(A)]
  /\ g[0] = <<>>
  /\ \A k \in 1..Len(s) : g[k] = IF k \in I THEN Append(g[k - 1], s[k]) ELSE g[k - 1]

LEMMA SelectedSteps ==
  ASSUME NEW A, NEW s \in Seq(A), NEW I
  PROVE  \E g : Selects(g, s, I, A) /\ Selected(s, I) = g[Len(s)]
<1>0. Len(s) \in Nat /\ \A k \in 1..Len(s) : s[k] \in A
  BY LenProperties, ElementOfSeq
<1> DEFINE N == Len(s)
           F == [n \in Nat |-> [v \in Seq(A) |->
                   IF n \in I /\ n \in 1..N THEN Append(v, s[n]) ELSE v]]
           Step(g) == [n \in 0..Len(s) |->
                        IF n = 0 THEN <<>>
                        ELSE IF n \in I THEN Append(g[n - 1], s[n]) ELSE g[n - 1]]
           select == CHOOSE g : g = Step(g)
<1>1. F \in [Nat -> [Seq(A) -> Seq(A)]]
  <2> SUFFICES ASSUME NEW n \in Nat, NEW v \in Seq(A)
               PROVE  (IF n \in I /\ n \in 1..N THEN Append(v, s[n]) ELSE v) \in Seq(A)
    OBVIOUS
  <2> QED BY <1>0, AppendProperties
<1>2. PICK g : Iterates(g, Seq(A), <<>>, F, N)
  <2>1. <<>> \in Seq(A) /\ N \in Nat
    BY <1>0, EmptySeq
  <2> HIDE DEF F, N
  <2> QED BY <1>1, <2>1, Iteration
<1>2a. g \in [0..N -> Seq(A)] /\ g[0] = <<>> /\ \A k \in 1..N : g[k] = F[k][g[k - 1]]
  <2> HIDE DEF F, N
  <2> QED BY <1>2 DEF Iterates
<1>3. ASSUME NEW k \in 1..N
      PROVE  g[k] = IF k \in I THEN Append(g[k - 1], s[k]) ELSE g[k - 1]
  <2>0. k \in Nat /\ k - 1 \in 0..N
    BY <1>0
  <2>1. g[k - 1] \in Seq(A)
    BY <1>2a, <2>0
  <2>2. F[k][g[k - 1]] = IF k \in I THEN Append(g[k - 1], s[k]) ELSE g[k - 1]
    BY <2>0, <2>1
  <2> QED BY <1>2a, <2>2
<1>4. g = Step(g)
  <2>1. ASSUME NEW k \in 0..N PROVE g[k] = Step(g)[k]
    <3>1. CASE k = 0
      BY <1>0, <1>2a, <3>1
    <3>2. CASE k \in 1..N
      <4>1. k \in 0..Len(s) /\ k # 0
        BY <1>0, <3>2
      <4>2. Step(g)[k] = IF k \in I THEN Append(g[k - 1], s[k]) ELSE g[k - 1]
        BY <4>1, Zenon
      <4> QED BY <1>3, <3>2, <4>2, Zenon
    <3> QED BY <1>0, <3>1, <3>2
  <2>2. g \in [0..N -> Seq(A)] /\ DOMAIN Step(g) = 0..N
    BY <1>2a
  <2>3. Step(g) = [k \in 0..N |-> Step(g)[k]]
    OBVIOUS
  <2> HIDE DEF Step
  <2> QED BY <2>1, <2>2, <2>3
<1>5. select = Step(select)
  <2> HIDE DEF Step
  <2> QED BY <1>4
<1>6. /\ select[0] = <<>>
      /\ \A k \in 1..N : select[k] = IF k \in I THEN Append(select[k - 1], s[k]) ELSE select[k - 1]
  <2>1. \A n \in 0..N : Step(select)[n] =
          IF n = 0 THEN <<>>
          ELSE IF n \in I THEN Append(select[n - 1], s[n]) ELSE select[n - 1]
    <3> HIDE DEF select
    <3> QED OBVIOUS
  <2> HIDE DEF select, Step
  <2> QED BY <1>0, <1>5, <2>1
<1>7. Selected(s, I) = select[N]
  BY DEF Selected
<1>8. select[N] = g[N]
  <2> DEFINE T == {k \in Nat : k <= N => select[k] = g[k]}
  <2>1. 0 \in T
    <3> HIDE DEF select
    <3> QED BY <1>2a, <1>6
  <2>2. ASSUME NEW k \in Nat, k \in T PROVE k + 1 \in T
    <3> SUFFICES ASSUME k + 1 <= N PROVE select[k + 1] = g[k + 1]
      OBVIOUS
    <3>1. k + 1 \in 1..N /\ (k + 1) - 1 = k /\ select[k] = g[k]
      BY <2>2, <1>0
    <3> HIDE DEF select, T, N, F, Step
    <3> QED BY <3>1, <1>3, <1>6
  <2> HIDE DEF T, select
  <2>3. \A k \in Nat : k \in T
    BY <2>1, <2>2, SetInduction
  <2> QED BY <2>3, <1>0 DEF T
<1>9. Selects(g, s, I, A)
  BY <1>0, <1>2a, <1>3 DEF Selects
<1> HIDE DEF select
<1> QED BY <1>7, <1>8, <1>9

LEMMA SelectsUnique ==
  ASSUME NEW A, NEW s \in Seq(A), NEW t \in Seq(A), NEW I, NEW J, NEW g, NEW h,
         Selects(g, s, I, A), Selects(h, t, J, A), Len(s) <= Len(t),
         \A k \in 1..Len(s) : s[k] = t[k] /\ (k \in I <=> k \in J)
  PROVE  h[Len(s)] = g[Len(s)]
<1> DEFINE T == {k \in Nat : k <= Len(s) => g[k] = h[k]}
<1>0. Len(s) \in Nat /\ Len(t) \in Nat
  BY LenProperties
<1>1. 0 \in T
  BY DEF Selects
<1>2. ASSUME NEW k \in Nat, k \in T PROVE k + 1 \in T
  <2> SUFFICES ASSUME k + 1 <= Len(s) PROVE g[k + 1] = h[k + 1]
    OBVIOUS
  <2>1. /\ k + 1 \in 1..Len(s) /\ k + 1 \in 1..Len(t)
        /\ (k + 1) - 1 = k /\ g[k] = h[k]
    BY <1>0, <1>2
  <2>2. /\ s[k + 1] = t[k + 1] /\ (k + 1 \in I <=> k + 1 \in J)
        /\ g[k + 1] = IF k + 1 \in I THEN Append(g[k], s[k + 1]) ELSE g[k]
        /\ h[k + 1] = IF k + 1 \in J THEN Append(h[k], t[k + 1]) ELSE h[k]
    BY <2>1 DEF Selects
  <2> QED BY <2>1, <2>2
<1> HIDE DEF T
<1>3. \A k \in Nat : k \in T
  BY <1>1, <1>2, SetInduction
<1> QED BY <1>0, <1>3 DEF T

LEMMA SelectedType ==
  ASSUME NEW A, NEW s \in Seq(A), NEW I
  PROVE  Selected(s, I) \in Seq(A)
<1>1. PICK g : Selects(g, s, I, A) /\ Selected(s, I) = g[Len(s)]
  BY SelectedSteps
<1>2. Len(s) \in 0..Len(s)
  BY LenProperties
<1> QED BY <1>1, <1>2 DEF Selects

LEMMA SelectedEmpty == \A I : Selected(<<>>, I) = <<>>
<1> TAKE I
<1>1. <<>> \in Seq({}) /\ Len(<<>>) = 0
  BY EmptySeq
<1>2. PICK g : Selects(g, <<>>, I, {}) /\ Selected(<<>>, I) = g[Len(<<>>)]
  BY <1>1, SelectedSteps
<1> QED BY <1>1, <1>2 DEF Selects

LEMMA SelectedAppend ==
  ASSUME NEW A, NEW s \in Seq(A), NEW e \in A, NEW I, NEW J,
         \A k \in 1..Len(s) : k \in I <=> k \in J
  PROVE  Selected(Append(s, e), J) =
           IF Len(s) + 1 \in J THEN Append(Selected(s, I), e) ELSE Selected(s, I)
<1> DEFINE t == Append(s, e)
<1>0. /\ t \in Seq(A) /\ Len(t) = Len(s) + 1 /\ Len(s) \in Nat /\ t[Len(s) + 1] = e
      /\ \A k \in 1..Len(s) : t[k] = s[k]
  BY AppendProperties, LenProperties
<1> HIDE DEF t
<1>1. PICK g : Selects(g, s, I, A) /\ Selected(s, I) = g[Len(s)]
  BY SelectedSteps
<1>2. PICK h : Selects(h, t, J, A) /\ Selected(t, J) = h[Len(t)]
  BY <1>0, SelectedSteps
<1>3. h[Len(s)] = g[Len(s)]
  <2>1. Len(s) <= Len(t) /\ \A k \in 1..Len(s) : s[k] = t[k] /\ (k \in I <=> k \in J)
    BY <1>0
  <2> QED BY <1>0, <1>1, <1>2, <2>1, SelectsUnique
<1>4. Len(s) + 1 \in 1..Len(t) /\ (Len(s) + 1) - 1 = Len(s)
  BY <1>0
<1>5. h[Len(s) + 1] = IF Len(s) + 1 \in J THEN Append(h[Len(s)], e) ELSE h[Len(s)]
  BY <1>0, <1>2, <1>4 DEF Selects
<1>6. Selected(t, J) = IF Len(s) + 1 \in J THEN Append(Selected(s, I), e) ELSE Selected(s, I)
  BY <1>0, <1>1, <1>2, <1>3, <1>5
<1> QED BY <1>6 DEF t

(* g is what has been joined after every sequence of ss.                   *)
Joins(g, ss, A) ==
  /\ g \in [0..Len(ss) -> Seq(A)]
  /\ g[0] = <<>>
  /\ \A k \in 1..Len(ss) : g[k] = g[k - 1] \o ss[k]

LEMMA FlattenSteps ==
  ASSUME NEW A, NEW ss \in Seq(Seq(A))
  PROVE  \E g : Joins(g, ss, A) /\ FlattenSeq(ss) = g[Len(ss)]
<1>0. Len(ss) \in Nat /\ \A k \in 1..Len(ss) : ss[k] \in Seq(A)
  BY LenProperties, ElementOfSeq
<1> DEFINE N == Len(ss)
           F == [n \in Nat |-> [v \in Seq(A) |-> IF n \in 1..N THEN v \o ss[n] ELSE v]]
           Step(f) == [n \in 1..Len(ss) |-> IF n = 1 THEN ss[n] ELSE f[n - 1] \o ss[n]]
           flatten == CHOOSE f : f = Step(f)
<1>1. F \in [Nat -> [Seq(A) -> Seq(A)]]
  <2> SUFFICES ASSUME NEW n \in Nat, NEW v \in Seq(A)
               PROVE  (IF n \in 1..N THEN v \o ss[n] ELSE v) \in Seq(A)
    OBVIOUS
  <2> QED BY <1>0, ConcatProperties
<1>2. PICK g : Iterates(g, Seq(A), <<>>, F, N)
  <2>1. <<>> \in Seq(A) /\ N \in Nat
    BY <1>0, EmptySeq
  <2> HIDE DEF F, N
  <2> QED BY <1>1, <2>1, Iteration
<1>3. g \in [0..N -> Seq(A)] /\ g[0] = <<>> /\ \A k \in 1..N : g[k] = F[k][g[k - 1]]
  <2> HIDE DEF F, N
  <2> QED BY <1>2 DEF Iterates
<1>4. ASSUME NEW k \in 1..N PROVE g[k] = g[k - 1] \o ss[k]
  <2>0. k \in Nat /\ k - 1 \in 0..N
    BY <1>0
  <2>1. g[k - 1] \in Seq(A)
    BY <1>3, <2>0
  <2>2. F[k][g[k - 1]] = g[k - 1] \o ss[k]
    BY <2>0, <2>1
  <2> QED BY <1>3, <2>2
<1>5. Joins(g, ss, A)
  BY <1>0, <1>3, <1>4 DEF Joins
<1>6. CASE N = 0
  <2>1. ss = <<>> /\ FlattenSeq(ss) = ss
    BY <1>6, EmptySeq DEF FlattenSeq
  <2> QED BY <1>3, <1>5, <1>6, <2>1
<1>7. CASE N # 0
  <2> DEFINE f0 == [k \in 1..N |-> g[k]]
  <2>1. f0 = Step(f0)
    <3>1. ASSUME NEW k \in 1..N PROVE g[k] = Step(f0)[k]
      <4>1. CASE k = 1
        <5>1. 1 - 1 = 0 /\ ss[1] \in Seq(A) /\ g[0] = <<>>
          BY <1>0, <1>3, <1>7
        <5>2. g[1] = <<>> \o ss[1]
          BY <1>4, <4>1, <5>1
        <5>3. g[1] = ss[1]
          BY <5>1, <5>2, ConcatEmptySeq
        <5>4. Step(f0)[k] = ss[k]
          BY <4>1
        <5> QED BY <4>1, <5>3, <5>4
      <4>2. CASE k # 1
        <5>1. k - 1 \in 1..N /\ k \in 1..Len(ss)
          BY <1>0, <4>2
        <5>2. f0[k - 1] = g[k - 1]
          BY <5>1
        <5> HIDE DEF f0
        <5>3. Step(f0)[k] = f0[k - 1] \o ss[k]
          BY <4>2, <5>1, Zenon
        <5> QED BY <1>4, <5>2, <5>3
      <4> QED BY <4>1, <4>2
    <3>2. f0 = [k \in 1..N |-> g[k]]
      OBVIOUS
    <3>3. Step(f0) = [k \in 1..N |-> Step(f0)[k]]
      <4> HIDE DEF f0
      <4> QED OBVIOUS
    <3> HIDE DEF Step, f0
    <3> QED BY <3>1, <3>2, <3>3
  <2>2. flatten = Step(flatten)
    <3> HIDE DEF Step
    <3> QED BY <2>1
  <2>3. \A n \in 1..N : flatten[n] = IF n = 1 THEN ss[n] ELSE flatten[n - 1] \o ss[n]
    <3>1. \A n \in 1..N : Step(flatten)[n] = IF n = 1 THEN ss[n] ELSE flatten[n - 1] \o ss[n]
      <4> HIDE DEF flatten
      <4> QED OBVIOUS
    <3> HIDE DEF flatten, Step
    <3> QED BY <2>2, <3>1
  <2>4. FlattenSeq(ss) = flatten[N]
    BY <1>7 DEF FlattenSeq
  <2> DEFINE T == {k \in Nat : k \in 1..N => flatten[k] = g[k]}
  <2>5. 0 \in T
    OBVIOUS
  <2>6. ASSUME NEW k \in Nat, k \in T PROVE k + 1 \in T
    <3> SUFFICES ASSUME k + 1 \in 1..N PROVE flatten[k + 1] = g[k + 1]
      OBVIOUS
    <3> HIDE DEF flatten, F, Step
    <3>1. CASE k = 0
      <4>0. 1 \in 1..N /\ 1 - 1 = 0
        BY <1>0, <1>7
      <4>1. g[1] = g[0] \o ss[1] /\ g[0] = <<>> /\ ss[1] \in Seq(A)
        <5> HIDE DEF T
        <5>1. g[1] = g[1 - 1] \o ss[1]
          BY <1>4, <4>0
        <5> QED BY <1>0, <1>3, <4>0, <5>1
      <4>2. g[1] = ss[1]
        BY <4>1, ConcatEmptySeq
      <4>3. flatten[1] = ss[1]
        BY <2>3, <3>1
      <4> QED BY <3>1, <4>2, <4>3
    <3>2. CASE k # 0
      <4>1. k \in 1..N /\ (k + 1) - 1 = k /\ k + 1 # 1
        BY <3>2, <1>0
      <4>2. flatten[k] = g[k]
        BY <2>6, <4>1
      <4> HIDE DEF T, f0
      <4>3. g[k + 1] = g[(k + 1) - 1] \o ss[k + 1]
        BY <1>4
      <4>4. flatten[k + 1] = flatten[(k + 1) - 1] \o ss[k + 1]
        BY <2>3, <4>1
      <4> QED BY <4>1, <4>2, <4>3, <4>4
    <3> QED BY <3>1, <3>2
  <2> HIDE DEF T, flatten
  <2>7. \A k \in Nat : k \in T
    BY <2>5, <2>6, SetInduction
  <2>8. N \in Nat /\ N \in 1..N
    BY <1>0, <1>7
  <2>9. flatten[N] = g[N]
    BY <2>7, <2>8 DEF T
  <2> QED BY <1>5, <2>4, <2>9
<1> QED BY <1>6, <1>7

LEMMA JoinsUnique ==
  ASSUME NEW A, NEW ss \in Seq(Seq(A)), NEW tt \in Seq(Seq(A)), NEW g, NEW h,
         Joins(g, ss, A), Joins(h, tt, A), Len(ss) <= Len(tt),
         \A k \in 1..Len(ss) : ss[k] = tt[k]
  PROVE  h[Len(ss)] = g[Len(ss)]
<1> DEFINE T == {k \in Nat : k <= Len(ss) => g[k] = h[k]}
<1>0. Len(ss) \in Nat /\ Len(tt) \in Nat
  BY LenProperties
<1>1. 0 \in T
  BY DEF Joins
<1>2. ASSUME NEW k \in Nat, k \in T PROVE k + 1 \in T
  <2> SUFFICES ASSUME k + 1 <= Len(ss) PROVE g[k + 1] = h[k + 1]
    OBVIOUS
  <2>1. /\ k + 1 \in 1..Len(ss) /\ k + 1 \in 1..Len(tt)
        /\ (k + 1) - 1 = k /\ g[k] = h[k]
    BY <1>0, <1>2
  <2>2. ss[k + 1] = tt[k + 1] /\ g[k + 1] = g[k] \o ss[k + 1] /\ h[k + 1] = h[k] \o tt[k + 1]
    BY <2>1 DEF Joins
  <2> QED BY <2>1, <2>2
<1> HIDE DEF T
<1>3. \A k \in Nat : k \in T
  BY <1>1, <1>2, SetInduction
<1> QED BY <1>0, <1>3 DEF T

LEMMA FlattenType ==
  ASSUME NEW A, NEW ss \in Seq(Seq(A))
  PROVE  FlattenSeq(ss) \in Seq(A)
<1>1. PICK g : Joins(g, ss, A) /\ FlattenSeq(ss) = g[Len(ss)]
  BY FlattenSteps
<1>2. Len(ss) \in 0..Len(ss)
  BY LenProperties
<1> QED BY <1>1, <1>2 DEF Joins

LEMMA FlattenAppend ==
  ASSUME NEW A, NEW ss \in Seq(Seq(A)), NEW s \in Seq(A)
  PROVE  FlattenSeq(Append(ss, s)) = FlattenSeq(ss) \o s
<1> DEFINE tt == Append(ss, s)
<1>0. /\ tt \in Seq(Seq(A)) /\ Len(tt) = Len(ss) + 1 /\ Len(ss) \in Nat
      /\ tt[Len(ss) + 1] = s
      /\ \A k \in 1..Len(ss) : tt[k] = ss[k]
  BY AppendProperties, LenProperties
<1> HIDE DEF tt
<1>1. PICK g : Joins(g, ss, A) /\ FlattenSeq(ss) = g[Len(ss)]
  BY FlattenSteps
<1>2. PICK h : Joins(h, tt, A) /\ FlattenSeq(tt) = h[Len(tt)]
  BY <1>0, FlattenSteps
<1>3. h[Len(ss)] = g[Len(ss)]
  <2>1. Len(ss) <= Len(tt)
    BY <1>0
  <2> QED BY <1>0, <1>1, <1>2, <2>1, JoinsUnique
<1>4. Len(ss) + 1 \in 1..Len(tt) /\ (Len(ss) + 1) - 1 = Len(ss)
  BY <1>0
<1>5. h[Len(ss) + 1] = h[Len(ss)] \o s
  BY <1>0, <1>2, <1>4 DEF Joins
<1>6. FlattenSeq(tt) = FlattenSeq(ss) \o s
  BY <1>0, <1>1, <1>2, <1>3, <1>5
<1> QED BY <1>6 DEF tt

-----------------------------------------------------------------------------
(* What reached the target. *)

LEMMA EntriesType == ASSUME TypeOK, NEW kinds PROVE Entries(kinds) \in Seq(Entry)
BY SelectedType DEF Entries, TypeOK

LEMMA EntriesAppend ==
  ASSUME TypeOK, NEW kinds, NEW e \in Entry, transcript' = Append(transcript, e)
  PROVE  Entries(kinds)' = IF e.kind \in kinds THEN Append(Entries(kinds), e) ELSE Entries(kinds)
<1> DEFINE I == {i \in DOMAIN transcript : transcript[i].kind \in kinds}
           J == {i \in DOMAIN transcript' : transcript'[i].kind \in kinds}
<1>1. transcript \in Seq(Entry) /\ Len(transcript) \in Nat /\ DOMAIN transcript = 1..Len(transcript)
  BY LenProperties DEF TypeOK
<1>2. /\ transcript' \in Seq(Entry) /\ Len(transcript') = Len(transcript) + 1
      /\ \A i \in 1..Len(transcript) : transcript'[i] = transcript[i]
      /\ transcript'[Len(transcript) + 1] = e
  BY <1>1, AppendProperties
<1>3. DOMAIN transcript' = 1..(Len(transcript) + 1)
  BY <1>2, LenProperties
<1>4. \A k \in 1..Len(transcript) : k \in I <=> k \in J
  BY <1>1, <1>2, <1>3
<1>5. Len(transcript) + 1 \in J <=> e.kind \in kinds
  BY <1>1, <1>2, <1>3
<1>6. Entries(kinds) = Selected(transcript, I) /\ Entries(kinds)' = Selected(transcript', J)
  BY DEF Entries
<1> HIDE DEF I, J
<1>7. Selected(Append(transcript, e), J) =
        IF Len(transcript) + 1 \in J THEN Append(Selected(transcript, I), e)
                                     ELSE Selected(transcript, I)
  BY <1>1, <1>4, SelectedAppend
<1> QED BY <1>5, <1>6, <1>7

(* The calls of the executed entries.                                      *)
ExecutedCalls ==
  [i \in DOMAIN Entries({"executed"}) |-> Entries({"executed"})[i].call]

EffectsInv ==
  ran = IF pc = "exec" THEN Append(ExecutedCalls, Head(pending)) ELSE ExecutedCalls

LEMMA EffectsInit == Init => EffectsInv
<1> SUFFICES ASSUME Init PROVE EffectsInv
  OBVIOUS
<1>1. Entries({"executed"}) = <<>>
  BY SelectedEmpty DEF Init, Entries
<1>2. ExecutedCalls = <<>>
  BY <1>1 DEF ExecutedCalls
<1> QED BY <1>2 DEF Init, EffectsInv

LEMMA ExecutedCallsUnchanged ==
  ASSUME TypeOK,
         \/ transcript' = transcript
         \/ \E e \in Entry : e.kind # "executed" /\ transcript' = Append(transcript, e)
  PROVE  ExecutedCalls' = ExecutedCalls
<1>1. Entries({"executed"})' = Entries({"executed"})
  <2>1. CASE transcript' = transcript
    BY <2>1 DEF Entries
  <2>2. ASSUME NEW e \in Entry, e.kind # "executed", transcript' = Append(transcript, e)
        PROVE  Entries({"executed"})' = Entries({"executed"})
    BY <2>2, EntriesAppend
  <2> QED BY <2>1, <2>2
<1> QED BY <1>1 DEF ExecutedCalls

LEMMA ExecutedCallsAppend ==
  ASSUME TypeOK, NEW e \in Entry, e.kind = "executed", transcript' = Append(transcript, e)
  PROVE  ExecutedCalls' = Append(ExecutedCalls, e.call)
<1> DEFINE s == Entries({"executed"})
           t == Append(s, e)
<1>1. s \in Seq(Entry) /\ Len(s) \in Nat /\ DOMAIN s = 1..Len(s)
  BY EntriesType, LenProperties
<1>2. Entries({"executed"})' = t
  BY EntriesAppend
<1>3. /\ t \in Seq(Entry) /\ Len(t) = Len(s) + 1 /\ t[Len(s) + 1] = e
      /\ \A i \in 1..Len(s) : t[i] = s[i]
  BY <1>1, AppendProperties
<1>4. DOMAIN t = 1..(Len(s) + 1)
  BY <1>3, LenProperties
<1>5. ExecutedCalls = [i \in 1..Len(s) |-> s[i].call]
  BY <1>1 DEF ExecutedCalls
<1>6. ExecutedCalls' = [i \in 1..(Len(s) + 1) |-> t[i].call]
  BY <1>2, <1>4 DEF ExecutedCalls
<1>7. \A i \in 1..Len(s) : s[i].call \in ToolCall \cup {NoCall}
  <2>1. \A i \in 1..Len(s) : s[i] \in Entry
    BY <1>1, ElementOfSeq
  <2> QED BY <2>1 DEF Entry
<1>8. e.call \in ToolCall \cup {NoCall}
  BY DEF Entry
<1> HIDE DEF s, t
<1>9. ExecutedCalls \in Seq(ToolCall \cup {NoCall}) /\ Len(ExecutedCalls) = Len(s)
  BY <1>1, <1>5, <1>7
<1>10. ExecutedCalls' \in Seq(ToolCall \cup {NoCall}) /\ Len(ExecutedCalls') = Len(s) + 1
  BY <1>1, <1>3, <1>6, <1>7, <1>8
<1> DEFINE u == Append(ExecutedCalls, e.call)
<1>11. /\ u \in Seq(ToolCall \cup {NoCall}) /\ Len(u) = Len(s) + 1
       /\ u[Len(s) + 1] = e.call
       /\ \A i \in 1..Len(s) : u[i] = ExecutedCalls[i]
  BY <1>8, <1>9, AppendProperties
<1> HIDE DEF u
<1>12. \A i \in 1..(Len(s) + 1) : ExecutedCalls'[i] = u[i]
  BY <1>1, <1>3, <1>5, <1>6, <1>11
<1>13. ExecutedCalls' = u
  BY <1>10, <1>11, <1>12, SeqEqual
<1> QED BY <1>13 DEF u

LEMMA EffectsStep == TypeInv /\ EffectsInv /\ [Next]_vars => EffectsInv'
<1> SUFFICES ASSUME TypeInv, EffectsInv, [Next]_vars PROVE EffectsInv'
  OBVIOUS
<1>0. TypeOK /\ iterations \in Int /\ iterations + 1 \in Int
  BY DEF TypeInv, TypeOK
<1>1. ASSUME pc # "exec", pc' # "exec", ran' = ran,
             \/ transcript' = transcript
             \/ \E e \in Entry : e.kind # "executed" /\ transcript' = Append(transcript, e)
      PROVE  EffectsInv'
  BY <1>0, <1>1, ExecutedCallsUnchanged DEF EffectsInv
<1>2. CASE \/ ExhaustIterations \/ AskModel \/ ModelRaises \/ CrashOnInput \/ ReportResults
  BY <1>1, <1>2
  DEF ExhaustIterations, AskModel, ModelRaises, CrashOnInput, ReportResults, Raise, AtCall,
      TurnHandled
<1>3. ASSUME NEW c \in Completions, Reply(c) PROVE EffectsInv'
  <2>1. Note("error", iterations) \in Entry /\ Note("text_only", iterations) \in Entry
        /\ Note("error", iterations).kind # "executed"
        /\ Note("text_only", iterations).kind # "executed"
    BY <1>0, NoteType DEF Note
  <2> QED
    BY <1>1, <1>3, <2>1 DEF Reply, OverBudgetReply, TextOnlyReply, ToolReply, Stop
<1>4. CASE StopOnBudget \/ ModelFails \/ GiveUpOnModel
  <2>1. \A n \in Int : Note("error", n) \in Entry /\ Note("error", n).kind # "executed"
    BY NoteType DEF Note
  <2> QED
    BY <1>0, <1>1, <1>4, <2>1 DEF StopOnBudget, ModelFails, GiveUpOnModel, TurnHandled, Stop
<1>5. CASE RejectCall \/ CallDone
  <2>1. Head(pending) \in ToolCall
    BY <1>0, <1>5, HeadTailProperties DEF RejectCall, CallDone, AtCall, TypeOK
  <2>2. /\ CallEntry("rejected", Head(pending), TRUE) \in Entry
        /\ CallEntry("rejected", Head(pending), TRUE).kind # "executed"
        /\ CallEntry("done", Head(pending), FALSE) \in Entry
        /\ CallEntry("done", Head(pending), FALSE).kind # "executed"
    BY <1>0, <2>1, EntryType DEF CallEntry
  <2> QED BY <1>1, <1>5, <2>2 DEF RejectCall, CallDone, AtCall, Stop
<1>6. CASE DispatchCall
  <2>1. /\ pc # "exec" /\ pc' = "exec" /\ ran' = Append(ran, Head(pending))
        /\ transcript' = transcript /\ pending' = pending
    BY <1>6 DEF DispatchCall, AtCall, turn
  <2>2. ExecutedCalls' = ExecutedCalls
    BY <1>0, <2>1, ExecutedCallsUnchanged
  <2> QED BY <2>1, <2>2 DEF EffectsInv
<1>7. ASSUME NEW is_error \in BOOLEAN, ExecReturns(is_error) PROVE EffectsInv'
  <2>1. Head(pending) \in ToolCall
    BY <1>0, <1>7, HeadTailProperties DEF ExecReturns, TypeInv, ControlInv, TypeOK
  <2> DEFINE e == CallEntry("executed", Head(pending), is_error)
  <2>2. e \in Entry /\ e.kind = "executed" /\ e.call = Head(pending)
    BY <1>0, <2>1, EntryType DEF CallEntry
  <2>3. /\ pc = "exec" /\ pc' = "calls" /\ ran' = ran /\ transcript' = Append(transcript, e)
    BY <1>7 DEF ExecReturns, ExecutedTranscript
  <2> HIDE DEF e
  <2>4. ExecutedCalls' = Append(ExecutedCalls, Head(pending))
    BY <1>0, <2>2, <2>3, ExecutedCallsAppend
  <2> QED BY <2>3, <2>4 DEF EffectsInv
<1>8. CASE UNCHANGED vars
  <2>1. pc' = pc /\ ran' = ran /\ transcript' = transcript /\ pending' = pending
    BY <1>8 DEF vars, turn
  <2>2. ExecutedCalls' = ExecutedCalls
    BY <1>0, <2>1, ExecutedCallsUnchanged
  <2> QED BY <2>1, <2>2 DEF EffectsInv
<1> QED
  BY <1>2, <1>3, <1>4, <1>5, <1>6, <1>7, <1>8 DEF Next, AgentStep, ModelAnswers, TargetAnswers

LEMMA EffectsInvariant == Spec => []EffectsInv
BY EffectsInit, EffectsStep, TypeInvariant, PTL DEF Spec

(* The transcript is a true record of what was done to the target: every   *)
(* call that reached it, in order and once, and none after done.           *)
THEOREM EffectsAreRecorded == Spec => []EffectsRecorded
<1>1. TypeInv /\ ExplainInv /\ EffectsInv => EffectsRecorded
  <2> SUFFICES ASSUME TypeInv, ExplainInv, EffectsInv PROVE EffectsRecorded
    OBVIOUS
  <2>1. /\ transcript \in Seq(Entry) /\ Len(transcript) \in Nat
        /\ DOMAIN transcript = 1..Len(transcript)
    BY LenProperties DEF TypeInv, TypeOK
  <2>2. \A i \in DOMAIN transcript : transcript[i].kind = "done" => i = Len(transcript)
    BY <2>1 DEF ExplainInv, DiagnosisExplained
  <2> QED BY <2>2 DEF EffectsInv, EffectsRecorded, ExecutedCalls
<1> QED BY <1>1, TypeInvariant, ExplainInvariant, EffectsInvariant, PTL

-----------------------------------------------------------------------------
(* What the model was told. *)

(* The results of the turns that are over, one sequence per message.       *)
UserContents ==
  [i \in DOMAIN messages |-> IF messages[i].role = "user" THEN messages[i].content ELSE <<>>]

CallEntries == Entries({"rejected", "executed"})

(* Between the turns nothing is being collected; each result is about the  *)
(* call of the entry at its place, with its verdict; and none is missing   *)
(* unless the turn it belongs to ended the run.                            *)
ToldInv ==
  /\ pc \in {"head", "llm"} => tool_results = <<>>
  /\ Len(Results) <= Len(CallEntries)
  /\ \A i \in 1..Len(Results) : /\ Results[i].id = CallEntries[i].call.id
                                /\ Results[i].is_error = CallEntries[i].is_error
  /\ diagnosis \notin {"summary", "invalid_calls"} => Len(Results) = Len(CallEntries)

LEMMA ResultsType ==
  ASSUME TypeOK
  PROVE  /\ UserContents \in Seq(Seq(Block)) /\ FlattenSeq(UserContents) \in Seq(Block)
         /\ Results = FlattenSeq(UserContents) \o tool_results
         /\ Results \in Seq(Block)
<1>1. messages \in Seq(Message) /\ Len(messages) \in Nat /\ DOMAIN messages = 1..Len(messages)
  BY LenProperties DEF TypeOK
<1>2. \A i \in 1..Len(messages) : messages[i].content \in Seq(Block)
  <2>1. \A i \in 1..Len(messages) : messages[i] \in Message
    BY <1>1, ElementOfSeq
  <2> QED BY <2>1 DEF Message
<1>3. \A i \in 1..Len(messages) :
        (IF messages[i].role = "user" THEN messages[i].content ELSE <<>>) \in Seq(Block)
  BY <1>2, EmptySeq
<1>4. UserContents \in Seq(Seq(Block))
  BY <1>1, <1>3, IsASeq DEF UserContents
<1>5. FlattenSeq(UserContents) \in Seq(Block)
  BY <1>4, FlattenType
<1>6. Results = FlattenSeq(UserContents) \o tool_results
  BY DEF Results, UserContents
<1> QED BY <1>4, <1>5, <1>6, ConcatProperties DEF TypeOK

(* A message adds its results to those told so far.                        *)
LEMMA MessagesAppend ==
  ASSUME TypeOK, NEW m \in Message, messages' = Append(messages, m)
  PROVE  FlattenSeq(UserContents)' =
           FlattenSeq(UserContents) \o (IF m.role = "user" THEN m.content ELSE <<>>)
<1> DEFINE c == IF m.role = "user" THEN m.content ELSE <<>>
           u == Append(UserContents, c)
<1>1. messages \in Seq(Message) /\ Len(messages) \in Nat /\ DOMAIN messages = 1..Len(messages)
  BY LenProperties DEF TypeOK
<1>2. /\ messages' \in Seq(Message) /\ Len(messages') = Len(messages) + 1
      /\ messages'[Len(messages) + 1] = m
      /\ \A i \in 1..Len(messages) : messages'[i] = messages[i]
  BY <1>1, AppendProperties
<1>3. DOMAIN messages' = 1..(Len(messages) + 1)
  BY <1>2, LenProperties
<1>4. c \in Seq(Block)
  BY EmptySeq DEF Message
<1>5. /\ UserContents \in Seq(Seq(Block)) /\ DOMAIN UserContents = 1..Len(messages)
      /\ Len(UserContents) = Len(messages)
  <2>1. UserContents \in Seq(Seq(Block))
    BY ResultsType
  <2>2. DOMAIN UserContents = 1..Len(messages)
    BY <1>1 DEF UserContents
  <2> QED BY <1>1, <2>1, <2>2, LenProperties
<1> HIDE DEF c
<1>6. /\ u \in Seq(Seq(Block)) /\ Len(u) = Len(messages) + 1
      /\ u[Len(messages) + 1] = c
      /\ \A i \in 1..Len(messages) : u[i] = UserContents[i]
  <2> DEFINE s == UserContents
             S == Seq(Block)
  <2>1. s \in Seq(S) /\ c \in S /\ Len(s) = Len(messages)
    BY <1>4, <1>5
  <2> HIDE DEF s, S
  <2>2. /\ Append(s, c) \in Seq(S) /\ Len(Append(s, c)) = Len(messages) + 1
        /\ Append(s, c)[Len(messages) + 1] = c
        /\ \A i \in 1..Len(messages) : Append(s, c)[i] = s[i]
    BY <2>1, AppendProperties
  <2> QED BY <2>2 DEF s, S
<1>7. DOMAIN u = 1..(Len(messages) + 1) /\ u = [i \in 1..(Len(messages) + 1) |-> u[i]]
  BY <1>6, LenProperties
<1> HIDE DEF u
<1>8. UserContents' = [i \in 1..(Len(messages) + 1) |->
                         IF messages'[i].role = "user" THEN messages'[i].content ELSE <<>>]
  BY <1>3 DEF UserContents
<1>9. \A i \in 1..(Len(messages) + 1) :
        u[i] = IF messages'[i].role = "user" THEN messages'[i].content ELSE <<>>
  <2> SUFFICES ASSUME NEW i \in 1..(Len(messages) + 1)
               PROVE  u[i] = IF messages'[i].role = "user" THEN messages'[i].content ELSE <<>>
    OBVIOUS
  <2>1. CASE i = Len(messages) + 1
    BY <1>2, <1>6, <2>1 DEF c
  <2>2. CASE i \in 1..Len(messages)
    BY <1>1, <1>2, <1>6, <2>2 DEF UserContents
  <2> QED BY <1>1, <2>1, <2>2
<1>10. UserContents' = u
  <2> DEFINE D == 1..(Len(messages) + 1)
             v(i) == IF messages'[i].role = "user" THEN messages'[i].content ELSE <<>>
  <2>1. \A i \in D : u[i] = v(i)
    BY <1>9
  <2>2. UserContents' = [i \in D |-> v(i)] /\ u = [i \in D |-> u[i]]
    BY <1>7, <1>8
  <2> HIDE DEF D, v
  <2> QED BY <2>1, <2>2
<1>11. FlattenSeq(u) = FlattenSeq(UserContents) \o c
  BY <1>4, <1>5, FlattenAppend DEF u
<1> QED BY <1>10, <1>11 DEF c

LEMMA ToldInit == Init => ToldInv
<1> SUFFICES ASSUME Init PROVE ToldInv
  OBVIOUS
<1>0. TypeOK /\ tool_results = <<>>
  BY TypeInit DEF TypeInv, Init
<1>1. UserContents = <<<<>>>>
  <2>1. DOMAIN messages = 1..1 /\ messages[1].role = "user" /\ messages[1].content = <<>>
    BY DEF Init, Opening
  <2> QED BY <2>1 DEF UserContents
<1>2. FlattenSeq(UserContents) = <<>>
  <2>1. <<>> \in Seq(Seq(Block)) /\ <<>> \in Seq(Block)
    BY EmptySeq
  <2>2. FlattenSeq(Append(<<>>, <<>>)) = FlattenSeq(<<>>) \o <<>>
    BY <2>1, FlattenAppend
  <2>3. FlattenSeq(<<>>) = <<>>
    BY DEF FlattenSeq
  <2>4. Append(<<>>, <<>>) = <<<<>>>> /\ <<>> \o <<>> = <<>>
    OBVIOUS
  <2> QED BY <1>1, <2>2, <2>3, <2>4
<1>3. Results = <<>>
  BY <1>0, <1>2, ResultsType
<1>4. CallEntries = <<>>
  BY SelectedEmpty DEF Init, CallEntries, Entries
<1> QED BY <1>0, <1>3, <1>4 DEF ToldInv

(* A step after which the results and the entries are what they were.      *)
LEMMA ToldFrame ==
  ASSUME ToldInv, Results' = Results, CallEntries' = CallEntries,
         pc' \in {"head", "llm"} => tool_results' = <<>>,
         diagnosis \notin {"summary", "invalid_calls"}
           \/ diagnosis' \in {"summary", "invalid_calls"}
  PROVE  ToldInv'
BY DEF ToldInv

LEMMA CallEntriesUnchanged ==
  ASSUME TypeOK,
         \/ transcript' = transcript
         \/ \E e \in Entry : /\ e.kind \notin {"rejected", "executed"}
                             /\ transcript' = Append(transcript, e)
  PROVE  CallEntries' = CallEntries
<1>1. CASE transcript' = transcript
  BY <1>1 DEF CallEntries, Entries
<1>2. ASSUME NEW e \in Entry, e.kind \notin {"rejected", "executed"},
             transcript' = Append(transcript, e)
      PROVE  CallEntries' = CallEntries
  BY <1>2, EntriesAppend DEF CallEntries
<1> QED BY <1>1, <1>2

(* A call handled: one result and one entry more, about the same call.     *)
LEMMA ToldOneMore ==
  ASSUME TypeOK, ToldInv, NEW tc \in ToolCall, NEW is_error \in BOOLEAN, NEW e \in Entry,
         e.kind \in {"rejected", "executed"}, e.call = tc, e.is_error = is_error,
         transcript' = Append(transcript, e), messages' = messages,
         tool_results' = Append(tool_results, ToolResult(tc, is_error)),
         pc' = "calls", diagnosis' = diagnosis,
         diagnosis \notin {"summary", "invalid_calls"}
  PROVE  ToldInv'
<1> DEFINE r == ToolResult(tc, is_error)
           F == FlattenSeq(UserContents)
<1>0. r \in Block /\ r.id = tc.id /\ r.is_error = is_error
  BY ResultType DEF ToolResult
<1>1. /\ F \in Seq(Block) /\ Results = F \o tool_results /\ Results \in Seq(Block)
      /\ tool_results \in Seq(Block)
  BY ResultsType DEF TypeOK
<1>2. F' = F
  BY DEF UserContents
<1>3. Results' = F \o tool_results'
  BY <1>2 DEF Results, UserContents
<1> HIDE DEF r, F
<1>4. tool_results' = Append(tool_results, r)
  BY DEF r
<1>5. Results' = Append(Results, r)
  <2>1. F \o Append(tool_results, r) = Append(F \o tool_results, r)
    BY <1>0, <1>1
  <2> QED BY <1>1, <1>3, <1>4, <2>1
<1>6. CallEntries \in Seq(Entry) /\ CallEntries' = Append(CallEntries, e)
  BY EntriesType, EntriesAppend DEF CallEntries
<1>7. Len(Results) = Len(CallEntries) /\ Len(Results) \in Nat
  BY <1>1, LenProperties DEF ToldInv
<1>8. /\ Len(Results') = Len(Results) + 1 /\ Results'[Len(Results) + 1] = r
      /\ \A i \in 1..Len(Results) : Results'[i] = Results[i]
  BY <1>0, <1>1, <1>5, AppendProperties
<1>9. /\ Len(CallEntries') = Len(Results) + 1 /\ CallEntries'[Len(Results) + 1] = e
      /\ \A i \in 1..Len(Results) : CallEntries'[i] = CallEntries[i]
  BY <1>6, <1>7, AppendProperties
<1>10. ASSUME NEW i \in 1..(Len(Results) + 1)
       PROVE  Results'[i].id = CallEntries'[i].call.id
              /\ Results'[i].is_error = CallEntries'[i].is_error
  <2>1. CASE i = Len(Results) + 1
    BY <1>0, <1>8, <1>9, <2>1
  <2>2. CASE i \in 1..Len(Results)
    BY <1>8, <1>9, <2>2 DEF ToldInv
  <2> QED BY <1>7, <2>1, <2>2
<1> QED BY <1>7, <1>8, <1>9, <1>10 DEF ToldInv

(* A turn that ends the run: its results are never told.                   *)
LEMMA ToldTurnLost ==
  ASSUME TypeOK, ToldInv, messages' = messages, tool_results' = <<>>,
         CallEntries' = CallEntries, diagnosis' \in {"summary", "invalid_calls"}
  PROVE  ToldInv'
<1> DEFINE F == FlattenSeq(UserContents)
<1>1. /\ F \in Seq(Block) /\ Results = F \o tool_results /\ tool_results \in Seq(Block)
  BY ResultsType DEF TypeOK
<1>2. Results' = F \o <<>>
  BY DEF Results, UserContents
<1> HIDE DEF F
<1>3. Results' = F
  BY <1>1, <1>2, ConcatEmptySeq
<1>4. /\ Len(F) \in Nat /\ Len(tool_results) \in Nat /\ Len(Results) = Len(F) + Len(tool_results)
      /\ \A i \in 1..Len(F) : Results[i] = F[i]
  BY <1>1, ConcatProperties, LenProperties
<1>5. CallEntries \in Seq(Entry) /\ Len(CallEntries) \in Nat
  BY EntriesType, LenProperties DEF CallEntries
<1> QED BY <1>3, <1>4, <1>5 DEF ToldInv

LEMMA ToldStep == TypeInv /\ AccountInv /\ ToldInv /\ [Next]_vars => ToldInv'
<1> SUFFICES ASSUME TypeInv, AccountInv, ToldInv, [Next]_vars PROVE ToldInv'
  OBVIOUS
<1>0. TypeOK /\ iterations \in Int /\ iterations + 1 \in Int
  BY DEF TypeInv, TypeOK
<1>1. \A n \in Int, k \in {"error", "text_only"} :
        Note(k, n) \in Entry /\ Note(k, n).kind \notin {"rejected", "executed"}
  BY NoteType DEF Note
<1>2. pc # "returned" => diagnosis = "none"
  BY DEF AccountInv
<1>3. ASSUME messages' = messages, tool_results' = tool_results
      PROVE  Results' = Results
  BY <1>3 DEF Results
<1>4. CASE ExhaustIterations \/ StopOnBudget \/ AskModel \/ ModelFails \/ ModelRaises
           \/ CrashOnInput \/ DispatchCall
  <2>1. /\ messages' = messages /\ tool_results' = tool_results
        /\ pc' = "llm" => pc = "head" 
        /\ pc' # "head" /\ pc # "returned"
    BY <1>4 DEF ExhaustIterations, StopOnBudget, AskModel, ModelFails, ModelRaises,
                CrashOnInput, DispatchCall, AtCall, Stop, Raise, turn
  <2>2. transcript' = transcript \/ \E n \in Int : transcript' = Append(transcript, Note("error", n))
    BY <1>0, <1>4 DEF ExhaustIterations, StopOnBudget, AskModel, ModelFails, ModelRaises,
                CrashOnInput, DispatchCall, Stop, Raise
  <2>3. CallEntries' = CallEntries
    BY <1>0, <1>1, <2>2, CallEntriesUnchanged
  <2>4. pc' \in {"head", "llm"} => tool_results' = <<>>
    BY <2>1 DEF ToldInv
  <2> QED BY <1>2, <1>3, <2>1, <2>3, <2>4, ToldFrame
<1>5. ASSUME NEW c \in Completions, Reply(c) PROVE ToldInv'
  <2>0. pc = "llm" /\ tool_results = <<>>
    BY <1>5 DEF Reply, OverBudgetReply, TextOnlyReply, ToolReply, ToldInv
  <2>1. transcript' = transcript
        \/ \E k \in {"error", "text_only"} : transcript' = Append(transcript, Note(k, iterations))
    BY <1>5 DEF Reply, OverBudgetReply, TextOnlyReply, ToolReply, Stop
  <2>2. CallEntries' = CallEntries
    BY <1>0, <1>1, <2>1, CallEntriesUnchanged
  <2>3. tool_results' = <<>> /\ pc' \notin {"head", "llm"}
    BY <1>5, <2>0 DEF Reply, OverBudgetReply, TextOnlyReply, ToolReply, Stop, turn
  <2>4. Results' = Results
    <3>1. CASE messages' = messages
      BY <1>3, <2>0, <2>3, <3>1
    <3>2. ASSUME NEW calls \in Seq(ToolCall), messages' = Append(messages, AssistantTurn(c.text, calls))
          PROVE  Results' = Results
      <4>1. AssistantTurn(c.text, calls) \in Message /\ AssistantTurn(c.text, calls).role = "assistant"
        BY CompletionType, AssistantTurnType DEF AssistantTurn
      <4>2. FlattenSeq(UserContents)' = FlattenSeq(UserContents) \o <<>>
        BY <1>0, <3>2, <4>1, MessagesAppend
      <4>3. FlattenSeq(UserContents)' = FlattenSeq(UserContents)
        BY <1>0, <4>2, ResultsType, ConcatEmptySeq
      <4>4. Results' = FlattenSeq(UserContents)' \o tool_results'
        BY DEF Results, UserContents
      <4> QED BY <1>0, <2>0, <2>3, <4>3, <4>4, ResultsType
    <3> QED BY <1>5, <3>1, <3>2, CompletionType, EmptySeq DEF Reply, OverBudgetReply, TextOnlyReply, ToolReply
  <2>5. diagnosis \notin {"summary", "invalid_calls"}
    BY <1>2, <2>0
  <2> QED BY <2>2, <2>3, <2>4, <2>5, ToldFrame
<1>6. CASE RejectCall
  <2>1. Head(pending) \in ToolCall
    BY <1>0, <1>6, HeadTailProperties DEF RejectCall, AtCall, TypeOK
  <2> DEFINE e == CallEntry("rejected", Head(pending), TRUE)
  <2>2. e \in Entry /\ e.kind = "rejected" /\ e.call = Head(pending) /\ e.is_error = TRUE
    BY <1>0, <2>1, EntryType DEF CallEntry
  <2>3. /\ transcript' = Append(transcript, e) /\ messages' = messages /\ pc' = "calls"
        /\ tool_results' = Append(tool_results, ToolResult(Head(pending), TRUE))
        /\ diagnosis' = diagnosis /\ diagnosis = "none"
    BY <1>2, <1>6 DEF RejectCall, AtCall, RejectionResults
  <2> HIDE DEF e
  <2> QED BY <1>0, <2>1, <2>2, <2>3, ToldOneMore
<1>7. ASSUME NEW is_error \in BOOLEAN, ExecReturns(is_error) PROVE ToldInv'
  <2>1. Head(pending) \in ToolCall
    BY <1>0, <1>7, HeadTailProperties DEF ExecReturns, TypeInv, ControlInv, TypeOK
  <2> DEFINE e == CallEntry("executed", Head(pending), is_error)
  <2>2. e \in Entry /\ e.kind = "executed" /\ e.call = Head(pending) /\ e.is_error = is_error
    BY <1>0, <2>1, EntryType DEF CallEntry
  <2>3. /\ transcript' = Append(transcript, e) /\ messages' = messages /\ pc' = "calls"
        /\ tool_results' = Append(tool_results, ToolResult(Head(pending), is_error))
        /\ diagnosis' = diagnosis /\ diagnosis = "none"
    BY <1>2, <1>7 DEF ExecReturns, ExecutedTranscript
  <2> HIDE DEF e
  <2> QED BY <1>0, <2>1, <2>2, <2>3, ToldOneMore
<1>8. CASE CallDone \/ GiveUpOnModel
  <2>1. /\ messages' = messages /\ tool_results' = <<>>
        /\ diagnosis' \in {"summary", "invalid_calls"}
    BY <1>8 DEF CallDone, GiveUpOnModel, Stop, TurnOver
  <2>2. CallEntries' = CallEntries
    <3>1. CASE GiveUpOnModel
      BY <1>0, <1>1, <3>1, CallEntriesUnchanged DEF GiveUpOnModel, Stop
    <3>2. CASE CallDone
      <4>1. Head(pending) \in ToolCall
        BY <1>0, <3>2, HeadTailProperties DEF CallDone, AtCall, TypeOK
      <4>2. /\ CallEntry("done", Head(pending), FALSE) \in Entry
            /\ CallEntry("done", Head(pending), FALSE).kind = "done"
        BY <1>0, <4>1, EntryType DEF CallEntry
      <4> QED BY <1>0, <3>2, <4>2, CallEntriesUnchanged DEF CallDone, Stop
    <3> QED BY <1>8, <3>1, <3>2
  <2> QED BY <1>0, <2>1, <2>2, ToldTurnLost
<1>9. CASE ReportResults
  <2>1. /\ messages' = Append(messages, UserTurn(tool_results)) /\ tool_results' = <<>>
        /\ transcript' = transcript /\ pc = "calls"
    BY <1>9 DEF ReportResults, TurnOver, TurnHandled
  <2>2. /\ UserTurn(tool_results) \in Message /\ UserTurn(tool_results).role = "user"
        /\ UserTurn(tool_results).content = tool_results
    BY <1>0 DEF UserTurn, Message, Texts, TypeOK
  <2>3. FlattenSeq(UserContents)' = Results
    BY <1>0, <2>1, <2>2, MessagesAppend, ResultsType
  <2>4. Results' = FlattenSeq(UserContents)' \o tool_results'
    BY DEF Results, UserContents
  <2>5. Results' = Results
    BY <1>0, <2>1, <2>3, <2>4, ResultsType, ConcatEmptySeq
  <2>6. CallEntries' = CallEntries
    BY <1>0, <2>1, CallEntriesUnchanged
  <2> QED BY <1>2, <2>1, <2>5, <2>6, ToldFrame
<1>10. CASE UNCHANGED vars
  <2>1. /\ pc' = pc /\ transcript' = transcript /\ messages' = messages
        /\ tool_results' = tool_results /\ diagnosis' = diagnosis
    BY <1>10 DEF vars, turn
  <2>2. Results' = Results /\ CallEntries' = CallEntries
    BY <1>0, <1>3, <2>1, CallEntriesUnchanged
  <2> QED BY <2>1, <2>2 DEF ToldInv
<1> QED
  BY <1>4, <1>5, <1>6, <1>7, <1>8, <1>9, <1>10 DEF Next, AgentStep, ModelAnswers, TargetAnswers

LEMMA ToldInvariant == Spec => []ToldInv
BY ToldInit, ToldStep, TypeInvariant, AccountInvariant, PTL DEF Spec

(* The model and the operator hear the same story, in the same order and   *)
(* with the same verdicts, over any number of turns.                       *)
THEOREM ToldAsRecordedHolds == Spec => []ToldAsRecorded
<1>1. TypeInv /\ ToldInv => ToldAsRecorded
  <2> SUFFICES ASSUME TypeOK, ToldInv PROVE ToldAsRecorded
    BY DEF TypeInv
  <2> DEFINE told == [i \in DOMAIN Results |-> <<Results[i].id, Results[i].is_error>>]
             recorded == [i \in DOMAIN CallEntries |->
                            <<CallEntries[i].call.id, CallEntries[i].is_error>>]
             P == {<<Results[i].id, Results[i].is_error>> : i \in DOMAIN Results}
                    \cup {<<CallEntries[i].call.id, CallEntries[i].is_error>> :
                            i \in DOMAIN CallEntries}
  <2>1. /\ Len(Results) \in Nat /\ DOMAIN Results = 1..Len(Results)
        /\ Len(CallEntries) \in Nat /\ DOMAIN CallEntries = 1..Len(CallEntries)
    BY ResultsType, EntriesType, LenProperties DEF CallEntries
  <2>2. told \in Seq(P) /\ Len(told) = Len(Results)
    BY <2>1
  <2>3. recorded \in Seq(P) /\ Len(recorded) = Len(CallEntries)
    BY <2>1
  <2>4. \A i \in 1..Len(Results) : told[i] = recorded[i]
    <3> SUFFICES ASSUME NEW i \in 1..Len(Results) PROVE told[i] = recorded[i]
      OBVIOUS
    <3>0. Len(Results) <= Len(CallEntries)
      BY DEF ToldInv
    <3>1. i \in DOMAIN Results /\ i \in DOMAIN CallEntries
      <4>1. i \in 1..Len(CallEntries)
        BY <2>1, <3>0
      <4> QED BY <2>1, <4>1
    <3>2. told[i] = <<Results[i].id, Results[i].is_error>>
      BY <3>1
    <3>3. recorded[i] = <<CallEntries[i].call.id, CallEntries[i].is_error>>
      BY <3>1
    <3> QED BY <3>2, <3>3 DEF ToldInv
  <2>5. ToldAsRecorded <=> IF diagnosis \in {"summary", "invalid_calls"}
                           THEN IsPrefix(told, recorded) ELSE told = recorded
    BY DEF ToldAsRecorded, CallEntries
  <2> HIDE DEF told, recorded, P
  <2>6. CASE diagnosis \notin {"summary", "invalid_calls"}
    <3>1. Len(told) = Len(recorded)
      BY <2>2, <2>3, <2>6 DEF ToldInv
    <3>2. told = recorded
      BY <2>2, <2>3, <2>4, <3>1, SeqEqual
    <3> QED BY <2>5, <2>6, <3>2
  <2>7. IsPrefix(told, recorded)
    <3>1. Len(told) <= Len(recorded) /\ Len(told) \in Nat /\ Len(recorded) \in Nat
      BY <2>1, <2>2, <2>3 DEF ToldInv
    <3>2. /\ \A i \in 1..Len(told) : told[i] \in P
          /\ \A i \in 1..Len(told) : recorded[i] \in P
      BY <2>2, <2>3, <3>1, ElementOfSeq
    <3> DEFINE a == SubSeq(told, 1, Len(told))
               b == SubSeq(recorded, 1, Len(told))
    <3>3. /\ a \in Seq(P) /\ Len(a) = Len(told)
          /\ \A i \in 1..Len(told) : a[i] = told[i]
      BY <3>1, <3>2, SubSeqProperties
    <3>4. /\ b \in Seq(P) /\ Len(b) = Len(told)
          /\ \A i \in 1..Len(told) : b[i] = recorded[i]
      BY <3>1, <3>2, SubSeqProperties
    <3> HIDE DEF a, b
    <3>5. a = b
      BY <2>2, <2>4, <3>3, <3>4, SeqEqual
    <3> QED BY <3>1, <3>5 DEF IsPrefix, a, b
  <2> QED BY <2>5, <2>6, <2>7
<1> QED BY <1>1, TypeInvariant, ToldInvariant, PTL
-----------------------------------------------------------------------------
(* Termination, but for the answers of others.  RunEnds is checked by TLC; *)
(* here every step brings the run closer to its end, in the order of       *)
(* triples of naturals, which has no infinite descent: the only way not to *)
(* end is to wait for an answer of the model or the target.                *)
IterationsLeft == Positive(MaxIterations) + 1 - iterations

(* What of an iteration is left: the answer, its calls, the next head.     *)
Stage == CASE pc = "llm" -> 3
           [] pc \in {"calls", "exec"} -> 2
           [] pc = "head" -> 1
           [] pc \in {"returned", "raised"} -> 0

(* Each pending call takes two steps at most.                              *)
CallsLeft == 2 * Len(pending) + (IF pc = "calls" THEN 1 ELSE 0)

GetsCloser ==
  \/ IterationsLeft' < IterationsLeft
  \/ IterationsLeft' = IterationsLeft /\ Stage' < Stage
  \/ IterationsLeft' = IterationsLeft /\ Stage' = Stage /\ CallsLeft' < CallsLeft

(* The three are naturals, and no step leaves them as they were or raises  *)
(* an earlier one: whatever the model answers, turns, calls and rejections *)
(* run out.                                                                *)
THEOREM RunWindsDown ==
  Spec => /\ [](IterationsLeft \in Nat /\ Stage \in Nat /\ CallsLeft \in Nat)
          /\ [][GetsCloser]_vars
<1>1. TypeInv /\ AccountInv => IterationsLeft \in Nat /\ Stage \in Nat /\ CallsLeft \in Nat
  <2> SUFFICES ASSUME TypeInv, AccountInv
               PROVE  IterationsLeft \in Nat /\ Stage \in Nat /\ CallsLeft \in Nat
    OBVIOUS
  <2>1. iterations \in Nat /\ roundTrips \in Nat /\ MaxIterations \in Int /\ Len(pending) \in Nat
        /\ pc \in PCs
    BY OrchestratorAssumption, LenProperties DEF TypeInv, TypeOK
  <2>2. IterationsLeft \in Nat
    BY <2>1 DEF AccountInv, RoundTripAccounting, IterationsLeft, Positive
  <2>3. Stage \in Nat
    BY <2>1 DEF Stage, PCs
  <2>4. CallsLeft \in Nat
    BY <2>1 DEF CallsLeft
  <2> QED BY <2>2, <2>3, <2>4
<1>2. TypeInv /\ [Next]_vars => [GetsCloser]_vars
  <2> SUFFICES ASSUME TypeInv, Next PROVE GetsCloser
    OBVIOUS
  <2>0. /\ iterations \in Nat /\ MaxIterations \in Int /\ Positive(MaxIterations) \in Nat
        /\ pending \in Seq(ToolCall) /\ Len(pending) \in Nat
    BY OrchestratorAssumption, LenProperties DEF TypeInv, TypeOK, Positive
  <2>1. ASSUME iterations' = iterations, Stage' < Stage PROVE GetsCloser
    BY <2>0, <2>1 DEF GetsCloser, IterationsLeft, Positive
  <2>2. CASE StopOnBudget \/ AskModel
    <3>1. iterations' = iterations + 1
      BY <2>2 DEF StopOnBudget, AskModel
    <3> QED BY <2>0, <3>1 DEF GetsCloser, IterationsLeft, Positive
  <2>3. CASE ExhaustIterations
    BY <2>1, <2>3 DEF ExhaustIterations, Stage
  <2>4. CASE ModelFails \/ ModelRaises
    BY <2>1, <2>4 DEF ModelFails, ModelRaises, Stop, Raise, Stage
  <2>5. ASSUME NEW c \in Completions, Reply(c) PROVE GetsCloser
    BY <2>1, <2>5 DEF Reply, OverBudgetReply, TextOnlyReply, ToolReply, Stop, Stage
  <2>6. CASE CrashOnInput \/ CallDone \/ GiveUpOnModel \/ ReportResults
    <3>1. pc = "calls" /\ pc' \in {"head", "returned", "raised"} /\ iterations' = iterations
      BY <2>6 DEF CrashOnInput, CallDone, GiveUpOnModel, ReportResults, AtCall, TurnHandled,
                  Stop, Raise
    <3> QED BY <2>1, <3>1 DEF Stage
  <2>7. ASSUME iterations' = iterations, pc \in {"calls", "exec"}, pc' \in {"calls", "exec"},
               CallsLeft' < CallsLeft
        PROVE  GetsCloser
    <3>1. Stage' = Stage
      BY <2>7 DEF Stage
    <3>2. IterationsLeft' = IterationsLeft
      BY <2>7 DEF IterationsLeft, Positive
    <3> QED BY <2>7, <3>1, <3>2 DEF GetsCloser
  <2>8. CASE DispatchCall
    <3>1. pc = "calls" /\ pc' = "exec" /\ pending' = pending /\ iterations' = iterations
      BY <2>8 DEF DispatchCall, AtCall, turn
    <3>2. CallsLeft' < CallsLeft
      BY <2>0, <3>1 DEF CallsLeft
    <3> QED BY <2>7, <3>1, <3>2
  <2>9. ASSUME pending # <<>>, pending' = Tail(pending), iterations' = iterations,
               pc \in {"calls", "exec"}, pc' = "calls"
        PROVE  GetsCloser
    <3>1. Len(Tail(pending)) = Len(pending) - 1
      BY <2>0, <2>9, HeadTailProperties
    <3>2. CallsLeft' < CallsLeft
      BY <2>0, <2>9, <3>1 DEF CallsLeft
    <3> QED BY <2>7, <2>9, <3>2
  <2>10. CASE RejectCall
    BY <2>9, <2>10 DEF RejectCall, AtCall
  <2>11. CASE TargetAnswers
    BY <2>9, <2>11 DEF TargetAnswers, ExecReturns, TypeInv, ControlInv
  <2> QED
    BY <2>2, <2>3, <2>4, <2>5, <2>6, <2>8, <2>10, <2>11 DEF Next, AgentStep, ModelAnswers
<1> QED BY <1>1, <1>2, TypeInvariant, AccountInvariant, PTL DEF Spec
=============================================================================
