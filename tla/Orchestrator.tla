---------------------------- MODULE Orchestrator ----------------------------
(***************************************************************************)
(* run_agent of plugins/module_utils/orchestrator.py: the tool-use loop    *)
(* that investigates one host.  One action is one segment of the function  *)
(* between two points where something else may answer or fail: the model   *)
(* (llm_client.complete) and the target (exec_callable).                   *)
(*                                                                         *)
(* What is abstracted: a tool input is valid, invalid or not a mapping     *)
(* (what _validate_tool_call tells apart); a text is empty, blank or       *)
(* prose; tokens are input plus output.  A message has at most one text    *)
(* block, in front of its tool blocks: it is a field of its own.  on_step  *)
(* has no variable: its exceptions are swallowed and its result is not     *)
(* read (Play models what it shows).                                       *)
(***************************************************************************)
EXTENDS Integers, Sequences, SequencesExt

CONSTANTS
  MaxIterations,   \* rules["budget"]["max_iterations"]
  MaxTokens,       \* rules["budget"]["max_tokens"]
  Offered,         \* allowed_names: the names build_tools(rules) returned
  CallIds,         \* ids a reply may give its tool calls
  Completions,     \* the replies the model may give
  MaxReply,        \* the most tokens the client counts of one reply
  NoCall           \* stands where a transcript entry is about no call

AllTools == {"run_cmd", "read_file", "write_file", "run_python", "done"}

Names == AllTools \cup {"unknown"}
Inputs == {"valid", "invalid", "not_a_dict"}
Texts == {"empty", "blank", "prose"}

ToolCall == [id : CallIds, name : Names, input : Inputs]

Completion == [text : Texts, tool_calls : Seq(ToolCall), tokens : Nat]

ASSUME OrchestratorAssumption ==
  /\ MaxIterations \in Int /\ MaxTokens \in Int /\ MaxReply \in Nat
  /\ Offered \subseteq AllTools
  /\ Completions \subseteq Completion
  /\ \A c \in Completions : c.tokens <= MaxReply

MAX_CONSECUTIVE_BAD == 2

VARIABLES
  pc,                   \* where run_agent is, see PCs
  iterations,           \* the loop variable
  roundTrips,           \* history: calls of llm_client.complete
  spent,                \* total_input + total_output
  consecutive_bad,
  messages,             \* the conversation sent with every request
  transcript,
  diagnosis,
  pending,              \* completion.tool_calls from the one being handled on
  tool_results,         \* results of this turn
  iter_had_good_call,
  ran                   \* history: calls handed to exec_callable

turn == <<pending, tool_results, iter_had_good_call>>
vars == <<pc, iterations, roundTrips, spent, consecutive_bad, messages, transcript,
          diagnosis, turn, ran>>

-----------------------------------------------------------------------------
(* Data. *)

PCs == {"head",      \* at the head of the for loop
        "llm",       \* inside llm_client.complete
        "calls",     \* in the loop over the reply's tool calls
        "exec",      \* inside exec_callable, for Head(pending)
        "returned",  \* run_agent returned its dict
        "raised"}    \* an exception left run_agent: transcript and totals are lost

Diagnoses == {"none", "summary", "text", "no_text", "token_budget", "llm_error",
              "invalid_calls", "max_iterations"}

ToolUse(tc) == [type |-> "tool_use", id |-> tc.id, name |-> tc.name, input |-> tc.input]
ToolResult_NoId(tc, is_error) == [type |-> "tool_result", is_error |-> is_error]
ToolResult_NoFlag(tc, is_error) == [type |-> "tool_result", id |-> tc.id, is_error |-> FALSE]
ToolResult(tc, is_error) == [type |-> "tool_result", id |-> tc.id, is_error |-> is_error]

Block == [type : {"tool_use"}, id : CallIds, name : Names, input : Inputs]
           \cup [type : {"tool_result"}, id : CallIds, is_error : BOOLEAN]

Message == [role : {"user", "assistant"}, text : Texts, content : Seq(Block)]

Opening == [role |-> "user", text |-> "prose", content |-> <<>>]
AssistantTurn(text, calls) ==
  [role |-> "assistant", text |-> text, content |-> [i \in DOMAIN calls |-> ToolUse(calls[i])]]
UserTurn(results) == [role |-> "user", text |-> "empty", content |-> results]

(* A transcript entry: the step, what it reports, and for a tool call the  *)
(* call and whether the model was told of an error.                        *)
Entry == [step : Int, kind : {"error", "text_only", "done", "rejected", "executed"},
          call : ToolCall \cup {NoCall}, is_error : BOOLEAN]

Note(kind, step) == [step |-> step, kind |-> kind, call |-> NoCall, is_error |-> FALSE]
CallEntry(kind, tc, is_error) ==
  [step |-> iterations, kind |-> kind, call |-> tc, is_error |-> is_error]

(* The elements of s at the positions in I.  (SelectSeq, with a definition *)
(* that can be reasoned about.)                                            *)
Selected(s, I) ==
  LET select[n \in 0..Len(s)] ==
        IF n = 0 THEN <<>>
        ELSE IF n \in I THEN Append(select[n - 1], s[n]) ELSE select[n - 1]
  IN  select[Len(s)]

-----------------------------------------------------------------------------
(* The conditions of the loop, each with the slips the runs guard against. *)

(* _validate_tool_call: the name must be offered, the input well formed.   *)
Dispatchable_AnyName(tc) == tc.input = "valid"
Dispatchable(tc) == tc.name \in Offered /\ tc.input = "valid"

(* The check at the head of an iteration, before anything is asked.        *)
TokensUsedUp_Strict == spent > MaxTokens
TokensUsedUp == spent >= MaxTokens

(* The check after a reply, before anything in it is acted on.             *)
BreaksBudget_Never(tokens) == FALSE
BreaksBudget(tokens) == spent + tokens > MaxTokens

RangeExhausted_OffByOne == iterations > MaxIterations
RangeExhausted == iterations >= MaxIterations

(* consecutive_bad at the end of a turn.                                   *)
BadStreak_NoReset == IF iter_had_good_call THEN consecutive_bad ELSE consecutive_bad + 1
BadStreak == IF iter_had_good_call THEN 0 ELSE consecutive_bad + 1

(* What the model is told of a rejected call.                              *)
RejectionResults_Skipped(tc) == tool_results
RejectionResults(tc) == Append(tool_results, ToolResult(tc, TRUE))

(* What the operator is told of an executed call.                          *)
ExecutedTranscript_OnlyOk(tc, is_error) ==
  IF is_error THEN transcript ELSE Append(transcript, CallEntry("executed", tc, is_error))
ExecutedTranscript(tc, is_error) == Append(transcript, CallEntry("executed", tc, is_error))

-----------------------------------------------------------------------------
(* Effects several segments share. *)

Init ==
  /\ pc = "head"
  /\ iterations = 0 /\ roundTrips = 0 /\ spent = 0 /\ consecutive_bad = 0
  /\ messages = <<Opening>>
  /\ transcript = <<>>
  /\ diagnosis = "none"
  /\ pending = <<>> /\ tool_results = <<>> /\ iter_had_good_call = FALSE
  /\ ran = <<>>

(* Leave the loop and return, with a last entry in the transcript.         *)
Stop(why, entry) ==
  /\ pc' = "returned"
  /\ diagnosis' = why
  /\ transcript' = Append(transcript, entry)

(* An exception run_agent does not catch.                                  *)
Raise == pc' = "raised" /\ UNCHANGED <<transcript, diagnosis>>

(* The locals of a turn are dead once its loop over the calls is left.     *)
TurnOver == pending' = <<>> /\ tool_results' = <<>> /\ iter_had_good_call' = FALSE

-----------------------------------------------------------------------------
(* The head of the for loop. *)

(* for ... else: the range is exhausted.                                   *)
ExhaustIterations ==
  /\ pc = "head" /\ RangeExhausted
  /\ pc' = "returned"
  /\ diagnosis' = "max_iterations"
  /\ UNCHANGED <<iterations, roundTrips, spent, consecutive_bad, messages, transcript, turn, ran>>

StopOnBudget ==
  /\ pc = "head" /\ ~RangeExhausted /\ TokensUsedUp
  /\ iterations' = iterations + 1
  /\ Stop("token_budget", Note("error", iterations + 1))
  /\ UNCHANGED <<roundTrips, spent, consecutive_bad, messages, turn, ran>>

AskModel ==
  /\ pc = "head" /\ ~RangeExhausted /\ ~TokensUsedUp
  /\ iterations' = iterations + 1
  /\ roundTrips' = roundTrips + 1
  /\ pc' = "llm"
  /\ UNCHANGED <<spent, consecutive_bad, messages, transcript, diagnosis, turn, ran>>

-----------------------------------------------------------------------------
(* What complete() may do: fail, raise, or return a Completion. *)

(* LLMError is caught and ends the run.                                    *)
ModelFails ==
  /\ pc = "llm"
  /\ Stop("llm_error", Note("error", iterations))
  /\ UNCHANGED <<iterations, roundTrips, spent, consecutive_bad, messages, turn, ran>>

(* Anything else is not: a read timeout of the response body or a body     *)
(* that is not JSON leaves _post_json as it is.                            *)
ModelRaises ==
  /\ pc = "llm"
  /\ Raise
  /\ UNCHANGED <<iterations, roundTrips, spent, consecutive_bad, messages, turn, ran>>

OverBudgetReply(c) ==
  /\ pc = "llm" /\ BreaksBudget(c.tokens)
  /\ spent' = spent + c.tokens
  /\ Stop("token_budget", Note("error", iterations))
  /\ UNCHANGED <<iterations, roundTrips, consecutive_bad, messages, turn, ran>>

TextOnlyReply(c) ==
  /\ pc = "llm" /\ ~BreaksBudget(c.tokens) /\ c.tool_calls = <<>>
  /\ spent' = spent + c.tokens
  /\ messages' = Append(messages, AssistantTurn(c.text, <<>>))
  /\ Stop(IF c.text = "prose" THEN "text" ELSE "no_text", Note("text_only", iterations))
  /\ UNCHANGED <<iterations, roundTrips, consecutive_bad, turn, ran>>

ToolReply(c) ==
  /\ pc = "llm" /\ ~BreaksBudget(c.tokens) /\ c.tool_calls # <<>>
  /\ spent' = spent + c.tokens
  /\ messages' = Append(messages, AssistantTurn(c.text, c.tool_calls))
  /\ pc' = "calls"
  /\ pending' = c.tool_calls /\ tool_results' = <<>> /\ iter_had_good_call' = FALSE
  /\ UNCHANGED <<iterations, roundTrips, consecutive_bad, transcript, diagnosis, ran>>

-----------------------------------------------------------------------------
(* The loop over the reply's tool calls. *)

AtCall == pc = "calls" /\ pending # <<>>

RejectCall ==
  /\ AtCall /\ ~Dispatchable(Head(pending)) /\ Head(pending).input # "not_a_dict"
  /\ tool_results' = RejectionResults(Head(pending))
  /\ transcript' = Append(transcript, CallEntry("rejected", Head(pending), TRUE))
  /\ pending' = Tail(pending)
  /\ UNCHANGED <<pc, iterations, roundTrips, spent, consecutive_bad, messages, diagnosis,
                 iter_had_good_call, ran>>

(* An input that is a non-empty list, string or number has no .get: the    *)
(* validator or, for an unknown name, the transcript entry raises.         *)
CrashOnInput ==
  /\ AtCall /\ Head(pending).input = "not_a_dict"
  /\ Raise
  /\ UNCHANGED <<iterations, roundTrips, spent, consecutive_bad, messages, turn, ran>>

(* done ends the run at once: later calls of the reply are not handled.    *)
CallDone ==
  /\ AtCall /\ Dispatchable(Head(pending)) /\ Head(pending).name = "done"
  /\ Stop("summary", CallEntry("done", Head(pending), FALSE))
  /\ TurnOver
  /\ UNCHANGED <<iterations, roundTrips, spent, consecutive_bad, messages, ran>>

DispatchCall ==
  /\ AtCall /\ Dispatchable(Head(pending)) /\ Head(pending).name # "done"
  /\ pc' = "exec"
  /\ ran' = Append(ran, Head(pending))
  /\ UNCHANGED <<iterations, roundTrips, spent, consecutive_bad, messages, transcript,
                 diagnosis, turn>>

(* exec_callable came back.  An exception of it and a result that is not a *)
(* dict become a result with exit 1: the model is told of an error.        *)
ExecReturns(is_error) ==
  /\ pc = "exec"
  /\ pc' = "calls"
  /\ tool_results' = Append(tool_results, ToolResult(Head(pending), is_error))
  /\ transcript' = ExecutedTranscript(Head(pending), is_error)
  /\ pending' = Tail(pending)
  /\ iter_had_good_call' = TRUE
  /\ UNCHANGED <<iterations, roundTrips, spent, consecutive_bad, messages, diagnosis, ran>>

TurnHandled == pc = "calls" /\ pending = <<>>

(* Two turns in a row with nothing but rejected calls: give up.            *)
GiveUpOnModel ==
  /\ TurnHandled /\ BadStreak >= MAX_CONSECUTIVE_BAD
  /\ consecutive_bad' = BadStreak
  /\ Stop("invalid_calls", Note("error", iterations))
  /\ TurnOver
  /\ UNCHANGED <<iterations, roundTrips, spent, messages, ran>>

(* A turn of rejected calls only that nobody handles.                      *)
ReportResults_GoodTurnsOnly ==
  /\ TurnHandled /\ iter_had_good_call
  /\ consecutive_bad' = 0
  /\ messages' = Append(messages, UserTurn(tool_results))
  /\ pc' = "head"
  /\ TurnOver
  /\ UNCHANGED <<iterations, roundTrips, spent, transcript, diagnosis, ran>>

(* The results of the turn are what the next request tells the model.      *)
ReportResults ==
  /\ TurnHandled /\ BadStreak < MAX_CONSECUTIVE_BAD
  /\ consecutive_bad' = BadStreak
  /\ messages' = Append(messages, UserTurn(tool_results))
  /\ pc' = "head"
  /\ TurnOver
  /\ UNCHANGED <<iterations, roundTrips, spent, transcript, diagnosis, ran>>

-----------------------------------------------------------------------------
Reply(c) == OverBudgetReply(c) \/ TextOnlyReply(c) \/ ToolReply(c)

ModelAnswers == ModelFails \/ ModelRaises \/ \E c \in Completions : Reply(c)

TargetAnswers == \E is_error \in BOOLEAN : ExecReturns(is_error)

AgentStep ==
  \/ ExhaustIterations \/ StopOnBudget \/ AskModel
  \/ RejectCall \/ CrashOnInput \/ CallDone \/ DispatchCall
  \/ GiveUpOnModel \/ ReportResults

Next == AgentStep \/ ModelAnswers \/ TargetAnswers

Spec == Init /\ [][Next]_vars

(* The agent's own code does not wait; a request to the model ends because *)
(* every attempt has a timeout and the attempts are bounded; a tool call   *)
(* ends because the sandbox kills it after its timeout.                    *)
Fairness == WF_vars(AgentStep) /\ WF_vars(ModelAnswers) /\ WF_vars(TargetAnswers)

FairSpec == Spec /\ Fairness

-----------------------------------------------------------------------------
(* Properties. *)

(* Every variable stays in the set its use in run_agent assumes.           *)
TypeOK ==
  /\ pc \in PCs
  /\ iterations \in Nat /\ roundTrips \in Nat /\ spent \in Nat
  /\ consecutive_bad \in 0..MAX_CONSECUTIVE_BAD
  /\ messages \in Seq(Message)
  /\ transcript \in Seq(Entry)
  /\ diagnosis \in Diagnoses
  /\ pending \in Seq(ToolCall)
  /\ tool_results \in Seq(Block)
  /\ iter_had_good_call \in BOOLEAN
  /\ ran \in Seq(ToolCall)

Stopped == pc \in {"returned", "raised"}

Ids(content) == [i \in DOMAIN content |-> content[i].id]

Positive(n) == IF n > 0 THEN n ELSE 0

(* What the providers demand of every request run_agent sends: the roles   *)
(* alternate from the opening user message on, and every assistant message *)
(* has tool calls, which the next user message answers one by one, in      *)
(* order, whether they were rejected, failed or worked.                    *)
ConversationWellFormed ==
  pc = "llm" =>
    /\ Len(messages) = 2 * roundTrips - 1
    /\ \A i \in DOMAIN messages :
         messages[i].role = IF i % 2 = 1 THEN "user" ELSE "assistant"
    /\ \A i \in DOMAIN messages :
         i % 2 = 0 => /\ messages[i].content # <<>>
                      /\ Ids(messages[i].content) = Ids(messages[i + 1].content)

(* The entries of the transcript of certain kinds.                         *)
Entries(kinds) ==
  Selected(transcript, {i \in DOMAIN transcript : transcript[i].kind \in kinds})

(* The results the model was told, over all turns, and those of this turn. *)
Results ==
  FlattenSeq([i \in DOMAIN messages |->
               IF messages[i].role = "user" THEN messages[i].content ELSE <<>>])
    \o tool_results

(* The model and the operator hear the same story: the results the model   *)
(* was told, over all turns, are the tool entries of the transcript, in    *)
(* the same order and with the same verdict.  Only the results of a turn   *)
(* that ended the run never reach the model.                               *)
ToldAsRecorded ==
  LET entries == Entries({"rejected", "executed"})
      told == [i \in DOMAIN Results |-> <<Results[i].id, Results[i].is_error>>]
      recorded == [i \in DOMAIN entries |-> <<entries[i].call.id, entries[i].is_error>>]
  IN  IF diagnosis \in {"summary", "invalid_calls"} THEN IsPrefix(told, recorded)
                                                   ELSE told = recorded

(* Whatever reached the target is in the transcript, in order and once,    *)
(* except the call the target is working on; nothing follows done.         *)
EffectsRecorded ==
  LET executed == Entries({"executed"})
      calls == [i \in DOMAIN executed |-> executed[i].call]
  IN  /\ ran = (IF pc = "exec" THEN Append(calls, Head(pending)) ELSE calls)
      /\ \A i \in DOMAIN transcript : transcript[i].kind = "done" => i = Len(transcript)

(* Of the tokens that are counted, only the last reply's go beyond the     *)
(* budget.                                                                 *)
OverspendBounded == spent <= Positive(MaxTokens - 1) + MaxReply

(* Nothing reaches the target on behalf of a reply that broke the budget,  *)
(* or after one.                                                           *)
NoEffectOverBudget == [][ran' # ran => spent <= MaxTokens]_vars

(* The steps of the run in which every tool call was rejected.             *)
AllRejected(step) ==
  LET entries == {transcript[i] : i \in {j \in DOMAIN transcript : transcript[j].step = step}}
  IN  /\ \E e \in entries : e.kind = "rejected"
      /\ \A e \in entries : e.kind \in {"rejected", "error"}

(* The model may go astray for one turn; two turns in a row with nothing   *)
(* but rejected calls end the run, and nothing else ends it that way.      *)
TwoBadTurnsAbort ==
  /\ pc = "head" => \A k \in 1..(iterations - 1) : ~(AllRejected(k) /\ AllRejected(k + 1))
  /\ diagnosis = "invalid_calls" => AllRejected(iterations) /\ AllRejected(iterations - 1)

(* The diagnosis is there exactly when the run returned, and the last      *)
(* entry of the transcript is the reason it gives; a run that blames the   *)
(* iteration limit did use every iteration it was allowed.                 *)
DiagnosisExplained ==
  LET last == IF transcript = <<>> THEN "nothing" ELSE Last(transcript).kind
  IN  /\ (diagnosis # "none") <=> (pc = "returned")
      /\ \A i \in DOMAIN transcript :
           i < Len(transcript) => transcript[i].kind \in {"rejected", "executed"}
      /\ diagnosis \in {"token_budget", "llm_error", "invalid_calls"} <=> last = "error"
      /\ diagnosis \in {"text", "no_text"} <=> last = "text_only"
      /\ diagnosis = "summary" <=> last = "done"
      /\ diagnosis = "max_iterations" =>
           iterations = Positive(MaxIterations) /\ roundTrips = iterations

(* iterations_used is the number of round trips, except for one more when  *)
(* the run stopped at the head of an iteration because the tokens were     *)
(* used up to the last one.                                                *)
RoundTripAccounting ==
  /\ roundTrips <= Positive(MaxIterations)
  /\ iterations # roundTrips =>
       /\ iterations = roundTrips + 1
       /\ diagnosis = "token_budget"
       /\ spent = Positive(MaxTokens)

(* Every run ends, given that the model and the target answer.             *)
RunEnds == <>Stopped

(* run_agent implements the abstract investigation: head is idle, waiting  *)
(* for the model is asking, handling its calls is acting.                  *)
Phase == CASE pc = "head" -> "idle"
           [] pc = "llm" -> "asking"
           [] pc \in {"calls", "exec"} -> "acting"
           [] pc \in {"returned", "raised"} -> "closed"

Abstract == INSTANCE Investigation WITH
  phase <- Phase, rounds <- roundTrips, acts <- ran, MaxRounds <- MaxIterations,
  Permitted <- {tc \in ToolCall : tc.name \in Offered \ {"done"} /\ tc.input = "valid"}

Implements == Abstract!Spec

-----------------------------------------------------------------------------
(* What the repository says of run_agent and the code does not do. *)

(* The changelog of 0.3.0 and the docstring of _validate_tool_call: a call *)
(* with malformed input is rejected and the model is told; it does not     *)
(* take the run down.                                                      *)
MalformedCallsAreRejected == [][pc = "calls" => pc' # "raised"]_vars
=============================================================================
