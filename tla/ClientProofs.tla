---------------------------- MODULE ClientProofs ----------------------------
(***************************************************************************)
(* Theorems about run_agent and its client: behind a provider, for every   *)
(* set of payloads, and over _post_json, for every budget, retry limit,    *)
(* set of replies and set of statuses.                                     *)
(***************************************************************************)
EXTENDS Providers, AgentOverTransport, OrchestratorProofs, FiniteSetTheorems

LEMMA ProviderKept == ProviderSpec => [](provider \in Providers)
<1>1. ProviderInit => provider \in Providers
  BY DEF ProviderInit
<1>2. provider \in Providers /\ [ProviderNext]_providerVars => (provider \in Providers)'
  BY DEF ProviderNext, providerVars
<1> QED BY <1>1, <1>2, PTL DEF ProviderSpec

(* Whatever run_agent guarantees it guarantees behind every provider: the  *)
(* clients only parse, and a parsed reply is one it reckons with.          *)
THEOREM ProvidersImplement == ProviderSpec => Spec
<1>1. ProviderInit => Init
  BY DEF ProviderInit
<1>2. provider \in Providers /\ [ProviderNext]_providerVars => [Next]_vars
  <2> SUFFICES ASSUME provider \in Providers, ProviderNext PROVE Next
    BY DEF providerVars, vars
  <2>1. CASE ReplyArrives
    <3>1. PICK payload \in Replies[provider] : Reply(Parse(provider, payload))
      BY <2>1 DEF ReplyArrives
    <3>2. Parse(provider, payload) \in Completions
      BY <3>1, ProvidersAssumption
    <3> QED BY <3>1, <3>2 DEF Next, ModelAnswers
  <2> QED BY <2>1 DEF ProviderNext, Next, ModelAnswers
<1> QED BY <1>1, <1>2, ProviderKept, PTL DEF ProviderSpec, Spec

(* Every request carries a well formed conversation, whoever it goes to.   *)
THEOREM ProviderConversationHolds == ProviderSpec => []ConversationWellFormed
BY ProvidersImplement, ConversationHolds, PTL

-----------------------------------------------------------------------------
(* Text mode. *)

(* What is parsed out of a text is never an input that has no .get.        *)
LEMMA TextCallsAreDicts ==
  ASSUME NEW payload, NEW i \in 1..Len(parse_ollama_response(payload).tool_calls)
  PROVE  parse_ollama_response(payload).tool_calls[i].input # "not_a_dict"
<1> DEFINE objects == OfType(payload.content, "action")
           calls == parse_text_action(payload.content)
<1>1. parse_ollama_response(payload).tool_calls = calls
  BY DEF parse_ollama_response
<1>2. CASE Len(objects) = 1 /\ IsAction(objects[1])
  <2>1. calls = <<[id |-> objects[1].name, name |-> objects[1].name,
                   input |-> Parsed(objects[1].input)]>>
    BY <1>2 DEF parse_text_action
  <2>2. Parsed(objects[1].input) # "not_a_dict"
    BY <1>2 DEF IsAction, Parsed
  <2> HIDE DEF objects, calls
  <2>3. i = 1
    BY <1>1, <2>1
  <2> QED BY <1>1, <2>1, <2>2, <2>3
<1>3. CASE ~(Len(objects) = 1 /\ IsAction(objects[1]))
  <2>1. calls = <<>>
    BY <1>3 DEF parse_text_action
  <2> HIDE DEF calls
  <2> QED BY <1>1, <2>1
<1> QED BY <1>2, <1>3

DictInv ==
  /\ provider \in Providers
  /\ provider = "ollama" => \A i \in 1..Len(pending) : pending[i].input # "not_a_dict"

LEMMA DictInit == ProviderInit => DictInv
BY DEF ProviderInit, Init, DictInv

LEMMA DictStep == TypeInv /\ DictInv /\ [ProviderNext]_providerVars => DictInv'
<1> SUFFICES ASSUME TypeInv, DictInv, [ProviderNext]_providerVars PROVE DictInv'
  OBVIOUS
<1>0. /\ pending \in Seq(ToolCall) /\ Len(pending) \in Nat /\ provider' = provider
  BY LenProperties DEF TypeInv, TypeOK, ProviderNext, providerVars
<1>1. CASE pending' = pending
  BY <1>0, <1>1 DEF DictInv
<1>2. CASE pending' = <<>>
  BY <1>0, <1>2 DEF DictInv
<1>3. CASE pending # <<>> /\ pending' = Tail(pending)
  <2>1. Len(pending') = Len(pending) - 1
        /\ \A i \in 1..Len(pending') : pending'[i] = pending[i + 1]
    BY <1>0, <1>3, HeadTailProperties
  <2> QED BY <1>0, <2>1 DEF DictInv
<1>4. ASSUME NEW payload \in Replies[provider], ToolReply(Parse(provider, payload))
      PROVE  DictInv'
  <2>1. pending' = Parse(provider, payload).tool_calls
    BY <1>4 DEF ToolReply
  <2>2. CASE provider = "ollama"
    <3>1. pending' = parse_ollama_response(payload).tool_calls
      BY <2>1, <2>2 DEF Parse
    <3> QED BY <1>0, <2>2, <3>1, TextCallsAreDicts DEF DictInv
  <2> QED BY <1>0, <2>2 DEF DictInv
<1>5. CASE AgentStep
  <2>1. ExhaustIterations \/ StopOnBudget \/ AskModel \/ CrashOnInput \/ DispatchCall
          => pending' = pending
    BY DEF ExhaustIterations, StopOnBudget, AskModel, CrashOnInput, DispatchCall, turn
  <2>2. RejectCall => pending # <<>> /\ pending' = Tail(pending)
    BY DEF RejectCall, AtCall
  <2>3. CallDone \/ GiveUpOnModel \/ ReportResults => pending' = <<>>
    BY DEF CallDone, GiveUpOnModel, ReportResults, TurnOver
  <2> QED BY <1>1, <1>2, <1>3, <1>5, <2>1, <2>2, <2>3 DEF AgentStep
<1>6. CASE TargetAnswers
  <2>1. pending # <<>> /\ pending' = Tail(pending)
    BY <1>6 DEF TargetAnswers, ExecReturns, TypeInv, ControlInv
  <2> QED BY <1>3, <2>1
<1>7. CASE ModelFails \/ ModelRaises
  BY <1>1, <1>7 DEF ModelFails, ModelRaises, turn
<1>8. CASE ReplyArrives
  <2>1. PICK payload \in Replies[provider] : Reply(Parse(provider, payload))
    BY <1>8 DEF ReplyArrives
  <2>2. CASE ToolReply(Parse(provider, payload))
    BY <1>4, <2>2
  <2>3. CASE OverBudgetReply(Parse(provider, payload)) \/ TextOnlyReply(Parse(provider, payload))
    BY <1>1, <2>3 DEF OverBudgetReply, TextOnlyReply, turn
  <2> QED BY <2>1, <2>2, <2>3 DEF Reply
<1>9. CASE UNCHANGED providerVars
  BY <1>1, <1>9 DEF providerVars, vars, turn
<1> QED BY <1>5, <1>6, <1>7, <1>8, <1>9 DEF ProviderNext

(* No text-mode model can make run_agent raise while it handles its calls. *)
THEOREM TextModelsCannotCrashHolds == ProviderSpec => TextModelsCannotCrash
<1>1. ProviderSpec => []TypeInv
  BY ProvidersImplement, TypeInvariant, PTL
<1>2. ProviderSpec => []DictInv
  BY <1>1, DictInit, DictStep, PTL DEF ProviderSpec
<1>3. DictInv /\ TypeInv /\ [ProviderNext]_providerVars =>
        [provider = "ollama" /\ pc = "calls" => pc' # "raised"]_providerVars
  <2> SUFFICES ASSUME DictInv, TypeInv, ProviderNext, provider = "ollama", pc = "calls",
                      pc' = "raised"
               PROVE  FALSE
    BY DEF providerVars
  <2>1. CrashOnInput
    BY DEF ProviderNext, AgentStep, ReplyArrives, Reply, TargetAnswers, ExhaustIterations,
           StopOnBudget, AskModel, ModelFails, ModelRaises, OverBudgetReply, TextOnlyReply,
           ToolReply, RejectCall, CallDone, DispatchCall, ExecReturns, GiveUpOnModel,
           ReportResults, Stop
  <2>2. pending # <<>> /\ Head(pending).input = "not_a_dict" /\ pending \in Seq(ToolCall)
    BY <2>1 DEF CrashOnInput, AtCall, TypeInv, TypeOK
  <2>3. Head(pending) = pending[1] /\ 1 \in 1..Len(pending)
    BY <2>2, HeadTailProperties, EmptySeq, LenProperties
  <2> QED BY <2>2, <2>3 DEF DictInv
<1> QED BY <1>1, <1>2, <1>3, PTL DEF ProviderSpec, TextModelsCannotCrash

-----------------------------------------------------------------------------
(* The shape of a conversation: it opens with the request of the operator, *)
(* and what is said to the model after that is results only.               *)
ObservationsOnly(blocks) == \A j \in 1..Len(blocks) : blocks[j].type = "tool_result"

(* The request of the operator first, then results without text.           *)
ShapeInv ==
  /\ Len(messages) >= 1 /\ messages[1] = Opening
  /\ ObservationsOnly(tool_results)
  /\ \A i \in 2..Len(messages) :
       messages[i].role = "user" =>
         messages[i].text = "empty" /\ ObservationsOnly(messages[i].content)

LEMMA ShapeInit == Init => ShapeInv
BY DEF Init, ShapeInv, ObservationsOnly

(* A message appended keeps the shape.                                     *)
LEMMA ShapeAppend ==
  ASSUME TypeOK, ShapeInv, NEW m \in Message, messages' = Append(messages, m),
         tool_results' = <<>> \/ tool_results' = tool_results,
         m.role = "user" => m.text = "empty" /\ ObservationsOnly(m.content)
  PROVE  ShapeInv'
<1>1. messages \in Seq(Message) /\ Len(messages) \in Nat
  BY LenProperties DEF TypeOK
<1>2. /\ Len(messages') = Len(messages) + 1 /\ messages'[Len(messages) + 1] = m
      /\ \A i \in 1..Len(messages) : messages'[i] = messages[i]
  BY <1>1, AppendProperties
<1>3. ObservationsOnly(tool_results')
  BY DEF ShapeInv, ObservationsOnly
<1>4. ASSUME NEW i \in 2..Len(messages'), messages'[i].role = "user"
      PROVE  messages'[i].text = "empty" /\ ObservationsOnly(messages'[i].content)
  <2>1. CASE i = Len(messages) + 1
    BY <1>2, <1>4, <2>1
  <2>2. CASE i \in 2..Len(messages)
    <3>1. messages'[i] = messages[i]
      BY <1>2, <2>2
    <3> QED BY <1>4, <2>2, <3>1 DEF ShapeInv
  <2> QED BY <1>1, <1>2, <2>1, <2>2
<1>5. Len(messages') >= 1 /\ messages'[1] = Opening
  BY <1>1, <1>2 DEF ShapeInv
<1> QED BY <1>3, <1>4, <1>5 DEF ShapeInv

LEMMA ShapeStep == TypeInv /\ ShapeInv /\ [Next]_vars => ShapeInv'
<1> SUFFICES ASSUME TypeInv, ShapeInv, [Next]_vars PROVE ShapeInv'
  OBVIOUS
<1>0. TypeOK /\ tool_results \in Seq(Block)
  BY DEF TypeInv, TypeOK
<1>1. ASSUME messages' = messages, tool_results' = tool_results \/ tool_results' = <<>>
      PROVE  ShapeInv'
  BY <1>1 DEF ShapeInv, ObservationsOnly
<1>2. CASE \/ ExhaustIterations \/ StopOnBudget \/ AskModel \/ ModelFails \/ ModelRaises
           \/ CrashOnInput \/ DispatchCall \/ CallDone \/ GiveUpOnModel \/ UNCHANGED vars
  BY <1>1, <1>2
  DEF ExhaustIterations, StopOnBudget, AskModel, ModelFails, ModelRaises, CrashOnInput,
      DispatchCall, CallDone, GiveUpOnModel, TurnOver, turn, vars
<1>3. ASSUME NEW c \in Completions, Reply(c) PROVE ShapeInv'
  <2>1. CASE OverBudgetReply(c)
    BY <1>1, <2>1 DEF OverBudgetReply, turn
  <2>2. CASE TextOnlyReply(c) \/ ToolReply(c)
    <3>1. PICK calls \in Seq(ToolCall) : messages' = Append(messages, AssistantTurn(c.text, calls))
      BY <2>2, CompletionType, EmptySeq DEF TextOnlyReply, ToolReply
    <3>2. tool_results' = <<>> \/ tool_results' = tool_results
      BY <2>2 DEF TextOnlyReply, ToolReply, turn
    <3>3. /\ AssistantTurn(c.text, calls) \in Message
          /\ AssistantTurn(c.text, calls).role # "user"
      BY CompletionType, AssistantTurnType DEF AssistantTurn
    <3> QED BY <1>0, <3>1, <3>2, <3>3, ShapeAppend
  <2> QED BY <1>3, <2>1, <2>2 DEF Reply
<1>4. ASSUME NEW tc \in ToolCall, NEW e \in BOOLEAN, messages' = messages,
             tool_results' = Append(tool_results, ToolResult(tc, e))
      PROVE  ShapeInv'
  <2>1. ToolResult(tc, e) \in Block /\ ToolResult(tc, e).type = "tool_result"
    BY ResultType DEF ToolResult
  <2>2. ObservationsOnly(tool_results')
    <3>1. Len(tool_results) \in Nat
      BY <1>0, LenProperties
    <3> QED BY <1>0, <1>4, <2>1, <3>1, AppendProperties DEF ShapeInv, ObservationsOnly
  <2> QED BY <1>4, <2>2 DEF ShapeInv
<1>5. CASE RejectCall \/ TargetAnswers
  <2>1. Head(pending) \in ToolCall
    BY <1>5, HeadTailProperties
    DEF RejectCall, AtCall, TargetAnswers, ExecReturns, TypeInv, ControlInv, TypeOK
  <2>2. /\ messages' = messages
        /\ \E e \in BOOLEAN : tool_results' = Append(tool_results, ToolResult(Head(pending), e))
    BY <1>5 DEF RejectCall, RejectionResults, TargetAnswers, ExecReturns
  <2> QED BY <1>4, <2>1, <2>2
<1>6. CASE ReportResults
  <2>1. messages' = Append(messages, UserTurn(tool_results)) /\ tool_results' = <<>>
    BY <1>6 DEF ReportResults, TurnOver
  <2>2. /\ UserTurn(tool_results) \in Message /\ UserTurn(tool_results).text = "empty"
        /\ UserTurn(tool_results).content = tool_results
    BY <1>0 DEF UserTurn, Message, Texts
  <2> QED BY <1>0, <2>1, <2>2, ShapeAppend DEF ShapeInv
<1> QED BY <1>2, <1>3, <1>5, <1>6 DEF Next, AgentStep, ModelAnswers

LEMMA ShapeInvariant == Spec => []ShapeInv
BY ShapeInit, ShapeStep, TypeInvariant, PTL DEF Spec

-----------------------------------------------------------------------------
(* Ollama. *)

(* A message that is one action, as text mode parses it.                   *)
Acted(m) ==
  /\ m.text = "empty"
  /\ \E tc \in ToolCall : /\ tc.id = tc.name /\ tc.input # "not_a_dict"
                          /\ m.content = <<ToolUse(tc)>>

(* Text mode: every turn the model took is one action.                     *)
ActedInv ==
  provider = "ollama" /\ ~Stopped =>
    \A i \in 1..Len(messages) : messages[i].role = "assistant" => Acted(messages[i])

(* A reply that parses to a call becomes such a message.                   *)
LEMMA OllamaTurn ==
  ASSUME NEW payload, parse_ollama_response(payload) \in Completions,
         parse_ollama_response(payload).tool_calls # <<>>
  PROVE  Acted(AssistantTurn(parse_ollama_response(payload).text,
                             parse_ollama_response(payload).tool_calls))
<1> DEFINE objects == OfType(payload.content, "action")
           calls == parse_text_action(payload.content)
           c == parse_ollama_response(payload)
           tc == [id |-> objects[1].name, name |-> objects[1].name,
                  input |-> Parsed(objects[1].input)]
<1>1. c.tool_calls = calls /\ calls # <<>>
  BY DEF parse_ollama_response
<1>2. c.text = "empty"
  BY <1>1 DEF parse_ollama_response
<1>3. Len(objects) = 1 /\ IsAction(objects[1])
  BY <1>1 DEF parse_text_action
<1>4. calls = <<tc>>
  BY <1>3 DEF parse_text_action
<1>5. tc.id = tc.name /\ tc.input # "not_a_dict"
  BY <1>3 DEF IsAction, Parsed
<1> HIDE DEF objects, calls, tc, c
<1>6. tc \in ToolCall
  <2>1. calls \in Seq(ToolCall)
    BY <1>1, CompletionType DEF c
  <2>2. Len(calls) = 1 /\ calls[1] = tc
    BY <1>4
  <2> QED BY <2>1, <2>2, ElementOfSeq
<1>7. AssistantTurn("empty", <<tc>>).text = "empty"
      /\ AssistantTurn("empty", <<tc>>).content = <<ToolUse(tc)>>
  BY DEF AssistantTurn
<1>8. Acted(AssistantTurn("empty", <<tc>>))
  BY <1>5, <1>6, <1>7 DEF Acted
<1> QED BY <1>1, <1>2, <1>4, <1>8 DEF c

LEMMA ActedInit == ProviderInit => ActedInv
BY DEF ProviderInit, Init, Opening, ActedInv

LEMMA ActedStep == TypeInv /\ ActedInv /\ [ProviderNext]_providerVars => ActedInv'
<1> SUFFICES ASSUME TypeInv, ActedInv, [ProviderNext]_providerVars,
                    provider' = "ollama", ~Stopped'
             PROVE  \A i \in 1..Len(messages') :
                      messages'[i].role = "assistant" => Acted(messages'[i])
  BY DEF ActedInv
<1>0. /\ TypeOK /\ provider = "ollama"
      /\ messages \in Seq(Message) /\ Len(messages) \in Nat
  BY LenProperties DEF TypeInv, TypeOK, ProviderNext, providerVars
<1>1. ~Stopped
  BY DEF Stopped, providerVars, vars, ProviderNext, AgentStep, TargetAnswers, ReplyArrives, Reply,
         ExhaustIterations, StopOnBudget, AskModel, ModelFails, ModelRaises, OverBudgetReply,
         TextOnlyReply, ToolReply, RejectCall, CrashOnInput, CallDone, DispatchCall,
         ExecReturns, GiveUpOnModel, ReportResults, AtCall, TurnHandled, Stop, Raise
<1>2. \A i \in 1..Len(messages) : messages[i].role = "assistant" => Acted(messages[i])
  BY <1>0, <1>1 DEF ActedInv
<1>3. CASE messages' = messages
  BY <1>2, <1>3
<1>4. ASSUME NEW m \in Message, messages' = Append(messages, m),
             m.role = "assistant" => Acted(m)
      PROVE  \A i \in 1..Len(messages') :
               messages'[i].role = "assistant" => Acted(messages'[i])
  <2>1. /\ Len(messages') = Len(messages) + 1 /\ messages'[Len(messages) + 1] = m
        /\ \A i \in 1..Len(messages) : messages'[i] = messages[i]
    BY <1>0, <1>4, AppendProperties
  <2> SUFFICES ASSUME NEW i \in 1..Len(messages'), messages'[i].role = "assistant"
               PROVE  Acted(messages'[i])
    OBVIOUS
  <2>2. CASE i = Len(messages) + 1
    BY <1>4, <2>1, <2>2
  <2>3. CASE i \in 1..Len(messages)
    BY <1>2, <2>1, <2>3
  <2> QED BY <1>0, <2>1, <2>2, <2>3
<1>5. CASE ReportResults
  <2>1. messages' = Append(messages, UserTurn(tool_results))
    BY <1>5 DEF ReportResults
  <2>2. UserTurn(tool_results) \in Message /\ UserTurn(tool_results).role = "user"
    BY <1>0 DEF UserTurn, Message, Texts, TypeOK
  <2> QED BY <1>4, <2>1, <2>2
<1>6. CASE AgentStep /\ ~ReportResults
  BY <1>3, <1>6
  DEF AgentStep, ExhaustIterations, StopOnBudget, AskModel, RejectCall, CrashOnInput, CallDone,
      DispatchCall, GiveUpOnModel
<1>7. CASE TargetAnswers \/ ModelFails \/ ModelRaises \/ UNCHANGED providerVars
  BY <1>3, <1>7
  DEF TargetAnswers, ExecReturns, ModelFails, ModelRaises, providerVars, vars
<1>8. CASE ReplyArrives
  <2>1. PICK payload \in Replies[provider] : Reply(Parse(provider, payload))
    BY <1>8 DEF ReplyArrives
  <2> DEFINE c == parse_ollama_response(payload)
  <2>2. Parse(provider, payload) = c /\ c \in Completions
    BY <1>0, ProvidersAssumption DEF Parse, Providers
  <2>3. Reply(c)
    BY <2>1, <2>2
  <2>4. CASE ToolReply(c)
    <3>1. c.tool_calls # <<>> /\ messages' = Append(messages, AssistantTurn(c.text, c.tool_calls))
      BY <2>4 DEF ToolReply
    <3>2. AssistantTurn(c.text, c.tool_calls) \in Message
      BY <2>2, CompletionType, AssistantTurnType
    <3>3. Acted(AssistantTurn(c.text, c.tool_calls))
      BY <2>2, <3>1, OllamaTurn
    <3> QED BY <1>4, <3>1, <3>2, <3>3
  <2>5. CASE OverBudgetReply(c) \/ TextOnlyReply(c)
    BY <2>5 DEF OverBudgetReply, TextOnlyReply, Stop, Stopped
  <2> QED BY <2>3, <2>4, <2>5 DEF Reply
<1> QED BY <1>5, <1>6, <1>7, <1>8 DEF ProviderNext

(* Sequences of one element each join to the sequence of these elements.   *)
LEMMA FlattenSingletons ==
  ASSUME NEW A, NEW ss \in Seq(Seq(A)), \A i \in 1..Len(ss) : Len(ss[i]) = 1
  PROVE  /\ FlattenSeq(ss) \in Seq(A) /\ Len(FlattenSeq(ss)) = Len(ss)
         /\ \A i \in 1..Len(ss) : FlattenSeq(ss)[i] = ss[i][1]
<1>1. PICK g : Joins(g, ss, A) /\ FlattenSeq(ss) = g[Len(ss)]
  BY FlattenSteps
<1>0. Len(ss) \in Nat /\ \A i \in 1..Len(ss) : ss[i] \in Seq(A)
  BY LenProperties, ElementOfSeq
<1> DEFINE T == {k \in Nat : k <= Len(ss) =>
                   Len(g[k]) = k /\ \A i \in 1..k : g[k][i] = ss[i][1]}
<1>2. 0 \in T
  BY <1>1 DEF Joins
<1>3. ASSUME NEW k \in Nat, k \in T PROVE k + 1 \in T
  <2> SUFFICES ASSUME k + 1 <= Len(ss)
               PROVE  Len(g[k + 1]) = k + 1 /\ \A i \in 1..(k + 1) : g[k + 1][i] = ss[i][1]
    OBVIOUS
  <2>1. /\ k + 1 \in 1..Len(ss) /\ (k + 1) - 1 = k /\ k \in 0..Len(ss)
        /\ Len(g[k]) = k /\ \A i \in 1..k : g[k][i] = ss[i][1]
    BY <1>0, <1>3
  <2>2. g[k + 1] = g[k] \o ss[k + 1] /\ g[k] \in Seq(A) /\ ss[k + 1] \in Seq(A)
    BY <1>0, <1>1, <2>1 DEF Joins
  <2>3. Len(ss[k + 1]) = 1
    BY <2>1
  <2>4. /\ Len(g[k + 1]) = k + 1
        /\ \A i \in 1..(k + 1) : g[k + 1][i] = IF i <= k THEN g[k][i] ELSE ss[k + 1][i - k]
    <3> DEFINE u == g[k]
               v == ss[k + 1]
    <3>1. u \in Seq(A) /\ v \in Seq(A) /\ Len(u) = k /\ Len(v) = 1 /\ g[k + 1] = u \o v
      BY <2>1, <2>2, <2>3
    <3> HIDE DEF u, v
    <3>2. /\ Len(u \o v) = k + 1
          /\ \A i \in 1..(k + 1) : (u \o v)[i] = IF i <= k THEN u[i] ELSE v[i - k]
      <4>1. /\ Len(u \o v) = Len(u) + Len(v)
            /\ \A i \in 1..(Len(u) + Len(v)) :
                 (u \o v)[i] = IF i <= Len(u) THEN u[i] ELSE v[i - Len(u)]
        <5>1. \A a, b \in Seq(A) :
                /\ Len(a \o b) = Len(a) + Len(b)
                /\ \A i \in 1..(Len(a) + Len(b)) :
                     (a \o b)[i] = IF i <= Len(a) THEN a[i] ELSE b[i - Len(a)]
          BY ConcatProperties
        <5> QED BY <3>1, <5>1, Zenon
      <4> QED BY <3>1, <4>1
    <3> QED BY <3>1, <3>2 DEF u, v
  <2>5. \A i \in 1..(k + 1) : g[k + 1][i] = ss[i][1]
    <3> SUFFICES ASSUME NEW i \in 1..(k + 1) PROVE g[k + 1][i] = ss[i][1]
      OBVIOUS
    <3>1. CASE i \in 1..k
      BY <2>1, <2>4, <3>1
    <3>2. CASE i = k + 1
      BY <2>4, <3>2
    <3> QED BY <3>1, <3>2
  <2> QED BY <2>4, <2>5
<1> HIDE DEF T
<1>4. \A k \in Nat : k \in T
  BY <1>2, <1>3, SetInduction
<1>5. Len(g[Len(ss)]) = Len(ss) /\ \A i \in 1..Len(ss) : g[Len(ss)][i] = ss[i][1]
  BY <1>0, <1>4 DEF T
<1> QED BY <1>1, <1>5, FlattenType

(* What the model reads of one message.                                    *)
Texted(m) ==
  [role |-> m.role,
   content |-> (IF m.text = "empty" THEN <<>> ELSE <<[type |-> m.text]>>)
                 \o [i \in DOMAIN m.content |-> TextOf(m.content[i])]]

(* The first message is one line of prose.                                 *)
LEMMA TextedOpening == to_ollama_text_message(Opening) = <<Texted(Opening)>>
<1>1. [i \in DOMAIN <<>> |-> TextOf(<<>>[i])] = <<>>
  OBVIOUS
<1>2. Texted(Opening).content = <<[type |-> "prose"]>> \o <<>>
  BY <1>1 DEF Texted, Opening
<1>3. <<[type |-> "prose"]>> \o <<>> # <<>>
  OBVIOUS
<1> QED BY <1>1, <1>3 DEF to_ollama_text_message, Texted, Opening

(* A message of one block and no text is one line.                         *)
LEMMA TextedBlock ==
  ASSUME NEW m, NEW b, m.text = "empty", m.content = <<b>>
  PROVE  /\ to_ollama_text_message(m) = <<Texted(m)>>
         /\ Texted(m).content = <<TextOf(b)>>
<1>1. [i \in DOMAIN m.content |-> TextOf(m.content[i])] = <<TextOf(b)>>
  <2>1. DOMAIN <<b>> = 1..1 /\ DOMAIN <<TextOf(b)>> = 1..1 /\ <<b>>[1] = b
        /\ <<TextOf(b)>>[1] = TextOf(b)
    OBVIOUS
  <2>2. <<TextOf(b)>> = [i \in 1..1 |-> TextOf(b)]
    BY <2>1
  <2> QED BY <2>1, <2>2
<1>2. <<>> \o <<TextOf(b)>> = <<TextOf(b)>> /\ <<TextOf(b)>> # <<>>
  OBVIOUS
<1> QED BY <1>1, <1>2 DEF to_ollama_text_message, Texted

(* The line of an action parses back to the call.                          *)
LEMMA ActionParsesBack ==
  ASSUME NEW tc \in ToolCall, tc.id = tc.name, tc.input # "not_a_dict"
  PROVE  parse_text_action(<<TextOf(ToolUse(tc))>>) = <<tc>>
<1> DEFINE a == [type |-> "action", name |-> tc.name, input |-> tc.input]
<1>1. TextOf(ToolUse(tc)) = a
  BY DEF TextOf, ToolUse
<1>2. OfType(<<a>>, "action") = <<a>>
  <2> DEFINE J == {i \in DOMAIN <<a>> : <<a>>[i].type = "action"}
  <2>1. 1 \in J
    OBVIOUS
  <2> HIDE DEF a, J
  <2>3. Selected(Append(<<>>, a), J) = Append(Selected(<<>>, {}), a)
    <3>1. ASSUME NEW s \in Seq({a}), Len(s) = 0
          PROVE  Selected(Append(s, a), J) = Append(Selected(s, {}), a)
      <4>1. \A k \in 1..Len(s) : k \in {} <=> k \in J
        BY <3>1
      <4>2. Len(s) + 1 \in J
        BY <2>1, <3>1
      <4> QED BY <4>1, <4>2, SelectedAppend
    <3> QED BY <3>1, EmptySeq
  <2>4. Append(<<>>, a) = <<a>>
    OBVIOUS
  <2> QED BY <2>3, <2>4, SelectedEmpty DEF OfType, J
<1>3. Len(<<a>>) = 1 /\ <<a>>[1] = a
  OBVIOUS
<1>4. IsAction(a)
  BY DEF IsAction, ToolCall, Names, AllTools, Inputs
<1>5. Parsed(a.input) = tc.input
  BY DEF Parsed, ToolCall
<1>6. tc = [id |-> a.name, name |-> a.name, input |-> tc.input]
  BY DEF ToolCall
<1> HIDE DEF a
<1> QED BY <1>1, <1>2, <1>3, <1>4, <1>5, <1>6 DEF parse_text_action

(* An Ollama model reads its own turns as the very actions it took, each   *)
(* with its one observation, however long the conversation is.             *)
THEOREM OllamaReadsBackHolds == ProviderSpec => []OllamaReadsBack
<1>1. TypeInv /\ ConversationInv /\ ShapeInv /\ ActedInv => OllamaReadsBack
  <2> DEFINE parts == [i \in DOMAIN messages |-> to_ollama_text_message(messages[i])]
             out == to_ollama_text_messages
             flat == FlattenSeq(parts)
             A == {Texted(messages[i]) : i \in DOMAIN messages}
  <2> SUFFICES ASSUME TypeInv, ConversationInv, ShapeInv, ActedInv,
                      pc = "llm", provider = "ollama"
               PROVE  /\ Len(out) = Len(messages) + 1
                      /\ \A i \in DOMAIN messages :
                           /\ out[i + 1].role = messages[i].role
                           /\ messages[i].role = "assistant" =>
                                /\ [j \in DOMAIN parse_text_action(out[i + 1].content) |->
                                      ToolUse(parse_text_action(out[i + 1].content)[j])]
                                     = messages[i].content
                                /\ out[i + 2].content = <<[type |-> "observation"]>>
    BY DEF OllamaReadsBack
  <2>1. /\ messages \in Seq(Message) /\ DOMAIN messages = 1..Len(messages)
        /\ Len(messages) \in Nat /\ roundTrips \in Nat
    BY LenProperties DEF TypeInv, TypeOK
  <2>2. Len(messages) = 2 * roundTrips - 1 /\ Roles /\ Answers
    BY DEF ConversationInv, Stopped
  <2>3. ASSUME NEW i \in 1..Len(messages), messages[i].role = "assistant"
        PROVE  /\ Acted(messages[i])
               /\ i + 1 \in 2..Len(messages) /\ messages[i + 1].role = "user"
               /\ Answered(messages[i].content, messages[i + 1].content)
    <3>1. i % 2 = 0
      BY <2>2, <2>3 DEF Roles
    <3>2. i \in 1..(Len(messages) - 1) /\ i + 1 \in 2..Len(messages) /\ (i + 1) % 2 = 1
      BY <2>1, <2>2, <3>1
    <3>3. messages[i + 1].role = "user"
      BY <2>2, <3>2 DEF Roles
    <3> QED BY <2>2, <2>3, <3>1, <3>2, <3>3 DEF ActedInv, Stopped, Answers
  <2>4. ASSUME NEW i \in 2..Len(messages), messages[i].role = "user"
        PROVE  /\ messages[i].text = "empty"
               /\ \E b : messages[i].content = <<b>> /\ b.type = "tool_result"
    <3>1. i - 1 \in 1..Len(messages) /\ messages[i - 1].role = "assistant" /\ (i - 1) + 1 = i
      <4>0. i \in Nat /\ i \in 1..Len(messages)
        BY <2>1
      <4>0a. i % 2 = 1
        BY <2>2, <2>4, <4>0 DEF Roles
      <4>1. i - 1 \in 1..Len(messages) /\ (i - 1) % 2 = 0
        BY <2>1, <4>0, <4>0a
      <4> QED BY <2>1, <2>2, <4>1 DEF Roles
    <3>2. Acted(messages[i - 1]) /\ Answered(messages[i - 1].content, messages[i].content)
      BY <2>3, <3>1
    <3>3. Len(messages[i].content) = 1
      BY <3>2 DEF Acted, Answered
    <3>4. messages[i].content \in Seq(Block)
      <4>1. i \in 1..Len(messages)
        BY <2>1
      <4>2. messages[i] \in Message
        BY <2>1, <4>1, ElementOfSeq
      <4> QED BY <4>2 DEF Message
    <3> DEFINE s == messages[i].content
    <3>5. s[1].type = "tool_result" /\ messages[i].text = "empty"
      BY <2>4, <3>3 DEF ShapeInv, ObservationsOnly
    <3> HIDE DEF s
    <3>6. s = <<s[1]>>
      BY <3>3, <3>4 DEF s
    <3> QED BY <3>5, <3>6 DEF s
  <2>5. ASSUME NEW i \in 1..Len(messages)
        PROVE  to_ollama_text_message(messages[i]) = <<Texted(messages[i])>>
    <3>1. CASE i = 1
      BY <3>1, TextedOpening DEF ShapeInv
    <3>2. CASE messages[i].role = "assistant"
      BY <2>3, <3>2, TextedBlock DEF Acted
    <3>3. CASE i # 1 /\ messages[i].role # "assistant"
      <4>1. i \in 2..Len(messages) /\ messages[i].role = "user"
        BY <2>1, <2>2, <3>3 DEF Roles
      <4> QED BY <2>4, <4>1, TextedBlock
    <3> QED BY <3>1, <3>2, <3>3
  <2>6. /\ parts \in Seq(Seq(A)) /\ Len(parts) = Len(messages)
        /\ \A i \in 1..Len(parts) : parts[i] = <<Texted(messages[i])>>
    <3>1. parts = [i \in 1..Len(messages) |-> <<Texted(messages[i])>>]
      BY <2>1, <2>5
    <3>2. \A i \in 1..Len(messages) : <<Texted(messages[i])>> \in Seq(A)
      BY <2>1
    <3> HIDE DEF parts, A
    <3> QED BY <2>1, <3>1, <3>2
  <2>7. /\ flat \in Seq(A) /\ Len(flat) = Len(messages)
        /\ \A i \in 1..Len(messages) : flat[i] = Texted(messages[i])
    <3> HIDE DEF parts, A
    <3>1. \A i \in 1..Len(parts) : Len(parts[i]) = 1 /\ parts[i][1] = Texted(messages[i])
      <4>1. \A x : Len(<<x>>) = 1 /\ <<x>>[1] = x
        OBVIOUS
      <4> QED BY <2>6, <4>1, Zenon
    <3> QED BY <2>6, <3>1, FlattenSingletons
  <2>8. out = <<System>> \o flat
    BY DEF to_ollama_text_messages, Converted
  <2> HIDE DEF out, flat, parts, A
  <2>9. Len(out) = Len(messages) + 1 /\ \A i \in 1..Len(messages) : out[i + 1] = Texted(messages[i])
    <3> DEFINE B == A \cup {System}
    <3>1. <<System>> \in Seq(B) /\ flat \in Seq(B) /\ Len(<<System>>) = 1
      BY <2>7
    <3> HIDE DEF B
    <3>2. /\ Len(out) = 1 + Len(messages)
          /\ \A k \in 1..(1 + Len(messages)) : out[k] = IF k <= 1 THEN <<System>>[k] ELSE flat[k - 1]
      BY <2>7, <2>8, <3>1, ConcatProperties
    <3>3. \A i \in 1..Len(messages) :
            i + 1 \in 1..(1 + Len(messages)) /\ ~(i + 1 <= 1) /\ (i + 1) - 1 = i
      BY <2>1
    <3>4. \A i \in 1..Len(messages) : out[i + 1] = flat[i]
      BY <3>2, <3>3
    <3> QED BY <2>1, <2>7, <3>2, <3>4
  <2>10. \A i \in 1..Len(messages) : out[i + 1].role = messages[i].role
    <3>1. \A m : Texted(m).role = m.role
      BY DEF Texted
    <3> QED BY <2>9, <3>1
  <2>11. ASSUME NEW i \in 1..Len(messages), messages[i].role = "assistant"
         PROVE  [j \in DOMAIN parse_text_action(out[i + 1].content) |->
                   ToolUse(parse_text_action(out[i + 1].content)[j])] = messages[i].content
    <3>1. PICK tc \in ToolCall : /\ tc.id = tc.name /\ tc.input # "not_a_dict"
                                 /\ messages[i].content = <<ToolUse(tc)>>
                                 /\ messages[i].text = "empty"
      BY <2>3, <2>11 DEF Acted
    <3>2. out[i + 1].content = <<TextOf(ToolUse(tc))>>
      BY <2>9, <3>1, TextedBlock
    <3>3. parse_text_action(out[i + 1].content) = <<tc>>
      BY <3>1, <3>2, ActionParsesBack
    <3>4. [j \in DOMAIN <<tc>> |-> ToolUse(<<tc>>[j])] = <<ToolUse(tc)>>
      <4>1. DOMAIN <<tc>> = 1..1 /\ DOMAIN <<ToolUse(tc)>> = 1..1 /\ <<tc>>[1] = tc
            /\ <<ToolUse(tc)>>[1] = ToolUse(tc)
        OBVIOUS
      <4>2. <<ToolUse(tc)>> = [j \in 1..1 |-> ToolUse(tc)]
        BY <4>1
      <4> QED BY <4>1, <4>2
    <3> QED BY <3>1, <3>3, <3>4
  <2>12. ASSUME NEW i \in 1..Len(messages), messages[i].role = "assistant"
         PROVE  out[i + 2].content = <<[type |-> "observation"]>>
    <3>1. i + 1 \in 2..Len(messages) /\ messages[i + 1].role = "user"
      BY <2>3, <2>12
    <3>2. PICK b : messages[i + 1].content = <<b>> /\ b.type = "tool_result"
                   /\ messages[i + 1].text = "empty"
      BY <2>4, <3>1
    <3>3. out[(i + 1) + 1].content = <<TextOf(b)>>
      <4>1. i + 1 \in 1..Len(messages)
        BY <3>1
      <4> QED BY <2>9, <3>2, <4>1, TextedBlock
    <3>4. TextOf(b) = [type |-> "observation"]
      BY <3>2 DEF TextOf
    <3>5. (i + 1) + 1 = i + 2
      OBVIOUS
    <3> QED BY <3>3, <3>4, <3>5
  <2> QED BY <2>1, <2>9, <2>10, <2>11, <2>12
<1>2. ProviderSpec => []TypeInv /\ []ConversationInv /\ []ShapeInv
  BY ProvidersImplement, TypeInvariant, ConversationInvariant, ShapeInvariant, PTL
<1>3. ProviderSpec => []ActedInv
  BY <1>2, ActedInit, ActedStep, PTL DEF ProviderSpec
<1> QED BY <1>1, <1>2, <1>3, PTL

-----------------------------------------------------------------------------
(* OpenAI. *)

(* The messages of an OpenAI request.                                      *)
Wire ==
  [role : {"system"}]
    \cup [role : {"user"}, content : Texts]
    \cup [role : {"tool"}, tool_call_id : CallIds]
    \cup [role : {"assistant"}, content : Texts \cup {"omitted"}, tool_calls : Seq(Block)]

OpenAIParts == [i \in DOMAIN messages |-> to_openai_message(messages[i])]

AssistantMessage(m) ==
  [role |-> "assistant", content |-> AssistantContent(m), tool_calls |-> m.content]

LEMMA AssistantMessageType ==
  ASSUME NEW m \in Message
  PROVE  /\ AssistantMessage(m) \in Wire
         /\ AssistantMessage(m).content = "omitted" => m.content # <<>>
<1>1. m.content \in Seq(Block) /\ m.text \in Texts
  BY DEF Message
<1>2. AssistantContent(m) \in Texts \cup {"omitted"}
  BY <1>1 DEF AssistantContent, Texts
<1>3. AssistantContent(m) = "omitted" => m.content # <<>>
  BY <1>1 DEF AssistantContent, Texts
<1> QED BY <1>1, <1>2, <1>3 DEF AssistantMessage, Wire

LEMMA ToolMessagesType ==
  ASSUME NEW blocks \in Seq(Block)
  PROVE  /\ ToolMessages(blocks) \in Seq(Wire) /\ Len(ToolMessages(blocks)) = Len(blocks)
         /\ \A k \in 1..Len(blocks) :
              ToolMessages(blocks)[k] = [role |-> "tool", tool_call_id |-> blocks[k].id]
<1>1. Len(blocks) \in Nat /\ DOMAIN blocks = 1..Len(blocks)
  BY LenProperties
<1>2. \A k \in 1..Len(blocks) : [role |-> "tool", tool_call_id |-> blocks[k].id] \in Wire
  <2>1. \A k \in 1..Len(blocks) : blocks[k] \in Block
    BY ElementOfSeq
  <2> QED BY <2>1 DEF Block, Wire
<1>3. ToolMessages(blocks) =
        [k \in 1..Len(blocks) |-> [role |-> "tool", tool_call_id |-> blocks[k].id]]
  BY <1>1 DEF ToolMessages
<1> QED BY <1>1, <1>2, <1>3

LEMMA OpenAIMessageType ==
  ASSUME NEW m \in Message
  PROVE  to_openai_message(m) \in Seq(Wire)
<1>1. m.content \in Seq(Block) /\ m.text \in Texts
  BY DEF Message
<1>2. CASE m.role = "user"
  <2>1. ToolMessages(m.content) \in Seq(Wire)
    BY <1>1, ToolMessagesType
  <2>2. (IF m.text = "empty" THEN <<>> ELSE <<[role |-> "user", content |-> m.text]>>) \in Seq(Wire)
    <3>1. [role |-> "user", content |-> m.text] \in Wire
      BY <1>1 DEF Wire
    <3> QED BY <3>1
  <2> QED BY <1>2, <2>1, <2>2, ConcatProperties DEF to_openai_message
<1>3. CASE m.role # "user"
  BY <1>3, AssistantMessageType DEF to_openai_message, AssistantMessage
<1> QED BY <1>2, <1>3

LEMMA OpenAIType ==
  ASSUME TypeOK
  PROVE  /\ OpenAIParts \in Seq(Seq(Wire)) /\ FlattenSeq(OpenAIParts) \in Seq(Wire)
         /\ to_openai_messages = <<System>> \o FlattenSeq(OpenAIParts)
         /\ to_openai_messages \in Seq(Wire)
<1>1. messages \in Seq(Message) /\ Len(messages) \in Nat /\ DOMAIN messages = 1..Len(messages)
  BY LenProperties DEF TypeOK
<1>2. \A i \in 1..Len(messages) : to_openai_message(messages[i]) \in Seq(Wire)
  BY <1>1, ElementOfSeq, OpenAIMessageType
<1>3. OpenAIParts \in Seq(Seq(Wire))
  BY <1>1, <1>2, IsASeq DEF OpenAIParts
<1>4. FlattenSeq(OpenAIParts) \in Seq(Wire)
  BY <1>3, FlattenType
<1>5. to_openai_messages = <<System>> \o FlattenSeq(OpenAIParts)
  BY DEF to_openai_messages, Converted, OpenAIParts
<1>6. <<System>> \in Seq(Wire)
  BY DEF System, Wire
<1> QED BY <1>3, <1>4, <1>5, <1>6, ConcatProperties

(* What a message of the conversation adds to the request.                 *)
LEMMA OpenAIAppend ==
  ASSUME TypeOK, NEW m \in Message, messages' = Append(messages, m)
  PROVE  to_openai_messages' = to_openai_messages \o to_openai_message(m)
<1> DEFINE c == to_openai_message(m)
           s == OpenAIParts
           S == Seq(Wire)
           u == Append(s, c)
           n == Len(messages)
<1>1. messages \in Seq(Message) /\ n \in Nat /\ DOMAIN messages = 1..n
  BY LenProperties DEF TypeOK
<1>2. /\ messages' \in Seq(Message) /\ Len(messages') = n + 1 /\ messages'[n + 1] = m
      /\ \A i \in 1..n : messages'[i] = messages[i]
  BY <1>1, AppendProperties
<1>3. DOMAIN messages' = 1..(n + 1)
  BY <1>2, LenProperties
<1>4. s \in Seq(S) /\ Len(s) = n /\ c \in S
  <2>1. DOMAIN s = 1..n
    BY <1>1 DEF OpenAIParts
  <2> QED BY <1>1, <2>1, OpenAIType, OpenAIMessageType, LenProperties
<1>5. /\ OpenAIParts' = [i \in 1..(n + 1) |-> to_openai_message(messages'[i])]
      /\ s = [i \in 1..n |-> to_openai_message(messages[i])]
  BY <1>1, <1>3 DEF OpenAIParts
<1> HIDE DEF c, s, S, n
<1>6. /\ u \in Seq(S) /\ Len(u) = n + 1 /\ u[n + 1] = c
      /\ \A i \in 1..n : u[i] = s[i]
  BY <1>4, AppendProperties
<1>7. u = [i \in 1..(n + 1) |-> u[i]]
  BY <1>6, LenProperties
<1> HIDE DEF u
<1>8. \A i \in 1..(n + 1) : u[i] = to_openai_message(messages'[i])
  <2> SUFFICES ASSUME NEW i \in 1..(n + 1) PROVE u[i] = to_openai_message(messages'[i])
    OBVIOUS
  <2>1. CASE i = n + 1
    BY <1>2, <1>6, <2>1 DEF c
  <2>2. CASE i \in 1..n
    BY <1>2, <1>5, <1>6, <2>2
  <2> QED BY <1>1, <2>1, <2>2
<1>9. OpenAIParts' = u
  BY <1>5, <1>7, <1>8
<1>10. FlattenSeq(u) = FlattenSeq(s) \o c
  BY <1>4, FlattenAppend DEF u, S
<1>11. to_openai_messages' = <<System>> \o (FlattenSeq(s) \o c)
  BY <1>9, <1>10 DEF to_openai_messages, Converted, OpenAIParts
<1>12. /\ to_openai_messages = <<System>> \o FlattenSeq(s)
       /\ FlattenSeq(s) \in Seq(Wire) /\ c \in Seq(Wire) /\ <<System>> \in Seq(Wire)
  BY <1>4, OpenAIType DEF s, S, System, Wire
<1>13. <<System>> \o (FlattenSeq(s) \o c) = (<<System>> \o FlattenSeq(s)) \o c
  BY <1>12, ConcatAssociative
<1> QED BY <1>11, <1>12, <1>13 DEF c

(* The positions of o, of a and of t among them.                           *)
LEMMA Positions ==
  ASSUME NEW l \in Nat, NEW n \in Nat, NEW i \in 1..(l + 1 + n)
  PROVE  i \in 1..l \/ i = l + 1 \/ \E k \in 1..n : i = l + 1 + k
<1> SUFFICES ASSUME ~(i \in 1..l), i # l + 1 PROVE \E k \in 1..n : i = l + 1 + k
  OBVIOUS
<1>1. i - (l + 1) \in 1..n /\ i = l + 1 + (i - (l + 1))
  OBVIOUS
<1> QED BY <1>1

(* One turn more: a, whose calls the messages of t answer.                 *)
LEMMA MirrorsStep ==
  ASSUME NEW o \in Seq(Wire), NEW turns \in Int, Mirrors(o, turns),
         NEW a \in Wire, a.role = "assistant", a.tool_calls \in Seq(Block),
         a.content = "omitted" => a.tool_calls # <<>>,
         NEW t \in Seq(Wire), Len(t) = Len(a.tool_calls),
         \A k \in 1..Len(t) : t[k] = [role |-> "tool", tool_call_id |-> a.tool_calls[k].id]
  PROVE  Mirrors(Append(o, a) \o t, turns + 1)
<1> DEFINE q == Append(o, a) \o t
           L == Len(o)
           n == Len(t)
           assistant(x) == {i \in DOMAIN x : x[i].role = "assistant"}
           tool(x) == {i \in DOMAIN x : x[i].role = "tool"}
           after(x, i) == {i + k : k \in DOMAIN x[i].tool_calls}
           T == {L + 1 + k : k \in 1..n}
<1> HIDE DEF q, L, n, assistant, tool, after, T
<1>1. /\ L \in Nat /\ DOMAIN o = 1..L /\ n \in Nat
      /\ DOMAIN a.tool_calls = 1..n
  BY LenProperties DEF L, n
<1>2. /\ q \in Seq(Wire) /\ Len(q) = L + 1 + n /\ DOMAIN q = 1..(L + 1 + n)
      /\ \A i \in 1..L : q[i] = o[i]
      /\ q[L + 1] = a
      /\ \A k \in 1..n : q[L + 1 + k] = t[k]
  <2> DEFINE p == Append(o, a)
  <2>1. p \in Seq(Wire) /\ Len(p) = L + 1 /\ p[L + 1] = a /\ \A i \in 1..L : p[i] = o[i]
    BY AppendProperties DEF L
  <2>2. q = p \o t
    BY DEF q
  <2> HIDE DEF p
  <2>3. /\ q \in Seq(Wire) /\ Len(q) = Len(p) + n
        /\ \A i \in 1..(Len(p) + n) : q[i] = IF i <= Len(p) THEN p[i] ELSE t[i - Len(p)]
    <3>1. \A u, v \in Seq(Wire) :
            /\ u \o v \in Seq(Wire) /\ Len(u \o v) = Len(u) + Len(v)
            /\ \A i \in 1..(Len(u) + Len(v)) :
                 (u \o v)[i] = IF i <= Len(u) THEN u[i] ELSE v[i - Len(u)]
      BY ConcatProperties
    <3> QED BY <2>1, <2>2, <3>1, Zenon DEF n
  <2>4. DOMAIN q = 1..Len(q)
    BY <2>3, LenProperties
  <2>5. \A i \in 1..(L + 1) : q[i] = p[i]
    BY <1>1, <2>1, <2>3
  <2>6. ASSUME NEW k \in 1..n PROVE q[L + 1 + k] = t[k]
    <3>1. /\ L + 1 + k \in 1..(Len(p) + n) /\ ~(L + 1 + k <= Len(p))
          /\ (L + 1 + k) - Len(p) = k
      BY <1>1, <2>1
    <3> QED BY <2>3, <3>1
  <2>7. q[L + 1] = a /\ \A i \in 1..L : q[i] = o[i]
    BY <1>1, <2>1, <2>5
  <2>8. Len(q) = L + 1 + n
    BY <2>1, <2>3
  <2> QED BY <2>3, <2>4, <2>6, <2>7, <2>8, Zenon
<1>3. \A k \in 1..n : t[k].role = "tool"
  <2>1. \A x : [role |-> "tool", tool_call_id |-> x].role = "tool"
    OBVIOUS
  <2>2. \A k \in 1..n : t[k] = [role |-> "tool", tool_call_id |-> a.tool_calls[k].id]
    BY DEF n
  <2> QED BY <2>1, <2>2
<1>4. assistant(q) = assistant(o) \cup {L + 1}
  <2>1. ASSUME NEW i \in 1..(L + 1 + n), q[i].role = "assistant"
        PROVE  i = L + 1 \/ (i \in 1..L /\ o[i].role = "assistant")
    <3>1. CASE i \in 1..L
      BY <1>2, <2>1, <3>1
    <3>2. ASSUME NEW k \in 1..n, i = L + 1 + k PROVE FALSE
      <4>1. q[L + 1 + k] = t[k] /\ t[k].role = "tool"
        BY <1>2, <1>3
      <4> QED BY <2>1, <3>2, <4>1
    <3> QED BY <1>1, <3>1, <3>2, Positions
  <2>2. ASSUME NEW i \in 1..L, o[i].role = "assistant"
        PROVE  i \in 1..(L + 1 + n) /\ q[i].role = "assistant"
    BY <1>1, <1>2, <2>2
  <2>3. L + 1 \in 1..(L + 1 + n) /\ q[L + 1].role = "assistant"
    BY <1>1, <1>2
  <2> QED BY <1>1, <1>2, <2>1, <2>2, <2>3 DEF assistant
<1>5. tool(q) = tool(o) \cup T
  <2>1. ASSUME NEW i \in 1..(L + 1 + n), q[i].role = "tool"
        PROVE  (i \in 1..L /\ o[i].role = "tool") \/ i \in T
    <3>1. CASE i \in 1..L
      BY <1>2, <2>1, <3>1
    <3>2. CASE i = L + 1
      BY <1>2, <2>1, <3>2
    <3>3. ASSUME NEW k \in 1..n, i = L + 1 + k PROVE i \in T
      BY <3>3 DEF T
    <3> QED BY <1>1, <3>1, <3>2, <3>3, Positions
  <2>2. ASSUME NEW i \in 1..L, o[i].role = "tool"
        PROVE  i \in 1..(L + 1 + n) /\ q[i].role = "tool"
    <3>1. i \in 1..(L + 1 + n)
      BY <1>1
    <3>2. q[i] = o[i]
      BY <1>2
    <3> QED BY <2>2, <3>1, <3>2
  <2>3. ASSUME NEW i \in T PROVE i \in 1..(L + 1 + n) /\ q[i].role = "tool"
    <3>1. PICK k \in 1..n : i = L + 1 + k
      BY DEF T
    <3>2. i \in 1..(L + 1 + n)
      BY <1>1, <3>1
    <3> QED BY <1>2, <1>3, <3>1, <3>2
  <2> QED BY <1>1, <1>2, <2>1, <2>2, <2>3 DEF tool
<1>6. Cardinality(assistant(q)) = turns + 1
  <2>1. IsFiniteSet(assistant(o)) /\ L + 1 \notin assistant(o)
    <3>0. 1 \in Int /\ L \in Int
      BY <1>1
    <3>1. IsFiniteSet(1..L)
      BY <3>0, FS_Interval
    <3>2. assistant(o) \in SUBSET (1..L)
      BY <1>1 DEF assistant
    <3> QED BY <1>1, <3>1, <3>2, FS_Subset
  <2>2. Cardinality(assistant(o)) = turns
    BY DEF Mirrors, assistant
  <2> QED BY <1>4, <2>1, <2>2, FS_AddElement
<1>7. /\ \A i \in assistant(o) : after(q, i) = after(o, i)
      /\ after(q, L + 1) = T
  <2>1. \A i \in assistant(o) : q[i] = o[i]
    BY <1>1, <1>2 DEF assistant
  <2>2. DOMAIN q[L + 1].tool_calls = 1..n
    BY <1>1, <1>2
  <2> QED BY <2>1, <2>2 DEF after, T
<1>8. tool(q) = UNION {after(q, i) : i \in assistant(q)}
  <2>1. tool(o) = UNION {after(o, i) : i \in assistant(o)}
    BY DEF Mirrors, tool, after, assistant
  <2>2. {after(q, i) : i \in assistant(q)} = {after(o, i) : i \in assistant(o)} \cup {T}
    BY <1>4, <1>7
  <2> QED BY <1>5, <2>1, <2>2
<1>9. ASSUME NEW i \in assistant(q)
      PROVE  /\ q[i].content = "omitted" => q[i].tool_calls # <<>>
             /\ i + Len(q[i].tool_calls) <= Len(q)
             /\ \A k \in DOMAIN q[i].tool_calls :
                  q[i + k] = [role |-> "tool", tool_call_id |-> q[i].tool_calls[k].id]
  <2>1. CASE i = L + 1
    <3>1. q[i] = a /\ Len(a.tool_calls) = n
      BY <1>2, <2>1 DEF n
    <3>2. i + n <= Len(q)
      BY <1>1, <1>2, <2>1
    <3>3. \A k \in 1..n : q[i + k] = [role |-> "tool", tool_call_id |-> a.tool_calls[k].id]
      <4>1. \A k \in 1..n : q[L + 1 + k] = [role |-> "tool", tool_call_id |-> a.tool_calls[k].id]
        BY <1>2 DEF n
      <4> QED BY <2>1, <4>1
    <3> QED BY <1>1, <3>1, <3>2, <3>3
  <2>2. CASE i \in assistant(o)
    <3>1. /\ i \in 1..L /\ o[i].role = "assistant" /\ q[i] = o[i]
          /\ o[i].content = "omitted" => o[i].tool_calls # <<>>
          /\ i + Len(o[i].tool_calls) <= L
          /\ \A k \in DOMAIN o[i].tool_calls :
               o[i + k] = [role |-> "tool", tool_call_id |-> o[i].tool_calls[k].id]
      BY <1>1, <1>2, <2>2 DEF Mirrors, assistant, L
    <3>2. o[i].tool_calls \in Seq(Block)
      <4>1. o[i] \in Wire
        BY <3>1, ElementOfSeq DEF L
      <4> QED BY <3>1, <4>1 DEF Wire
    <3> DEFINE c == Len(o[i].tool_calls)
    <3>3. c \in Nat /\ DOMAIN o[i].tool_calls = 1..c
      BY <3>2, LenProperties
    <3>3a. i \in Nat /\ i >= 1 /\ i + c <= L
      BY <1>1, <3>1
    <3> HIDE DEF c
    <3>4. i + c <= Len(q)
      BY <1>1, <1>2, <3>3, <3>3a
    <3>5. ASSUME NEW k \in 1..c PROVE q[i + k] = o[i + k]
      <4>1. i + k \in 1..L
        BY <1>1, <3>3, <3>3a
      <4> QED BY <1>2, <4>1
    <3> QED BY <3>1, <3>3, <3>4, <3>5 DEF c
  <2> QED BY <1>4, <2>1, <2>2
<1> QED BY <1>6, <1>8, <1>9 DEF Mirrors, q, assistant, tool, after

(* A request mirrors the turns that are over; during a turn it also ends   *)
(* with the assistant message whose calls are being handled.               *)
OpenAIInv ==
  /\ pc = "head" => Mirrors(to_openai_messages, roundTrips)
  /\ pc = "llm" => Mirrors(to_openai_messages, roundTrips - 1)
  /\ pc \in {"calls", "exec"} =>
       \E o \in Seq(Wire) :
         /\ to_openai_messages = Append(o, AssistantMessage(messages[Len(messages)]))
         /\ Mirrors(o, roundTrips - 1)

LEMMA OpenAIInit == Init => OpenAIInv
<1> SUFFICES ASSUME Init PROVE OpenAIInv
  OBVIOUS
<1> DEFINE user == [role |-> "user", content |-> "prose"]
<1>0. messages = <<Opening>> /\ pc = "head" /\ roundTrips = 0
  BY DEF Init
<1>1. to_openai_message(Opening) = <<user>>
  <2>1. ToolMessages(<<>>) = <<>>
    BY DEF ToolMessages
  <2>2. <<>> \o <<user>> = <<user>>
    OBVIOUS
  <2> QED BY <2>1, <2>2 DEF to_openai_message, Opening
<1>2. OpenAIParts = <<<<user>>>>
  <2>1. DOMAIN <<Opening>> = 1..1 /\ <<Opening>>[1] = Opening
        /\ DOMAIN <<<<user>>>> = 1..1 /\ <<<<user>>>>[1] = <<user>>
    OBVIOUS
  <2>2. <<<<user>>>> = [i \in 1..1 |-> <<user>>]
    BY <2>1
  <2> QED BY <1>0, <1>1, <2>1, <2>2 DEF OpenAIParts
<1>3. FlattenSeq(<<<<user>>>>) = <<user>>
  <2>1. <<>> \in Seq(Seq({user})) /\ <<user>> \in Seq({user})
    BY EmptySeq
  <2>2. FlattenSeq(Append(<<>>, <<user>>)) = FlattenSeq(<<>>) \o <<user>>
    BY <2>1, FlattenAppend
  <2>3. FlattenSeq(<<>>) = <<>>
    BY DEF FlattenSeq
  <2>4. Append(<<>>, <<user>>) = <<<<user>>>> /\ <<>> \o <<user>> = <<user>>
    OBVIOUS
  <2> QED BY <2>2, <2>3, <2>4
<1>4. to_openai_messages = <<System, user>>
  <2>1. \A x, y : <<x>> \o <<y>> = <<x, y>>
    <3> SUFFICES ASSUME NEW x, NEW y PROVE <<x>> \o <<y>> = <<x, y>>
      OBVIOUS
    <3>1. /\ <<x>> \in Seq({x, y}) /\ <<y>> \in Seq({x, y}) /\ Len(<<x>>) = 1
          /\ Len(<<y>>) = 1 /\ <<x>>[1] = x /\ <<y>>[1] = y
      OBVIOUS
    <3> DEFINE u == <<x>>
               v == <<y>>
               w == <<x>> \o <<y>>
    <3>2. /\ w \in Seq({x, y}) /\ Len(w) = Len(u) + Len(v)
          /\ \A i \in 1..(Len(u) + Len(v)) : w[i] = IF i <= Len(u) THEN u[i] ELSE v[i - Len(u)]
      BY <3>1, ConcatProperties
    <3>3. w \in Seq({x, y}) /\ Len(w) = 2 /\ w[1] = x /\ w[2] = y
      BY <3>1, <3>2
    <3> HIDE DEF w
    <3>4. w = <<x, y>>
      BY <3>3
    <3> QED BY <3>4 DEF w
  <2> QED BY <1>2, <1>3, <2>1 DEF to_openai_messages, Converted, OpenAIParts
<1>5. Mirrors(<<System, user>>, 0)
  <2> DEFINE out == <<System, user>>
  <2>1. DOMAIN out = {1, 2} /\ out[1].role = "system" /\ out[2].role = "user"
    BY DEF System
  <2> HIDE DEF out
  <2>2. {i \in DOMAIN out : out[i].role = "assistant"} = {}
    BY <2>1
  <2>3. {j \in DOMAIN out : out[j].role = "tool"} = {}
    BY <2>1
  <2>4. Cardinality({}) = 0
    BY FS_EmptySet
  <2>5. Mirrors(out, 0)
    BY <2>2, <2>3, <2>4 DEF Mirrors
  <2> QED BY <2>5 DEF out
<1> QED BY <1>0, <1>4, <1>5 DEF OpenAIInv

LEMMA OpenAIStep ==
  TypeInv /\ ConversationInv /\ ShapeInv /\ OpenAIInv /\ [Next]_vars => OpenAIInv'
<1> SUFFICES ASSUME TypeInv, ConversationInv, ShapeInv, OpenAIInv, [Next]_vars
             PROVE  OpenAIInv'
  OBVIOUS
<1>0. /\ TypeOK /\ roundTrips \in Nat /\ tool_results \in Seq(Block)
      /\ messages \in Seq(Message) /\ Len(messages) \in Nat
  BY LenProperties DEF TypeInv, TypeOK
<1>1. ASSUME messages' = messages PROVE to_openai_messages' = to_openai_messages
  BY <1>1 DEF to_openai_messages, Converted
<1>2. CASE pc' \in {"returned", "raised"}
  BY <1>2 DEF OpenAIInv
<1>3. CASE AskModel
  <2>1. /\ pc = "head" /\ pc' = "llm" /\ roundTrips' = roundTrips + 1 /\ messages' = messages
    BY <1>3 DEF AskModel
  <2>2. roundTrips' - 1 = roundTrips
    BY <1>0, <2>1
  <2> QED BY <1>1, <2>1, <2>2 DEF OpenAIInv
<1>4. CASE RejectCall \/ DispatchCall \/ TargetAnswers
  <2>1. /\ pc \in {"calls", "exec"} /\ pc' \in {"calls", "exec"}
        /\ roundTrips' = roundTrips /\ messages' = messages
    BY <1>4 DEF RejectCall, DispatchCall, AtCall, TargetAnswers, ExecReturns
  <2> QED BY <1>1, <2>1 DEF OpenAIInv
<1>5. ASSUME NEW c \in Completions, ToolReply(c) PROVE OpenAIInv'
  <2> DEFINE m == AssistantTurn(c.text, c.tool_calls)
  <2>1. /\ pc = "llm" /\ pc' = "calls" /\ roundTrips' = roundTrips
        /\ messages' = Append(messages, m)
    BY <1>5 DEF ToolReply
  <2>2. m \in Message /\ m.role = "assistant"
    BY CompletionType, AssistantTurnType DEF AssistantTurn
  <2> HIDE DEF m
  <2>3. to_openai_message(m) = <<AssistantMessage(m)>>
    BY <2>2 DEF to_openai_message, AssistantMessage
  <2>4. messages'[Len(messages')] = m
    BY <1>0, <2>1, <2>2, AppendProperties
  <2>5. to_openai_messages \in Seq(Wire) /\ AssistantMessage(m) \in Wire
    BY <1>0, <2>2, OpenAIType, AssistantMessageType
  <2>6. to_openai_messages' = Append(to_openai_messages, AssistantMessage(m))
    BY <1>0, <2>1, <2>2, <2>3, <2>5, OpenAIAppend, AppendIsConcat
  <2>7. Mirrors(to_openai_messages, roundTrips' - 1)
    BY <2>1 DEF OpenAIInv
  <2> DEFINE o == to_openai_messages
  <2>8. o \in Seq(Wire) /\ Mirrors(o, roundTrips' - 1)
        /\ to_openai_messages' = Append(o, AssistantMessage(messages'[Len(messages')]))
    BY <2>4, <2>5, <2>6, <2>7
  <2> HIDE DEF o
  <2> QED BY <2>1, <2>8 DEF OpenAIInv
<1>6. CASE ReportResults
  <2> DEFINE m == UserTurn(tool_results)
             a == AssistantMessage(messages[Len(messages)])
             t == ToolMessages(tool_results)
  <2>1. /\ pc = "calls" /\ pc' = "head" /\ roundTrips' = roundTrips
        /\ messages' = Append(messages, m) /\ pending = <<>>
    BY <1>6 DEF ReportResults, TurnHandled
  <2>2. m \in Message /\ m.role = "user" /\ m.text = "empty" /\ m.content = tool_results
    BY <1>0 DEF UserTurn, Message, Texts
  <2>3. t \in Seq(Wire) /\ Len(t) = Len(tool_results)
        /\ \A k \in 1..Len(t) : t[k] = [role |-> "tool", tool_call_id |-> tool_results[k].id]
    BY <1>0, ToolMessagesType
  <2>4. to_openai_message(m) = t
    <3>1. to_openai_message(m) = t \o <<>>
      BY <2>2 DEF to_openai_message
    <3> HIDE DEF t
    <3> QED BY <2>3, <3>1, ConcatEmptySeq
  <2>5. PICK o \in Seq(Wire) : to_openai_messages = Append(o, a) /\ Mirrors(o, roundTrips - 1)
    BY <2>1 DEF OpenAIInv
  <2>6. Halfway(messages[Len(messages)].content) /\ Len(messages) = 2 * roundTrips
    BY <2>1 DEF ConversationInv, Stopped
  <2>7. messages[Len(messages)].content \in Seq(Block) /\ messages[Len(messages)] \in Message
    <3>1. Len(messages) \in 1..Len(messages)
      BY <1>0 DEF ShapeInv
    <3>2. messages[Len(messages)] \in Message
      BY <1>0, <3>1, ElementOfSeq
    <3> QED BY <3>2 DEF Message
  <2>8. /\ a \in Wire /\ a.role = "assistant" /\ a.tool_calls = messages[Len(messages)].content
        /\ a.content = "omitted" => a.tool_calls # <<>>
    BY <2>7, AssistantMessageType DEF AssistantMessage
  <2>9. /\ Len(t) = Len(a.tool_calls)
        /\ \A k \in 1..Len(t) : t[k] = [role |-> "tool", tool_call_id |-> a.tool_calls[k].id]
    <3>1. Len(a.tool_calls) = Len(tool_results)
      <4>1. Len(pending) = 0 /\ Len(tool_results) \in Nat
        BY <1>0, <2>1, LenProperties
      <4> QED BY <2>6, <2>8, <4>1 DEF Halfway
    <3>2. \A k \in 1..Len(tool_results) : a.tool_calls[k].id = tool_results[k].id
      BY <2>6, <2>8 DEF Halfway
    <3> HIDE DEF t, a
    <3> QED BY <2>3, <3>1, <3>2
  <2>10. to_openai_messages' = Append(o, a) \o t
    BY <1>0, <2>1, <2>2, <2>4, <2>5, OpenAIAppend
  <2>11. Mirrors(Append(o, a) \o t, (roundTrips - 1) + 1)
    <3> HIDE DEF t, a
    <3>1. roundTrips - 1 \in Int /\ a.tool_calls \in Seq(Block)
      BY <1>0, <2>7, <2>8
    <3> QED BY <2>3, <2>5, <2>8, <2>9, <3>1, MirrorsStep
  <2>12. (roundTrips - 1) + 1 = roundTrips'
    BY <1>0, <2>1
  <2> QED BY <2>1, <2>10, <2>11, <2>12 DEF OpenAIInv
<1>7. CASE UNCHANGED vars
  <2>1. pc' = pc /\ roundTrips' = roundTrips /\ messages' = messages
    BY <1>7 DEF vars
  <2> QED BY <1>1, <2>1 DEF OpenAIInv
<1>8. CASE ExhaustIterations \/ StopOnBudget \/ ModelFails \/ ModelRaises \/ CrashOnInput
           \/ CallDone \/ GiveUpOnModel
           \/ \E c \in Completions : OverBudgetReply(c) \/ TextOnlyReply(c)
  BY <1>2, <1>8
  DEF ExhaustIterations, StopOnBudget, ModelFails, ModelRaises, CrashOnInput, CallDone,
      GiveUpOnModel, OverBudgetReply, TextOnlyReply, Stop, Raise
<1> QED
  BY <1>3, <1>4, <1>5, <1>6, <1>7, <1>8 DEF Next, AgentStep, ModelAnswers, Reply

LEMMA OpenAIInvariant == Spec => []OpenAIInv
BY OpenAIInit, OpenAIStep, TypeInvariant, ConversationInvariant, ShapeInvariant, PTL DEF Spec

(* Every request to OpenAI pairs its calls and answers as it demands, over *)
(* any number of turns.                                                    *)
THEOREM OpenAIAcceptsHolds == ProviderSpec => []OpenAIAccepts
<1>1. OpenAIInv => OpenAIAccepts
  BY DEF OpenAIInv, OpenAIAccepts
<1> QED BY <1>1, ProvidersImplement, OpenAIInvariant, PTL

-----------------------------------------------------------------------------
(* run_agent over the transport. *)

(* The steps of the transport but for the one that brings a reply.         *)
LEMMA TransportMoves ==
  ASSUME TransportStep
  PROVE  /\ pc = "llm" /\ UNCHANGED <<vars, reply>>
         /\ post' = "returned" => post = "reading"
         /\ post' # "reading"
<1>1. pc = "llm" /\ UNCHANGED <<vars, reply>>
  BY DEF TransportStep, Waiting
<1>2. CASE Transport!ClientStep
  BY <1>1, <1>2
  DEF Transport!ClientStep, Transport!Refuse, Transport!Accept, Transport!StartAttempt,
      Transport!WakeUp
<1>3. CASE \/ Transport!SendFails \/ Transport!Sent \/ Transport!ErrorStatus
           \/ Transport!ErrorBodyRead \/ Transport!ErrorBodyLost
  BY <1>1, <1>3
  DEF Transport!SendFails, Transport!Sent, Transport!ErrorStatus, Transport!ErrorBodyRead,
      Transport!ErrorBodyLost, Transport!EndsWith
<1>4. CASE Transport!ResponseLost \/ Transport!NotJson \/ Transport!BodyRead
  BY <1>1, <1>4
  DEF Transport!ResponseLost, Transport!NotJson, Transport!BodyRead, Transport!EndsWith
<1> QED BY <1>2, <1>3, <1>4 DEF TransportStep

-----------------------------------------------------------------------------
(* The composition implements run_agent as Orchestrator has it. *)

ReplyInv == post \in {"reading", "returned"} => reply \in Completions

LEMMA ReplyInit == AgentInit => ReplyInv
BY DEF AgentInit, Transport!Init, ReplyInv

LEMMA ReplyStep == ReplyInv /\ [AgentNext]_allVars => ReplyInv'
<1> SUFFICES ASSUME ReplyInv, [AgentNext]_allVars PROVE ReplyInv'
  OBVIOUS
<1>1. CASE Request
  BY <1>1 DEF Request, NewRequest, ReplyInv
<1>2. CASE AgentAlone \/ TargetAlone \/ AgentHears \/ UNCHANGED allVars
  BY <1>2 DEF AgentAlone, TargetAlone, AgentHears, allVars, wire, ReplyInv
<1>3. CASE ReplyProduced
  BY <1>3 DEF ReplyProduced, ReplyInv
<1>4. CASE TransportStep
  BY <1>4, TransportMoves DEF ReplyInv
<1> QED BY <1>1, <1>2, <1>3, <1>4 DEF AgentNext, RequestStep

LEMMA ReplyInvariant == AgentSpec => []ReplyInv
BY ReplyInit, ReplyStep, PTL DEF AgentSpec

(* Every behaviour of the agent over the transport is one of run_agent     *)
(* with an atomic answer: retries, lost replies and error statuses are     *)
(* nothing but a long wait, an LLMError or an exception to it.             *)
THEOREM CompositionImplements == AgentSpec => Spec
<1>1. AgentInit => Init
  BY DEF AgentInit
<1>2. ReplyInv /\ [AgentNext]_allVars => [Next]_vars
  <2> SUFFICES ASSUME ReplyInv, [AgentNext]_allVars PROVE [Next]_vars
    OBVIOUS
  <2>1. CASE Request
    BY <2>1 DEF Request, Next, AgentStep
  <2>2. CASE AgentAlone \/ TargetAlone
    BY <2>2 DEF AgentAlone, TargetAlone, Next
  <2>3. CASE ReplyProduced \/ TransportStep
    BY <2>3 DEF ReplyProduced, TransportStep, Waiting
  <2>4. CASE AgentHears
    BY <2>4 DEF AgentHears, ReplyInv, Next, ModelAnswers
  <2>5. CASE UNCHANGED allVars
    BY <2>5 DEF allVars
  <2> QED BY <2>1, <2>2, <2>3, <2>4, <2>5 DEF AgentNext, RequestStep
<1> QED BY <1>1, <1>2, ReplyInvariant, PTL DEF AgentSpec, Spec

(* So the abstract investigation is implemented over the wire as well.     *)
THEOREM CompositionInvestigates == AgentSpec => Implements
BY CompositionImplements, OrchestratorImplements, PTL

-----------------------------------------------------------------------------
(* The attempts. *)

(* What n round trips may cost.                                            *)
PerRequest == Transport!max_retries + 1
Cap(n) == PerRequest * n

LEMMA CapFacts ==
  /\ Transport!max_retries \in Nat /\ Cap(0) = 0
  /\ \A n \in Nat : Cap(n) \in Nat /\ Cap(n + 1) = Cap(n) + PerRequest
<1>1. Transport!max_retries \in Nat
  BY ClientAssumption DEF Transport!max_retries
<1>2. PerRequest \in Nat
  BY <1>1 DEF PerRequest
<1> QED BY <1>1, <1>2 DEF Cap

(* A request under way spends what its round trip adds: the attempts made  *)
(* before the one of the loop, that one while it is in flight or slept     *)
(* off, and no more than max_retries before the last.                      *)
RequestInv ==
  /\ roundTrips >= 1 /\ attempt \in Nat
  /\ attempts <= Cap(roundTrips - 1) + PerRequest
  /\ post = "start" => attempts <= Cap(roundTrips - 1) /\ attempt = 0
  /\ post = "loop" =>
       attempts <= Cap(roundTrips - 1) + attempt /\ attempt <= Transport!max_retries
  /\ post \in {"sending", "waiting", "sleeping"} =>
       attempts <= Cap(roundTrips - 1) + attempt + 1
  /\ post = "sleeping" => attempt < Transport!max_retries

AttemptsInv ==
  /\ attempts \in Nat
  /\ pc # "llm" => attempts <= Cap(roundTrips)
  /\ pc = "llm" => RequestInv

LEMMA AttemptsInit == AgentInit => AttemptsInv
BY CapFacts DEF AgentInit, Init, AttemptsInv

LEMMA RequestStarts ==
  TypeInv /\ AttemptsInv /\ Request => AttemptsInv'
<1> SUFFICES ASSUME TypeInv, AttemptsInv, Request PROVE AttemptsInv'
  OBVIOUS
<1>1. /\ roundTrips \in Nat /\ roundTrips' = roundTrips + 1 /\ pc = "head" /\ pc' = "llm"
      /\ attempts' = attempts /\ post' = "start" /\ attempt' = 0
  BY DEF Request, NewRequest, AskModel, TypeInv, TypeOK
<1>2. attempts \in Nat /\ attempts <= Cap(roundTrips)
  BY <1>1 DEF AttemptsInv
<1>3. roundTrips' - 1 = roundTrips /\ Cap(roundTrips' - 1) = Cap(roundTrips)
  BY <1>1
<1>4. PerRequest \in Nat /\ Cap(roundTrips) \in Nat
  BY <1>1, CapFacts DEF PerRequest
<1>5. RequestInv'
  <2>1. PerRequest' = PerRequest /\ Cap(roundTrips - 1)' = Cap(roundTrips' - 1)
    BY DEF Cap, PerRequest, Transport!max_retries
  <2> QED BY <1>1, <1>2, <1>3, <1>4, <2>1 DEF RequestInv
<1> QED BY <1>1, <1>2, <1>5 DEF AttemptsInv

LEMMA TransportAttempts ==
  TypeInv /\ AttemptsInv /\ TransportStep => AttemptsInv'
<1> SUFFICES ASSUME TypeInv, AttemptsInv, TransportStep PROVE AttemptsInv'
  OBVIOUS
<1>1. /\ pc = "llm" /\ pc' = "llm" /\ roundTrips' = roundTrips
      /\ attempts' = IF post' = "sending" THEN attempts + 1 ELSE attempts
  BY DEF TransportStep, Waiting, vars
<1>2. /\ attempts \in Nat /\ RequestInv /\ attempt \in Nat
      /\ Transport!max_retries \in Nat /\ PerRequest = Transport!max_retries + 1
      /\ Cap(roundTrips - 1) \in Nat
  <2>1. roundTrips - 1 \in Nat /\ RequestInv /\ attempts \in Nat
    BY <1>1 DEF AttemptsInv, RequestInv, TypeInv, TypeOK
  <2> QED BY <2>1, CapFacts DEF RequestInv, PerRequest
<1> DEFINE c == Cap(roundTrips - 1)
           R == Transport!max_retries
<1>3. /\ c \in Nat /\ R \in Nat /\ R' = R /\ PerRequest' = R + 1
      /\ Cap(roundTrips - 1)' = c /\ PerRequest = R + 1
  BY <1>1, <1>2 DEF Cap, PerRequest, Transport!max_retries
<1>4. /\ attempts <= c + R + 1
      /\ post = "start" => attempts <= c /\ attempt = 0
      /\ post = "loop" => attempts <= c + attempt /\ attempt <= R
      /\ post \in {"sending", "waiting", "sleeping"} => attempts <= c + attempt + 1
      /\ post = "sleeping" => attempt < R
  BY <1>2, <1>3 DEF RequestInv
<1>5. SUFFICES /\ attempts' <= c + R + 1 /\ attempt' \in Nat
               /\ post' = "start" => attempts' <= c /\ attempt' = 0
               /\ post' = "loop" => attempts' <= c + attempt' /\ attempt' <= R
               /\ post' \in {"sending", "waiting", "sleeping"} => attempts' <= c + attempt' + 1
               /\ post' = "sleeping" => attempt' < R
  <2>1. attempts' \in Nat
    BY <1>1, <1>2
  <2>2. roundTrips >= 1
    BY <1>2 DEF RequestInv
  <2>3. roundTrips' >= 1 /\ attempts' <= Cap(roundTrips - 1)' + PerRequest'
    BY <1>1, <1>2, <1>3, <1>5, <2>1, <2>2
  <2>4. RequestInv'
    BY <1>3, <1>5, <2>3 DEF RequestInv
  <2> QED BY <1>1, <2>1, <2>4 DEF AttemptsInv
<1>6. CASE Transport!ClientStep
  <2>1. CASE Transport!Refuse
    BY <1>1, <1>2, <1>4, <2>1 DEF Transport!Refuse
  <2>2. CASE Transport!Accept
    BY <1>1, <1>2, <1>3, <1>4, <2>2 DEF Transport!Accept
  <2>3. CASE Transport!StartAttempt
    BY <1>1, <1>2, <1>3, <1>4, <2>3 DEF Transport!StartAttempt
  <2>4. CASE Transport!WakeUp
    BY <1>1, <1>2, <1>3, <1>4, <2>4 DEF Transport!WakeUp
  <2> QED BY <1>6, <2>1, <2>2, <2>3, <2>4 DEF Transport!ClientStep
<1>7. CASE \/ Transport!SendFails \/ Transport!ErrorStatus
  <2>1. /\ attempt' = attempt /\ post \in {"sending", "waiting"}
        /\ post' \in {"sleeping", "llm_error", "error_body"}
        /\ post' = "sleeping" => attempt < R
    BY <1>7
    DEF Transport!SendFails, Transport!ErrorStatus, Transport!EndsWith, Transport!Retryable,
        Transport!RetriesLeft
  <2> QED BY <1>1, <1>2, <1>4, <2>1
<1>8. CASE \/ Transport!Sent \/ Transport!ErrorBodyRead \/ Transport!ErrorBodyLost
           \/ Transport!ResponseLost \/ Transport!NotJson \/ Transport!BodyRead
  <2>1. /\ attempt' = attempt
        /\ post' \in {"llm_error", "raised", "returned"}
             \/ (post = "sending" /\ post' = "waiting")
    BY <1>8
    DEF Transport!Sent, Transport!ErrorBodyRead, Transport!ErrorBodyLost,
        Transport!ResponseLost, Transport!NotJson, Transport!BodyRead, Transport!EndsWith
  <2> QED BY <1>1, <1>2, <1>4, <2>1
<1> QED BY <1>6, <1>7, <1>8 DEF TransportStep

LEMMA AttemptsStep ==
  TypeInv /\ AttemptsInv /\ [AgentNext]_allVars => AttemptsInv'
<1> SUFFICES ASSUME TypeInv, AttemptsInv, [AgentNext]_allVars PROVE AttemptsInv'
  OBVIOUS
<1>1. CASE Request
  BY <1>1, RequestStarts
<1>2. CASE AgentAlone \/ TargetAlone
  <2>1. attempts' = attempts /\ roundTrips' = roundTrips /\ pc # "llm" /\ pc' # "llm"
    BY <1>2
    DEF AgentAlone, TargetAlone, AgentStep, ExhaustIterations, StopOnBudget, RejectCall,
        CrashOnInput, CallDone, DispatchCall, GiveUpOnModel, ReportResults, AtCall,
        TurnHandled, Stop, Raise, TargetAnswers, ExecReturns
  <2> QED BY <2>1 DEF AttemptsInv, Cap, PerRequest, Transport!max_retries
<1>3. CASE ReplyProduced
  <2>1. /\ pc = "llm" /\ pc' = "llm" /\ roundTrips' = roundTrips /\ attempts' = attempts
        /\ attempt' = attempt /\ post' = "reading"
    BY <1>3 DEF ReplyProduced, Waiting, vars, Transport!OkStatus
  <2> QED BY <2>1 DEF AttemptsInv, RequestInv, Cap, PerRequest, Transport!max_retries
<1>4. CASE TransportStep
  BY <1>4, TransportAttempts
<1>5. CASE AgentHears
  <2>1. /\ pc = "llm" /\ pc' # "llm" /\ roundTrips' = roundTrips /\ attempts' = attempts
    BY <1>5 DEF AgentHears, ModelRaises, Raise, ModelFails, Stop, Reply, OverBudgetReply,
                TextOnlyReply, ToolReply
  <2>2. attempts <= Cap(roundTrips - 1) + PerRequest /\ roundTrips - 1 \in Nat
    BY <2>1 DEF AttemptsInv, RequestInv, TypeInv, TypeOK
  <2>3. Cap((roundTrips - 1) + 1) = Cap(roundTrips - 1) + PerRequest
    BY <2>2, CapFacts
  <2>4. (roundTrips - 1) + 1 = roundTrips
    BY DEF TypeInv, TypeOK
  <2>5. attempts <= Cap(roundTrips)
    BY <2>2, <2>3, <2>4
  <2> QED BY <2>1, <2>5 DEF AttemptsInv, Cap, PerRequest, Transport!max_retries
<1>6. CASE UNCHANGED allVars
  BY <1>6 DEF allVars, vars, wire, AttemptsInv, RequestInv, Cap, PerRequest,
              Transport!max_retries
<1> QED BY <1>1, <1>2, <1>3, <1>4, <1>5, <1>6 DEF AgentNext, RequestStep

LEMMA AttemptsInvariant == AgentSpec => [](TypeInv /\ AttemptsInv)
<1>1. AgentSpec => []TypeInv
  BY CompositionImplements, TypeInvariant, PTL
<1> QED BY <1>1, AttemptsInit, AttemptsStep, PTL DEF AgentSpec

(* A run makes at most max_retries + 1 attempts a round trip, for every    *)
(* limit on retries, every sequence of failures and every run.             *)
THEOREM AttemptsAreBounded == AgentSpec => []AttemptsBounded
<1>1. TypeInv /\ AttemptsInv => AttemptsBounded
  <2> SUFFICES ASSUME TypeInv, AttemptsInv PROVE attempts <= Cap(roundTrips)
    BY DEF AttemptsBounded, Cap, PerRequest
  <2>1. CASE pc # "llm"
    BY <2>1 DEF AttemptsInv
  <2>2. CASE pc = "llm"
    <3>1. attempts <= Cap(roundTrips - 1) + PerRequest /\ roundTrips - 1 \in Nat
      BY <2>2 DEF AttemptsInv, RequestInv, TypeInv, TypeOK
    <3>2. Cap((roundTrips - 1) + 1) = Cap(roundTrips - 1) + PerRequest
      BY <3>1, CapFacts
    <3>3. (roundTrips - 1) + 1 = roundTrips
      BY DEF TypeInv, TypeOK
    <3> QED BY <3>1, <3>2, <3>3
  <2> QED BY <2>1, <2>2
<1> QED BY <1>1, AttemptsInvariant, PTL
=============================================================================
