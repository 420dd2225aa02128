----------------------------- MODULE Providers -----------------------------
(***************************************************************************)
(* The provider clients of plugins/module_utils/llm_client.py between      *)
(* run_agent and the wire: how a conversation becomes the messages of a    *)
(* provider's request, and how its reply becomes a Completion.  run_agent  *)
(* runs here with the replies of one provider, as it parses them.          *)
(*                                                                         *)
(* Anthropic and Bedrock take the conversation as it is.  OpenAI messages  *)
(* are records of their own; an Ollama message is one text, modelled as    *)
(* the fragments that are joined into it (or that the model wrote): prose, *)
(* blank space, a JSON action, an observation.                             *)
(***************************************************************************)
EXTENDS Orchestrator

CONSTANTS
  Replies      \* per provider, the payloads of its API

Providers == {"anthropic", "openai", "ollama"}

(* An input as a provider sends it is one of Inputs, "falsy", "not_json"   *)
(* or "absent".  JSON null, "", [], 0 and false are falsy; the arguments   *)
(* of OpenAI are a text, which may be no JSON; an Ollama action may have   *)
(* none, or null, under each of the keys that are tried: it is absent.     *)

VARIABLE provider    \* the client get_client chose

providerVars == <<vars, provider>>

-----------------------------------------------------------------------------
(* From a reply to a Completion. *)

(* `or {}`, and the except that makes {} of unparsable arguments: what     *)
(* then lacks every field.                                                 *)
Parsed(input) == IF input \in Inputs THEN input ELSE "invalid"

(* Texts joined to one.                                                    *)
JoinedText(texts) ==
  CASE "prose" \in texts -> "prose"
    [] "prose" \notin texts /\ "blank" \in texts -> "blank"
    [] OTHER -> "empty"

OfType(blocks, type) ==
  Selected(blocks, {i \in DOMAIN blocks : blocks[i].type = type})

Calls(raw) == [i \in DOMAIN raw |->
                [id |-> raw[i].id, name |-> raw[i].name, input |-> Parsed(raw[i].input)]]

parse_anthropic_response(payload) ==
  LET texts == OfType(payload.content, "text")
  IN  [text |-> JoinedText({texts[i].text : i \in DOMAIN texts}),
       tool_calls |-> Calls(OfType(payload.content, "tool_use")),
       tokens |-> payload.tokens]

(* An empty list of choices is an empty completion; its usage is not read. *)
parse_openai_response(payload) ==
  IF payload.choices = 0
  THEN [text |-> "empty", tool_calls |-> <<>>, tokens |-> 0]
  ELSE [text |-> payload.content, tool_calls |-> Calls(payload.tool_calls),
        tokens |-> payload.tokens]

(* _parse_text_action: the text is JSON, or what is between its first and  *)
(* its last brace is: one object in all.  The id is "call_" and the name.  *)
(* There is no `or {}` here: a falsy input is no dict, and no call.        *)
IsAction_AnyInput(o) == o.name # "none"
IsAction(o) == o.name # "none" /\ o.input \notin {"not_a_dict", "falsy"}

parse_text_action(fragments) ==
  LET objects == OfType(fragments, "action")
  IN  IF Len(objects) = 1 /\ IsAction(objects[1])
      THEN <<[id |-> objects[1].name, name |-> objects[1].name,
              input |-> Parsed(objects[1].input)]>>
      ELSE <<>>

(* OllamaClient.complete: the text is dropped when it was an action.       *)
parse_ollama_response(payload) ==
  LET tool_calls == parse_text_action(payload.content)
      types == {payload.content[i].type : i \in DOMAIN payload.content}
  IN  [text |-> IF tool_calls # <<>> THEN "empty"
                ELSE JoinedText(types \cup (IF "action" \in types THEN {"prose"} ELSE {})),
       tool_calls |-> tool_calls,
       tokens |-> payload.tokens]

Parse(p, payload) ==
  CASE p = "anthropic" -> parse_anthropic_response(payload)
    [] p = "openai" -> parse_openai_response(payload)
    [] p = "ollama" -> parse_ollama_response(payload)

(* The payloads are such that run_agent gets well formed completions.      *)
ASSUME ProvidersAssumption ==
  \A p \in Providers : \A payload \in Replies[p] : Parse(p, payload) \in Completions

-----------------------------------------------------------------------------
(* From a conversation to the messages of a request. *)

System == [role |-> "system"]

Converted(convert(_)) ==
  <<System>> \o FlattenSeq([i \in DOMAIN messages |-> convert(messages[i])])

(* A user turn: a message per tool result, then its text.                  *)
ToolMessages_OnePerTurn(blocks) ==
  IF blocks = <<>> THEN <<>> ELSE <<[role |-> "tool", tool_call_id |-> blocks[1].id]>>
ToolMessages(blocks) ==
  [i \in DOMAIN blocks |-> [role |-> "tool", tool_call_id |-> blocks[i].id]]

(* An assistant turn: content is omitted beside tool calls.                *)
AssistantContent(m) ==
  CASE m.text # "empty" -> m.text
    [] m.text = "empty" /\ m.content # <<>> -> "omitted"
    [] OTHER -> "empty"

to_openai_message(m) ==
  IF m.role = "user"
  THEN ToolMessages(m.content)
         \o (IF m.text = "empty" THEN <<>> ELSE <<[role |-> "user", content |-> m.text]>>)
  ELSE <<[role |-> "assistant", content |-> AssistantContent(m),
          tool_calls |-> m.content]>>

to_openai_messages == Converted(to_openai_message)

(* A block as text: a tool_use becomes the JSON action line it was.        *)
TextOf_NoEcho(b) == [type |-> IF b.type = "tool_use" THEN "prose" ELSE "observation"]
TextOf(b) ==
  IF b.type = "tool_use" THEN [type |-> "action", name |-> b.name, input |-> b.input]
                         ELSE [type |-> "observation"]

(* A message without any text is left out.                                 *)
to_ollama_text_message(m) ==
  LET text_parts == (IF m.text = "empty" THEN <<>> ELSE <<[type |-> m.text]>>)
                      \o [i \in DOMAIN m.content |-> TextOf(m.content[i])]
  IN  IF text_parts = <<>> THEN <<>> ELSE <<[role |-> m.role, content |-> text_parts]>>

to_ollama_text_messages == Converted(to_ollama_text_message)

-----------------------------------------------------------------------------
(* run_agent with one provider. *)

ProviderInit == Init /\ provider \in Providers

ReplyArrives == \E payload \in Replies[provider] : Reply(Parse(provider, payload))

ProviderNext ==
  /\ AgentStep \/ TargetAnswers \/ ModelFails \/ ModelRaises \/ ReplyArrives
  /\ UNCHANGED provider

ProviderSpec == ProviderInit /\ [][ProviderNext]_providerVars

FairProviderSpec ==
  /\ ProviderSpec
  /\ WF_providerVars(AgentStep /\ UNCHANGED provider)
  /\ WF_providerVars((ModelFails \/ ModelRaises \/ ReplyArrives) /\ UNCHANGED provider)
  /\ WF_providerVars(TargetAnswers /\ UNCHANGED provider)

-----------------------------------------------------------------------------
(* Properties. *)

(* What OpenAI demands of the messages that mirror so many turns ("OpenAI  *)
(* requires assistant messages to carry content OR tool_calls"): an        *)
(* assistant message has one of the two, the tool messages that answer its *)
(* calls follow it at once, one per call and in order, and there are no    *)
(* others.  No turn is lost.                                               *)
Mirrors(out, turns) ==
  LET assistant == {i \in DOMAIN out : out[i].role = "assistant"}
      calls(i) == out[i].tool_calls
  IN  /\ Cardinality(assistant) = turns
      /\ \A i \in assistant :
           /\ out[i].content = "omitted" => calls(i) # <<>>
           /\ i + Len(calls(i)) <= Len(out)
           /\ \A k \in DOMAIN calls(i) :
                out[i + k] = [role |-> "tool", tool_call_id |-> calls(i)[k].id]
      /\ {j \in DOMAIN out : out[j].role = "tool"}
           = UNION {{i + k : k \in DOMAIN calls(i)} : i \in assistant}

(* OpenAI accepts every request, however many turns it mirrors.            *)
OpenAIAccepts ==
  pc = "llm" /\ provider = "openai" => Mirrors(to_openai_messages, roundTrips - 1)

(* What an Ollama model is shown of the past reads as it answered: the     *)
(* turns alternate, none is lost, each of its own is the action line that  *)
(* parses back to the very call the agent handled, and what follows is     *)
(* that call's one observation.                                            *)
OllamaReadsBack ==
  pc = "llm" /\ provider = "ollama" =>
    LET out == to_ollama_text_messages
    IN  /\ Len(out) = Len(messages) + 1
        /\ \A i \in DOMAIN messages :
             /\ out[i + 1].role = messages[i].role
             /\ messages[i].role = "assistant" =>
                  /\ [j \in DOMAIN parse_text_action(out[i + 1].content) |->
                        ToolUse(parse_text_action(out[i + 1].content)[j])]
                       = messages[i].content
                  /\ out[i + 2].content = <<[type |-> "observation"]>>

(* A text-mode model cannot take the run down with a malformed action:     *)
(* whatever it writes is a call run_agent can reject, or no call at all.   *)
TextModelsCannotCrash ==
  [][provider = "ollama" /\ pc = "calls" => pc' # "raised"]_providerVars
=============================================================================
