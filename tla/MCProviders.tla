---------------------------- MODULE MCProviders ----------------------------
(***************************************************************************)
(* Small instances of Providers: payloads of the three APIs.  A call of a  *)
(* reply is told apart by how it is parsed and validated, so one of each   *)
(* sort is enough; ids are given by position, as providers give fresh ids  *)
(* within a reply, and by name in text mode.                               *)
(***************************************************************************)
EXTENDS Providers

CONSTANTS
  c1, c2          \* ids of the calls of a reply

MCOffered == {"run_cmd", "done"}
MCCallIds == {c1, c2} \cup Names

Raw(sort, id) ==
  CASE sort = "runs" -> [type |-> "tool_use", id |-> id, name |-> "run_cmd", input |-> "valid"]
    [] sort = "done" -> [type |-> "tool_use", id |-> id, name |-> "done", input |-> "valid"]
    [] sort = "lacks_input" -> [type |-> "tool_use", id |-> id, name |-> "run_cmd", input |-> "falsy"]
    [] sort = "not_json" -> [type |-> "tool_use", id |-> id, name |-> "run_cmd", input |-> "not_json"]
    [] sort = "not_a_dict" -> [type |-> "tool_use", id |-> id, name |-> "run_cmd", input |-> "not_a_dict"]

Action(name, input) == [type |-> "action", name |-> name, input |-> input]
Text(kind) == [type |-> "text", text |-> kind]
Fragment(kind) == [type |-> kind]

CallLists(sorts) == {<<Raw(s, c1)>> : s \in sorts} \cup {<<Raw(s, c1), Raw(t, c2)>> : s, t \in sorts}

AnthropicReplies ==
  [content : CallLists({"runs", "lacks_input", "done"})
               \cup {<<Text("blank")>>, <<Text("blank"), Text("prose"), Raw("runs", c1)>>},
   tokens : {1}]

OpenAIReplies ==
  [choices : {1}, content : {"empty"}, tool_calls : CallLists({"runs", "not_json", "done"}), tokens : {1}]
    \cup [choices : {1}, content : {"prose"}, tool_calls : {<<>>, <<Raw("runs", c1)>>, <<Raw("not_a_dict", c1)>>},
          tokens : {1}]
    \cup {[choices |-> 0, tokens |-> 1]}

OllamaReplies ==
  [content : {<<Action("run_cmd", "valid")>>, <<Action("run_cmd", "absent")>>,
              <<Action("unknown", "valid")>>, <<Action("done", "valid")>>,
              <<Action("run_cmd", "not_a_dict")>>, <<Action("run_cmd", "falsy")>>,
              <<Action("none", "valid")>>,
              <<Fragment("prose"), Action("run_cmd", "valid"), Fragment("blank")>>,
              <<Action("run_cmd", "valid"), Action("done", "valid")>>,
              <<>>, <<Fragment("blank")>>},
   tokens : {1}]

MCReplies == [anthropic |-> AnthropicReplies, openai |-> OpenAIReplies, ollama |-> OllamaReplies]

MCCompletions ==
  {parse_anthropic_response(p) : p \in AnthropicReplies}
    \cup {parse_openai_response(p) : p \in OpenAIReplies}
    \cup {parse_ollama_response(p) : p \in OllamaReplies}
=============================================================================
