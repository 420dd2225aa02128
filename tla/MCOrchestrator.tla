--------------------------- MODULE MCOrchestrator ---------------------------
(***************************************************************************)
(* Small instances of Orchestrator.  A call is told apart only by how the  *)
(* validator and the loop treat it, so one call of each sort is enough;    *)
(* ids are given by position, as a provider gives fresh ids within a reply.*)
(***************************************************************************)
EXTENDS Orchestrator

CONSTANTS
  c1, c2,         \* call ids
  Sorts,          \* the sorts of call the model makes in this instance
  MaxCalls,       \* calls in one reply
  Tokens,         \* what a reply may cost
  ReplyTexts      \* the texts of a reply without calls

MCOffered == {"run_cmd", "done"}

Call(sort, id) ==
  CASE sort = "runs" -> [id |-> id, name |-> "run_cmd", input |-> "valid"]
    [] sort = "done" -> [id |-> id, name |-> "done", input |-> "valid"]
    [] sort = "not_offered" -> [id |-> id, name |-> "write_file", input |-> "valid"]
    [] sort = "malformed" -> [id |-> id, name |-> "run_cmd", input |-> "invalid"]
    [] sort = "not_a_dict" -> [id |-> id, name |-> "run_cmd", input |-> "not_a_dict"]

Replies ==
  {<<Call(s, c1)>> : s \in Sorts}
    \cup (IF MaxCalls >= 2 THEN {<<Call(s, c1), Call(t, c2)>> : s, t \in Sorts} ELSE {})

MCCompletions ==
  [text : {"empty"}, tool_calls : Replies, tokens : Tokens]
    \cup [text : ReplyTexts, tool_calls : {<<>>}, tokens : Tokens]
=============================================================================
