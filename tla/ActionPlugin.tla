----------------------------- MODULE ActionPlugin -----------------------------
(***************************************************************************)
(* The path of the rules through one ai_agent task on one host: the action *)
(* plugin (plugins/action/ai_agent.py) collects the layers, merges them,   *)
(* overrides the budget and enters run_agent; every call run_agent         *)
(* dispatches is judged by ai_exec (plugins/modules/ai_exec.py) on the     *)
(* target.                                                                 *)
(*                                                                         *)
(* run_agent is Orchestrator's subject.  Here it may dispatch any offered  *)
(* call, again and again, while both budgets are positive: the range is    *)
(* not empty, and nothing spent is still less than max_tokens.             *)
(***************************************************************************)
EXTENDS Tools

CONSTANTS
  COLLECTION_DEFAULT_RULES,   \* the lowest layer
  Inventories,                \* what group_vars, host_vars, play_vars and task may set
  TaskArgs,                   \* max_iterations, max_tokens and timeout of the task
  Calls                       \* the calls the model may make

SOURCES == {"group_vars", "host_vars", "play_vars", "task"}

(* A number of the task's arguments: int() may refuse it.                  *)
Arg == [given : {"no", "yes", "bad"}, value : Int]

ASSUME ActionPluginAssumption ==
  /\ COLLECTION_DEFAULT_RULES \in Layer /\ Valid(COLLECTION_DEFAULT_RULES)
  /\ COLLECTION_DEFAULT_RULES.sets = BUDGET_KEYS
  /\ Inventories \subseteq [SOURCES -> Layer]
  /\ TaskArgs \subseteq [BUDGET_KEYS \cup {"timeout"} -> Arg]
  /\ Calls \subseteq ToolInput /\ Calls # {}

VARIABLES
  pc,            \* where the task is, see PCs
  inventory,     \* the rules each source sets
  args,          \* the numbers among the task's arguments
  check_mode,
  layers,        \* what merge is called with
  merged,        \* how many of them the loop has merged
  rules,         \* merge's out, later the effective rules
  call,          \* the call handed to the target
  verdict        \* what came of it

vars == <<pc, inventory, args, check_mode, layers, merged, rules, call, verdict>>

PCs == {"collect", "merge", "override", "client", "agent", "target", "answered",
        "failed",     \* the task fails
        "finished"}   \* run_agent returned and the result is filled in

Verdicts == {"none", "refused", "not_run", "blocked", "ran",
             "lost"}   \* the host could not be reached

Init ==
  /\ pc = "collect"
  /\ inventory \in Inventories /\ args \in TaskArgs /\ check_mode \in BOOLEAN
  /\ layers = <<>> /\ merged = 0 /\ rules = EMPTY_RULES
  /\ call = (CHOOSE c \in Calls : TRUE) /\ verdict = "none"

task == <<inventory, args, check_mode>>

-----------------------------------------------------------------------------
(* _collect_rule_layers *)

(* Ansible keeps one value of a variable: that of the highest source that  *)
(* sets it.                                                                *)
ansible_ai_rules ==
  CASE inventory["play_vars"].shape # "undefined" -> inventory["play_vars"]
    [] inventory["play_vars"].shape = "undefined" /\ inventory["host_vars"].shape # "undefined"
         -> inventory["host_vars"]
    [] OTHER -> inventory["group_vars"]

(* A value that is no mapping is no layer.                                 *)
IfDict(l) == IF l.shape \in {"mistyped", "ok"} THEN <<l>> ELSE <<>>

Collect ==
  /\ pc = "collect"
  /\ layers' = <<COLLECTION_DEFAULT_RULES>> \o IfDict(ansible_ai_rules)
                 \o IfDict(inventory["task"])
  /\ pc' = "merge"
  /\ UNCHANGED <<task, merged, rules, call, verdict>>

-----------------------------------------------------------------------------
(* merge *)

NextLayer == layers[merged + 1]

RefuseLayer ==
  /\ pc = "merge" /\ merged < Len(layers) /\ ~Valid(NextLayer)
  /\ pc' = "failed"
  /\ UNCHANGED <<task, layers, merged, rules, call, verdict>>

MergeLayer ==
  /\ pc = "merge" /\ merged < Len(layers) /\ Valid(NextLayer)
  /\ rules' = Merged(rules, NextLayer)
  /\ merged' = merged + 1
  /\ UNCHANGED <<pc, task, layers, call, verdict>>

LayersMerged ==
  /\ pc = "merge" /\ merged = Len(layers)
  /\ rules' = WithoutDenied(rules)
  /\ pc' = "override"
  /\ UNCHANGED <<task, layers, merged, call, verdict>>

-----------------------------------------------------------------------------
(* The rest of run, up to run_agent *)

Overridden_Replaced == [k \in {b \in BUDGET_KEYS : args[b].given = "yes"} |-> args[k].value]
Overridden ==
  [k \in BUDGET_KEYS |-> IF args[k].given = "no" THEN rules.budget[k] ELSE args[k].value]

RefuseNumber ==
  /\ pc = "override" /\ \E k \in DOMAIN args : args[k].given = "bad"
  /\ pc' = "failed"
  /\ UNCHANGED <<task, layers, merged, rules, call, verdict>>

(* The merged budget is overridden without being validated again.          *)
Override ==
  /\ pc = "override" /\ \A k \in DOMAIN args : args[k].given # "bad"
  /\ rules' = [rules EXCEPT !.budget = Overridden]
  /\ pc' = "client"
  /\ UNCHANGED <<task, layers, merged, call, verdict>>

(* get_client raises LLMError, for instance without an API key.            *)
NoClient ==
  /\ pc = "client"
  /\ pc' = "failed"
  /\ UNCHANGED <<task, layers, merged, rules, call, verdict>>

EnterAgent ==
  /\ pc = "client"
  /\ pc' = "agent"
  /\ UNCHANGED <<task, layers, merged, rules, call, verdict>>

-----------------------------------------------------------------------------
(* run_agent and, between two of its steps, ai_exec *)

(* Zero or less for either ends run_agent at the head of its loop.         *)
BudgetLeft_Iterations == rules.budget["max_iterations"] > 0
BudgetLeft == \A k \in BUDGET_KEYS : rules.budget[k] > 0

Dispatch(c) ==
  /\ pc = "agent" /\ c.tool \in build_tools(rules) /\ BudgetLeft
  /\ call' = c
  /\ pc' = "target"
  /\ verdict' = "none"
  /\ UNCHANGED <<task, layers, merged, rules>>

(* main of ai_exec: the rules are validated, nothing runs in check mode,   *)
(* and exec_tool has the last word.                                        *)
TargetAnswers ==
  /\ pc = "target"
  /\ verdict' = CASE ~Valid(rules) -> "refused"
                  [] Valid(rules) /\ check_mode -> "not_run"
                  [] Valid(rules) /\ ~check_mode ->
                       IF exec_tool(rules, call) THEN "ran" ELSE "blocked"
  /\ pc' = "answered"
  /\ UNCHANGED <<task, layers, merged, rules, call>>

(* ai_exec never started: nothing was judged.                              *)
TargetLost ==
  /\ pc = "target"
  /\ verdict' = "lost"
  /\ pc' = "answered"
  /\ UNCHANGED <<task, layers, merged, rules, call>>

AgentGoesOn ==
  /\ pc = "answered"
  /\ pc' = "agent"
  /\ UNCHANGED <<task, layers, merged, rules, call, verdict>>

AgentReturns ==
  /\ pc = "agent"
  /\ pc' = "finished"
  /\ UNCHANGED <<task, layers, merged, rules, call, verdict>>

(* An exception leaves run_agent, and with it the action plugin.           *)
AgentRaises ==
  /\ pc = "agent"
  /\ pc' = "failed"
  /\ UNCHANGED <<task, layers, merged, rules, call, verdict>>

-----------------------------------------------------------------------------
Next ==
  \/ Collect \/ RefuseLayer \/ MergeLayer \/ LayersMerged
  \/ RefuseNumber \/ Override \/ NoClient \/ EnterAgent
  \/ (\E c \in Calls : Dispatch(c)) \/ TargetAnswers \/ TargetLost
  \/ AgentGoesOn \/ AgentReturns \/ AgentRaises

Spec == Init /\ [][Next]_vars

-----------------------------------------------------------------------------
(* Properties. *)

(* Every variable stays in its set; the effective rules are a layer with   *)
(* every budget set.                                                       *)
TypeOK ==
  /\ pc \in PCs /\ verdict \in Verdicts
  /\ inventory \in [SOURCES -> Layer] /\ args \in TaskArgs /\ check_mode \in BOOLEAN
  /\ layers \in Seq(Layer) /\ merged \in 0..Len(layers)
  /\ rules \in Layer /\ rules.sets = BUDGET_KEYS /\ rules.shape = "ok"
  /\ call \in Calls

(* What a layer's entries for a primitive say of a name.                   *)
Covers(entries, k, name) ==
  \E e \in entries[k] :
    \/ k = "run_cmd" /\ name = e
    \/ k \in PATH_KEYS /\ Matches(name, e)
    \/ k = "python" /\ IsPrefix(e, name)

Allowed(k, name) == \E i \in DOMAIN layers : Covers(layers[i].allow, k, name)
Denied(k, name) == \E i \in DOMAIN layers : Covers(layers[i].deny, k, name)
Permits(k, name) == Allowed(k, name) /\ ~Denied(k, name)

(* A rule may name a command as it is called or by its basename: the       *)
(* layers permit it when one spelling is allowed and neither is denied.    *)
Spellings(c) == {c.head, Base(c.head)}
PermitsCommand(c) ==
  /\ \E s \in Spellings(c) : Allowed("run_cmd", s)
  /\ \A s \in Spellings(c) : ~Denied("run_cmd", s)

(* One spelling of the command is allowed and the other denied.            *)
MixedSpelling(c) ==
  \E s, t \in Spellings(c) : s # t /\ Allowed("run_cmd", s) /\ Denied("run_cmd", t)

(* Denies win over every layer: what runs on the target was allowed by     *)
(* some layer of the task and denied by none, whichever came first and     *)
(* whatever a later one allowed: a command, a file where its path leads,   *)
(* and of a snippet every import and every command it starts.  The one     *)
(* exception is a command that is denied in one spelling and allowed in    *)
(* the other, which the code runs.                                         *)
NothingUnpermittedRuns ==
  pc = "answered" /\ verdict = "ran" =>
    /\ call.tool = "run_cmd" => PermitsCommand(call) \/ MixedSpelling(call)
    /\ call.tool \in PATH_KEYS => Permits(call.tool, NormPath(call.path))
    /\ call.tool = "run_python" =>
         \A node \in call.nodes :
           /\ node.kind = "import" => Permits("python", node.module)
           /\ node.kind = "subprocess" => Permits("run_cmd", node.argv0)

(* And the other way round: the target blocks no command and no file that  *)
(* the layers permit, apart from what is forbidden whatever the rules say. *)
PermittedCallsRun ==
  pc = "answered" /\ verdict = "blocked" =>
    /\ call.tool = "run_cmd" => ~PermitsCommand(call) \/ (IsShell(call.head) /\ call.dash_c)
    /\ call.tool \in PATH_KEYS =>
         \/ ~Permits(call.tool, NormPath(call.path))
         \/ ~Absolute(call.path)
         \/ call.tool = "read_file" /\ BuiltInDeny(NormPath(call.path))

(* ai_exec validates the rules again and knows no budget that is not       *)
(* positive.  The plugin overrides the budget after its own validation, so *)
(* that the rules it sends may be invalid; but a run with such a budget    *)
(* ends before it dispatches anything, and every other part of a merge of  *)
(* valid layers is valid.                                                  *)
TargetNeverRefuses == verdict # "refused"

(* The budget a run works with is the task's argument, or else that of the *)
(* highest layer that sets it.                                             *)
BudgetFromHighest ==
  pc \in {"client", "agent", "target", "answered", "finished"} =>
    \A k \in BUDGET_KEYS :
      \/ args[k].given = "yes" /\ rules.budget[k] = args[k].value
      \/ /\ args[k].given = "no"
         /\ \E i \in DOMAIN layers :
              /\ k \in layers[i].sets /\ rules.budget[k] = layers[i].budget[k]
              /\ \A j \in DOMAIN layers : j > i => k \notin layers[j].sets

-----------------------------------------------------------------------------
(* What the repository says and the code does not do.                      *)

(* README: "collection defaults < group_vars < host_vars < play vars <     *)
(* task args / Deny entries always win across layers."                     *)
DenyWinsAcrossSources ==
  pc = "answered" /\ verdict = "ran" /\ call.tool = "run_cmd" =>
    \A s \in SOURCES : inventory[s].shape = "ok" =>
      ~Covers(inventory[s].deny, "run_cmd", call.head)
=============================================================================
