-------------------------- MODULE ActionPluginProofs --------------------------
(* Theorems about the rules of a task, for every inventory and every call. *)
EXTENDS ActionPlugin, SequenceTheorems, TLAPS

AllowedUpTo(n, k) == UNION {layers[i].allow[k] : i \in 1..n}
DeniedUpTo(n, k) == UNION {layers[i].deny[k] : i \in 1..n}

Merging == pc = "merge"
Ready == pc \in {"override", "client", "agent", "target", "answered", "finished"}

(* The budgets merged so far are those of the highest layer that sets them. *)
HighestUpTo(n) ==
  \A k \in BUDGET_KEYS : \E i \in 1..n :
    /\ k \in layers[i].sets /\ rules.budget[k] = layers[i].budget[k]
    /\ \A j \in 1..n : j > i => k \notin layers[j].sets

(* The loop of merge has the union of the layers so far; after it, what    *)
(* any layer denies is gone from what is allowed.                          *)
LayersInv ==
  /\ pc = "collect" => layers = <<>> /\ merged = 0
  /\ Merging \/ Ready => Len(layers) > 0 /\ layers[1] = COLLECTION_DEFAULT_RULES
  /\ \A i \in 1..merged : Valid(layers[i])
  /\ Ready => merged = Len(layers)

EntriesInv ==
  /\ pc = "collect" => rules.allow = NoEntries /\ rules.deny = NoEntries
  /\ Merging \/ Ready =>
       \A k \in PRIMITIVE_KEYS : rules.deny[k] = DeniedUpTo(merged, k)
  /\ Merging =>
       \A k \in PRIMITIVE_KEYS : rules.allow[k] = AllowedUpTo(merged, k)
  /\ Ready =>
       \A k \in PRIMITIVE_KEYS :
         rules.allow[k] = AllowedUpTo(merged, k) \ DeniedUpTo(merged, k)

BudgetInv ==
  /\ Merging \/ pc = "override" => merged = 0 \/ HighestUpTo(merged)
  /\ BudgetFromHighest
  /\ pc = "target" => BudgetLeft
  /\ TargetNeverRefuses

RulesInv == TypeOK /\ LayersInv /\ EntriesInv

-----------------------------------------------------------------------------
LEMMA DefaultLayer ==
  /\ COLLECTION_DEFAULT_RULES \in Layer /\ Valid(COLLECTION_DEFAULT_RULES)
  /\ COLLECTION_DEFAULT_RULES.sets = BUDGET_KEYS
BY ActionPluginAssumption

(* What merge and its last step make of rules of the right type.           *)
LEMMA MergedType ==
  ASSUME NEW out \in Layer, NEW l \in Layer
  PROVE  /\ Merged(out, l) \in Layer /\ Merged(out, l).sets = BUDGET_KEYS
         /\ Merged(out, l).shape = "ok"
<1>1. /\ Union(out.allow, l.allow) \in Entries /\ MergedDeny(out, l) \in Entries
  BY DEF Layer, Entries, Union, MergedDeny
<1>2. MergedBudget(out, l) \in [BUDGET_KEYS -> Int]
  BY DEF Layer, MergedBudget
<1>3. (IF l.network = "unset" THEN out.network ELSE l.network) \in {"unset", "on", "off"}
  BY DEF Layer
<1> QED BY <1>1, <1>2, <1>3 DEF Merged, Layer

LEMMA WithoutDeniedType ==
  ASSUME NEW out \in Layer
  PROVE  /\ WithoutDenied(out) \in Layer
         /\ WithoutDenied(out).deny = out.deny
         /\ WithoutDenied(out).sets = out.sets /\ WithoutDenied(out).shape = out.shape
         /\ WithoutDenied(out).budget = out.budget
         /\ WithoutDenied(out).allow = [k \in PRIMITIVE_KEYS |-> out.allow[k] \ out.deny[k]]
<1>1. [k \in PRIMITIVE_KEYS |-> out.allow[k] \ out.deny[k]] \in Entries
  BY DEF Layer, Entries
<1> QED BY <1>1 DEF WithoutDenied, Layer

LEMMA EmptyRulesType ==
  EMPTY_RULES \in Layer /\ EMPTY_RULES.sets = BUDGET_KEYS /\ EMPTY_RULES.shape = "ok"
BY DEF EMPTY_RULES, Layer, Entries, NoEntries, DEFAULT_BUDGET

LEMMA CollectedLayers ==
  ASSUME NEW l \in Layer, NEW m \in Layer
  PROVE  LET s == <<COLLECTION_DEFAULT_RULES>> \o IfDict(l) \o IfDict(m)
         IN  s \in Seq(Layer) /\ Len(s) > 0 /\ s[1] = COLLECTION_DEFAULT_RULES
<1>1. IfDict(l) \in Seq(Layer) /\ IfDict(m) \in Seq(Layer)
  BY DEF IfDict
<1>2. <<COLLECTION_DEFAULT_RULES>> \in Seq(Layer)
  BY DefaultLayer
<1> DEFINE p == <<COLLECTION_DEFAULT_RULES>> \o IfDict(l)
<1>3. p \in Seq(Layer) /\ Len(p) > 0 /\ p[1] = COLLECTION_DEFAULT_RULES
  BY <1>1, <1>2, ConcatProperties
<1> HIDE DEF p
<1>4. /\ p \o IfDict(m) \in Seq(Layer) /\ Len(p \o IfDict(m)) > 0
      /\ (p \o IfDict(m))[1] = p[1]
  BY <1>1, <1>3, ConcatProperties, LenProperties
<1> QED BY <1>3, <1>4 DEF p

LEMMA RulesVariable ==
  ASSUME TypeOK PROVE ansible_ai_rules \in Layer
BY DEF TypeOK, ansible_ai_rules, SOURCES

-----------------------------------------------------------------------------
LEMMA InitInv == Init => RulesInv /\ BudgetInv
<1> SUFFICES ASSUME Init PROVE RulesInv /\ BudgetInv
  OBVIOUS
<1>1. TypeOK
  <2>1. inventory \in [SOURCES -> Layer] /\ call \in Calls
    BY ActionPluginAssumption DEF Init
  <2>2. layers \in Seq(Layer) /\ Len(layers) = 0 /\ merged \in 0..Len(layers)
    BY EmptySeq DEF Init
  <2> QED BY <2>1, <2>2, EmptyRulesType DEF Init, TypeOK, PCs, Verdicts
<1>2. LayersInv /\ EntriesInv /\ BudgetInv
  BY DEF Init, LayersInv, EntriesInv, BudgetInv, BudgetFromHighest, TargetNeverRefuses,
         Merging, Ready, EMPTY_RULES
<1> QED BY <1>1, <1>2 DEF RulesInv

(* The steps that leave the layers and the entries of the rules alone.     *)
LEMMA EntriesKept ==
  ASSUME RulesInv, TypeOK',
         layers' = layers, merged' = merged,
         rules'.allow = rules.allow, rules'.deny = rules.deny,
         pc # "collect" /\ pc' # "collect",
         Merging' => Merging, Ready' => Ready
  PROVE  RulesInv'
BY DEF RulesInv, LayersInv, EntriesInv, AllowedUpTo, DeniedUpTo

LEMMA MergeStep == RulesInv /\ MergeLayer => RulesInv'
<1> SUFFICES ASSUME RulesInv, MergeLayer PROVE RulesInv'
  OBVIOUS
<1>1. /\ pc = "merge" /\ pc' = "merge" /\ layers' = layers /\ merged' = merged + 1
      /\ merged \in Nat /\ Len(layers) \in Nat /\ merged + 1 \in 1..Len(layers)
      /\ rules \in Layer /\ layers \in Seq(Layer)
      /\ rules' = Merged(rules, NextLayer) /\ Valid(NextLayer)
      /\ inventory' = inventory /\ args' = args /\ check_mode' = check_mode
      /\ call' = call /\ verdict' = verdict
  BY LenProperties DEF MergeLayer, RulesInv, TypeOK, task
<1>2. NextLayer \in Layer /\ NextLayer = layers[merged + 1]
  BY <1>1, ElementOfSeq DEF NextLayer
<1>3. rules' \in Layer /\ rules'.sets = BUDGET_KEYS /\ rules'.shape = "ok"
  BY <1>1, <1>2, MergedType
<1>4. TypeOK'
  BY <1>1, <1>3 DEF RulesInv, TypeOK
<1>5. LayersInv'
  BY <1>1, <1>2 DEF RulesInv, LayersInv, Merging, Ready
<1>6. ASSUME NEW k \in PRIMITIVE_KEYS
      PROVE  /\ rules'.allow[k] = rules.allow[k] \cup layers[merged + 1].allow[k]
             /\ rules'.deny[k] = rules.deny[k] \cup layers[merged + 1].deny[k]
  BY <1>1, <1>2 DEF Merged, MergedDeny, Union
<1>7. ASSUME NEW k \in PRIMITIVE_KEYS
      PROVE  /\ AllowedUpTo(merged, k)' = AllowedUpTo(merged, k)
                                            \cup layers[merged + 1].allow[k]
             /\ DeniedUpTo(merged, k)' = DeniedUpTo(merged, k)
                                           \cup layers[merged + 1].deny[k]
  <2>1. 1..(merged + 1) = 1..merged \cup {merged + 1}
    BY <1>1
  <2> QED BY <1>1, <2>1 DEF AllowedUpTo, DeniedUpTo
<1>8. EntriesInv'
  BY <1>1, <1>6, <1>7 DEF RulesInv, EntriesInv, Merging, Ready
<1> QED BY <1>4, <1>5, <1>8 DEF RulesInv

LEMMA RulesStep == RulesInv /\ [Next]_vars => RulesInv'
<1> SUFFICES ASSUME RulesInv, [Next]_vars PROVE RulesInv'
  OBVIOUS
<1>0. TypeOK /\ rules \in Layer /\ layers \in Seq(Layer) /\ Len(layers) \in Nat
  BY LenProperties DEF RulesInv, TypeOK
<1>1. CASE Collect
  <2>1. /\ layers' \in Seq(Layer) /\ Len(layers') > 0
        /\ layers'[1] = COLLECTION_DEFAULT_RULES
    <3>1. inventory["task"] \in Layer
      BY <1>0 DEF TypeOK, SOURCES
    <3> QED BY <1>0, <1>1, <3>1, RulesVariable, CollectedLayers DEF Collect
  <2>2. /\ pc = "collect" /\ pc' = "merge" /\ merged' = 0 /\ rules' = rules
        /\ rules.allow = NoEntries /\ rules.deny = NoEntries
    BY <1>1 DEF Collect, RulesInv, LayersInv, EntriesInv
  <2>3. Len(layers') \in Nat /\ merged' \in 0..Len(layers')
    BY <2>1, <2>2, LenProperties
  <2>4. TypeOK'
    BY <1>0, <1>1, <2>1, <2>2, <2>3 DEF Collect, TypeOK, task, PCs
  <2>5. LayersInv'
    BY <2>1, <2>2 DEF LayersInv, Merging, Ready
  <2>6. EntriesInv'
    BY <2>2 DEF EntriesInv, AllowedUpTo, DeniedUpTo, NoEntries, Merging, Ready
  <2> QED BY <2>4, <2>5, <2>6 DEF RulesInv
<1>2. CASE MergeLayer
  BY <1>2, MergeStep
<1>3. CASE LayersMerged
  <2>1. /\ pc = "merge" /\ pc' = "override" /\ layers' = layers /\ merged' = merged
        /\ merged = Len(layers) /\ rules' = WithoutDenied(rules)
    BY <1>3 DEF LayersMerged
  <2>2. TypeOK'
    BY <1>0, <1>3, <2>1, WithoutDeniedType DEF LayersMerged, TypeOK, task, PCs
  <2>3. LayersInv'
    BY <2>1 DEF RulesInv, LayersInv, Merging, Ready
  <2>4. EntriesInv'
    <3>1. ASSUME NEW k \in PRIMITIVE_KEYS
          PROVE  /\ rules'.deny[k] = DeniedUpTo(merged, k)
                 /\ rules'.allow[k] = AllowedUpTo(merged, k) \ DeniedUpTo(merged, k)
      <4>1. rules.deny[k] = DeniedUpTo(merged, k) /\ rules.allow[k] = AllowedUpTo(merged, k)
        BY <2>1 DEF RulesInv, EntriesInv, Merging
      <4>2. /\ rules'.deny = rules.deny
            /\ rules'.allow = [j \in PRIMITIVE_KEYS |-> rules.allow[j] \ rules.deny[j]]
        BY <1>0, <2>1, WithoutDeniedType
      <4>3. rules'.allow[k] = rules.allow[k] \ rules.deny[k]
        BY <4>2
      <4> QED BY <4>1, <4>2, <4>3
    <3>2. ASSUME NEW k \in PRIMITIVE_KEYS
          PROVE  /\ DeniedUpTo(merged, k)' = DeniedUpTo(merged, k)
                 /\ AllowedUpTo(merged, k)' = AllowedUpTo(merged, k)
      BY <2>1 DEF AllowedUpTo, DeniedUpTo
    <3> QED BY <2>1, <3>1, <3>2 DEF EntriesInv, Merging
  <2> QED BY <2>2, <2>3, <2>4 DEF RulesInv
<1>4. CASE Override
  <2>1. /\ Overridden \in [BUDGET_KEYS -> Int]
    <3>1. args \in [BUDGET_KEYS \cup {"timeout"} -> Arg]
      BY <1>0, ActionPluginAssumption DEF TypeOK
    <3> QED BY <1>0, <3>1 DEF Overridden, Arg, Layer
  <2>2. /\ rules' \in Layer /\ rules'.sets = BUDGET_KEYS /\ rules'.shape = "ok"
        /\ rules'.allow = rules.allow /\ rules'.deny = rules.deny
    BY <1>0, <1>4, <2>1 DEF Override, Layer, TypeOK
  <2>3. TypeOK'
    BY <1>0, <1>4, <2>2 DEF Override, TypeOK, task, PCs
  <2> QED BY <1>4, <2>2, <2>3, EntriesKept DEF Override, Merging, Ready
<1>5. CASE RefuseLayer \/ RefuseNumber \/ NoClient \/ EnterAgent
  <2>1. TypeOK'
    BY <1>0, <1>5 DEF RefuseLayer, RefuseNumber, NoClient, EnterAgent, TypeOK, task, PCs
  <2> QED BY <1>5, <2>1, EntriesKept
      DEF RefuseLayer, RefuseNumber, NoClient, EnterAgent, Merging, Ready
<1>6. CASE \E c \in Calls : Dispatch(c)
  <2>1. TypeOK'
    BY <1>0, <1>6 DEF Dispatch, TypeOK, task, PCs, Verdicts
  <2> QED BY <1>6, <2>1, EntriesKept DEF Dispatch, Merging, Ready
<1>7. CASE TargetAnswers \/ TargetLost
  <2>1. verdict' \in Verdicts
    BY <1>7 DEF TargetAnswers, TargetLost, Verdicts
  <2>2. TypeOK'
    BY <1>0, <1>7, <2>1 DEF TargetAnswers, TargetLost, TypeOK, task, PCs
  <2> QED BY <1>7, <2>2, EntriesKept DEF TargetAnswers, TargetLost, Merging, Ready
<1>8. CASE AgentGoesOn \/ AgentReturns \/ AgentRaises
  <2>1. TypeOK'
    BY <1>0, <1>8 DEF AgentGoesOn, AgentReturns, AgentRaises, TypeOK, task, PCs
  <2> QED BY <1>8, <2>1, EntriesKept DEF AgentGoesOn, AgentReturns, AgentRaises, Merging, Ready
<1>9. CASE UNCHANGED vars
  BY <1>0, <1>9 DEF vars, RulesInv, TypeOK, LayersInv, EntriesInv, AllowedUpTo,
                    DeniedUpTo, Merging, Ready
<1> QED
  BY <1>1, <1>2, <1>3, <1>4, <1>5, <1>6, <1>7, <1>8, <1>9 DEF Next

LEMMA Invariant == Spec => []RulesInv
<1>1. Init => RulesInv
  BY InitInv
<1> QED BY <1>1, RulesStep, PTL DEF Spec

(* Every variable of the task keeps its type.                              *)
THEOREM TaskTypeCorrect == Spec => []TypeOK
<1>1. RulesInv => TypeOK
  BY DEF RulesInv
<1> QED BY <1>1, Invariant, PTL

-----------------------------------------------------------------------------
(* The gates read the merged rules, the properties speak of the layers.    *)
LEMMA GatesReadTheLayers ==
  ASSUME RulesInv, Ready, NEW k \in PRIMITIVE_KEYS, NEW name
  PROVE  Permits(k, name) <=> Covers(rules.allow, k, name) /\ ~Covers(rules.deny, k, name)
<1>1. /\ rules.deny[k] = UNION {layers[i].deny[k] : i \in DOMAIN layers}
      /\ rules.allow[k] = (UNION {layers[i].allow[k] : i \in DOMAIN layers}) \ rules.deny[k]
  <2>1. DOMAIN layers = 1..merged
    BY LenProperties DEF RulesInv, LayersInv, TypeOK
  <2> QED BY <2>1 DEF RulesInv, EntriesInv, AllowedUpTo, DeniedUpTo
<1>2. Covers(rules.deny, k, name)
        <=> \E i \in DOMAIN layers : Covers(layers[i].deny, k, name)
  BY <1>1 DEF Covers
<1>3. Covers(rules.allow, k, name) =>
        \E i \in DOMAIN layers : Covers(layers[i].allow, k, name)
  BY <1>1 DEF Covers
<1>4. ASSUME NEW i \in DOMAIN layers, Covers(layers[i].allow, k, name),
             ~Covers(rules.deny, k, name)
      PROVE  Covers(rules.allow, k, name)
  <2>1. PICK e \in layers[i].allow[k] :
          \/ k = "run_cmd" /\ name = e
          \/ k \in PATH_KEYS /\ Matches(name, e)
          \/ k = "python" /\ IsPrefix(e, name)
    BY <1>4 DEF Covers
  <2>2. e \notin rules.deny[k]
    BY <1>4, <2>1 DEF Covers
  <2>3. e \in rules.allow[k]
    BY <1>1, <2>1, <2>2
  <2> QED BY <2>1, <2>3 DEF Covers
<1> QED BY <1>2, <1>3, <1>4 DEF Permits, Allowed, Denied

LEMMA CommandGate ==
  ASSUME RulesInv, Ready, NEW name
  PROVE  is_cmd_allowed(rules, name) <=> Permits("run_cmd", name)
BY GatesReadTheLayers DEF is_cmd_allowed, Covers, PRIMITIVE_KEYS, PATH_KEYS

LEMMA PathGate ==
  ASSUME RulesInv, Ready, NEW k \in PATH_KEYS, NEW path
  PROVE  is_path_allowed(rules, path, k) <=> Permits(k, path)
BY GatesReadTheLayers DEF is_path_allowed, Covers, PRIMITIVE_KEYS, PATH_KEYS

LEMMA ImportGate ==
  ASSUME RulesInv, Ready, NEW m
  PROVE  is_python_import_allowed(rules, m) <=> Permits("python", m)
BY GatesReadTheLayers DEF is_python_import_allowed, Covers, PRIMITIVE_KEYS, PATH_KEYS

(* What exec_tool runs is permitted by the layers.                         *)
LEMMA WhatRunsIsPermitted ==
  ASSUME RulesInv, Ready, NEW c \in ToolInput, exec_tool(rules, c)
  PROVE  /\ c.tool = "run_cmd" => PermitsCommand(c) \/ MixedSpelling(c)
         /\ c.tool \in PATH_KEYS => Permits(c.tool, NormPath(c.path))
         /\ c.tool = "run_python" =>
              \A node \in c.nodes :
                /\ node.kind = "import" => Permits("python", node.module)
                /\ node.kind = "subprocess" => Permits("run_cmd", node.argv0)
<1>1. CASE c.tool = "run_cmd"
  <2>1. PICK s \in Spellings(c) : Permits("run_cmd", s)
    BY <1>1, CommandGate DEF exec_tool, argv_validate, Spellings, PATH_KEYS
  <2> QED BY <1>1, <2>1 DEF Permits, PermitsCommand, MixedSpelling, PATH_KEYS
<1>2. CASE c.tool \in PATH_KEYS
  BY <1>2, PathGate DEF exec_tool, resolve_path, PATH_KEYS
<1>3. CASE c.tool = "run_python"
  BY <1>3, CommandGate, ImportGate DEF exec_tool, validate_ast, Violates, PATH_KEYS
<1> QED BY <1>1, <1>2, <1>3 DEF ToolInput

(* The history of a verdict: it was given under the rules that stand.      *)
VerdictInv ==
  /\ pc = "answered" /\ verdict = "ran" => exec_tool(rules, call)
  /\ pc = "answered" /\ verdict = "blocked" => ~exec_tool(rules, call)

LEMMA VerdictStep == RulesInv /\ VerdictInv /\ [Next]_vars => VerdictInv'
<1> SUFFICES ASSUME VerdictInv, [Next]_vars PROVE VerdictInv'
  OBVIOUS
<1>1. CASE TargetAnswers \/ TargetLost
  BY <1>1 DEF TargetAnswers, TargetLost, VerdictInv
<1>2. CASE UNCHANGED vars
  BY <1>2 DEF vars, VerdictInv
<1>3. CASE ~TargetAnswers /\ ~TargetLost /\ ~UNCHANGED vars
  <2>1. pc' # "answered"
    BY <1>3 DEF Next, Collect, RefuseLayer, MergeLayer, LayersMerged, RefuseNumber, Override,
                NoClient, EnterAgent, Dispatch, AgentGoesOn, AgentReturns, AgentRaises
  <2> QED BY <2>1 DEF VerdictInv
<1> QED BY <1>1, <1>2, <1>3

LEMMA Verdicts_ == Spec => []VerdictInv
<1>1. Init => VerdictInv
  BY DEF Init, VerdictInv
<1> QED BY <1>1, VerdictStep, Invariant, PTL DEF Spec

(* Denies win over every layer, whatever the layers are and in whatever    *)
(* order: nothing runs that a layer denies or that no layer allows, but    *)
(* for a command denied in one spelling and allowed in the other.          *)
THEOREM NothingUnpermittedRunsHolds == Spec => []NothingUnpermittedRuns
<1>1. RulesInv /\ VerdictInv => NothingUnpermittedRuns
  <2> SUFFICES ASSUME RulesInv, VerdictInv, pc = "answered", verdict = "ran"
               PROVE  NothingUnpermittedRuns
    BY DEF NothingUnpermittedRuns
  <2>1. call \in ToolInput
    BY ActionPluginAssumption DEF RulesInv, TypeOK
  <2>2. Ready /\ exec_tool(rules, call)
    BY DEF Ready, VerdictInv
  <2> QED BY <2>1, <2>2, WhatRunsIsPermitted DEF NothingUnpermittedRuns
<1> QED BY <1>1, Invariant, Verdicts_, PTL

(* And the target blocks no command and no file that the layers permit.    *)
THEOREM PermittedCallsRunHolds == Spec => []PermittedCallsRun
<1>1. RulesInv /\ VerdictInv => PermittedCallsRun
  <2> SUFFICES ASSUME RulesInv, VerdictInv, pc = "answered", verdict = "blocked"
               PROVE  PermittedCallsRun
    BY DEF PermittedCallsRun
  <2>1. Ready /\ ~exec_tool(rules, call)
    BY DEF Ready, VerdictInv
  <2>2. call.tool = "run_cmd" =>
          ~PermitsCommand(call) \/ (IsShell(call.head) /\ call.dash_c)
    BY <2>1, CommandGate DEF exec_tool, argv_validate, PermitsCommand, Permits, Spellings
  <2>3. call.tool \in PATH_KEYS =>
          \/ ~Permits(call.tool, NormPath(call.path))
          \/ ~Absolute(call.path)
          \/ call.tool = "read_file" /\ BuiltInDeny(NormPath(call.path))
    BY <2>1, PathGate DEF exec_tool, resolve_path
  <2> QED BY <2>2, <2>3 DEF PermittedCallsRun
<1> QED BY <1>1, Invariant, Verdicts_, PTL

-----------------------------------------------------------------------------
(* A merge of valid layers is valid, but for the budget put into it later. *)
LEMMA MergeIsValid ==
  ASSUME RulesInv, Ready, BudgetLeft
  PROVE  Valid(rules)
<1>1. \A k \in PRIMITIVE_KEYS : \A e \in rules.allow[k] \cup rules.deny[k] :
        \E i \in 1..merged : e \in layers[i].allow[k] \cup layers[i].deny[k]
  BY DEF RulesInv, EntriesInv, AllowedUpTo, DeniedUpTo
<1>2. \A i \in 1..merged : Valid(layers[i])
  BY DEF RulesInv, LayersInv
<1>3. \A e \in rules.allow["run_cmd"] \cup rules.deny["run_cmd"] :
        \A i \in DOMAIN e : e[i] # "**"
  BY <1>1, <1>2 DEF Valid, PRIMITIVE_KEYS
<1>4. \A k \in PATH_KEYS : \A e \in rules.allow[k] \cup rules.deny[k] :
        Absolute(e) \/ e[1] = "**"
  <2> SUFFICES ASSUME NEW k \in PATH_KEYS, NEW e \in rules.allow[k] \cup rules.deny[k]
               PROVE  Absolute(e) \/ e[1] = "**"
    OBVIOUS
  <2>1. PICK i \in 1..merged : e \in layers[i].allow[k] \cup layers[i].deny[k]
    BY <1>1 DEF PATH_KEYS, PRIMITIVE_KEYS
  <2> QED BY <1>2, <2>1 DEF Valid
<1>5. \A k \in rules.sets : rules.budget[k] > 0
  BY DEF RulesInv, TypeOK, BudgetLeft
<1>6. rules.shape = "ok"
  BY DEF RulesInv, TypeOK
<1> QED BY <1>3, <1>4, <1>5, <1>6 DEF Valid

(* The step that merges a layer makes it the highest.                      *)
LEMMA HighestStep ==
  ASSUME RulesInv, MergeLayer, merged = 0 \/ HighestUpTo(merged)
  PROVE  HighestUpTo(merged)'
<1>1. /\ merged \in Nat /\ merged' = merged + 1 /\ layers' = layers
      /\ rules' = Merged(rules, layers[merged + 1])
      /\ Len(layers) > 0 /\ layers[1] = COLLECTION_DEFAULT_RULES
  BY DEF RulesInv, TypeOK, LayersInv, Merging, MergeLayer, NextLayer
<1>2. SUFFICES ASSUME NEW k \in BUDGET_KEYS
               PROVE  \E i \in 1..merged + 1 :
                        /\ k \in layers[i].sets /\ rules'.budget[k] = layers[i].budget[k]
                        /\ \A j \in 1..merged + 1 : j > i => k \notin layers[j].sets
  BY <1>1 DEF HighestUpTo
<1>3. rules'.budget[k] = IF k \in layers[merged + 1].sets
                         THEN layers[merged + 1].budget[k] ELSE rules.budget[k]
  BY <1>1 DEF Merged, MergedBudget
<1>4. CASE k \in layers[merged + 1].sets
  BY <1>1, <1>3, <1>4
<1>5. CASE k \notin layers[merged + 1].sets
  <2>1. merged # 0
    BY <1>1, <1>5, DefaultLayer
  <2>2. PICK i \in 1..merged :
          /\ k \in layers[i].sets /\ rules.budget[k] = layers[i].budget[k]
          /\ \A j \in 1..merged : j > i => k \notin layers[j].sets
    BY <2>1 DEF HighestUpTo
  <2>3. \A j \in 1..merged + 1 : j > i => k \notin layers[j].sets
    BY <1>1, <1>5, <2>2
  <2> QED BY <1>1, <1>3, <1>5, <2>2, <2>3
<1> QED BY <1>4, <1>5

LEMMA BudgetStep == RulesInv /\ BudgetInv /\ [Next]_vars => BudgetInv'
<1> SUFFICES ASSUME RulesInv, BudgetInv, [Next]_vars PROVE BudgetInv'
  OBVIOUS
<1>1. CASE Collect \/ RefuseLayer \/ RefuseNumber \/ NoClient
  <2>1. pc' \in {"merge", "failed"} /\ rules' = rules /\ verdict' = verdict
        /\ (Collect => merged' = 0)
    BY <1>1 DEF Collect, RefuseLayer, RefuseNumber, NoClient, RulesInv, LayersInv
  <2>2. pc' = "merge" => Collect
    BY <1>1 DEF RefuseLayer, RefuseNumber, NoClient
  <2> QED BY <2>1, <2>2 DEF BudgetInv, BudgetFromHighest, TargetNeverRefuses, Merging
<1>2. CASE MergeLayer
  <2>1. HighestUpTo(merged)'
    BY <1>2, HighestStep DEF BudgetInv, MergeLayer, Merging
  <2> QED BY <1>2, <2>1 DEF MergeLayer, BudgetInv, BudgetFromHighest, TargetNeverRefuses
<1>3. CASE LayersMerged
  <2>1. rules'.budget = rules.budget
    BY <1>3, WithoutDeniedType DEF LayersMerged, RulesInv, TypeOK
  <2> QED BY <1>3, <2>1 DEF LayersMerged, BudgetInv, BudgetFromHighest, TargetNeverRefuses,
                            HighestUpTo, Merging
<1>4. CASE Override
  <2>1. /\ pc = "override" /\ pc' = "client" /\ layers' = layers /\ args' = args
        /\ merged' = merged /\ verdict' = verdict /\ rules \in Layer
        /\ rules' = [rules EXCEPT !.budget = Overridden]
        /\ args \in [BUDGET_KEYS \cup {"timeout"} -> Arg]
        /\ \A k \in BUDGET_KEYS : args[k].given # "bad"
    BY <1>4, ActionPluginAssumption DEF Override, task, RulesInv, TypeOK
  <2>2. HighestUpTo(merged) /\ DOMAIN layers = 1..merged
    BY <2>1, LenProperties DEF BudgetInv, RulesInv, LayersInv, TypeOK, Ready
  <2>3. \A k \in BUDGET_KEYS :
          rules'.budget[k] = IF args[k].given = "no" THEN rules.budget[k] ELSE args[k].value
    BY <2>1 DEF Overridden, Layer
  <2>4. BudgetFromHighest'
    BY <2>1, <2>2, <2>3 DEF BudgetFromHighest, HighestUpTo, Arg
  <2> QED BY <2>1, <2>4 DEF BudgetInv, TargetNeverRefuses, Merging
<1>5. CASE EnterAgent \/ AgentGoesOn \/ AgentReturns \/ TargetLost \/ AgentRaises
  BY <1>5 DEF EnterAgent, AgentGoesOn, AgentReturns, TargetLost, AgentRaises, task, BudgetInv,
              BudgetFromHighest, TargetNeverRefuses, Merging
<1>6. CASE \E c \in Calls : Dispatch(c)
  BY <1>6 DEF Dispatch, task, BudgetInv, BudgetFromHighest, TargetNeverRefuses, BudgetLeft,
              Merging
<1>7. CASE TargetAnswers
  <2>1. Valid(rules)
    BY <1>7, MergeIsValid DEF TargetAnswers, BudgetInv, Ready
  <2>2. verdict' # "refused"
    BY <1>7, <2>1 DEF TargetAnswers
  <2> QED BY <1>7, <2>2 DEF TargetAnswers, task, BudgetInv, BudgetFromHighest,
                            TargetNeverRefuses, Merging
<1>8. CASE UNCHANGED vars
  BY <1>8 DEF vars, task, BudgetInv, BudgetFromHighest, TargetNeverRefuses, BudgetLeft,
              HighestUpTo, Merging
<1> QED
  BY <1>1, <1>2, <1>3, <1>4, <1>5, <1>6, <1>7, <1>8 DEF Next

LEMMA BudgetInvariant == Spec => []BudgetInv
<1>1. Init => BudgetInv
  BY InitInv
<1> QED BY <1>1, BudgetStep, Invariant, PTL DEF Spec

(* ai_exec never refuses the rules it is sent, although the plugin puts    *)
(* numbers into them that nobody has validated.                            *)
THEOREM TargetNeverRefusesHolds == Spec => []TargetNeverRefuses
<1>1. BudgetInv => TargetNeverRefuses
  BY DEF BudgetInv
<1> QED BY <1>1, BudgetInvariant, PTL

(* The budget is the task's, or that of the highest layer that sets one.   *)
THEOREM BudgetFromHighestHolds == Spec => []BudgetFromHighest
<1>1. BudgetInv => BudgetFromHighest
  BY DEF BudgetInv
<1> QED BY <1>1, BudgetInvariant, PTL
=============================================================================
