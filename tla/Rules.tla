-------------------------------- MODULE Rules --------------------------------
(***************************************************************************)
(* plugins/module_utils/rules.py: what a rule layer is, when it is valid,  *)
(* how layers are merged, and the gates that read the merged rules.        *)
(*                                                                         *)
(* A string is the sequence that splitting it gives: a path or a command   *)
(* at "/", so that an absolute one starts with the empty segment, and a    *)
(* Python module at ".".  A wildcard is a whole segment, "**", first or    *)
(* last in its pattern.  A list of entries is the set of its members: the  *)
(* code looks for members only.                                            *)
(***************************************************************************)
EXTENDS Integers, Sequences, SequencesExt

PRIMITIVE_KEYS == {"run_cmd", "read_file", "write_file", "python"}
PATH_KEYS == {"read_file", "write_file"}
BUDGET_KEYS == {"max_iterations", "max_tokens"}

Name == Seq(STRING) \ {<<>>}
Entries == [PRIMITIVE_KEYS -> SUBSET Name]

(* A layer as it is written: its shape says whether it is there, a mapping *)
(* and well typed; a list that is absent is empty, and sets holds the keys *)
(* of its budget.                                                          *)
Layer ==
  [shape : {"undefined", "not_a_dict", "mistyped", "ok"},
   allow : Entries, deny : Entries, network : {"unset", "on", "off"},
   sets : SUBSET BUDGET_KEYS, budget : [BUDGET_KEYS -> Int]]

NoEntries == [k \in PRIMITIVE_KEYS |-> {}]

DEFAULT_BUDGET == [k \in BUDGET_KEYS |-> IF k = "max_iterations" THEN 5 ELSE 8000]

EMPTY_RULES ==
  [shape |-> "ok", allow |-> NoEntries, deny |-> NoEntries, network |-> "off",
   sets |-> BUDGET_KEYS, budget |-> DEFAULT_BUDGET]

-----------------------------------------------------------------------------
(* validate *)

Absolute(e) == Len(e) > 1 /\ e[1] = ""

Valid(l) ==
  /\ l.shape = "ok"
  /\ \A e \in l.allow["run_cmd"] \cup l.deny["run_cmd"] : \A i \in DOMAIN e : e[i] # "**"
  /\ \A k \in PATH_KEYS : \A e \in l.allow[k] \cup l.deny[k] : Absolute(e) \/ e[1] = "**"
  /\ \A k \in l.sets : l.budget[k] > 0

-----------------------------------------------------------------------------
(* merge: one round of its loop over the layers, and what follows the loop *)

Union(f, g) == [k \in PRIMITIVE_KEYS |-> f[k] \cup g[k]]

MergedDeny_LastLayer(out, l) == l.deny
MergedDeny(out, l) == Union(out.deny, l.deny)

MergedBudget_FirstWins(out, l) == out.budget
MergedBudget(out, l) ==
  [k \in BUDGET_KEYS |-> IF k \in l.sets THEN l.budget[k] ELSE out.budget[k]]

Merged(out, l) ==
  [shape |-> "ok",
   allow |-> Union(out.allow, l.allow),
   deny |-> MergedDeny(out, l),
   network |-> IF l.network = "unset" THEN out.network ELSE l.network,
   sets |-> BUDGET_KEYS, budget |-> MergedBudget(out, l)]

WithoutDenied(out) ==
  [out EXCEPT !.allow = [k \in PRIMITIVE_KEYS |-> out.allow[k] \ out.deny[k]]]

-----------------------------------------------------------------------------
(* The gates *)

is_cmd_allowed(rules, cmd) ==
  cmd \notin rules.deny["run_cmd"] /\ cmd \in rules.allow["run_cmd"]

(* posixpath.normpath of an absolute path.  (A path that starts with just  *)
(* two slashes, which POSIX sets apart, is left out.)                      *)
NormStep(path, segment) ==
  CASE segment \in {"", "."} -> path
    [] segment = ".." -> IF Len(path) > 1 THEN Front(path) ELSE path
    [] OTHER -> Append(path, segment)

NormPath(path) ==
  LET norm == FoldLeft(NormStep, <<"">>, Tail(path))
  IN IF norm = <<"">> THEN <<"", "">> ELSE norm

(* fnmatch, whose wildcards match across slashes.                          *)
Matches(path, pattern) ==
  \/ path = pattern
  \/ /\ Len(path) >= Len(pattern)
     /\ \/ pattern[Len(pattern)] = "**" /\ IsPrefix(Front(pattern), path)
        \/ pattern[1] = "**" /\ IsSuffix(Tail(pattern), path)

(* The path is normalized by the caller; to do it again changes nothing.   *)
is_path_allowed(rules, path, key) ==
  /\ \A pattern \in rules.deny[key] : ~Matches(path, pattern)
  /\ \E pattern \in rules.allow[key] : Matches(path, pattern)

(* A module is covered by itself and by the packages it is in.             *)
is_python_import_allowed(rules, module) ==
  /\ \A d \in rules.deny["python"] : ~IsPrefix(d, module)
  /\ \E a \in rules.allow["python"] : IsPrefix(a, module)
=============================================================================
