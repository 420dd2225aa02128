-------------------------------- MODULE Prompts --------------------------------
(***************************************************************************)
(* What plugins/module_utils/prompts.py lets through of a host's facts,    *)
(* which go into the system prompt, and of its variables, which go into    *)
(* the transcript artifact: filter_facts, filter_hostvars and _redact.     *)
(*                                                                         *)
(* A leaf of a nested value is its path: through keys of dicts, ordinary   *)
(* or secret by name, and items of lists.  The two filters treat leaves    *)
(* one by one; the steps of this specification grow the path.              *)
(***************************************************************************)
EXTENDS Integers, Sequences

CONSTANT MaxDepth   \* bound on the length of a path
ASSUME PromptsAssumption == MaxDepth \in Nat

VARIABLES
  source,   \* "facts" or "hostvars"
  name,     \* the kind of name at the top, see Names
  path      \* from the value of that name to the leaf

vars == <<source, name, path>>

Steps == {"key", "secret_key", "item"}

Names == {"default_fact",     \* one of DEFAULT_FACT_KEYS, as setup returns it
          "ansible",          \* any other that begins with ansible_
          "secret", "plain"}

(* What becomes of a leaf: replaced at depth 5, hidden under a secret key. *)
redact_DictsOnly(p) ==
  LET r[d \in 0..Len(p)] ==
        IF d > 4 THEN "<...>"
        ELSE IF d = Len(p) \/ p[d + 1] = "item" THEN "shown"
        ELSE IF p[d + 1] = "secret_key" THEN "<redacted>"
        ELSE r[d + 1]
  IN  r[0]
redact(p) ==
  LET r[d \in 0..Len(p)] ==
        IF d > 4 THEN "<...>"
        ELSE IF d = Len(p) THEN "shown"
        ELSE IF p[d + 1] = "secret_key" THEN "<redacted>"
        ELSE r[d + 1]
  IN  r[0]

(* Ansible keeps facts in ansible_facts without their ansible_ prefix.     *)
InAnsibleFacts(n) == IF n \in {"default_fact", "ansible"} THEN "plain" ELSE n

(* DEFAULT_FACT_KEYS are looked up with the prefix.                        *)
filter_facts == IF InAnsibleFacts(name) = "default_fact" THEN redact(path) ELSE "absent"

filter_hostvars ==
  CASE name \in {"default_fact", "ansible"} -> "absent"
    [] name = "secret" -> "<redacted>"
    [] name = "plain" -> redact(path)

Filtered == IF source = "facts" THEN filter_facts ELSE filter_hostvars

Init ==
  /\ source \in {"facts", "hostvars"}
  /\ name \in Names
  /\ path = <<>>

Nest ==
  /\ Len(path) < MaxDepth
  /\ \E s \in Steps : path' = Append(path, s)
  /\ UNCHANGED <<source, name>>

Spec == Init /\ [][Nest]_vars

-----------------------------------------------------------------------------
(* Properties. *)

Hidden == {i \in DOMAIN path : path[i] = "secret_key"}

(* A leaf below a secret name is never shown, however deep below it and    *)
(* whatever dicts and lists lie between; and nothing else is hidden: every *)
(* leaf of a plain variable that has no secret name above it and lies no   *)
(* deeper than four levels is shown.                                       *)
OnlySecretsAreHidden ==
  /\ Filtered = "shown" => name # "secret" /\ Hidden = {}
  /\ (source = "hostvars" /\ name = "plain" /\ Hidden = {} /\ Len(path) <= 4) =>
       Filtered = "shown"
=============================================================================
