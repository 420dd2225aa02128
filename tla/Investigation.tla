--------------------------- MODULE Investigation ---------------------------
(***************************************************************************)
(* What one per-host investigation promises its operator, whatever the     *)
(* model and the target answer.  The agent asks the model one question at  *)
(* a time, at most MaxRounds of them and none once the token budget is     *)
(* used up; between an answer and the next question it runs permitted tool *)
(* calls, never after an answer that broke the budget; once the            *)
(* investigation is closed nothing more is asked or run.                   *)
(*                                                                         *)
(* This is the abstract specification that Orchestrator, the translation   *)
(* of run_agent, implements.                                               *)
(***************************************************************************)
EXTENDS Integers, Sequences

CONSTANTS
  MaxRounds,    \* questions the operator allows
  MaxTokens,    \* tokens the operator allows
  Permitted     \* the tool calls that may reach the target

VARIABLES
  phase,        \* "idle", "asking", "acting" or "closed"
  rounds,       \* questions asked so far
  spent,        \* tokens spent so far
  acts          \* tool calls run on the target, in order

vars == <<phase, rounds, spent, acts>>

Init ==
  /\ phase = "idle"
  /\ rounds = 0
  /\ spent = 0
  /\ acts = <<>>

(* A question is asked only while both budgets last. *)
Ask ==
  /\ phase = "idle"
  /\ rounds < MaxRounds
  /\ spent < MaxTokens
  /\ phase' = "asking"
  /\ rounds' = rounds + 1
  /\ UNCHANGED <<spent, acts>>

(* The answer is paid for; one that breaks the budget closes the run. *)
Answer ==
  /\ phase = "asking"
  /\ spent' \in Nat /\ spent' >= spent
  /\ phase' \in (IF spent' > MaxTokens THEN {"closed"} ELSE {"acting", "closed"})
  /\ UNCHANGED <<rounds, acts>>

Act ==
  /\ phase = "acting"
  /\ \E c \in Permitted : acts' = Append(acts, c)
  /\ UNCHANGED <<phase, rounds, spent>>

EndRound ==
  /\ phase = "acting"
  /\ phase' = "idle"
  /\ UNCHANGED <<rounds, spent, acts>>

Close ==
  /\ phase # "closed"
  /\ phase' = "closed"
  /\ UNCHANGED <<rounds, spent, acts>>

Next == Ask \/ Answer \/ Act \/ EndRound \/ Close

Spec == Init /\ [][Next]_vars
=============================================================================
