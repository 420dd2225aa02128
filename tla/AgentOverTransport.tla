------------------------ MODULE AgentOverTransport ------------------------
(***************************************************************************)
(* run_agent over _post_json: what Orchestrator takes as one answer of the *)
(* model is here a request of LLMTransport, with its attempts.             *)
(*                                                                         *)
(* What the provider charges is not what run_agent counts.  Tokens read    *)
(* from or written to a cache are left out of the budget, the usage of a   *)
(* reply without choices is dropped, and a lost response or a 504 that is  *)
(* retried may have been paid for.  Any attempt may be charged, whatever   *)
(* becomes of it: the model counts the attempts of the run.                *)
(*                                                                         *)
(* A client without an API key fails like one whose endpoint is refused:   *)
(* with an LLMError before the first attempt.                              *)
(***************************************************************************)
EXTENDS Orchestrator

CONSTANTS
  Retries,     \* max_retries of the client
  Statuses     \* the error statuses the provider answers with

ASSUME ClientAssumption == Retries \in Int /\ Statuses \subseteq 400..599

VARIABLES
  post,        \* where _post_json is
  endpoint, attempt, log, slept,    \* its other variables, see LLMTransport
  reply,       \* what the provider made of the request being answered
  attempts     \* history: the attempts of all requests of the run

Transport == INSTANCE LLMTransport WITH pc <- post

wire == <<post, endpoint, attempt, log, slept>>
allVars == <<vars, wire, reply, attempts>>

NoReply == [text |-> "empty", tool_calls |-> <<>>, tokens |-> 0]

AgentInit ==
  /\ Init
  /\ Transport!Init
  /\ reply = NoReply
  /\ attempts = 0

-----------------------------------------------------------------------------
(* The agent asks: a request of its own, the client kept.                  *)
NewRequest ==
  post' = "start" /\ attempt' = 0 /\ log' = <<>> /\ slept' = 0 /\ UNCHANGED endpoint

Request == AskModel /\ NewRequest /\ UNCHANGED <<reply, attempts>>

AgentAlone ==
  /\ AgentStep /\ ~AskModel
  /\ UNCHANGED <<wire, reply, attempts>>

TargetAlone == TargetAnswers /\ UNCHANGED <<wire, reply, attempts>>

-----------------------------------------------------------------------------
(* The request is on its way: a step of the transport, the agent waits.    *)
Waiting == pc = "llm" /\ UNCHANGED vars

(* A status of success comes with a reply.                                 *)
ReplyProduced ==
  /\ Waiting /\ Transport!OkStatus
  /\ reply' \in Completions
  /\ UNCHANGED attempts

TransportStep ==
  /\ Waiting
  /\ \/ Transport!ClientStep
     \/ Transport!SendFails \/ Transport!Sent
     \/ Transport!ErrorStatus \/ Transport!ErrorBodyRead \/ Transport!ErrorBodyLost
     \/ Transport!ResponseLost \/ Transport!NotJson \/ Transport!BodyRead
  /\ attempts' = IF post' = "sending" THEN attempts + 1 ELSE attempts
  /\ UNCHANGED reply

(* complete() ends as the request did.  The JSON of an answer may have     *)
(* another shape than the client expects: reading it then raises.          *)
AgentHears ==
  /\ pc = "llm"
  /\ \/ post = "returned" /\ (Reply(reply) \/ ModelRaises)
     \/ post = "llm_error" /\ ModelFails
     \/ post = "raised" /\ ModelRaises
  /\ UNCHANGED <<wire, reply, attempts>>

-----------------------------------------------------------------------------
RequestStep == ReplyProduced \/ TransportStep \/ AgentHears

AgentNext == Request \/ AgentAlone \/ TargetAlone \/ RequestStep

AgentSpec == AgentInit /\ [][AgentNext]_allVars

(* As in Orchestrator and LLMTransport: the code does not wait, and every  *)
(* socket operation and every tool call has a timeout.                     *)
FairAgentSpec ==
  /\ AgentSpec
  /\ WF_allVars(Request \/ AgentAlone)
  /\ WF_allVars(RequestStep)
  /\ WF_allVars(TargetAlone)

-----------------------------------------------------------------------------
(* Properties. *)

(* Whatever the provider charges for, the run cannot ask for more than     *)
(* max_retries + 1 attempts a round trip: a retry neither outlives its     *)
(* request nor buys the next one more.  With the limit on round trips this *)
(* is the only bound on the bill, as the token budget is one on the tokens *)
(* that were counted.                                                      *)
AttemptsBounded == attempts <= (Transport!max_retries + 1) * roundTrips
=============================================================================
