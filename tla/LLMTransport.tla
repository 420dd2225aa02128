---------------------------- MODULE LLMTransport ----------------------------
(***************************************************************************)
(* LLMClient._post_json of plugins/module_utils/llm_client.py: one request *)
(* to a provider, retried while the failure may pass.                      *)
(*                                                                         *)
(* An attempt connects and sends, waits for the status line, and reads a   *)
(* body.  What urllib wraps in URLError and what it lets through matters:  *)
(* failures up to sending are URLErrors, an error status is an HTTPError,  *)
(* and whatever happens while waiting for or reading a response is raised  *)
(* as it is.  The network and the provider are external, modelled from the *)
(* exceptions _post_json catches.  Delays are in half seconds, the base of *)
(* the backoff.                                                            *)
(***************************************************************************)
EXTENDS Integers, Sequences

CONSTANTS
  Retries,     \* the max_retries argument of the constructor
  Statuses     \* the error statuses the provider answers with

ASSUME LLMTransportAssumption == Retries \in Int /\ Statuses \subseteq 400..599

RETRYABLE_HTTP_CODES == {408, 425, 429, 500, 502, 503, 504}

(* URLError.reason, by class.                                              *)
PermanentReasons == {"gaierror", "SSLError", "ConnectionRefusedError"}
TransientReasons == {"timeout", "reset"}

(* What urllib does not wrap: the response did not come, or not whole.      *)
Losses == {"response_timeout", "connection_lost"}

(* How an attempt can end.                                                 *)
HTTPError(code) == [error |-> "http", code |-> code]
URLError(reason) == [error |-> "url", reason |-> reason]
Unwrapped(reason) == [error |-> "other", reason |-> reason]
Answer == [error |-> "none"]

Outcomes ==
  {HTTPError(c) : c \in Statuses}
    \cup {URLError(r) : r \in PermanentReasons \cup TransientReasons}
    \cup {Unwrapped(r) : r \in Losses \cup {"not_json"}}
    \cup {Answer}

VARIABLES
  pc,          \* where _post_json is, see PCs
  endpoint,    \* whether the URL has an http(s) scheme
  attempt,     \* the loop variable, from 0
  log,         \* history: how each attempt ended, in order
  slept        \* history: half seconds slept between attempts

vars == <<pc, endpoint, attempt, log, slept>>

PCs == {"start", "loop", "sending", "waiting", "reading", "error_body", "sleeping",
        "returned",      \* the JSON of an answer
        "llm_error",     \* LLMError
        "raised",        \* any other exception of the network or the decoder
        "unreachable"}   \* the AssertionError after the loop

-----------------------------------------------------------------------------
(* self.max_retries = max(0, int(max_retries))                             *)
max_retries == IF Retries > 0 THEN Retries ELSE 0

(* range(self.max_retries + 1)                                             *)
LoopRange_OneShort == 0..(max_retries - 1)
LoopRange == 0..max_retries

(* HTTPError is a URLError: handled in that branch, its reason is a text   *)
(* and no status would be permanent.                                       *)
Transient_AnyStatus(o) ==
  \/ o.error = "http"
  \/ o.error = "url" /\ o.reason \notin PermanentReasons
Transient(o) ==
  \/ o.error = "http" /\ o.code \in RETRYABLE_HTTP_CODES
  \/ o.error = "url" /\ o.reason \notin PermanentReasons

RetriesLeft_OneShort == attempt + 1 < max_retries
RetriesLeft_OffByOne == attempt <= max_retries
RetriesLeft == attempt < max_retries

PowerOfTwo[n \in Nat] == IF n = 0 THEN 1 ELSE 2 * PowerOfTwo[n - 1]

(* The delays after attempt n: full jitter, in half seconds.               *)
Backoff_Doubled(n) == 0..PowerOfTwo[n + 1]
Backoff(n) == 0..PowerOfTwo[n]

Retryable(o) == Transient(o) /\ RetriesLeft

Init ==
  /\ pc = "start"
  /\ endpoint \in {"http", "other"}
  /\ attempt = 0 /\ slept = 0 /\ log = <<>>

-----------------------------------------------------------------------------
(* _post_json refuses the endpoint before it tries anything.               *)
Refuse ==
  /\ pc = "start" /\ endpoint = "other"
  /\ pc' = "llm_error"
  /\ UNCHANGED <<endpoint, attempt, log, slept>>

Accept ==
  /\ pc = "start" /\ endpoint = "http"
  /\ pc' = "loop"
  /\ UNCHANGED <<endpoint, attempt, log, slept>>

(* The for takes the next attempt, or falls through after the last.        *)
StartAttempt ==
  /\ pc = "loop"
  /\ pc' = IF attempt \in LoopRange THEN "sending" ELSE "unreachable"
  /\ UNCHANGED <<endpoint, attempt, log, slept>>

(* A wait for the rate limit that is not taken for an attempt.             *)
WakeUp_RateLimitsForFree ==
  /\ pc = "sleeping"
  /\ \E delay \in Backoff(attempt) : slept' = slept + delay
  /\ attempt' = IF log[Len(log)] = HTTPError(429) THEN attempt ELSE attempt + 1
  /\ pc' = "loop"
  /\ UNCHANGED <<endpoint, log>>

(* A full jitter delay, then the next attempt.                             *)
WakeUp ==
  /\ pc = "sleeping"
  /\ \E delay \in Backoff(attempt) : slept' = slept + delay
  /\ attempt' = attempt + 1
  /\ pc' = "loop"
  /\ UNCHANGED <<endpoint, log>>

-----------------------------------------------------------------------------
(* The network and the provider. *)

EndsWith(o, next) ==
  /\ log' = Append(log, o)
  /\ pc' = next
  /\ UNCHANGED <<endpoint, attempt, slept>>

SendFails ==
  /\ pc = "sending"
  /\ \E r \in PermanentReasons \cup TransientReasons :
       EndsWith(URLError(r), IF Retryable(URLError(r)) THEN "sleeping" ELSE "llm_error")

Sent ==
  /\ pc = "sending"
  /\ pc' = "waiting"
  /\ UNCHANGED <<endpoint, attempt, log, slept>>

(* A status that is not retried has its body read for the message.         *)
ErrorStatus ==
  /\ pc = "waiting"
  /\ \E c \in Statuses :
       EndsWith(HTTPError(c), IF Retryable(HTTPError(c)) THEN "sleeping" ELSE "error_body")

ErrorBodyRead ==
  /\ pc = "error_body"
  /\ pc' = "llm_error"
  /\ UNCHANGED <<endpoint, attempt, log, slept>>

(* e.read() is not under a try: its own failure leaves the function.       *)
ErrorBodyLost ==
  /\ pc = "error_body"
  /\ pc' = "raised"
  /\ UNCHANGED <<endpoint, attempt, log, slept>>

OkStatus ==
  /\ pc = "waiting"
  /\ pc' = "reading"
  /\ UNCHANGED <<endpoint, attempt, log, slept>>

ResponseLost ==
  /\ pc \in {"waiting", "reading"}
  /\ \E r \in Losses : EndsWith(Unwrapped(r), "raised")

NotJson == pc = "reading" /\ EndsWith(Unwrapped("not_json"), "raised")

BodyRead == pc = "reading" /\ EndsWith(Answer, "returned")

-----------------------------------------------------------------------------
ClientStep == Refuse \/ Accept \/ StartAttempt \/ WakeUp

NetworkStep ==
  \/ SendFails \/ Sent \/ ErrorStatus \/ ErrorBodyRead \/ ErrorBodyLost
  \/ OkStatus \/ ResponseLost \/ NotJson \/ BodyRead

Next == ClientStep \/ NetworkStep

Spec == Init /\ [][Next]_vars

(* Every socket operation has a timeout, so that an attempt ends one way   *)
(* or another; the client itself only sleeps.                              *)
FairSpec == Spec /\ WF_vars(ClientStep) /\ WF_vars(NetworkStep)

-----------------------------------------------------------------------------
(* Properties. *)

(* Every variable stays in its set.                                        *)
TypeOK ==
  /\ pc \in PCs
  /\ endpoint \in {"http", "other"}
  /\ attempt \in Nat /\ slept \in Nat
  /\ log \in Seq(Outcomes)

(* What the comments call recoverable: a request timeout, a rate limit, a  *)
(* hiccup of the server; not what is wrong with the request or the key.    *)
Recoverable(o) ==
  \/ o.error = "http" /\ (o.code \in {408, 425, 429} \/ o.code >= 500)
  \/ o.error = "url" /\ o.reason \in TransientReasons

(* The request is made again only after a failure that may pass, and at    *)
(* most max_retries times: no error the provider means and no lost answer  *)
(* is ever followed by another attempt.                                    *)
OnlyRecoverableRetried ==
  /\ Len(log) <= max_retries + 1
  /\ \A i \in 1..Len(log) : i < Len(log) \/ pc = "loop" => Recoverable(log[i])

(* An LLMError is the last word: either the endpoint was refused, or the   *)
(* failure was permanent, or every attempt was used.                       *)
GivesUpOnlyAtTheEnd ==
  pc = "llm_error" =>
    \/ endpoint = "other" /\ log = <<>>
    \/ log # <<>> /\ (~Transient(log[Len(log)]) \/ Len(log) = max_retries + 1)

(* assert unreachable: the loop always returns or raises.                  *)
NeverFallsThrough == pc # "unreachable"

(* However often it is retried, a request sleeps less than 2^attempt half  *)
(* seconds in all.                                                         *)
BackoffBounded == slept < PowerOfTwo[attempt]

(* Every request ends, and as the code means it: with the answer, an       *)
(* LLMError, or the exception of what went wrong.                          *)
RequestEnds == <>(pc \in {"returned", "llm_error", "raised"})

-----------------------------------------------------------------------------
(* What the repository says and the code does not do.                      *)

(* The docstring of _url_error_is_transient: "Timeouts and resets can      *)
(* recover"; they are then tried again while attempts are left.            *)
TimeoutsAreRetried ==
  pc = "raised" /\ log[Len(log)].error = "other" /\ log[Len(log)].reason \in Losses
    => ~RetriesLeft
=============================================================================
