--------------------------------- MODULE Play ---------------------------------
(***************************************************************************)
(* A fan-out play: one ai_agent task per host, each in a forked worker of  *)
(* its own, then one task with aggregate=true that summarizes what the     *)
(* hosts registered (plugins/action/ai_agent.py, run_aggregate of          *)
(* orchestrator.py and the per-host block of prompts.py).                  *)
(*                                                                         *)
(* run_agent is Orchestrator's subject.  Here it appends entries to its    *)
(* transcript and streams them, and returns or raises.  Ansible's part,    *)
(* which hosts stay in the play and what of them the results argument      *)
(* holds, is external.                                                     *)
(***************************************************************************)
EXTENDS Integers, Sequences, FiniteSets

CONSTANTS
  Hosts,
  MaxEntries,    \* bound on the entries of a transcript
  Chunks         \* writes that one artifact takes

ASSUME PlayAssumption ==
  IsFiniteSet(Hosts) /\ MaxEntries \in Nat /\ Chunks \in Nat \ {0}

VARIABLES
  templated,       \* whether save_transcript has {host} in it
  ignore_errors,   \* whether a failed host stays in the play
  pc,              \* where each host's task is, see PCs
  transcript,      \* of each host, what happened to the line of each entry
  files,           \* the chunks of each artifact file, by the host they are of
  offset,          \* chunks each worker has written
  warned,          \* hosts with a warning about their artifact
  cluster,         \* the aggregate task, see ClusterPCs
  results,         \* its results argument: the hosts there is an element of
  reply,           \* what came of the aggregate's request
  result           \* what the aggregate task returns

host_vars == <<templated, ignore_errors, pc, transcript, files, offset, warned>>
vars == <<host_vars, cluster, results, reply, result>>

PCs == {"agent",
        "opening", "dumping",   \* in _write_transcript
        "finished", "failed"}

ClusterPCs == {"waiting",       \* for the hosts
               "asking",        \* in run_aggregate's complete
               "answered", "finished", "failed",
               "not_run"}       \* no host was left in the play

Replies == {"done", "done_unsummarized", "done_malformed", "text", "blank",
            "llm_error", "value_error", "other_error"}

NoResult == [diagnosis |-> "none", host_count |-> 0]

(* path.replace("{host}", host)                                            *)
Rendered_Shared(h) == "shared"
Rendered(h) == IF templated THEN h ELSE "shared"

Paths == Hosts \cup {"shared"}

(* What an earlier play may have left in a file.                           *)
Stale == [i \in 1..Chunks |-> "stale"]

Init ==
  /\ templated \in BOOLEAN /\ ignore_errors \in BOOLEAN
  /\ pc = [h \in Hosts |-> "agent"]
  /\ transcript = [h \in Hosts |-> <<>>]
  /\ files \in {[p \in Paths |-> <<>>], [p \in Paths |-> Stale]}
  /\ offset = [h \in Hosts |-> 0]
  /\ warned = {}
  /\ cluster = "waiting" /\ results = {} /\ reply = "blank" /\ result = NoResult

options == <<templated, ignore_errors>>
aggregate == <<cluster, results, reply, result>>

-----------------------------------------------------------------------------
(* run_agent on one host *)

(* What on_step finds in an entry: an input it can print, or that of a     *)
(* rejected call, whose field it may be unable to measure or join.         *)
Inputs == {"printable", "absent", "unprintable"}
Displayed(input) == input # "unprintable"

(* An entry is appended and streamed; what on_step raises is swallowed.    *)
AgentStep(h, input) ==
  /\ pc[h] = "agent" /\ Len(transcript[h]) < MaxEntries
  /\ transcript' = [transcript EXCEPT ![h] = Append(@, Displayed(input))]
  /\ UNCHANGED <<options, pc, files, offset, warned, aggregate>>

(* run_agent returns, without an entry if its range was empty.             *)
AgentReturns(h) ==
  /\ pc[h] = "agent"
  /\ pc' = [pc EXCEPT ![h] = "opening"]
  /\ UNCHANGED <<options, transcript, files, offset, warned, aggregate>>

(* The task fails: before run_agent, or by an exception that leaves it.    *)
AgentFails(h) ==
  /\ pc[h] = "agent"
  /\ pc' = [pc EXCEPT ![h] = "failed"]
  /\ UNCHANGED <<options, transcript, files, offset, warned, aggregate>>

-----------------------------------------------------------------------------
(* _write_transcript *)

(* open(rendered, "w") empties the file, whoever wrote it.                 *)
OpenArtifact(h) ==
  /\ pc[h] = "opening"
  /\ files' = [files EXCEPT ![Rendered(h)] = <<>>]
  /\ pc' = [pc EXCEPT ![h] = "dumping"]
  /\ UNCHANGED <<options, transcript, offset, warned, aggregate>>

(* A chunk is written where this worker left off; what another worker has  *)
(* emptied before that is a hole.                                          *)
Put(chunks, at, h) ==
  [i \in 1..(IF Len(chunks) > at THEN Len(chunks) ELSE at + 1) |->
     IF i = at + 1 THEN h ELSE IF i <= Len(chunks) THEN chunks[i] ELSE "hole"]

DumpChunk(h) ==
  /\ pc[h] = "dumping" /\ offset[h] < Chunks
  /\ files' = [files EXCEPT ![Rendered(h)] = Put(@, offset[h], h)]
  /\ offset' = [offset EXCEPT ![h] = @ + 1]
  /\ UNCHANGED <<options, pc, transcript, warned, aggregate>>

CloseArtifact(h) ==
  /\ pc[h] = "dumping" /\ offset[h] = Chunks
  /\ pc' = [pc EXCEPT ![h] = "finished"]
  /\ UNCHANGED <<options, transcript, files, offset, warned, aggregate>>

(* An OSError at any point: the directory, the open, a full disk.          *)
ArtifactFails(h) ==
  /\ pc[h] \in {"opening", "dumping"}
  /\ warned' = warned \cup {h}
  /\ pc' = [pc EXCEPT ![h] = "finished"]
  /\ UNCHANGED <<options, transcript, files, offset, aggregate>>

(* Anything else leaves _write_transcript, and the task with it: a path    *)
(* open cannot take (ValueError), a nested key json.dump cannot write      *)
(* (TypeError), a value that fails in str.                                 *)
ArtifactRaises(h) ==
  /\ pc[h] \in {"opening", "dumping"}
  /\ pc' = [pc EXCEPT ![h] = "failed"]
  /\ UNCHANGED <<options, transcript, files, offset, warned, aggregate>>

HostTask(h) ==
  \/ AgentReturns(h) \/ OpenArtifact(h) \/ DumpChunk(h) \/ CloseArtifact(h)

-----------------------------------------------------------------------------
(* _run_aggregate and run_aggregate *)

HostOver(h) == pc[h] \in {"finished", "failed"}

(* ansible_play_hosts: a host whose task failed is taken out.              *)
PlayHosts == {h \in Hosts : pc[h] = "finished" \/ (pc[h] = "failed" /\ ignore_errors)}

(* Ansible starts the next task when every host is over.  Its results      *)
(* argument is a template of the playbook's: it may have elements of all   *)
(* hosts, of those left in the play, or of some.                           *)
StartAggregate ==
  /\ cluster = "waiting" /\ \A h \in Hosts : HostOver(h)
  /\ IF PlayHosts = {} THEN cluster' = "not_run" /\ UNCHANGED results
                       ELSE cluster' = "asking" /\ results' \in SUBSET Hosts
  /\ UNCHANGED <<host_vars, reply, result>>

(* No results argument or one that is no list or dict, a max_tokens that   *)
(* is no number, or no client: get_client raises LLMError.                 *)
NoClient ==
  /\ cluster = "asking"
  /\ cluster' = "failed"
  /\ UNCHANGED <<host_vars, results, reply, result>>

Complete(r) ==
  /\ cluster = "asking"
  /\ reply' = r
  /\ cluster' = "answered"
  /\ UNCHANGED <<host_vars, results, result>>

(* LLMError and ValueError become the task's failure, any other exception  *)
(* is one; so is an input of done that is no mapping.                      *)
AggregateFails ==
  /\ cluster = "answered"
  /\ reply \in {"done_malformed", "llm_error", "value_error", "other_error"}
  /\ cluster' = "failed"
  /\ UNCHANGED <<host_vars, results, reply, result>>

(* The summary of the first done, or else the text, stripped.              *)
Diagnosis ==
  CASE reply = "done" -> "summary"
    [] reply = "text" -> "text"
    [] reply \in {"done_unsummarized", "blank"} -> "(no summary)"

(* Every element of the argument counts, also one that is no dict and that *)
(* the prompt leaves out.                                                  *)
Aggregated ==
  /\ cluster = "answered"
  /\ reply \in {"done", "done_unsummarized", "text", "blank"}
  /\ result' = [diagnosis |-> Diagnosis, host_count |-> Cardinality(results)]
  /\ cluster' = "finished"
  /\ UNCHANGED <<host_vars, results, reply>>

ClusterTask ==
  StartAggregate \/ (\E r \in Replies : Complete(r)) \/ AggregateFails \/ Aggregated

-----------------------------------------------------------------------------
Next ==
  \/ \E h \in Hosts :
       \/ (\E input \in Inputs : AgentStep(h, input))
       \/ AgentFails(h) \/ HostTask(h) \/ ArtifactFails(h) \/ ArtifactRaises(h)
  \/ ClusterTask \/ NoClient

Spec == Init /\ [][Next]_vars

-----------------------------------------------------------------------------
(* Properties. *)

(* "{host} is substituted ... so multi-host plays don't collide": a host   *)
(* that finished without a warning has its own artifact, whole, whatever   *)
(* the other workers do and whatever an earlier play left in its place.    *)
OwnArtifact ==
  templated =>
    \A h \in Hosts \ warned :
      pc[h] = "finished" => files[h] = [i \in 1..Chunks |-> h]

=============================================================================
