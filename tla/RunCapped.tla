------------------------------ MODULE RunCapped ------------------------------
(***************************************************************************)
(* _run_capped and _drain of plugins/module_utils/sandbox.py: one command  *)
(* run under a timeout, its two output streams drained by two threads into *)
(* buffers of at most Cap bytes.                                           *)
(*                                                                         *)
(* The actors are the calling thread, the two drain threads, the command   *)
(* (child) and a process it may leave behind (descendant), which inherits  *)
(* the write ends of both pipes.  Bytes are counted, not identified: a     *)
(* pipe is a queue with one reader.  Processes and pipes are the kernel's, *)
(* modelled from how subprocess and the threads use them.                  *)
(***************************************************************************)
EXTENDS Integers

CONSTANTS
  Cap,         \* bytes kept of a stream (CAPTURE_CAP_BYTES)
  ChunkSize,   \* bytes stream.read asks for; fewer only at end of file
  PipeSize,    \* bytes a pipe holds before a writer blocks
  Workloads    \* what the processes may want to write, to each stream

ASSUME RunCappedAssumption ==
  /\ Cap \in Nat \ {0} /\ ChunkSize \in Nat \ {0} /\ PipeSize \in Nat \ {0}
  /\ Workloads \subseteq [{"child", "descendant"} -> [{"stdout", "stderr"} -> Nat]]

Streams == {"stdout", "stderr"}
Processes == {"child", "descendant"}

VARIABLES
  contained,   \* whether descendants die with the command (bwrap's pid namespace)
  main,        \* where the calling thread is, see MainPCs
  state,       \* of each process: "absent", "running", "exited" or "killed"
  todo,        \* what each process still writes to each stream before it exits
  written,     \* history: bytes written to each stream
  pipe,        \* bytes in each pipe
  chunk,       \* bytes each drain thread has read of its current chunk
  buf,         \* Len(out_buf), Len(err_buf)
  truncated,   \* out_trunc[0], err_trunc[0]
  drain,       \* each drain thread: "unstarted", "reading" or "ended"
  timed_out    \* SandboxResult.timed_out, once returned

vars == <<contained, main, state, todo, written, pipe, chunk, buf, truncated, drain, timed_out>>

MainPCs == {"starting",   \* about to call Popen
            "not_found",  \* Popen raised FileNotFoundError
            "os_error",   \* Popen raised another OSError
            "spawned",    \* the command runs, the drain threads not yet
            "waiting",    \* in proc.wait(timeout=timeout)
            "expired",    \* TimeoutExpired raised, before proc.kill()
            "reaping",    \* in the proc.wait() after the kill
            "joining_out", "joining_err",
            "returned"}

-----------------------------------------------------------------------------
Smaller(a, b) == IF a < b THEN a ELSE b

(* room = cap - len(buf); buf.extend(chunk[:room])                         *)
Kept_OverCap(s) == buf[s] + chunk[s]
Kept(s) == buf[s] + Smaller(chunk[s], Cap - buf[s])

(* truncated[0] is set when the buffer is full after the chunk, or was     *)
(* full before it.                                                         *)
Overflows(s) == Cap - buf[s] <= 0 \/ Kept(s) >= Cap

(* A pipe is at end of file once it is empty and nobody can write to it.   *)
EndOfFile_OfTheChild(s) == pipe[s] = 0 /\ state["child"] # "running"
EndOfFile(s) == pipe[s] = 0 /\ \A p \in Processes : state[p] # "running"

(* The drain threads go on reading past the cap.                           *)
KeepsReading_UpToCap(s) == drain[s] = "reading" /\ buf[s] < Cap
KeepsReading(s) == drain[s] = "reading"

Init ==
  /\ contained \in BOOLEAN
  /\ main = "starting"
  /\ state = [p \in Processes |-> "absent"]
  /\ todo \in Workloads
  /\ written = [s \in Streams |-> 0]
  /\ pipe = [s \in Streams |-> 0]
  /\ chunk = [s \in Streams |-> 0]
  /\ buf = [s \in Streams |-> 0]
  /\ truncated = [s \in Streams |-> FALSE]
  /\ drain = [s \in Streams |-> "unstarted"]
  /\ timed_out = FALSE

-----------------------------------------------------------------------------
(* The command and what it leaves behind. *)

Write(p, s) ==
  /\ state[p] = "running" /\ todo[p][s] > 0 /\ pipe[s] < PipeSize
  /\ todo' = [todo EXCEPT ![p][s] = @ - 1]
  /\ pipe' = [pipe EXCEPT ![s] = @ + 1]
  /\ written' = [written EXCEPT ![s] = @ + 1]
  /\ UNCHANGED <<contained, main, state, chunk, buf, truncated, drain, timed_out>>

Spawn ==
  /\ state["child"] = "running" /\ state["descendant"] = "absent"
  /\ state' = [state EXCEPT !["descendant"] = "running"]
  /\ UNCHANGED <<contained, main, todo, written, pipe, chunk, buf, truncated, drain, timed_out>>

Exit(p) ==
  /\ state[p] = "running" /\ \A s \in Streams : todo[p][s] = 0
  /\ state' = [state EXCEPT ![p] = "exited"]
  /\ UNCHANGED <<contained, main, todo, written, pipe, chunk, buf, truncated, drain, timed_out>>

(* bwrap's --unshare-pid and --die-with-parent: the pid namespace goes     *)
(* with the process that was started.                                      *)
NamespaceEnds ==
  /\ contained /\ state["child"] # "running" /\ state["descendant"] = "running"
  /\ state' = [state EXCEPT !["descendant"] = "killed"]
  /\ UNCHANGED <<contained, main, todo, written, pipe, chunk, buf, truncated, drain, timed_out>>

-----------------------------------------------------------------------------
(* A drain thread. *)

ReadByte(s) ==
  /\ KeepsReading(s) /\ pipe[s] > 0 /\ chunk[s] < ChunkSize
  /\ pipe' = [pipe EXCEPT ![s] = @ - 1]
  /\ chunk' = [chunk EXCEPT ![s] = @ + 1]
  /\ UNCHANGED <<contained, main, state, todo, written, buf, truncated, drain, timed_out>>

StoreChunk(s) ==
  /\ drain[s] = "reading" /\ chunk[s] > 0
  /\ chunk[s] = ChunkSize \/ EndOfFile(s)
  /\ buf' = [buf EXCEPT ![s] = Kept(s)]
  /\ truncated' = [truncated EXCEPT ![s] = @ \/ Overflows(s)]
  /\ chunk' = [chunk EXCEPT ![s] = 0]
  /\ UNCHANGED <<contained, main, state, todo, written, pipe, drain, timed_out>>

EndDrain(s) ==
  /\ drain[s] = "reading" /\ chunk[s] = 0 /\ EndOfFile(s)
  /\ drain' = [drain EXCEPT ![s] = "ended"]
  /\ UNCHANGED <<contained, main, state, todo, written, pipe, chunk, buf, truncated, timed_out>>

DrainStep(s) == ReadByte(s) \/ StoreChunk(s) \/ EndDrain(s)

-----------------------------------------------------------------------------
(* The calling thread. *)

others == <<contained, todo, written, pipe, chunk, buf, truncated, drain>>

Popen ==
  /\ main = "starting"
  /\ main' = "spawned"
  /\ state' = [state EXCEPT !["child"] = "running"]
  /\ UNCHANGED <<timed_out, others>>

(* The exception leaves _run_capped: no executable of that name, none that *)
(* may be executed, or no process to be had.                               *)
PopenFails ==
  /\ main = "starting"
  /\ main' \in {"not_found", "os_error"}
  /\ UNCHANGED <<state, timed_out, others>>

StartDrains ==
  /\ main = "spawned"
  /\ main' = "waiting"
  /\ drain' = [s \in Streams |-> "reading"]
  /\ UNCHANGED <<contained, state, todo, written, pipe, chunk, buf, truncated, timed_out>>

WaitReturns ==
  /\ main = "waiting" /\ state["child"] # "running"
  /\ main' = "joining_out"
  /\ UNCHANGED <<state, timed_out, others>>

(* TimeoutExpired is raised because the last poll found the child running. *)
Expire ==
  /\ main = "waiting" /\ state["child"] = "running"
  /\ main' = "expired"
  /\ timed_out' = TRUE
  /\ UNCHANGED <<state, others>>

(* The child may have ended on its own since; the signal then does nothing.*)
Kill_Skipped == main = "expired" /\ main' = "reaping" /\ UNCHANGED <<state, timed_out, others>>
Kill ==
  /\ main = "expired"
  /\ main' = "reaping"
  /\ state' = [state EXCEPT !["child"] = IF @ = "running" THEN "killed" ELSE @]
  /\ UNCHANGED <<timed_out, others>>

Reap ==
  /\ main = "reaping" /\ state["child"] # "running"
  /\ main' = "joining_out"
  /\ UNCHANGED <<state, timed_out, others>>

JoinOut ==
  /\ main = "joining_out" /\ drain["stdout"] = "ended"
  /\ main' = "joining_err"
  /\ UNCHANGED <<state, timed_out, others>>

(* Both threads have ended: the buffers are decoded and returned.          *)
JoinErr_NotWaitedFor ==
  main = "joining_err" /\ main' = "returned" /\ UNCHANGED <<state, timed_out, others>>
JoinErr ==
  /\ main = "joining_err" /\ drain["stderr"] = "ended"
  /\ main' = "returned"
  /\ UNCHANGED <<state, timed_out, others>>

MainStep == Popen \/ PopenFails \/ StartDrains \/ WaitReturns \/ Kill \/ Reap \/ JoinOut \/ JoinErr

-----------------------------------------------------------------------------
Next ==
  \/ \E p \in Processes, s \in Streams : Write(p, s)
  \/ \E p \in Processes : Exit(p)
  \/ Spawn \/ NamespaceEnds
  \/ \E s \in Streams : DrainStep(s)
  \/ MainStep \/ Expire

Spec == Init /\ [][Next]_vars

-----------------------------------------------------------------------------
(* Properties. *)

(* Every variable stays in its set.                                        *)
TypeOK ==
  /\ contained \in BOOLEAN
  /\ main \in MainPCs
  /\ state \in [Processes -> {"absent", "running", "exited", "killed"}]
  /\ todo \in [Processes -> [Streams -> Nat]]
  /\ written \in [Streams -> Nat] /\ pipe \in [Streams -> 0..PipeSize]
  /\ chunk \in [Streams -> 0..ChunkSize] /\ buf \in [Streams -> 0..Cap]
  /\ truncated \in [Streams -> BOOLEAN] /\ drain \in [Streams -> {"unstarted", "reading", "ended"}]
  /\ timed_out \in BOOLEAN

(* The result holds everything written to each stream, by anyone, up to    *)
(* the cap, also when the command was killed; what was cut is marked.      *)
CaptureComplete ==
  main = "returned" =>
    \A s \in Streams : /\ buf[s] = Smaller(Cap, written[s])
                       /\ written[s] > Cap => truncated[s]

(* No result while anyone could still add to the output; and a result that *)
(* does not say timed_out is of a command that ended on its own.           *)
ResultIsFinal ==
  main = "returned" =>
    /\ \A p \in Processes : state[p] # "running"
    /\ timed_out \/ state["child"] = "exited"

(* The output of a command never blocks it, however much it is: what it    *)
(* wants to write gets written unless its timeout comes first.             *)
OutputNeverBlocks ==
  \A s \in Streams :
    (state["child"] = "running" /\ todo["child"][s] > 0) ~> (todo["child"][s] = 0 \/ timed_out)

(* When descendants may outlive the command, the call returns once nobody  *)
(* holds the pipes any more.                                               *)
ReturnsOncePipesAreFree ==
  (state["child"] # "absent" /\ \A p \in Processes : state[p] # "running")
    ~> main = "returned"

-----------------------------------------------------------------------------
(* What the repository says of the sandbox and the code does not do. *)

(* ai_exec.py, option timeout: "Seconds before the tool execution is       *)
(* killed"; the call is then over once the timeout has fired.              *)
TimeoutEndsTheCall == timed_out ~> main = "returned"
=============================================================================
