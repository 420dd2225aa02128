--------------------------- MODULE RunToolProofs ---------------------------
(***************************************************************************)
(* Theorems about _run_capped, for every cap, chunk size, pipe size and    *)
(* output of the processes, whether descendants are contained or not; and  *)
(* about run_cmd and run_python around it: they change nothing of it, so   *)
(* that what is proved of its result holds of theirs, and the script of a  *)
(* snippet is there as long as needed, and no longer.                      *)
(***************************************************************************)
EXTENDS RunTool, TLAPS

(* What a drain thread has stored of a stream.                             *)
Stored(s) == written[s] - pipe[s] - chunk[s]

(* Nothing is lost between the writers and the buffer: what was written is *)
(* in the pipe, in the chunk being read, or stored up to the cap.          *)
Conserved ==
  \A s \in Streams :
    /\ Stored(s) \in Nat
    /\ buf[s] = Smaller(Cap, Stored(s))
    /\ Stored(s) > Cap => truncated[s]

(* A drain thread that has ended left nothing behind, for good.            *)
DrainInv ==
  \A s \in Streams : drain[s] = "ended" => chunk[s] = 0 /\ EndOfFile(s)

(* No command was started.                                                 *)
Unstarted == {"starting", "not_found", "os_error"}

(* What the calling thread has waited for.                                 *)
MainInv ==
  /\ main \in Unstarted => /\ \A p \in Processes : state[p] = "absent"
                            /\ \A s \in Streams : drain[s] = "unstarted"
  /\ main \notin Unstarted => state["child"] # "absent"
  /\ main = "spawned" => \A s \in Streams : drain[s] = "unstarted"
  /\ main \in {"joining_out", "joining_err", "returned"} => state["child"] # "running"
  /\ main \in {"joining_err", "returned"} => drain["stdout"] = "ended"
  /\ main = "returned" => drain["stderr"] = "ended"
  /\ ~timed_out => state["child"] # "killed" /\ main \notin {"expired", "reaping"}

CaptureInv == TypeOK /\ Conserved /\ DrainInv /\ MainInv

LEMMA InitInv == Init => CaptureInv
<1> SUFFICES ASSUME Init PROVE CaptureInv
  OBVIOUS
<1> USE RunCappedAssumption DEF Init, Streams, Processes, Unstarted
<1>1. truncated \in [Streams -> BOOLEAN] /\ timed_out \in BOOLEAN /\ contained \in BOOLEAN
  BY Zenon
<1>2. TypeOK
  BY <1>1 DEF TypeOK, MainPCs
<1>3. Conserved
  BY DEF Conserved, Stored, Smaller
<1>4. DrainInv /\ MainInv
  BY DEF DrainInv, MainInv
<1> QED BY <1>2, <1>3, <1>4 DEF CaptureInv

LEMMA StepInv == CaptureInv /\ [Next]_vars => CaptureInv'
<1> SUFFICES ASSUME CaptureInv, [Next]_vars PROVE CaptureInv'
  OBVIOUS
<1> USE RunCappedAssumption DEF Streams, Processes, Unstarted
<1>0. TypeOK /\ Conserved /\ DrainInv /\ MainInv
  BY DEF CaptureInv
<1>1. ASSUME NEW p \in Processes, NEW s \in Streams, Write(p, s) PROVE CaptureInv'
  <2>1. TypeOK'
    BY <1>0, <1>1 DEF Write, TypeOK
  <2>2. \A t \in Streams : Stored(t)' = Stored(t) /\ buf'[t] = buf[t] /\ truncated'[t] = truncated[t]
    BY <1>0, <1>1 DEF Write, TypeOK, Stored
  <2>3. Conserved'
    BY <1>0, <2>2 DEF Conserved, Smaller
  <2>4. DrainInv' /\ MainInv'
    BY <1>0, <1>1 DEF Write, TypeOK, DrainInv, MainInv, EndOfFile
  <2> QED BY <2>1, <2>3, <2>4 DEF CaptureInv
<1>2. ASSUME NEW p \in Processes, Exit(p) PROVE CaptureInv'
  <2>1. TypeOK'
    BY <1>0, <1>2 DEF Exit, TypeOK
  <2>2. Conserved'
    BY <1>0, <1>2 DEF Exit, Conserved, Stored, Smaller
  <2>3. DrainInv' /\ MainInv'
    BY <1>0, <1>2 DEF Exit, TypeOK, DrainInv, MainInv, EndOfFile
  <2> QED BY <2>1, <2>2, <2>3 DEF CaptureInv
<1>3. CASE Spawn \/ NamespaceEnds
  <2>1. TypeOK'
    BY <1>0, <1>3 DEF Spawn, NamespaceEnds, TypeOK
  <2>2. Conserved'
    BY <1>0, <1>3 DEF Spawn, NamespaceEnds, Conserved, Stored, Smaller
  <2>3. DrainInv' /\ MainInv'
    BY <1>0, <1>3 DEF Spawn, NamespaceEnds, TypeOK, DrainInv, MainInv, EndOfFile
  <2> QED BY <2>1, <2>2, <2>3 DEF CaptureInv
<1>4. ASSUME NEW s \in Streams, ReadByte(s) PROVE CaptureInv'
  <2>1. TypeOK'
    BY <1>0, <1>4 DEF ReadByte, KeepsReading, TypeOK
  <2>2. \A t \in Streams : Stored(t)' = Stored(t) /\ buf'[t] = buf[t] /\ truncated'[t] = truncated[t]
    BY <1>0, <1>4 DEF ReadByte, TypeOK, Stored
  <2>3. Conserved'
    BY <1>0, <2>2 DEF Conserved, Smaller
  <2>4. DrainInv' /\ MainInv'
    BY <1>0, <1>4 DEF ReadByte, KeepsReading, TypeOK, DrainInv, MainInv, EndOfFile
  <2> QED BY <2>1, <2>3, <2>4 DEF CaptureInv
<1>5. ASSUME NEW s \in Streams, StoreChunk(s) PROVE CaptureInv'
  <2>0. /\ chunk[s] \in Nat /\ buf[s] \in 0..Cap /\ Stored(s) \in Nat /\ Cap \in Nat
        /\ buf[s] = Smaller(Cap, Stored(s)) /\ (Stored(s) > Cap => truncated[s])
    BY <1>0 DEF TypeOK, Conserved
  <2>1. Kept(s) \in 0..Cap /\ Kept(s) = Smaller(Cap, Stored(s) + chunk[s])
    BY <2>0 DEF Kept, Smaller
  <2>2. Stored(s) + chunk[s] > Cap => Overflows(s)
    BY <2>0, <2>1 DEF Overflows, Smaller
  <2>3a. truncated' \in [Streams -> BOOLEAN]
    BY <1>0, <1>5, Zenon DEF StoreChunk, TypeOK
  <2>3. TypeOK'
    BY <1>0, <1>5, <2>1, <2>3a DEF StoreChunk, TypeOK
  <2>4. /\ Stored(s)' = Stored(s) + chunk[s] /\ buf'[s] = Kept(s)
        /\ \A t \in Streams \ {s} : Stored(t)' = Stored(t) /\ buf'[t] = buf[t]
    BY <1>0, <1>5 DEF StoreChunk, TypeOK, Stored
  <2>5. /\ truncated[s] \/ Overflows(s) => truncated'[s]
        /\ \A t \in Streams \ {s} : truncated'[t] = truncated[t]
    BY <1>0, <1>5, Zenon DEF StoreChunk, TypeOK
  <2>6. Conserved'
    <3> SUFFICES ASSUME NEW t \in Streams
                 PROVE  /\ Stored(t)' \in Nat
                        /\ buf'[t] = Smaller(Cap, Stored(t)')
                        /\ Stored(t)' > Cap => truncated'[t]
      BY DEF Conserved, Smaller
    <3>1. CASE t = s
      BY <2>0, <2>1, <2>2, <2>4, <2>5, <3>1
    <3>2. CASE t # s
      BY <1>0, <2>4, <2>5, <3>2 DEF Conserved
    <3> QED BY <3>1, <3>2
  <2>7. DrainInv' /\ MainInv'
    BY <1>0, <1>5 DEF StoreChunk, TypeOK, DrainInv, MainInv, EndOfFile
  <2> QED BY <2>3, <2>6, <2>7 DEF CaptureInv
<1>6. ASSUME NEW s \in Streams, EndDrain(s) PROVE CaptureInv'
  <2>1. TypeOK'
    BY <1>0, <1>6 DEF EndDrain, TypeOK
  <2>2. Conserved'
    BY <1>0, <1>6 DEF EndDrain, Conserved, Stored, Smaller
  <2>3. DrainInv' /\ MainInv'
    BY <1>0, <1>6 DEF EndDrain, TypeOK, DrainInv, MainInv, EndOfFile
  <2> QED BY <2>1, <2>2, <2>3 DEF CaptureInv
<1>7. CASE MainStep \/ Expire
  <2>1. TypeOK'
    <3>1. timed_out' \in BOOLEAN
      BY <1>0, <1>7, Zenon
      DEF MainStep, Popen, PopenFails, StartDrains, WaitReturns, Kill, Reap, JoinOut, JoinErr, Expire, TypeOK
    <3> QED
      BY <1>0, <1>7, <3>1
      DEF MainStep, Popen, PopenFails, StartDrains, WaitReturns, Kill, Reap, JoinOut, JoinErr, Expire, others, TypeOK, MainPCs
  <2>2. Conserved'
    BY <1>0, <1>7
    DEF MainStep, Popen, PopenFails, StartDrains, WaitReturns, Kill, Reap, JoinOut, JoinErr, Expire, others,
        Conserved, Stored, Smaller
  <2>3. DrainInv'
    <3>1. CASE Popen \/ PopenFails \/ StartDrains
      BY <1>0, <3>1
      DEF Popen, PopenFails, StartDrains, others, TypeOK, DrainInv, MainInv, EndOfFile
    <3>2. CASE WaitReturns \/ Kill \/ Reap \/ JoinOut \/ JoinErr \/ Expire
      BY <1>0, <3>2
      DEF WaitReturns, Kill, Reap, JoinOut, JoinErr, Expire, others, TypeOK, DrainInv, EndOfFile
    <3> QED BY <1>7, <3>1, <3>2 DEF MainStep
  <2>4. MainInv'
    BY <1>0, <1>7
    DEF MainStep, Popen, PopenFails, StartDrains, WaitReturns, Kill, Reap, JoinOut, JoinErr, Expire, others,
        TypeOK, MainInv, MainPCs
  <2> QED BY <2>1, <2>2, <2>3, <2>4 DEF CaptureInv
<1>8. CASE UNCHANGED vars
  BY <1>0, <1>8
  DEF vars, CaptureInv, TypeOK, Conserved, Stored, Smaller, DrainInv, MainInv, EndOfFile
<1> QED BY <1>1, <1>2, <1>3, <1>4, <1>5, <1>6, <1>7, <1>8 DEF Next, DrainStep

LEMMA Invariant == Spec => []CaptureInv
BY InitInv, StepInv, PTL DEF Spec

(* Every variable keeps its type; the buffers never exceed the cap.        *)
THEOREM CappedTypeCorrect == Spec => []TypeOK
BY Invariant, PTL DEF CaptureInv

(* The result holds all output up to the cap, with a mark when it was cut, *)
(* for every interleaving of writers, drain threads and the timeout.       *)
THEOREM CaptureIsComplete == Spec => []CaptureComplete
<1>1. CaptureInv => CaptureComplete
  <2> SUFFICES ASSUME CaptureInv, main = "returned", NEW s \in Streams
               PROVE  /\ buf[s] = Smaller(Cap, written[s])
                      /\ written[s] > Cap => truncated[s]
    BY DEF CaptureComplete
  <2>1. drain[s] = "ended"
    BY DEF CaptureInv, MainInv, Unstarted, Streams
  <2>2. pipe[s] = 0 /\ chunk[s] = 0 /\ written[s] \in Nat
    BY <2>1 DEF CaptureInv, DrainInv, EndOfFile, TypeOK
  <2>3. Stored(s) = written[s]
    BY <2>2 DEF Stored
  <2> QED BY <2>3 DEF CaptureInv, Conserved
<1> QED BY <1>1, Invariant, PTL

(* No result while a process could still write; one that does not say      *)
(* timed_out is of a command that ended on its own.                        *)
THEOREM ResultIsFinalHolds == Spec => []ResultIsFinal
<1>1. CaptureInv => ResultIsFinal
  <2> SUFFICES ASSUME CaptureInv, main = "returned"
               PROVE  /\ \A p \in Processes : state[p] # "running"
                      /\ timed_out \/ state["child"] = "exited"
    BY DEF ResultIsFinal
  <2>1. drain["stdout"] = "ended"
    BY DEF CaptureInv, MainInv, Unstarted
  <2>2. \A p \in Processes : state[p] # "running"
    BY <2>1 DEF CaptureInv, DrainInv, EndOfFile, Streams
  <2>3. state["child"] \in {"running", "exited"} \/ timed_out
    BY DEF CaptureInv, MainInv, Unstarted, TypeOK, Processes
  <2> QED BY <2>2, <2>3 DEF Processes
<1> QED BY <1>1, Invariant, PTL

-----------------------------------------------------------------------------
(* The two functions. *)

(* Where the function is tells how far _run_capped and the script are.     *)
ScriptInv ==
  /\ tool \in {"run_cmd", "run_python"} /\ working \in Targets
  /\ script \in Scripts /\ step \in Steps
  /\ step \in {"called", "writing"} => main = "starting"
  /\ step = "called" => script = "none"
  /\ step = "writing" => script = "partial"
  /\ tool = "run_cmd" => script = "none" /\ step \notin {"writing", "returning", "raising"}
  /\ tool = "run_python" /\ step \in {"capturing", "returning", "raising"} => script = "written"
  /\ step \in {"returning", "raising", "returned", "raised"} =>
       main \in {"starting", "returned", "not_found", "os_error"}
  /\ step \in {"returned", "raised"} /\ main # "starting" => script # "written"

ToolInv == CaptureInv /\ ResultIsFinal /\ ScriptInv

LEMMA StoppedChild ==
  ASSUME CaptureInv, ResultIsFinal, main \in {"starting", "returned", "not_found", "os_error"}
  PROVE  state["child"] # "running"
BY DEF CaptureInv, MainInv, Unstarted, ResultIsFinal, Processes

(* Every step of a tool is a step of _run_capped or none.                  *)
LEMMA ToolStep == ToolNext => [Next]_vars
BY DEF ToolNext, FunctionStep, Capture, CallCmd, CreateScript, CreateFails, WriteScript,
       WriteFails, CmdEnds, SnippetEnds, RemoveScript

LEMMA ToolInitInv == ToolInit => ScriptInv
BY DEF ToolInit, Init, ScriptInv, Scripts, Steps

LEMMA ToolStepInv == ScriptInv /\ [ToolNext]_<<vars, tool_vars>> => ScriptInv'
<1> SUFFICES ASSUME ScriptInv, [ToolNext]_<<vars, tool_vars>> PROVE ScriptInv'
  OBVIOUS
<1> USE DEF ScriptInv, Scripts, Steps
<1>1. CASE CallCmd \/ CreateScript \/ CreateFails \/ WriteScript \/ WriteFails
  BY <1>1 DEF CallCmd, CreateScript, CreateFails, WriteScript, WriteFails, vars
<1>2. CASE CmdEnds \/ SnippetEnds
  BY <1>2 DEF CmdEnds, SnippetEnds, vars
<1>3. CASE RemoveScript
  BY <1>3 DEF RemoveScript, vars
<1>4. CASE Capture
  BY <1>4 DEF Capture, tool_vars
<1>5. CASE UNCHANGED <<vars, tool_vars>>
  BY <1>5 DEF vars, tool_vars
<1> QED BY <1>1, <1>2, <1>3, <1>4, <1>5 DEF ToolNext, FunctionStep

(* run_cmd and run_python implement _run_capped: around it they neither    *)
(* start nor end anything it knows of.                                     *)
THEOREM ToolImplementsCapture == ToolSpec => Spec
<1>1. ToolInit => Init
  BY DEF ToolInit
<1>2. [ToolNext]_<<vars, tool_vars>> => [Next]_vars
  BY ToolStep DEF vars
<1> QED BY <1>1, <1>2, PTL DEF ToolSpec, Spec

LEMMA ToolInvariant == ToolSpec => []ToolInv
<1>1. ToolSpec => []ScriptInv
  BY ToolInitInv, ToolStepInv, PTL DEF ToolSpec
<1> QED
  BY <1>1, ToolImplementsCapture, Invariant, ResultIsFinalHolds, PTL DEF ToolInv

(* Every variable keeps its type.                                          *)
THEOREM ToolTypeCorrect == ToolSpec => []ToolTypeOK
<1>1. ToolInv => ToolTypeOK
  BY DEF ToolInv, CaptureInv, ScriptInv, ToolTypeOK
<1> QED BY <1>1, ToolInvariant, PTL

(* What a tool returns is all of the command's output up to the cap, and   *)
(* final.                                                                  *)
THEOREM ToolResultHolds == ToolSpec => [](CaptureComplete /\ ResultIsFinal)
BY ToolImplementsCapture, CaptureIsComplete, ResultIsFinalHolds, PTL

(* A script is whole and in place for as long as its interpreter runs.     *)
THEOREM ScriptOutlivesHolds == ToolSpec => []ScriptOutlivesInterpreter
<1>1. ToolInv => ScriptOutlivesInterpreter
  <2> SUFFICES ASSUME ToolInv, tool = "run_python", state["child"] = "running"
               PROVE  script = "written"
    BY DEF ScriptOutlivesInterpreter
  <2>1. main \notin {"starting", "returned", "not_found", "os_error"}
    BY StoppedChild DEF ToolInv
  <2> QED BY <2>1 DEF ToolInv, ScriptInv, Steps
<1> QED BY <1>1, ToolInvariant, PTL

(* Once the interpreter was to be started, no script stays behind.         *)
THEOREM ScriptRemovedHolds == ToolSpec => []ScriptRemoved
<1>1. ToolInv => ScriptRemoved
  BY DEF ToolInv, ScriptInv, ScriptRemoved
<1> QED BY <1>1, ToolInvariant, PTL
-----------------------------------------------------------------------------
(* Termination, but for the waiting.  ToolEnds is checked by TLC; here     *)
(* every step of anyone uses up some work.  A byte is written, read and    *)
(* stored; a process starts and ends, and so does a thread.                *)
OfDrain(s) == CASE drain[s] = "unstarted" -> 2 [] drain[s] = "reading" -> 1 [] drain[s] = "ended" -> 0

OfStream(s) ==
  3 * todo["child"][s] + 3 * todo["descendant"][s] + 2 * pipe[s] + chunk[s] + OfDrain(s)

OfProcess(p) ==
  CASE state[p] = "absent" -> 2 [] state[p] = "running" -> 1 [] state[p] \in {"exited", "killed"} -> 0

OfMain == CASE main = "starting" -> 7
            [] main = "spawned" -> 6
            [] main = "waiting" -> 5
            [] main = "expired" -> 4
            [] main = "reaping" -> 3
            [] main = "joining_out" -> 2
            [] main = "joining_err" -> 1
            [] main \in {"returned", "not_found", "os_error"} -> 0

WorkLeft ==
  OfStream("stdout") + OfStream("stderr") + OfProcess("child") + OfProcess("descendant") + OfMain

(* Every part of it is a natural number.                                   *)
PartsAreNatural ==
  /\ \A s \in Streams : OfStream(s) \in Nat
  /\ \A p \in Processes : OfProcess(p) \in Nat
  /\ OfMain \in Nat

LEMMA WorkIsNatural == TypeOK => PartsAreNatural
<1> SUFFICES ASSUME TypeOK PROVE PartsAreNatural
  OBVIOUS
<1>1. ASSUME NEW s \in Streams PROVE OfStream(s) \in Nat
  <2>1. OfDrain(s) \in Nat
    BY DEF TypeOK, OfDrain
  <2>2. todo["child"][s] \in Nat /\ todo["descendant"][s] \in Nat
    BY DEF TypeOK, Processes
  <2>3. pipe[s] \in Nat /\ chunk[s] \in Nat
    BY RunCappedAssumption DEF TypeOK
  <2> QED BY <2>1, <2>2, <2>3 DEF OfStream
<1>2. ASSUME NEW p \in Processes PROVE OfProcess(p) \in Nat
  BY DEF TypeOK, OfProcess
<1>3. OfMain \in Nat
  BY DEF TypeOK, MainPCs, OfMain
<1> QED BY <1>1, <1>2, <1>3 DEF PartsAreNatural

(* What a step leaves alone, and what it uses up.                          *)
NothingGrows ==
  /\ \A s \in Streams : OfStream(s)' <= OfStream(s)
  /\ \A p \in Processes : OfProcess(p)' <= OfProcess(p)
  /\ OfMain' <= OfMain

SomethingShrinks ==
  \/ \E s \in Streams : OfStream(s)' < OfStream(s)
  \/ \E p \in Processes : OfProcess(p)' < OfProcess(p)
  \/ OfMain' < OfMain

LEMMA WorkDone ==
  PartsAreNatural /\ PartsAreNatural' /\ NothingGrows /\ SomethingShrinks => WorkLeft' < WorkLeft
<1> SUFFICES ASSUME PartsAreNatural, PartsAreNatural', NothingGrows, SomethingShrinks
             PROVE  WorkLeft' < WorkLeft
  OBVIOUS
<1>1. /\ OfStream("stdout") \in Nat /\ OfStream("stderr") \in Nat
      /\ OfProcess("child") \in Nat /\ OfProcess("descendant") \in Nat /\ OfMain \in Nat
  BY DEF PartsAreNatural, Streams, Processes
<1>2. /\ OfStream("stdout")' \in Nat /\ OfStream("stderr")' \in Nat
      /\ OfProcess("child")' \in Nat /\ OfProcess("descendant")' \in Nat /\ OfMain' \in Nat
  BY DEF PartsAreNatural, Streams, Processes
<1>3. \A a, b, c, d, e, v, w, x, y, z \in Nat :
        /\ v <= a /\ w <= b /\ x <= c /\ y <= d /\ z <= e
        /\ v < a \/ w < b \/ x < c \/ y < d \/ z < e
        => v + w + x + y + z < a + b + c + d + e
  OBVIOUS
<1>4. /\ OfStream("stdout")' <= OfStream("stdout") /\ OfStream("stderr")' <= OfStream("stderr")
      /\ OfProcess("child")' <= OfProcess("child")
      /\ OfProcess("descendant")' <= OfProcess("descendant")
      /\ OfMain' <= OfMain
      /\ \/ OfStream("stdout")' < OfStream("stdout") \/ OfStream("stderr")' < OfStream("stderr")
         \/ OfProcess("child")' < OfProcess("child")
         \/ OfProcess("descendant")' < OfProcess("descendant")
         \/ OfMain' < OfMain
  BY DEF NothingGrows, SomethingShrinks, Streams, Processes
<1> QED BY <1>1, <1>2, <1>3, <1>4, Zenon DEF WorkLeft

LEMMA StepWorks == CaptureInv /\ CaptureInv' /\ Next => NothingGrows /\ SomethingShrinks
<1>p. (TypeOK => PartsAreNatural) /\ (TypeOK' => PartsAreNatural')
  BY WorkIsNatural, PTL
<1> SUFFICES ASSUME CaptureInv, CaptureInv', Next PROVE NothingGrows /\ SomethingShrinks
  OBVIOUS
<1>0. TypeOK /\ TypeOK' /\ MainInv
  BY DEF CaptureInv
<1>n. PartsAreNatural /\ PartsAreNatural'
  BY <1>0, <1>p
<1>1. ASSUME NEW p \in Processes, NEW s \in Streams, Write(p, s)
      PROVE NothingGrows /\ SomethingShrinks
  <2>1. /\ todo \in [Processes -> [Streams -> Nat]] /\ pipe \in [Streams -> Int] /\ s \in Streams
        /\ p \in Processes /\ Processes = {"child", "descendant"} /\ chunk[s] \in Int
    BY <1>0, <1>1, RunCappedAssumption DEF TypeOK, Processes
  <2>2. /\ todo'[p][s] = todo[p][s] - 1 /\ pipe'[s] = pipe[s] + 1 /\ chunk'[s] = chunk[s]
        /\ \A q \in Processes : q # p => todo'[q][s] = todo[q][s]
    BY <1>1, <2>1 DEF Write
  <2>3. OfDrain(s)' = OfDrain(s) /\ OfDrain(s) \in Int
    BY <1>0, <1>1 DEF Write, OfDrain, TypeOK
  <2>4. OfStream(s)' < OfStream(s)
    <3>1. /\ todo["child"][s] \in Int /\ todo["descendant"][s] \in Int /\ pipe[s] \in Int
      BY <1>0, RunCappedAssumption DEF TypeOK, Processes
    <3>2. CASE p = "child"
      BY <2>1, <2>2, <2>3, <3>1, <3>2 DEF OfStream
    <3>3. CASE p = "descendant"
      BY <2>1, <2>2, <2>3, <3>1, <3>3 DEF OfStream
    <3> QED BY <2>1, <3>2, <3>3
  <2>5. ASSUME NEW t \in Streams, t # s PROVE OfStream(t)' = OfStream(t)
    <3>1. /\ todo'["child"][t] = todo["child"][t] /\ todo'["descendant"][t] = todo["descendant"][t]
          /\ pipe'[t] = pipe[t] /\ chunk'[t] = chunk[t] /\ drain'[t] = drain[t]
      BY <1>1, <2>1, <2>5 DEF Write
    <3> QED BY <3>1 DEF OfStream, OfDrain
  <2>6. OfMain' = OfMain /\ \A q \in Processes : OfProcess(q)' = OfProcess(q)
    BY <1>1 DEF Write, OfMain, OfProcess
  <2>7. ASSUME NEW t \in Streams PROVE OfStream(t)' <= OfStream(t)
    <3>1. OfStream(t) \in Nat /\ OfStream(t)' \in Nat
      BY <1>n DEF PartsAreNatural
    <3>2. CASE t = s
      BY <2>4, <3>1, <3>2
    <3>3. CASE t # s
      BY <2>5, <3>1, <3>3
    <3> QED BY <3>2, <3>3
  <2>8. OfMain' <= OfMain /\ \A q \in Processes : OfProcess(q)' <= OfProcess(q)
    BY <1>n, <2>6 DEF PartsAreNatural
  <2> QED BY <2>4, <2>7, <2>8, Zenon DEF NothingGrows, SomethingShrinks
<1>2. CASE (\E p \in Processes : Exit(p)) \/ Spawn \/ NamespaceEnds
  <2>1. PICK p \in Processes :
           \/ state[p] = "absent" /\ state' = [state EXCEPT ![p] = "running"]
           \/ state[p] = "running" /\ state' = [state EXCEPT ![p] = "exited"]
           \/ state[p] = "running" /\ state' = [state EXCEPT ![p] = "killed"]
    BY <1>2 DEF Exit, Spawn, NamespaceEnds, Processes
  <2>2. OfProcess(p)' < OfProcess(p) /\ \A q \in Processes : q # p => OfProcess(q)' = OfProcess(q)
    BY <1>0, <2>1 DEF TypeOK, OfProcess
  <2>3. OfMain' = OfMain /\ \A s \in Streams : OfStream(s)' = OfStream(s)
    BY <1>2 DEF Exit, Spawn, NamespaceEnds, OfMain, OfStream, OfDrain
  <2>4. ASSUME NEW q \in Processes PROVE OfProcess(q)' <= OfProcess(q)
    BY <1>n, <2>2 DEF PartsAreNatural
  <2>5. OfMain' <= OfMain /\ \A s \in Streams : OfStream(s)' <= OfStream(s)
    BY <1>n, <2>3 DEF PartsAreNatural
  <2> QED BY <2>2, <2>4, <2>5, Zenon DEF NothingGrows, SomethingShrinks
<1>3. ASSUME NEW s \in Streams, DrainStep(s) PROVE NothingGrows /\ SomethingShrinks
  <2>1. /\ pipe[s] \in Int /\ chunk[s] \in Int /\ todo["child"][s] \in Int
        /\ todo["descendant"][s] \in Int
    BY <1>0, RunCappedAssumption DEF TypeOK, Processes
  <2>2. \/ /\ pipe'[s] = pipe[s] - 1 /\ chunk'[s] = chunk[s] + 1 /\ OfDrain(s)' = OfDrain(s)
        \/ /\ pipe'[s] = pipe[s] /\ chunk'[s] < chunk[s] /\ chunk'[s] \in Int
           /\ OfDrain(s)' = OfDrain(s)
        \/ /\ pipe'[s] = pipe[s] /\ chunk'[s] = chunk[s] /\ OfDrain(s)' < OfDrain(s)
    BY <1>0, <1>3 DEF DrainStep, ReadByte, StoreChunk, EndDrain, TypeOK, OfDrain
  <2>3. OfDrain(s) \in Int /\ OfDrain(s)' \in Int /\ todo' = todo
    BY <1>0, <1>3 DEF DrainStep, ReadByte, StoreChunk, EndDrain, TypeOK, OfDrain
  <2>4. OfStream(s)' < OfStream(s)
    BY <2>1, <2>2, <2>3 DEF OfStream
  <2>5. ASSUME NEW t \in Streams, t # s PROVE OfStream(t)' = OfStream(t)
    <3>1. todo' = todo /\ pipe'[t] = pipe[t] /\ chunk'[t] = chunk[t] /\ drain'[t] = drain[t]
      BY <1>0, <1>3, <2>5 DEF DrainStep, ReadByte, StoreChunk, EndDrain, TypeOK
    <3> QED BY <3>1 DEF OfStream, OfDrain
  <2>6. OfMain' = OfMain /\ \A q \in Processes : OfProcess(q)' = OfProcess(q)
    BY <1>3 DEF DrainStep, ReadByte, StoreChunk, EndDrain, OfMain, OfProcess
  <2>7. ASSUME NEW t \in Streams PROVE OfStream(t)' <= OfStream(t)
    <3>1. OfStream(t) \in Nat /\ OfStream(t)' \in Nat
      BY <1>n DEF PartsAreNatural
    <3>2. CASE t = s
      BY <2>4, <3>1, <3>2
    <3>3. CASE t # s
      BY <2>5, <3>1, <3>3
    <3> QED BY <3>2, <3>3
  <2>8. OfMain' <= OfMain /\ \A q \in Processes : OfProcess(q)' <= OfProcess(q)
    BY <1>n, <2>6 DEF PartsAreNatural
  <2> QED BY <2>4, <2>7, <2>8, Zenon DEF NothingGrows, SomethingShrinks
<1>4. CASE MainStep \/ Expire
  <2>1. OfMain' < OfMain
    BY <1>0, <1>4 DEF MainStep, Popen, PopenFails, StartDrains, WaitReturns, Expire, Kill, Reap,
                      JoinOut, JoinErr, OfMain
  <2>2. ASSUME NEW p \in Processes PROVE OfProcess(p)' <= OfProcess(p)
    <3>1. \/ state'[p] = state[p]
          \/ state[p] = "absent" /\ state'[p] = "running"
          \/ state[p] = "running" /\ state'[p] = "killed"
      BY <1>0, <1>4 DEF MainStep, Popen, PopenFails, StartDrains, WaitReturns, Expire, Kill, Reap,
                        JoinOut, JoinErr, MainInv, Unstarted, TypeOK, Processes
    <3> QED BY <1>0, <3>1 DEF OfProcess, TypeOK
  <2>3. ASSUME NEW s \in Streams PROVE OfStream(s)' <= OfStream(s)
    <3>1. todo' = todo /\ pipe' = pipe /\ chunk' = chunk
      BY <1>4 DEF MainStep, Popen, PopenFails, StartDrains, WaitReturns, Expire, Kill, Reap,
                  JoinOut, JoinErr, others
    <3>2. \/ drain'[s] = drain[s]
          \/ drain[s] = "unstarted" /\ drain'[s] = "reading"
      BY <1>0, <1>4 DEF MainStep, Popen, PopenFails, StartDrains, WaitReturns, Expire, Kill, Reap,
                        JoinOut, JoinErr, others, MainInv
    <3>3. OfDrain(s)' <= OfDrain(s) /\ OfDrain(s)' \in Int /\ OfDrain(s) \in Int
      BY <1>0, <3>2 DEF OfDrain, TypeOK
    <3>4. /\ pipe[s] \in Int /\ chunk[s] \in Int /\ todo["child"][s] \in Int
          /\ todo["descendant"][s] \in Int
      BY <1>0, RunCappedAssumption DEF TypeOK, Processes
    <3> QED BY <3>1, <3>3, <3>4 DEF OfStream
  <2>4. OfMain' <= OfMain
    BY <1>n, <2>1 DEF PartsAreNatural
  <2> QED BY <2>1, <2>2, <2>3, <2>4, Zenon DEF NothingGrows, SomethingShrinks
<1> QED BY <1>1, <1>2, <1>3, <1>4 DEF Next

(* What is left to be done is a number, and every step of the command, of  *)
(* what it leaves behind, of a drain thread or of the caller makes it      *)
(* smaller: a call that does not return waits, it does not run in circles. *)
THEOREM CallWindsDown == Spec => [](WorkLeft \in Nat) /\ [][WorkLeft' < WorkLeft]_vars
<1>1. CaptureInv => PartsAreNatural
  BY WorkIsNatural DEF CaptureInv
<1>2. PartsAreNatural => WorkLeft \in Nat
  BY DEF PartsAreNatural, WorkLeft, Streams, Processes
<1>3. CaptureInv /\ CaptureInv' /\ PartsAreNatural' /\ [Next]_vars => [WorkLeft' < WorkLeft]_vars
  BY <1>1, StepWorks, WorkDone
<1> QED BY <1>1, <1>2, <1>3, InitInv, StepInv, PTL DEF Spec
(* The function around the call: where it is, is what it has left to do.   *)
OfFunction ==
  CASE step = "called" -> 4 [] step = "writing" -> 3 [] step = "capturing" -> 2
    [] step \in {"returning", "raising"} -> 1 [] step \in {"returned", "raised"} -> 0

ToolWorkLeft == WorkLeft + OfFunction

(* So run_cmd and run_python go in no circles either: whatever step they   *)
(* take, or anything of what they started, there is less left to do.       *)
THEOREM ToolWindsDown ==
  ToolSpec => /\ [](ToolWorkLeft \in Nat)
              /\ [][ToolWorkLeft' < ToolWorkLeft]_<<vars, tool_vars>>
<1>1. ToolInv /\ WorkLeft \in Nat => ToolWorkLeft \in Nat
  <2> SUFFICES ASSUME ToolInv, WorkLeft \in Nat PROVE ToolWorkLeft \in Nat
    OBVIOUS
  <2>1. OfFunction \in Nat
    BY DEF ToolInv, ScriptInv, Steps, OfFunction
  <2> QED BY <2>1 DEF ToolWorkLeft
<1>2. ToolInv /\ WorkLeft \in Nat /\ (WorkLeft \in Nat)' /\ [WorkLeft' < WorkLeft]_vars
        /\ [ToolNext]_<<vars, tool_vars>>
      => [ToolWorkLeft' < ToolWorkLeft]_<<vars, tool_vars>>
  <2> SUFFICES ASSUME ToolInv, WorkLeft \in Nat, WorkLeft' \in Nat, [WorkLeft' < WorkLeft]_vars,
                      ToolNext, ~ UNCHANGED <<vars, tool_vars>>
               PROVE  ToolWorkLeft' < ToolWorkLeft
    OBVIOUS
  <2>0. OfFunction \in Nat
    BY DEF ToolInv, ScriptInv, Steps, OfFunction
  <2>a. \A a, b, c, d \in Nat : a <= b /\ c <= d /\ (a < b \/ c < d) => a + c < b + d
    OBVIOUS
  <2>1. CASE Capture
    <3>1. OfFunction' = OfFunction
      BY <2>1 DEF Capture, tool_vars, OfFunction
    <3>2. ~ UNCHANGED vars
      BY <2>1 DEF Capture
    <3>3. WorkLeft' < WorkLeft
      BY <3>2, Zenon
    <3>4. WorkLeft' <= WorkLeft /\ OfFunction' <= OfFunction /\ OfFunction' \in Nat
      BY <2>0, <3>1, <3>3
    <3> QED BY <2>0, <2>a, <3>3, <3>4, Zenon DEF ToolWorkLeft
  <2>2. CASE FunctionStep
    <3>1. UNCHANGED vars
      BY <2>2 DEF FunctionStep, CallCmd, CreateScript, CreateFails, WriteScript, WriteFails,
                  CmdEnds, SnippetEnds, RemoveScript
    <3>2. WorkLeft' = WorkLeft
      BY <3>1 DEF vars, WorkLeft, OfStream, OfDrain, OfProcess, OfMain
    <3>3. OfFunction' < OfFunction /\ OfFunction' \in Nat
      BY <2>2 DEF FunctionStep, CallCmd, CreateScript, CreateFails, WriteScript, WriteFails,
                  CmdEnds, SnippetEnds, RemoveScript, OfFunction
    <3>4. WorkLeft' <= WorkLeft /\ OfFunction' <= OfFunction
      BY <2>0, <3>2, <3>3
    <3> QED BY <2>0, <2>a, <3>3, <3>4, Zenon DEF ToolWorkLeft
  <2> QED BY <2>1, <2>2 DEF ToolNext
<1> QED
  BY <1>1, <1>2, ToolInvariant, ToolImplementsCapture, CallWindsDown, PTL DEF ToolSpec
=============================================================================
