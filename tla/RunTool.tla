-------------------------------- MODULE RunTool --------------------------------
(***************************************************************************)
(* run_cmd and run_python of plugins/module_utils/sandbox.py around        *)
(* _run_capped: the isolation that is chosen, the exceptions of Popen, and *)
(* the temporary script a snippet is run from.                             *)
(*                                                                         *)
(* The isolation tools are external, modelled from the flags _wrap gives   *)
(* them.                                                                   *)
(***************************************************************************)
EXTENDS RunCapped

CONSTANT Targets   \* which isolation tools work, on the targets considered

ASSUME RunToolAssumption == Targets \subseteq SUBSET {"bwrap", "firejail", "nsjail"}

VARIABLES
  tool,      \* the function that was called: "run_cmd" or "run_python"
  working,   \* the isolation tools that are installed and pass their probe
  script,    \* the temporary file, see Scripts
  step       \* where the function is, see Steps

tool_vars == <<tool, working, script, step>>

Scripts == {"none",      \* not created yet
            "partial",   \* created, without the whole code
            "written",
            "removed",
            "stuck"}     \* os.unlink failed

Steps == {"called", "writing",
          "capturing",                   \* in _run_capped
          "returning", "raising",        \* in the finally of run_python
          "returned", "raised"}

-----------------------------------------------------------------------------
(* The first that works, in this order; otherwise nothing is wrapped.      *)
detect_isolation(tools) ==
  CASE "bwrap" \in tools -> "bwrap"
    [] "bwrap" \notin tools /\ "firejail" \in tools -> "firejail"
    [] tools = {"nsjail"} -> "nsjail"
    [] tools = {} -> "rlimit"

isolation == detect_isolation(working)

(* _wrap has a prefix for two of them.                                     *)
Wrapped == isolation \in {"bwrap", "firejail"}

(* bwrap's pid namespace contains what the command leaves behind, nothing  *)
(* does without a prefix, and firejail may.                                *)
Contains ==
  /\ isolation = "bwrap" => contained
  /\ ~Wrapped => ~contained

ToolInit ==
  /\ Init
  /\ tool \in {"run_cmd", "run_python"}
  /\ working \in Targets /\ Contains
  /\ script = "none" /\ step = "called"

-----------------------------------------------------------------------------
CallCmd ==
  /\ step = "called" /\ tool = "run_cmd"
  /\ step' = "capturing"
  /\ UNCHANGED <<vars, tool, working, script>>

(* NamedTemporaryFile(delete=False).                                       *)
CreateScript ==
  /\ step = "called" /\ tool = "run_python"
  /\ script' = "partial"
  /\ step' = "writing"
  /\ UNCHANGED <<vars, tool, working>>

(* No file can be created: OSError out of run_python.                      *)
CreateFails ==
  /\ step = "called" /\ tool = "run_python"
  /\ step' = "raised"
  /\ UNCHANGED <<vars, tool, working, script>>

WriteScript ==
  /\ step = "writing"
  /\ script' = "written"
  /\ step' = "capturing"
  /\ UNCHANGED <<vars, tool, working>>

(* A full disk, or code the file's encoding cannot express: the exception  *)
(* is raised ahead of the try whose finally removes the script.            *)
WriteFails ==
  /\ step = "writing"
  /\ step' = "raised"
  /\ UNCHANGED <<vars, tool, working, script>>

(* Only an executable that is not wrapped can be missing for Popen: that   *)
(* of the prefix was probed, and the interpreter is running.               *)
Capture ==
  /\ step = "capturing"
  /\ Next
  /\ main' = "not_found" => ~Wrapped /\ tool = "run_cmd"
  /\ UNCHANGED tool_vars

(* run_cmd turns FileNotFoundError into a result with exit 127.            *)
CmdEnds ==
  /\ step = "capturing" /\ tool = "run_cmd"
  /\ \/ main \in {"returned", "not_found"} /\ step' = "returned"
     \/ main = "os_error" /\ step' = "raised"
  /\ UNCHANGED <<vars, tool, working, script>>

SnippetEnds_OnReturnOnly ==
  /\ step = "capturing" /\ tool = "run_python"
  /\ \/ main = "returned" /\ step' = "returning"
     \/ main \in {"not_found", "os_error"} /\ step' = "raised"
  /\ UNCHANGED <<vars, tool, working, script>>
SnippetEnds_AtTimeout ==
  /\ step = "capturing" /\ tool = "run_python"
  /\ \/ (main = "returned" \/ timed_out) /\ step' = "returning"
     \/ main \in {"not_found", "os_error"} /\ step' = "raising"
  /\ UNCHANGED <<vars, tool, working, script>>
SnippetEnds ==
  /\ step = "capturing" /\ tool = "run_python"
  /\ \/ main = "returned" /\ step' = "returning"
     \/ main \in {"not_found", "os_error"} /\ step' = "raising"
  /\ UNCHANGED <<vars, tool, working, script>>

(* The finally: an error of unlink is suppressed.                          *)
RemoveScript ==
  /\ step \in {"returning", "raising"}
  /\ script' \in {"removed", "stuck"}
  /\ step' = IF step = "returning" THEN "returned" ELSE "raised"
  /\ UNCHANGED <<vars, tool, working>>

FunctionStep ==
  \/ CallCmd \/ CreateScript \/ CreateFails \/ WriteScript \/ WriteFails
  \/ CmdEnds \/ SnippetEnds \/ RemoveScript

ToolNext == FunctionStep \/ Capture

ToolSpec == ToolInit /\ [][ToolNext]_<<vars, tool_vars>>

(* Threads are scheduled, a process that can write does, the kernel tears  *)
(* a namespace down.  Nothing makes a process exit, and nothing is assumed *)
(* of the timeout: a command may end long before it.                       *)
During(A) == step = "capturing" /\ A /\ UNCHANGED tool_vars
ToolFairness ==
  /\ WF_<<vars, tool_vars>>(FunctionStep)
  /\ WF_<<vars, tool_vars>>(During(MainStep))
  /\ WF_<<vars, tool_vars>>(During(NamespaceEnds))
  /\ \A s \in Streams : /\ WF_<<vars, tool_vars>>(During(DrainStep(s)))
                       /\ WF_<<vars, tool_vars>>(During(Write("child", s)))

FairToolSpec == ToolSpec /\ ToolFairness

-----------------------------------------------------------------------------
(* Properties. *)

(* Every variable stays in its set.                                        *)
ToolTypeOK ==
  /\ TypeOK
  /\ tool \in {"run_cmd", "run_python"} /\ working \in Targets
  /\ script \in Scripts /\ step \in Steps

(* The script is whole and in place for as long as its interpreter runs,   *)
(* a timeout that has fired included.                                      *)
ScriptOutlivesInterpreter ==
  (tool = "run_python" /\ state["child"] = "running") => script = "written"

(* run_python leaves no script behind once it tried to start its           *)
(* interpreter, also when that fails: it was removed or could not be.      *)
ScriptRemoved ==
  step \in {"returned", "raised"} /\ main # "starting" => script # "written"

(* The call is over, with a result or an exception, once the command has   *)
(* ended or its timeout has fired where descendants are contained, and     *)
(* everywhere when Popen fails.                                            *)
ToolEnds ==
  ((contained /\ (state["child"] = "exited" \/ timed_out)) \/ main \in {"not_found", "os_error"})
    ~> step \in {"returned", "raised"}
=============================================================================
