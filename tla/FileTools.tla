------------------------------- MODULE FileTools -------------------------------
(***************************************************************************)
(* One read_file or write_file call that the rules allow, from ai_exec's   *)
(* main to what the model is shown of it: read_file and write_file of      *)
(* plugins/module_utils/sandbox.py, the module's answer, _coerce_result of *)
(* orchestrator.py and render_tool_result of prompts.py.                   *)
(*                                                                         *)
(* A text is its length and whether a "[truncated at ...]" line ends it.   *)
(* The file is the target's; Ansible's connection may be lost at any time. *)
(***************************************************************************)
EXTENDS Integers

CONSTANTS
  READ_FILE_MAX_BYTES,
  SHOWN_CHARS,           \* of stdout in render_tool_result
  Sizes                  \* lengths of files and contents

ASSUME FileToolsAssumption ==
  /\ READ_FILE_MAX_BYTES \in Nat /\ SHOWN_CHARS \in Nat \ {0}
  /\ Sizes \subseteq Nat /\ Sizes # {}

VARIABLES
  tool, check_mode,
  content,     \* length of what write_file is to write
  file,        \* the file of the call's path: whose content, how much of it
  was,         \* history: the file before the call
  pc,          \* where the call is, see PCs
  out,         \* stdout of the tool
  exit,        \* what the module's answer says of the end
  changed,     \* the module's changed
  shown        \* what the model is shown: stdout and is_error

vars == <<tool, check_mode, content, file, was, pc, out, exit, changed, shown>>

PCs == {"called",
        "opened",     \* the file to write is open, and empty
        "answered",   \* the module has left
        "shown"}

(* What of the module's answer _coerce_result looks at: the exit of a      *)
(* result, a failure, which has none, or no answer but an exception.       *)
FAILED == -2
RAISED == -3

NoText == [length |-> 0, marked |-> FALSE]
Nothing == [text |-> NoText, is_error |-> FALSE]

Before == [of : {"absent"}, length : {0}] \cup [of : {"old"}, length : Sizes]

Init ==
  /\ tool \in {"read_file", "write_file"} /\ check_mode \in BOOLEAN
  /\ content \in Sizes
  /\ file \in Before
  /\ was = file
  /\ pc = "called" /\ out = NoText /\ exit = 0 /\ changed = FALSE /\ shown = Nothing

call == <<tool, check_mode, content, was>>

(* The module answers; only a write that went well has changed anything.   *)
Answer(e, text) ==
  /\ pc' = "answered"
  /\ exit' = e /\ out' = text
  /\ changed' = (tool = "write_file" /\ e = 0)
  /\ UNCHANGED <<call, shown>>

-----------------------------------------------------------------------------
(* In check mode the answer is an empty success.                           *)
CheckMode ==
  /\ pc = "called" /\ check_mode
  /\ pc' = "answered"
  /\ UNCHANGED <<call, file, out, exit, changed, shown>>

(* One byte more than is kept is read, so as to know of the rest.          *)
Read_NoLookahead(n) ==
  LET data == IF n > READ_FILE_MAX_BYTES THEN READ_FILE_MAX_BYTES ELSE n
  IN  [length |-> data, marked |-> data > READ_FILE_MAX_BYTES]
Read(n) ==
  LET data == IF n > READ_FILE_MAX_BYTES + 1 THEN READ_FILE_MAX_BYTES + 1 ELSE n
  IN  IF data > READ_FILE_MAX_BYTES
      THEN [length |-> READ_FILE_MAX_BYTES, marked |-> TRUE]
      ELSE [length |-> data, marked |-> FALSE]

ReadFile ==
  /\ pc = "called" /\ ~check_mode /\ tool = "read_file"
  /\ UNCHANGED file
  /\ IF file.of = "absent" THEN Answer(2, NoText)
     ELSE \/ Answer(0, Read(file.length))
          \/ \E e \in {13, 5} : Answer(e, NoText)

-----------------------------------------------------------------------------
(* write_file *)

CannotOpen ==
  /\ pc = "called" /\ ~check_mode /\ tool = "write_file"
  /\ UNCHANGED file
  /\ Answer(5, NoText)

(* open(path, "w"): the old content is gone.                               *)
OpenForWriting ==
  /\ pc = "called" /\ ~check_mode /\ tool = "write_file"
  /\ file' = [of |-> "new", length |-> 0]
  /\ pc' = "opened"
  /\ UNCHANGED <<call, out, exit, changed, shown>>

WriteContent ==
  /\ pc = "opened"
  /\ file' = [file EXCEPT !.length = content]
  /\ Answer(0, NoText)

(* A full disk after some of it, which write or close raises.              *)
WriteFails ==
  /\ pc = "opened" /\ content > 0
  /\ \E n \in 0..(content - 1) : file' = [file EXCEPT !.length = n]
  /\ Answer(5, NoText)

(* UnicodeEncodeError is no OSError: the module fails.                     *)
CannotEncode ==
  /\ pc = "opened" /\ content > 0
  /\ UNCHANGED file
  /\ Answer(FAILED, NoText)

(* The connection is lost, before, during or after what the module does,   *)
(* which may go on alone: Ansible raises or says the host is unreachable.  *)
ConnectionLost ==
  /\ pc \in {"called", "opened", "answered"}
  /\ pc' = "answered"
  /\ exit' \in {FAILED, RAISED} /\ out' = NoText
  /\ IF pc = "opened" THEN \E n \in 0..content : file' = [file EXCEPT !.length = n]
                      ELSE UNCHANGED file
  /\ UNCHANGED <<call, changed, shown>>

-----------------------------------------------------------------------------
(* Back in run_agent *)

coerced_NoneIsSuccess == IF exit \in {FAILED, RAISED} THEN 0 ELSE exit
coerced == CASE exit = FAILED -> -1 [] exit = RAISED -> 1 [] OTHER -> exit

(* out[:4000]: the line of the tool goes with what is cut.                 *)
render(text) ==
  IF text.length >= SHOWN_CHARS THEN [length |-> SHOWN_CHARS, marked |-> FALSE] ELSE text

Show ==
  /\ pc = "answered"
  /\ shown' = [text |-> render(out), is_error |-> coerced # 0]
  /\ pc' = "shown"
  /\ UNCHANGED <<call, file, out, exit, changed>>

Next ==
  \/ CheckMode \/ ReadFile \/ CannotOpen \/ OpenForWriting \/ WriteContent
  \/ WriteFails \/ CannotEncode \/ ConnectionLost \/ Show

Spec == Init /\ [][Next]_vars

-----------------------------------------------------------------------------
(* Properties. *)


(* A write the model is told succeeded, or the module calls changed, left  *)
(* the whole content in the file: the full disk, the unencodable text and  *)
(* the lost connection that emptied or cut it are all told as errors.      *)
(* (In check mode every call is told to have succeeded.)                   *)
SuccessIsWhole ==
  (tool = "write_file" /\ ~check_mode /\ pc = "shown" /\ (changed \/ ~shown.is_error)) =>
    file = [of |-> "new", length |-> content]

(* What the module answers of a file is all of it or ends in the line that *)
(* says it is not, at the boundary of READ_FILE_MAX_BYTES too.             *)
CutIsMarked ==
  (tool = "read_file" /\ ~check_mode /\ pc = "answered" /\ exit = 0) =>
    out.length = file.length \/ out.marked
=============================================================================
