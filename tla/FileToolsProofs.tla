--------------------------- MODULE FileToolsProofs ---------------------------
(* Theorems about a read_file or write_file call for every limit, every    *)
(* size of file and content, and a connection lost at any time.            *)
EXTENDS FileTools, TLAPS

Texts == [length : Nat, marked : BOOLEAN]

TypeOK ==
  /\ tool \in {"read_file", "write_file"} /\ check_mode \in BOOLEAN
  /\ content \in Nat
  /\ file \in [of : {"absent", "old", "new"}, length : Nat]
  /\ was \in [of : {"absent", "old", "new"}, length : Nat]
  /\ pc \in PCs
  /\ out \in Texts
  /\ exit \in Int /\ changed \in BOOLEAN
  /\ shown \in [text : Texts, is_error : BOOLEAN]

(* What an answer is worth: the module's changed, and an exit of 0 that    *)
(* nobody replaced, are those of a write that was completed; an exit of 0  *)
(* comes with all of the file that was read, or its marked beginning.      *)
AnswerInv ==
  /\ pc \in {"called", "opened"} => ~changed
  /\ pc = "opened" => tool = "write_file" /\ ~check_mode /\ file.of = "new"
  /\ tool = "write_file" /\ ~check_mode /\ pc \in {"answered", "shown"} /\ (changed \/ exit = 0) =>
       file = [of |-> "new", length |-> content]
  /\ tool = "read_file" /\ ~check_mode /\ pc \in {"answered", "shown"} /\ exit = 0 =>
       out.length = file.length \/ out.marked
  /\ pc = "shown" => shown.is_error = (coerced # 0)

FileInv == TypeOK /\ AnswerInv

LEMMA FileInit == Init => FileInv
<1> SUFFICES ASSUME Init PROVE FileInv
  OBVIOUS
<1>1. TypeOK
  <2>1. file \in [of : {"absent", "old", "new"}, length : Nat] /\ content \in Nat
    <3>1. content \in Nat /\ Sizes \subseteq Nat
      BY FileToolsAssumption DEF Init
    <3>2. CASE file \in [of : {"absent"}, length : {0}]
      BY <3>1, <3>2
    <3>3. CASE file \in [of : {"old"}, length : Sizes]
      BY <3>1, <3>3
    <3> QED BY <3>1, <3>2, <3>3 DEF Init, Before
  <2>2. out \in Texts /\ shown \in [text : Texts, is_error : BOOLEAN]
    BY DEF Init, Texts, NoText, Nothing
  <2>3. 0 \in Int /\ FALSE \in BOOLEAN
    OBVIOUS
  <2> QED BY <2>1, <2>2, <2>3 DEF Init, TypeOK, PCs
<1>2. AnswerInv
  BY DEF Init, AnswerInv
<1> QED BY <1>1, <1>2 DEF FileInv

(* A text that was cut is marked.                                          *)
LEMMA ReadFacts ==
  ASSUME NEW n \in Nat
  PROVE  Read(n) \in Texts /\ (Read(n).length = n \/ Read(n).marked)
BY FileToolsAssumption DEF Read, Texts

LEMMA FileStep == FileInv /\ [Next]_vars => FileInv'
<1> SUFFICES ASSUME TypeOK, AnswerInv, [Next]_vars PROVE FileInv'
  BY DEF FileInv
<1> USE DEF PCs
<1>1. CASE CheckMode
  BY <1>1 DEF CheckMode, call, FileInv, TypeOK, AnswerInv
<1>2. CASE ReadFile
  <2>1. PICK e \in Int, text \in Texts : /\ Answer(e, text)
                                         /\ e = 0 => text.length = file.length \/ text.marked
    <3>1. file.length \in Nat
      BY DEF TypeOK
    <3>2. NoText \in Texts
      BY DEF NoText, Texts
    <3> QED BY <1>2, <3>1, <3>2, ReadFacts DEF ReadFile
  <2>2. /\ pc = "called" /\ ~check_mode /\ tool = "read_file" /\ file' = file
        /\ changed' = FALSE
    BY <1>2, <2>1 DEF ReadFile, Answer
  <2> QED BY <2>1, <2>2 DEF Answer, call, FileInv, TypeOK, AnswerInv
<1>3. CASE CannotOpen
  BY <1>3 DEF CannotOpen, Answer, call, NoText, Texts, FileInv, TypeOK, AnswerInv
<1>4. CASE OpenForWriting
  BY <1>4 DEF OpenForWriting, call, FileInv, TypeOK, AnswerInv
<1>5. CASE WriteContent
  <2>1. file' = [of |-> "new", length |-> content]
    BY <1>5 DEF WriteContent, TypeOK, AnswerInv
  <2> QED BY <1>5, <2>1 DEF WriteContent, Answer, call, NoText, Texts, FileInv, TypeOK, AnswerInv
<1>6. CASE WriteFails \/ CannotEncode
  <2>1. file' \in [of : {"absent", "old", "new"}, length : Nat]
    BY <1>6 DEF WriteFails, CannotEncode, TypeOK
  <2>2. PICK e \in {5, FAILED} : Answer(e, NoText)
    BY <1>6 DEF WriteFails, CannotEncode
  <2>3. e \in Int /\ e # 0 /\ NoText \in Texts
    BY DEF FAILED, NoText, Texts
  <2>4. exit' \in Int /\ exit' # 0 /\ changed' = FALSE /\ out' \in Texts /\ pc' = "answered"
        /\ UNCHANGED <<call, shown>> /\ pc = "opened"
    BY <1>6, <2>2, <2>3 DEF WriteFails, CannotEncode, Answer
  <2> QED BY <2>1, <2>4 DEF call, FileInv, TypeOK, AnswerInv
<1>7. CASE ConnectionLost
  <2>1. file' \in [of : {"absent", "old", "new"}, length : Nat]
    BY <1>7 DEF ConnectionLost, TypeOK
  <2>2. exit' \in Int /\ exit' # 0 /\ out' \in Texts /\ pc' = "answered"
        /\ UNCHANGED <<call, changed, shown>> /\ (pc # "opened" => file' = file)
        /\ pc \in {"called", "opened", "answered"}
    BY <1>7 DEF ConnectionLost, FAILED, RAISED, NoText, Texts
  <2> QED BY <2>1, <2>2 DEF call, FileInv, TypeOK, AnswerInv
<1>8. CASE Show
  <2>1. render(out) \in Texts
    BY FileToolsAssumption DEF render, TypeOK, Texts
  <2> QED BY <1>8, <2>1 DEF Show, coerced, call, FileInv, TypeOK, AnswerInv
<1>9. CASE UNCHANGED vars
  BY <1>9 DEF vars, coerced, FileInv, TypeOK, AnswerInv
<1> QED BY <1>1, <1>2, <1>3, <1>4, <1>5, <1>6, <1>7, <1>8, <1>9 DEF Next

LEMMA FileInvariant == Spec => []FileInv
BY FileInit, FileStep, PTL DEF Spec

(* A write the model is told succeeded, or that is reported as a change,   *)
(* left the whole content in the file, whatever failed on the way.         *)
THEOREM SuccessIsWholeHolds == Spec => []SuccessIsWhole
<1>1. FileInv => SuccessIsWhole
  <2> SUFFICES ASSUME FileInv, tool = "write_file", ~check_mode, pc = "shown",
                      changed \/ ~shown.is_error
               PROVE  file = [of |-> "new", length |-> content]
    BY DEF SuccessIsWhole
  <2>1. changed \/ coerced = 0
    BY DEF FileInv, AnswerInv
  <2>2. coerced = 0 => exit = 0
    BY DEF coerced, FAILED, RAISED
  <2> QED BY <2>1, <2>2 DEF FileInv, AnswerInv
<1> QED BY <1>1, FileInvariant, PTL

(* A file that was not read whole is marked as cut.                        *)
THEOREM CutIsMarkedHolds == Spec => []CutIsMarked
<1>1. FileInv => CutIsMarked
  BY DEF FileInv, AnswerInv, CutIsMarked
<1> QED BY <1>1, FileInvariant, PTL
=============================================================================
