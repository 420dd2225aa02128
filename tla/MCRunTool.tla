----------------------------- MODULE MCRunTool -----------------------------
(* Small instances of RunTool: a command that floods one stream past the *)
(* cap, meets it exactly, or stays below it, and a descendant that may add *)
(* one byte more.                                                          *)
EXTENDS RunTool

CONSTANTS OutBytes, ErrBytes, LateBytes

MCWorkloads ==
  {[p \in Processes |-> [s \in Streams |->
      IF p = "descendant" THEN IF s = "stdout" THEN d ELSE 0
                          ELSE IF s = "stdout" THEN o ELSE e]] :
     o \in OutBytes, e \in ErrBytes, d \in LateBytes}

MCTargets == {{"bwrap", "firejail"}, {"firejail", "nsjail"}, {"nsjail"}, {}}
=============================================================================
