------------------------------ MODULE MCIngest ------------------------------
(***************************************************************************)
(* Instances of Ingest for TLC: the tool uses the agent may make.          *)
(***************************************************************************)
EXTENDS Ingest

Use(tool, paths, fits, size) ==
  [tool |-> tool, paths |-> paths, fits |-> fits, size |-> size]

EditA == Use("Edit", <<"a">>, TRUE, "full")
EditRefused == Use("Edit", <<"a">>, FALSE, "full")
EditB == Use("Edit", <<"b">>, TRUE, "full")
Shell == Use("Bash", <<>>, TRUE, "full")

OneShell == {Shell}
Edits == {EditA, EditRefused}
TwoEdits == {EditA, EditB}
=============================================================================
