----------------------------- MODULE MCExecution -----------------------------
(* Small instances of Execution. The script has the file name a; an         *)
(* artifact is b, or takes the name of the script in one of two ways.       *)
EXTENDS Execution

Item(name, last, sas, azure, both) ==
  [name |-> name, last |-> last, sas |-> sas, azure |-> azure, both |-> both]
MCItems ==
  {Item("a", "a", TRUE, TRUE, FALSE), Item("a", "a", FALSE, TRUE, TRUE),
   Item("b", "a", TRUE, TRUE, FALSE), Item("b", "script.sh", TRUE, FALSE, FALSE)}
MCBlobSettings ==
  [sas: {TRUE}, named: BOOLEAN, object: {TRUE}] \cup
  [sas: {FALSE}, named: {TRUE}, object: BOOLEAN]
MCMaxOutput == [out |-> 2, err |-> 1]
MCStatuses == {NoRequest, 400, 403, 503}
=============================================================================
