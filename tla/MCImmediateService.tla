------------------------- MODULE MCImmediateService -------------------------
(***************************************************************************)
(* Small instances of ImmediateService: a run command, its update and its  *)
(* deletion, and a second run command.                                     *)
(***************************************************************************)
EXTENDS ImmediateService

CONSTANTS rc1, rc2

First == [ext |-> rc1, seq |-> 1, state |-> "enabled"]
Updated == [ext |-> rc1, seq |-> 2, state |-> "enabled"]
Deleted == [ext |-> rc1, seq |-> 1, state |-> "disabled"]
Other == [ext |-> rc2, seq |-> 1, state |-> "enabled"]
Odd == [ext |-> rc2, seq |-> 1, state |-> "unknown"]

UpdateKeys == {First, Updated}
UpdateLists == {{First}, {Updated}}

MixedKeys == {First, Deleted, Odd}
MixedLists == {{First, Odd}, {Deleted}}
=============================================================================
