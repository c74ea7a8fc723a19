-------------------------- MODULE MCStatusObserver --------------------------
(***************************************************************************)
(* Small instances of StatusObserver: one run command with an update and a *)
(* deletion of it, and a second one that finishes at the same time.        *)
(***************************************************************************)
EXTENDS StatusObserver

CONSTANTS rc1, rc2, poll, worker

First == [ext |-> rc1, seq |-> 1, state |-> "enabled"]
Updated == [ext |-> rc1, seq |-> 2, state |-> "enabled"]
Deleted == [ext |-> rc1, seq |-> 1, state |-> "disabled"]
Other == [ext |-> rc2, seq |-> 1, state |-> "enabled"]
Odd == [ext |-> rc2, seq |-> 1, state |-> "unknown"]

UpdateKeys == {First, Updated, Deleted, Odd}

TwoKeys == {First, Other}
RacingKeys == {First, Updated}
=============================================================================
