------------------------ MODULE MCCommandProcessing ------------------------
(* Small instances of CommandProcessing.                                    *)
EXTENDS CommandProcessing
=============================================================================
