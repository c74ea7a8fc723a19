-------------------------- MODULE MCServiceInstall --------------------------
(* Small instances of ServiceInstall.                                       *)
EXTENDS ServiceInstall

(* A service by its usual name, whose update is given the new directory or  *)
(* the old one, and one under another name.                                 *)
Settings3 == {<<TRUE, FALSE>>, <<TRUE, TRUE>>, <<FALSE, FALSE>>}
=============================================================================
