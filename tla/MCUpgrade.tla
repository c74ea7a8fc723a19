------------------------------ MODULE MCUpgrade ------------------------------
(***************************************************************************)
(* Small instances of Upgrade: moves from a problematic version and from a *)
(* sound one, by agents that tell the old version and agents that do not.  *)
(***************************************************************************)
EXTENDS Upgrade

CONSTANTS rc1, rc2   \* the name of rc2 has a dot in it

V26 == <<1, 3, 26>>
V27 == <<1, 3, 27>>
V28 == <<1, 3, 27, 1>>

(* A new agent moves from one version to another; an old one downgrades.    *)
Move(from, to, dir) ==
  [old |-> from, version |-> to, extensionVersion |-> to, updatingFrom |-> from,
   path |-> dir]
OldDowngrade(from, to, dir) ==
  [old |-> from, version |-> to, extensionVersion |-> from, updatingFrom |-> to,
   path |-> dir]

(* In the last three the environment names the directory of the old         *)
(* version; "1.3.27" is part of "1.3.27.1".                                 *)
Moves ==
  {Move(V26, V28, V28), Move(V28, V27, V27), OldDowngrade(V28, V27, V27),
   Move(V26, V27, V26), Move(V27, V28, V27), Move(V28, V27, V28)}
Parts == {<<V27, V28>>}
=============================================================================
