----------------------------- MODULE OutputBlob -----------------------------
(***************************************************************************)
(* What an output blob promises to its reader: it receives what the script *)
(* prints in pieces, in order and at least once, and nothing after the     *)
(* command has returned. Execution, where two threads read the log file    *)
(* and append to the blob in separate steps, implements it.                *)
(***************************************************************************)
EXTENDS Integers, Sequences

VARIABLES
  printed,  \* pieces that the script has printed
  shipped,  \* the pieces in the blob, as they arrived
  acked,    \* pieces whose arrival the command knows of
  over      \* the command appends no more

vars == <<printed, shipped, acked, over>>

Init == printed = 0 /\ shipped = <<>> /\ acked = 0 /\ over = FALSE

Emit ==
  /\ printed' = printed + 1
  /\ UNCHANGED <<shipped, acked, over>>

(* The next m pieces arrive; the answer may be lost, and then they are sent *)
(* again, with what has been printed since.                                 *)
Following(m) == [i \in 1..m |-> acked + i]

Ship(m) ==
  /\ ~over
  /\ shipped' = shipped \o Following(m)
  /\ acked' \in {acked, acked + m}
  /\ UNCHANGED <<printed, over>>

Finish ==
  /\ ~over /\ over' = TRUE
  /\ UNCHANGED <<printed, shipped, acked>>

Next == Emit \/ Finish \/ \E m \in 1..(printed - acked) : Ship(m)

Spec == Init /\ [][Next]_vars

(* No piece arrives before the one before it has, and what is acknowledged  *)
(* has arrived.                                                             *)
InOrder ==
  /\ \A i \in 1..Len(shipped) :
       shipped[i] = 1 \/ \E j \in 1..(i - 1) : shipped[j] = shipped[i] - 1
  /\ \A k \in 1..acked : \E i \in 1..Len(shipped) : shipped[i] = k
=============================================================================
