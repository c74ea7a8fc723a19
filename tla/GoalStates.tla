----------------------------- MODULE GoalStates -----------------------------
(***************************************************************************)
(* The data every part of the handler shares: the key of a goal state, the *)
(* status types, and which of them are terminal (internal/types).          *)
(***************************************************************************)
EXTENDS Integers

CONSTANTS
  ExtensionNames,   \* names of run commands, e.g. RC0001
  SeqNumbers        \* the sequence numbers a run of the model uses

ASSUME GoalStatesAssumption ==
  /\ SeqNumbers \subseteq Nat
  /\ "" \notin ExtensionNames

(* RuntimeSettingsState: "enabled" and "disabled" are the values the code   *)
(* knows; "unknown" stands for every other string HGAP could send.          *)
SettingsStates == {"enabled", "disabled", "unknown"}

GoalStateKey ==
  [ext: ExtensionNames, seq: SeqNumbers, state: SettingsStates]

(* A StatusItem, reduced to its status type. Empty is types.StatusItem{}.   *)
Empty == "empty"
Transitioning == "transitioning"
TerminalTypes == {"success", "error", "skipped"}
StatusTypes == TerminalTypes \cup {Transitioning, Empty}

(* Mutant: an empty item passes for a terminal one.                         *)
NotRunning(s) == s # Transitioning

IsTerminal(s) == s \in TerminalTypes

(* The map has no entry for a key: not a value of StatusItem.               *)
Absent == "absent"

(* ImmediateStatus: what is stored in the terminal-status file and sent to  *)
(* HGAP. It carries the sequence number and the *item's* name, so the entry *)
(* of an empty item names no extension, and the settings state is lost.     *)
ImmediateStatus ==
  [seq: SeqNumbers, name: ExtensionNames \cup {""}, status: StatusTypes]

EntryOf(k, s) ==
  [seq |-> k.seq, name |-> IF s = Empty THEN "" ELSE k.ext, status |-> s]

(* The entry of the terminal-status file that a goal state makes obsolete:  *)
(* its own when it is disabled, an older sequence number's when enabled.    *)
Obsoletes(k, e) ==
  /\ e.name = k.ext
  /\ \/ k.state = "disabled" /\ e.seq = k.seq
     \/ k.state = "enabled" /\ e.seq < k.seq
=============================================================================
