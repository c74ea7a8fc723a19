------------------------------- MODULE Upgrade -------------------------------
(***************************************************************************)
(* The move from one version of the extension to another, as the guest     *)
(* agent drives it: enable in the old version, disable, update (tried      *)
(* again until it succeeds), enable in the new version. Each version has a *)
(* directory with the file <name>.mrseq of every run command, the number   *)
(* it was last enabled with, and a status file per number. update copies   *)
(* both, file by file; from a version whose disable deletes mrseq files it *)
(* first makes them anew from the status files (rehydration).              *)
(*                                                                         *)
(* A file is created empty and then written: a process that dies, or a     *)
(* write that fails, leaves an empty ("torn") mrseq file. Ghost variables  *)
(* (runs, untraced, untold) record what happened and guard nothing.        *)
(***************************************************************************)
EXTENDS GoalStates, Sequences

CONSTANTS
  Environments,              \* what the agent does and tells update about it
  FirstVersionNoRehydration, \* "1.3.27" in the code
  DottedNames,               \* run commands with a dot in their name
  PartOf,                    \* <<a, b>>: a's text is a proper part of b's
  MaxAttempts,               \* bound: attempts to update
  Faults                     \* which failures the environment may produce

(* A version is a sequence of numbers. In an environment, old and version   *)
(* are the versions the agent moves between; version is VERSION,            *)
(* extensionVersion and updatingFrom are AZURE_GUEST_AGENT_EXTENSION_VERSION *)
(* and ..._UPDATING_FROM_VERSION, and path is the version whose directory   *)
(* AZURE_GUEST_AGENT_EXTENSION_PATH names. An old agent that downgrades     *)
(* repeats the new version in updatingFrom.                                 *)
Environment(v) ==
  /\ v.old # v.version
  /\ v.path \in {v.old, v.version}
  /\ \/ v.updatingFrom = v.old
     \/ v.updatingFrom = v.version /\ v.extensionVersion = v.old

Versions == {v.old : v \in Environments} \cup {v.version : v \in Environments}

Nowhere == <<>>                 \* a directory that no version has

ASSUME UpgradeAssumption ==
  /\ \A v \in Environments : Environment(v)
  /\ Nowhere \notin Versions
  /\ DottedNames \subseteq ExtensionNames
  /\ \A p \in PartOf : p \in Versions \X Versions /\ p[1] # p[2]
  /\ MaxAttempts \in Nat
  /\ Faults \subseteq {"crash", "io", "report", "dummy"}

NoSeq == -1                     \* there is no mrseq file
Torn == -2                      \* there is one, and it is empty

StatusFile == [ext: ExtensionNames, seq: SeqNumbers]
File(e, n) == [ext |-> e, seq |-> n]

VARIABLES
  env,       \* what the agent does: one of Environments
  mrseq,     \* on disk, per version: the number in each mrseq file
  status,    \* on disk, per version: the status files
  phase,     \* of the agent and of update: see Phases
  files,     \* status files that the current loop of update has yet to visit
  names,     \* mrseq files that the current loop of update has yet to visit
  goal,      \* the number the agent enabled each run command with last
  runs,      \* ghost: how often each number's script was started (0, 1, more)
  untraced,  \* ghost: run commands a status file of which enable could not write
  untold,    \* ghost: run commands a dummy status file of which failed
  attempts   \* attempts to update so far (bounded)

disk == <<mrseq, status>>
loops == <<files, names>>
agent == <<env, goal, attempts>>
ghosts == <<runs, untraced, untold>>
vars == <<disk, phase, loops, agent, ghosts>>

-----------------------------------------------------------------------------
(* compareVersions(a, b) > 0: the first of four segments that differs is    *)
(* greater; missing segments are 0.                                         *)
Segment(a, i) == IF i <= Len(a) THEN a[i] ELSE 0
Newer(a, b) ==
  \E i \in 1..4 : /\ Segment(a, i) > Segment(b, i)
                  /\ \A j \in 1..(i - 1) : Segment(a, j) = Segment(b, j)

(* Mutant: the two versions are told apart as new agents tell them.         *)
UpdatingFrom(v) == v.updatingFrom

(* determineUpgradeVersionDirectories. A version's directory is named by     *)
(* its text and contains the text of another version that is part of it: to *)
(* replace 1.3.27 in the directory of 1.3.27.1 names a directory that does  *)
(* not exist.                                                               *)
UpgradeFromVersion(v) ==
  IF v.version = v.updatingFrom THEN v.extensionVersion ELSE v.updatingFrom

Contains(d, a) == a = d \/ <<a, d>> \in PartOf
ReplaceAll(d, a, b) ==
  IF a = d THEN b ELSE IF <<a, d>> \in PartOf THEN Nowhere ELSE d

UpgradeFromDirectory(v) ==
  IF Contains(v.path, v.version)
    THEN ReplaceAll(v.path, v.version, UpgradeFromVersion(v))
    ELSE v.path
UpgradeToDirectory(v) ==
  IF Contains(v.path, v.version)
    THEN v.path
    ELSE ReplaceAll(v.path, UpgradeFromVersion(v), v.version)

From == UpgradeFromDirectory(env)
To == UpgradeToDirectory(env)
Problematic == Newer(FirstVersionNoRehydration, UpgradeFromVersion(env))

Init ==
  /\ env \in Environments
  /\ mrseq = [d \in Versions |-> [e \in ExtensionNames |-> NoSeq]]
  /\ status = [d \in Versions |-> {}]
  /\ phase = "old"
  /\ files = {} /\ names = {}
  /\ goal = [e \in ExtensionNames |-> NoSeq]
  /\ runs = [e \in ExtensionNames |-> [n \in SeqNumbers |-> 0]]
  /\ untraced = {} /\ untold = {}
  /\ attempts = 0

-----------------------------------------------------------------------------
(* The agent enables a run command, in the directory of the version that is *)
(* active. An empty mrseq file is an error and a number that is not greater *)
(* ends enable: in both cases nothing changes.                              *)
Active == IF phase = "old" THEN env.old ELSE env.version

Accepts(d, e, n) == mrseq[d][e] # Torn /\ mrseq[d][e] < n

Enables(e, n) ==
  /\ phase \in {"old", "new"}
  /\ n >= goal[e]
  /\ Accepts(Active, e, n)
  /\ goal' = [goal EXCEPT ![e] = n]
  /\ UNCHANGED <<env, phase, loops, untold, attempts>>

Saved(e, n) == mrseq' = [mrseq EXCEPT ![Active][e] = n]
Reported(e, n) == status' = [status EXCEPT ![Active] = @ \cup {File(e, n)}]

(* The number is saved, Transitioning is reported - an error there is       *)
(* ignored - and the script starts.                                         *)
EnableRuns(e, n) ==
  /\ Enables(e, n)
  /\ Saved(e, n)
  /\ \/ Reported(e, n) /\ UNCHANGED untraced
     \/ /\ "report" \in Faults
        /\ untraced' = untraced \cup {e}
        /\ UNCHANGED status
  /\ runs' = [runs EXCEPT ![e][n] = IF @ = 0 THEN 1 ELSE 2]

(* It dies while it saves the number, before the report or after it.        *)
EnableDies(e, n) ==
  /\ "crash" \in Faults
  /\ Enables(e, n)
  /\ \/ Saved(e, Torn) /\ UNCHANGED status
     \/ Saved(e, n) /\ UNCHANGED status
     \/ Saved(e, n) /\ Reported(e, n)
  /\ UNCHANGED <<runs, untraced>>

(* The agent disables the old version. In a problematic version that        *)
(* deletes the mrseq files (external: the code of that version).            *)
Disable ==
  /\ phase = "old" /\ phase' = "disabled"
  /\ mrseq' = IF Problematic
                THEN [mrseq EXCEPT ![env.old] = [e \in ExtensionNames |-> NoSeq]]
                ELSE mrseq
  /\ UNCHANGED <<status, loops, agent, ghosts>>

-----------------------------------------------------------------------------
MrSeqFiles(d) == {e \in ExtensionNames : mrseq[d][e] # NoSeq}

(* update. Each loop reads its directory once, and visits in any order. A   *)
(* directory to move from that is not there is an error.                    *)
Update ==
  /\ phase = "disabled" /\ attempts < MaxAttempts
  /\ attempts' = attempts + 1
  /\ \/ From = Nowhere /\ UNCHANGED <<phase, loops>>
     \/ /\ From # Nowhere /\ Problematic
        /\ phase' = "rehydrate" /\ files' = status[From] /\ names' = {}
     \/ /\ From # Nowhere /\ ~Problematic
        /\ phase' = "mrseq" /\ names' = MrSeqFiles(From) /\ files' = {}
  /\ UNCHANGED <<env, disk, goal, ghosts>>

(* Atoi of an empty file is an error, which is ignored, and 0.              *)
CurrentSeqNo(e) == IF mrseq[To][e] = Torn THEN 0 ELSE mrseq[To][e]

(* Mutant: the number of the status file visited last stays.                *)
AlwaysRehydrates(f) == f.ext \notin DottedNames

(* A status file is passed over if dots do not split its name into exactly  *)
(* three parts, the run command, the number and "status".                   *)
Rehydrates(f) ==
  /\ f.ext \notin DottedNames
  /\ mrseq[To][f.ext] = NoSeq \/ f.seq > CurrentSeqNo(f.ext)

RehydrateMrSeqFile(f) ==
  /\ phase = "rehydrate" /\ f \in files
  /\ files' = files \ {f}
  /\ mrseq' = IF Rehydrates(f) THEN [mrseq EXCEPT ![To][f.ext] = f.seq] ELSE mrseq
  /\ UNCHANGED <<status, phase, names, agent, ghosts>>

EndRehydrate ==
  /\ phase = "rehydrate" /\ files = {}
  /\ phase' = "mrseq" /\ names' = MrSeqFiles(From)
  /\ UNCHANGED <<disk, files, agent, ghosts>>

(* Mutant: a file that an earlier attempt left behind is not copied again.  *)
CopyMissingMrSeqFile(e) ==
  /\ phase = "mrseq" /\ e \in names
  /\ names' = names \ {e}
  /\ mrseq' = IF mrseq[To][e] = NoSeq
                THEN [mrseq EXCEPT ![To][e] = mrseq[From][e]] ELSE mrseq
  /\ UNCHANGED <<status, phase, files, agent, ghosts>>

(* copyFiles, for mrseq files and then for status files.                    *)
CopyMrSeqFile(e) ==
  /\ phase = "mrseq" /\ e \in names
  /\ names' = names \ {e}
  /\ mrseq' = [mrseq EXCEPT ![To][e] = mrseq[From][e]]
  /\ UNCHANGED <<status, phase, files, agent, ghosts>>

(* Mutant: status files are looked for in the directory of mrseq files.     *)
EndMrSeqFilesSameDirectory ==
  /\ phase = "mrseq" /\ names = {}
  /\ phase' = "status" /\ files' = MrSeqFiles(From)
  /\ UNCHANGED <<disk, names, agent, ghosts>>

EndMrSeqFiles ==
  /\ phase = "mrseq" /\ names = {}
  /\ phase' = "status" /\ files' = status[From]
  /\ UNCHANGED <<disk, names, agent, ghosts>>

CopyStatusFile(f) ==
  /\ phase = "status" /\ f \in files
  /\ files' = files \ {f}
  /\ status' = [status EXCEPT ![To] = @ \cup {f}]
  /\ UNCHANGED <<mrseq, phase, names, agent, ghosts>>

EndStatusFiles ==
  /\ phase = "status" /\ files = {}
  /\ phase' = "dummy" /\ names' = MrSeqFiles(From)
  /\ UNCHANGED <<disk, files, agent, ghosts>>

(* Mutant: a status file of any number will do.                             *)
HasNoStatusFile(e) ==
  /\ mrseq[env.path][e] \in SeqNumbers
  /\ \A f \in status[env.path] : f.ext # e

(* createDummyStatusFilesIfNeeded: best effort, for the mrseq files that    *)
(* were copied, in the directory that the environment names. A file that    *)
(* cannot be read or parsed is passed over.                                 *)
NeedsDummy(e) ==
  /\ mrseq[env.path][e] \in SeqNumbers
  /\ File(e, mrseq[env.path][e]) \notin status[env.path]

CreateDummyStatusFile(e) ==
  /\ phase = "dummy" /\ e \in names
  /\ names' = names \ {e}
  /\ \/ /\ status' = IF NeedsDummy(e)
                       THEN [status EXCEPT ![env.path] =
                               @ \cup {File(e, mrseq[env.path][e])}]
                       ELSE status
        /\ UNCHANGED untold
     \/ /\ "dummy" \in Faults /\ NeedsDummy(e)
        /\ untold' = untold \cup {e}
        /\ UNCHANGED status
  /\ UNCHANGED <<mrseq, phase, files, agent, runs, untraced>>

(* Success: the agent goes on with the new version.                         *)
EndUpdate ==
  /\ phase = "dummy" /\ names = {}
  /\ phase' = "new"
  /\ UNCHANGED <<disk, loops, agent, ghosts>>

(* update returns an error, at any step but the last, or dies; the agent    *)
(* will try again.                                                          *)
Abort ==
  /\ \/ "io" \in Faults /\ phase \in {"rehydrate", "mrseq", "status"}
     \/ "crash" \in Faults /\ phase \in {"rehydrate", "mrseq", "status", "dummy"}
  /\ phase' = "disabled"
  /\ files' = {} /\ names' = {}
  /\ UNCHANGED <<disk, agent, ghosts>>

(* The same in the middle of the write of an mrseq file.                    *)
AbortWrite(e) ==
  /\ Faults \cap {"io", "crash"} # {}
  /\ \/ phase = "rehydrate" /\ \E f \in files : f.ext = e /\ Rehydrates(f)
     \/ phase = "mrseq" /\ e \in names
  /\ mrseq' = [mrseq EXCEPT ![To][e] = Torn]
  /\ phase' = "disabled"
  /\ files' = {} /\ names' = {}
  /\ UNCHANGED <<status, agent, ghosts>>

-----------------------------------------------------------------------------
Visit(e) ==
  \/ CopyMrSeqFile(e) \/ CreateDummyStatusFile(e) \/ AbortWrite(e)
  \/ \E n \in SeqNumbers : \/ RehydrateMrSeqFile(File(e, n))
                           \/ CopyStatusFile(File(e, n))

Next ==
  \/ \E e \in ExtensionNames, n \in SeqNumbers : EnableRuns(e, n) \/ EnableDies(e, n)
  \/ Disable
  \/ Update
  \/ \E e \in ExtensionNames : Visit(e)
  \/ EndRehydrate \/ EndMrSeqFiles \/ EndStatusFiles \/ EndUpdate
  \/ Abort

Spec == Init /\ [][Next]_vars

-----------------------------------------------------------------------------
Phases == {"old", "disabled", "rehydrate", "mrseq", "status", "dummy", "new"}

(* Every variable has its type.                                             *)
TypeOK ==
  /\ env \in Environments
  /\ mrseq \in [Versions -> [ExtensionNames -> SeqNumbers \cup {NoSeq, Torn}]]
  /\ status \in [Versions -> SUBSET StatusFile]
  /\ phase \in Phases
  /\ files \in SUBSET StatusFile /\ names \in SUBSET ExtensionNames
  /\ goal \in [ExtensionNames -> SeqNumbers \cup {NoSeq}]
  /\ runs \in [ExtensionNames -> [SeqNumbers -> 0..2]]
  /\ untraced \in SUBSET ExtensionNames /\ untold \in SUBSET ExtensionNames
  /\ attempts \in Nat

(* No script that ran in the old version runs again in the new one, however *)
(* many attempts to update failed or died at whichever file (cmds.go:89,    *)
(* 107); except, after a version that deletes mrseq files, for a run        *)
(* command whose status file could not be written, as nothing is left of    *)
(* its run, and for one with a dot in its name, as rehydration passes over  *)
(* its status files (cmds.go:573-576).                                      *)
Forgotten(e) == Problematic /\ e \in untraced \cup DottedNames

NoRerun ==
  \A e \in ExtensionNames, n \in SeqNumbers : runs[e][n] = 2 => Forgotten(e)

(* What makes NoRerun inductive: an mrseq file that is there covers every   *)
(* script that ran (it has its number or a greater one, or is empty and     *)
(* refuses all); so does, in the version that is active, or once the loop   *)
(* in progress has visited what it has left, every mrseq file. Rehydration  *)
(* passes over an empty file only for number 0 (TornUnvisited).             *)
Ran(e, n) == runs[e][n] > 0
Covers(d, e, n) == mrseq[d][e] = Torn \/ mrseq[d][e] >= n

OldCovers ==
  phase # "new" => \A e \in ExtensionNames, n \in SeqNumbers : Ran(e, n) =>
    \/ Covers(env.old, e, n)
    \/ Problematic /\ phase # "old" /\ mrseq[env.old][e] = NoSeq
RunsTraced ==
  phase # "new" => \A e \in ExtensionNames, n \in SeqNumbers : Ran(e, n) =>
    File(e, n) \in status[env.old] \/ e \in untraced
NewCovers ==
  \A e \in ExtensionNames, n \in SeqNumbers : Ran(e, n) =>
    \/ Forgotten(e)
    \/ phase \in {"old", "disabled"}
    \/ phase = "rehydrate" /\ File(e, n) \in files
    \/ phase = "mrseq" /\ ~Problematic /\ e \in names
    \/ Covers(env.version, e, n)
TornUnvisited ==
  phase = "rehydrate" => \A e \in ExtensionNames, n \in SeqNumbers :
    Ran(e, n) /\ mrseq[env.version][e] = Torn =>
      n = 0 \/ Forgotten(e) \/ File(e, n) \in files
RehydratesProblematic == phase = "rehydrate" => Problematic
Found == phase \notin {"old", "disabled"} => From # Nowhere
NamesExist == phase = "mrseq" => names \subseteq MrSeqFiles(env.old)

IInv ==
  /\ TypeOK /\ Found
  /\ OldCovers /\ RunsTraced /\ NewCovers
  /\ TornUnvisited /\ RehydratesProblematic /\ NamesExist
  /\ NoRerun

(* A successful attempt repairs the mrseq files that earlier attempts left  *)
(* empty: one that is empty in the end was empty in the old version, or all *)
(* that is known of it is a status file of number 0.                        *)
Updated == phase = "dummy" /\ phase' = "new"
RetryRepairs ==
  [][Updated => \A e \in ExtensionNames : mrseq[env.version][e] = Torn =>
       \/ mrseq[env.old][e] = Torn
       \/ \A f \in status[env.old] : f.ext = e => f.seq = 0]_vars

(* After a successful update every run command has a status file for its    *)
(* number (cmds.go:443: "create a dummy status file to prevent poll status  *)
(* timeouts for already executed Run Commands after upgrade"), if writing   *)
(* the dummy did not fail and the environment names the directory of the    *)
(* new version: when it names the old one, which cmds.go:482-485 provides   *)
(* for, the dummy goes to the old directory (cmds.go:742).                  *)
StatusReturned ==
  [][Updated /\ env.path = env.version =>
     \A e \in ExtensionNames : mrseq[env.version][e] \in SeqNumbers =>
       \/ File(e, mrseq[env.version][e]) \in status[env.version]
       \/ e \in untold]_vars
=============================================================================
