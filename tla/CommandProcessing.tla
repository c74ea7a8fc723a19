-------------------------- MODULE CommandProcessing --------------------------
(***************************************************************************)
(* The processes that the guest agent starts for one run command: enable   *)
(* with a sequence number, or disable. They run beside each other and meet *)
(* in files only: the sequence number (mrseq, written in place), the pid   *)
(* file by which a process finds and kills the previous one, the settings  *)
(* and script directories that clean-up removes, and the status files. A   *)
(* process may die at any step, with its script or without it.             *)
(*                                                                         *)
(* Ghost variables (runs, raced, outrun, slipped, unreported) record what  *)
(* happened and guard nothing. Execution has the inside of one enable.     *)
(***************************************************************************)
EXTENDS Integers, FiniteSets

CONSTANTS
  NumProcs,   \* bound: how many processes the agent starts
  Numbers,    \* sequence numbers that the agent delivers
  Treated,    \* those whose settings have TreatFailureAsDeploymentFailure
  Async,      \* those whose settings have AsyncExecution
  Embedded,   \* those whose settings have the script itself, and not a URL
  MaxMishaps, \* bound: deaths that no process of the extension causes, and
              \*   status files that cannot be written
  Faults      \* which failures the environment may produce

ASSUME CommandAssumption ==
  /\ NumProcs \in Nat /\ Numbers \subseteq Nat /\ Treated \subseteq Numbers
  /\ Async \subseteq Numbers /\ Embedded \subseteq Numbers
  /\ MaxMishaps \in Nat
  /\ Faults \subseteq {"environment", "disk", "status", "pid", "prepare", "group"}

NoSeq == -1        \* there is no mrseq file; the agent set no number
Torn == -2         \* the mrseq file is empty: created or truncated, not written
NoPid == 0
Procs == 1..NumProcs   \* pids, in the order of the starts
FailExitCode == 3

VARIABLES
  delivered, cleared,  \* numbers with a settings file, those truncated since
  scripts,             \* numbers with a script directory
  downloadPath,        \* the parent of the script directories exists
  mrseq, pidFile, status,
  pc, op, seq, failed, exitCode,  \* per process
  running,             \* processes whose script runs
  mishaps,
  runs,                \* ghost: scripts started per number (0, 1, more)
  raced,               \* ghost: two processes were between check and save of mrseq
  outrun,              \* ghost: processes that had passed the check when a greater number came
  slipped,             \* ghost: a process with a script to run, or a script, was out
                       \*   of reach of the pid file
  unreported           \* ghost: processes that ended and could not write their status

files == <<delivered, cleared, scripts, downloadPath>>
procVars == <<op, seq, failed, exitCode>>
ghosts == <<runs, raced, outrun, slipped, unreported>>
vars == <<files, mrseq, pidFile, status, pc, procVars, running, mishaps, ghosts>>

Init ==
  /\ delivered = {} /\ cleared = {} /\ scripts = {} /\ downloadPath = FALSE
  /\ mrseq = NoSeq /\ pidFile = NoPid
  /\ status = [n \in Numbers |-> "none"]
  /\ pc = [p \in Procs |-> "none"]
  /\ op = [p \in Procs |-> "enable"]
  /\ seq = [p \in Procs |-> NoSeq]
  /\ failed = [p \in Procs |-> FALSE]
  /\ exitCode = [p \in Procs |-> 0]
  /\ running = {} /\ mishaps = 0
  /\ runs = [n \in Numbers |-> 0]
  /\ raced = FALSE /\ outrun = {} /\ slipped = FALSE /\ unreported = {}

Alive(p) == pc[p] \notin {"none", "exited", "dead"}
Goto(p, label) == pc' = [pc EXCEPT ![p] = label]

(* main: an error becomes the exit code of the process.                     *)
Exit(p, code) == Goto(p, "exited") /\ exitCode' = [exitCode EXCEPT ![p] = code]

IsLatest(n) == n \in delivered /\ \A m \in delivered : m <= n

-----------------------------------------------------------------------------
(* The agent stores the settings of a new number, and starts a process with *)
(* the latest number.                                                       *)
Deliver(n) ==
  /\ \A m \in delivered : m < n
  /\ delivered' = delivered \cup {n}
  /\ UNCHANGED <<cleared, scripts, downloadPath, mrseq, pidFile, status, pc, procVars,
                 running, mishaps, ghosts>>

(* getRequiredInitialVariables: the number is in the environment, or it is  *)
(* the highest of the settings files, truncated ones included.              *)
Launch(p, o, n) ==
  /\ pc[p] = "none" /\ \A q \in Procs : q < p => pc[q] # "none"
  /\ IsLatest(n)
  /\ op' = [op EXCEPT ![p] = o] /\ seq' = [seq EXCEPT ![p] = n]
  /\ Goto(p, IF o = "enable" THEN "check" ELSE "previous")
  /\ UNCHANGED <<files, mrseq, pidFile, status, failed, exitCode, running, mishaps,
                 ghosts>>

NoEnvironment(p, o, n) ==
  /\ pc[p] = "none" /\ \A q \in Procs : q < p => pc[q] # "none"
  /\ "environment" \in Faults /\ IsLatest(n)
  /\ op' = [op EXCEPT ![p] = o] /\ seq' = [seq EXCEPT ![p] = n]
  /\ Exit(p, FailExitCode)
  /\ UNCHANGED <<files, mrseq, pidFile, status, failed, running, mishaps, ghosts>>

-----------------------------------------------------------------------------
(* Mutant: the stored number itself passes.                                 *)
SmallerOrEqual(p) == mrseq <= seq[p] /\ mrseq # Torn
(* Mutant: any number but the last one passes.                              *)
Different(p) == mrseq # seq[p] /\ mrseq # Torn

(* IsSmallerThan: an empty file cannot be parsed.                           *)
Smaller(p) == mrseq < seq[p] /\ mrseq # Torn

(* enablePre, checkAndSaveSeqNum. What was processed is only cleaned up.    *)
CheckSeqNum(p) ==
  /\ pc[p] = "check" /\ mrseq # Torn
  /\ Goto(p, IF Smaller(p) THEN "save" ELSE "turned")
  /\ raced' = (raced \/ (Smaller(p) /\ \E q \in Procs : pc[q] = "save"))
  /\ UNCHANGED <<files, mrseq, pidFile, status, procVars, running, mishaps, runs, outrun,
                 slipped, unreported>>

SeqNumUnreadable(p) ==
  /\ pc[p] = "check" /\ mrseq = Torn
  /\ Exit(p, FailExitCode)
  /\ UNCHANGED <<files, mrseq, pidFile, status, op, seq, failed, running, mishaps,
                 ghosts>>

(* SaveSeqNum truncates the file, and then writes it.                       *)
TruncateSeqNum(p) ==
  /\ pc[p] = "save"
  /\ mrseq' = Torn
  /\ Goto(p, "write")
  /\ UNCHANGED <<files, pidFile, status, procVars, running, mishaps, ghosts>>

OnItsWay(q) == pc[q] \in {"save", "write", "report", "prepare", "script", "previous",
                          "kill", "unlink", "pid", "exec"}

(* Mutant: the number to expect next is saved.                              *)
WriteNextSeqNum(p) ==
  /\ pc[p] = "write"
  /\ mrseq' = seq[p] + 1
  /\ outrun' = outrun \cup {q \in Procs : OnItsWay(q) /\ seq[q] < seq[p]}
  /\ Goto(p, "report")
  /\ UNCHANGED <<files, pidFile, status, procVars, running, mishaps, runs, raced, slipped,
                 unreported>>

WriteSeqNum(p) ==
  /\ pc[p] = "write"
  /\ mrseq' = seq[p]
  /\ outrun' = outrun \cup {q \in Procs : OnItsWay(q) /\ seq[q] < seq[p]}
  /\ Goto(p, "report")
  /\ UNCHANGED <<files, pidFile, status, procVars, running, mishaps, runs, raced, slipped,
                 unreported>>

WriteFails(p) ==
  /\ pc[p] = "write" /\ "disk" \in Faults
  /\ Exit(p, FailExitCode)
  /\ UNCHANGED <<files, mrseq, pidFile, status, op, seq, failed, running, mishaps,
                 ghosts>>

(* ReportStatusToLocalFile. The file is replaced at once, or not at all; no *)
(* caller looks at the error.                                               *)
Reported(p, s) == status' = [status EXCEPT ![seq[p]] = s]
NotReported ==
  /\ "status" \in Faults /\ mishaps < MaxMishaps
  /\ mishaps' = mishaps + 1
  /\ UNCHANGED status
Report(p, s) ==
  \/ Reported(p, s) /\ UNCHANGED mishaps
  \/ NotReported

Readable(n) == n \in delivered \ cleared
Fail(p, label) == failed' = [failed EXCEPT ![p] = TRUE] /\ Goto(p, label)

(* ProcessHandlerCommandWithDetails: the first report; enable reads the     *)
(* settings.                                                                *)
ReportTransitioning(p) ==
  /\ pc[p] = "report"
  /\ Report(p, "transitioning")
  /\ IF Readable(seq[p])
       THEN Goto(p, "prepare") /\ UNCHANGED failed
       ELSE Fail(p, "final")
  /\ UNCHANGED <<files, mrseq, pidFile, op, seq, exitCode, running, ghosts>>

(* The downloads and the blobs; with AsyncExecution Success is reported     *)
(* before the script runs. The settings may only ask for the service to be  *)
(* installed.                                                               *)
Prepare(p) ==
  /\ pc[p] = "prepare"
  /\ scripts' = scripts \cup {seq[p]} /\ downloadPath' = TRUE
  /\ IF seq[p] \in Async THEN Report(p, "success") ELSE UNCHANGED <<status, mishaps>>
  /\ Goto(p, "script")
  /\ UNCHANGED <<delivered, cleared, mrseq, pidFile, op, seq, failed, exitCode, running,
                 ghosts>>

(* It fails before the directory is made or after it.                       *)
PrepareFails(p) ==
  /\ pc[p] = "prepare" /\ "prepare" \in Faults
  /\ \/ UNCHANGED <<scripts, downloadPath>>
     \/ scripts' = scripts \cup {seq[p]} /\ downloadPath' = TRUE
  /\ Fail(p, "final")
  /\ UNCHANGED <<delivered, cleared, mrseq, pidFile, status, op, seq, exitCode, running,
                 mishaps, ghosts>>

InstallAsService(p) ==
  /\ pc[p] = "prepare" /\ "prepare" \in Faults
  /\ Goto(p, "final")
  /\ UNCHANGED <<files, mrseq, pidFile, status, procVars, running, mishaps, ghosts>>

(* runCmd: a script that came with the settings is saved in its directory;  *)
(* one that was downloaded is there, or was when it was.                    *)
SaveScript(p) ==
  /\ pc[p] = "script"
  /\ seq[p] \in Embedded => seq[p] \in scripts
  /\ Goto(p, "previous")
  /\ UNCHANGED <<files, mrseq, pidFile, status, procVars, running, mishaps, ghosts>>

SaveScriptFails(p) ==
  /\ pc[p] = "script" /\ seq[p] \in Embedded
  /\ seq[p] \notin scripts \/ "disk" \in Faults
  /\ Fail(p, "cleanup")
  /\ UNCHANGED <<files, mrseq, pidFile, status, op, seq, exitCode, running, mishaps,
                 ghosts>>

-----------------------------------------------------------------------------
(* KillPreviousExtension. IsExtensionStillRunning reads the pid file and    *)
(* asks for the process; ...                                                *)
AfterKill(p) == IF op[p] = "enable" THEN Goto(p, "pid") /\ UNCHANGED exitCode
                                    ELSE Exit(p, 0)

StillRunning == pidFile # NoPid /\ Alive(pidFile)

NoPrevious(p) ==
  /\ pc[p] = "previous" /\ ~StillRunning
  /\ AfterKill(p)
  /\ UNCHANGED <<files, mrseq, pidFile, status, op, seq, failed, running, mishaps,
                 ghosts>>

FindPrevious(p) ==
  /\ pc[p] = "previous" /\ StillRunning
  /\ Goto(p, "kill")
  /\ UNCHANGED <<files, mrseq, pidFile, status, procVars, running, mishaps, ghosts>>

(* ... the file is read again for the process group to kill: 0, the group   *)
(* of the caller, when it has gone meanwhile; ...                           *)
Victim(p) == IF pidFile = NoPid THEN p ELSE pidFile

(* Mutant: only the process is killed, not its group.                       *)
KillProcess(p) ==
  LET v == Victim(p) IN
  /\ pc[p] = "kill"
  /\ pc' = [q \in Procs |-> IF q = v /\ Alive(v) THEN "dead"
                            ELSE IF q = p THEN "unlink" ELSE pc[q]]
  /\ UNCHANGED <<files, mrseq, pidFile, status, procVars, running, mishaps, ghosts>>

KillGroup(p) ==
  LET v == Victim(p) IN
  /\ pc[p] = "kill"
  /\ running' = running \ {v}
  /\ pc' = [q \in Procs |-> IF q = v /\ Alive(v) THEN "dead"
                            ELSE IF q = p THEN "unlink" ELSE pc[q]]
  /\ UNCHANGED <<files, mrseq, pidFile, status, procVars, mishaps, ghosts>>

(* (a process that is not the leader of its group, as run-command-shim      *)
(* starts enable in the background, is not hit) ...                         *)
KillMisses(p) ==
  /\ pc[p] = "kill" /\ pidFile # NoPid /\ "group" \in Faults
  /\ slipped' = (slipped \/ Alive(pidFile))
  /\ Goto(p, "unlink")
  /\ UNCHANGED <<files, mrseq, pidFile, status, procVars, running, mishaps, runs, raced,
                 outrun, unreported>>

(* ... and the file is deleted, whoever it names now.                       *)
NamesOther(p) == pidFile # NoPid /\ pidFile # p /\ Alive(pidFile)

UnlinkPrevious(p) ==
  /\ pc[p] = "unlink"
  /\ pidFile' = NoPid
  /\ slipped' = (slipped \/ NamesOther(p))
  /\ AfterKill(p)
  /\ UNCHANGED <<files, mrseq, status, op, seq, failed, running, mishaps, runs,
                 raced, outrun, unreported>>

(* SaveCurrentPidAndStartTime; its error is not looked at.                  *)
SavePid(p) ==
  /\ pc[p] = "pid"
  /\ \/ pidFile' = p /\ slipped' = (slipped \/ NamesOther(p))
     \/ "pid" \in Faults /\ UNCHANGED pidFile /\ slipped' = TRUE
  /\ Goto(p, "exec")
  /\ UNCHANGED <<files, mrseq, status, procVars, running, mishaps, runs, raced, outrun,
                 unreported>>

(* ExecCmdInDir: the log files, and then the script, a child of the process *)
(* in its process group.                                                    *)
StartScript(p) ==
  /\ pc[p] = "exec" /\ seq[p] \in scripts
  /\ running' = running \cup {p}
  /\ runs' = [runs EXCEPT ![seq[p]] = IF @ = 0 THEN 1 ELSE 2]
  /\ Goto(p, "run")
  /\ UNCHANGED <<files, mrseq, pidFile, status, procVars, mishaps, raced, outrun,
                 slipped, unreported>>

NoLogFiles(p) ==
  /\ pc[p] = "exec" /\ seq[p] \notin scripts
  /\ Fail(p, "unpid")
  /\ UNCHANGED <<files, mrseq, pidFile, status, op, seq, exitCode, running, mishaps,
                 ghosts>>

(* The ticker reports while the script runs.                                *)
Tick(p) ==
  /\ pc[p] = "run"
  /\ Report(p, IF seq[p] \in Async THEN "success" ELSE "transitioning")
  /\ UNCHANGED <<files, mrseq, pidFile, pc, procVars, running, ghosts>>

EndScript(p) ==
  /\ pc[p] = "run"
  /\ running' = running \ {p}
  /\ \/ Goto(p, "unpid") /\ UNCHANGED failed
     \/ Fail(p, "unpid")
  /\ UNCHANGED <<files, mrseq, pidFile, status, op, seq, exitCode, mishaps, ghosts>>

(* The deferred DeleteCurrentPidAndStartTime, whoever the file names.       *)
UnlinkCurrent(p) ==
  /\ pc[p] = "unpid"
  /\ pidFile' = NoPid
  /\ slipped' = (slipped \/ NamesOther(p))
  /\ Goto(p, "cleanup")
  /\ UNCHANGED <<files, mrseq, status, procVars, running, mishaps, runs, raced, outrun,
                 unreported>>

(* RunCommandCleanup: only the settings and scripts of the process's own    *)
(* number stay, if anything was ever downloaded.                            *)
CleanUp(p) ==
  /\ cleared' = IF downloadPath THEN cleared \cup (delivered \ {seq[p]}) ELSE cleared
  /\ scripts' = scripts \cap {seq[p]}
  /\ UNCHANGED <<delivered, downloadPath>>

EndCommand(p) ==
  /\ pc[p] = "cleanup"
  /\ CleanUp(p)
  /\ Goto(p, "final")
  /\ UNCHANGED <<mrseq, pidFile, status, procVars, running, mishaps, ghosts>>

TurnAway(p) ==
  /\ pc[p] = "turned"
  /\ CleanUp(p)
  /\ Exit(p, FailExitCode)
  /\ UNCHANGED <<mrseq, pidFile, status, op, seq, failed, running, mishaps, ghosts>>

(* The final report of ProcessHandlerCommandWithDetails. The process ends   *)
(* the same when it could not be written.                                   *)
Result(p, s) ==
  \/ Reported(p, s) /\ UNCHANGED <<mishaps, unreported>>
  \/ NotReported /\ unreported' = unreported \cup {p}

(* Mutant: the error of the command never gets into the exit code.          *)
ReportResultExitZero(p) ==
  /\ pc[p] = "final"
  /\ Result(p, IF failed[p] /\ Readable(seq[p]) /\ seq[p] \in Treated
                 THEN "error" ELSE "success")
  /\ Exit(p, 0)
  /\ UNCHANGED <<files, mrseq, pidFile, op, seq, failed, running, runs, raced, outrun,
                 slipped>>

(* Mutant: without its settings a failed command returns before the report. *)
ReportReadable(p) ==
  /\ pc[p] = "final"
  /\ IF failed[p] /\ ~Readable(seq[p])
       THEN UNCHANGED <<status, mishaps, unreported>>
       ELSE Result(p, IF failed[p] /\ seq[p] \in Treated THEN "error" ELSE "success")
  /\ Exit(p, IF failed[p] /\ ~Readable(seq[p]) THEN FailExitCode ELSE 0)
  /\ UNCHANGED <<files, mrseq, pidFile, op, seq, failed, running, runs, raced, outrun,
                 slipped>>

(* After a failure the settings are read again, and err is theirs: only     *)
(* when they cannot be read does the process exit with FailExitCode.        *)
ReportResult(p) ==
  /\ pc[p] = "final"
  /\ Result(p, IF failed[p] /\ Readable(seq[p]) /\ seq[p] \in Treated
                 THEN "error" ELSE "success")
  /\ Exit(p, IF failed[p] /\ ~Readable(seq[p]) THEN FailExitCode ELSE 0)
  /\ UNCHANGED <<files, mrseq, pidFile, op, seq, failed, running, runs, raced, outrun,
                 slipped>>

-----------------------------------------------------------------------------
(* A process dies, with its script or without it; the machine restarts.     *)
Die(p) ==
  /\ Alive(p) /\ mishaps < MaxMishaps
  /\ mishaps' = mishaps + 1
  /\ Goto(p, "dead")
  /\ \/ running' = running \ {p} /\ UNCHANGED slipped
     \/ p \in running /\ UNCHANGED running /\ slipped' = TRUE
  /\ UNCHANGED <<files, mrseq, pidFile, status, procVars, runs, raced, outrun, unreported>>

Reboot ==
  /\ mishaps < MaxMishaps
  /\ mishaps' = mishaps + 1
  /\ pc' = [p \in Procs |-> IF Alive(p) THEN "dead" ELSE pc[p]]
  /\ running' = {}
  /\ UNCHANGED <<files, mrseq, pidFile, status, procVars, ghosts>>

(* The steps of a process that depend on nothing but the scheduler.         *)
Step(p) ==
  \/ CheckSeqNum(p) \/ SeqNumUnreadable(p) \/ TruncateSeqNum(p) \/ WriteSeqNum(p)
  \/ WriteFails(p) \/ ReportTransitioning(p)
  \/ Prepare(p) \/ PrepareFails(p) \/ InstallAsService(p)
  \/ SaveScript(p) \/ SaveScriptFails(p) \/ NoPrevious(p) \/ FindPrevious(p) \/ KillGroup(p)
  \/ KillMisses(p) \/ UnlinkPrevious(p) \/ SavePid(p) \/ StartScript(p) \/ NoLogFiles(p)
  \/ UnlinkCurrent(p) \/ EndCommand(p) \/ TurnAway(p) \/ ReportResult(p)

Next ==
  \/ \E n \in Numbers : Deliver(n)
  \/ \E p \in Procs, o \in {"enable", "disable"}, n \in Numbers :
       Launch(p, o, n) \/ NoEnvironment(p, o, n)
  \/ \E p \in Procs : Step(p) \/ Tick(p) \/ EndScript(p) \/ Die(p)
  \/ Reboot

Spec == Init /\ [][Next]_vars

-----------------------------------------------------------------------------
Steps == {"none", "check", "save", "write", "report", "prepare",
          "script", "previous", "kill", "unlink", "pid", "exec", "run", "unpid",
          "cleanup", "final", "turned", "exited", "dead"}

FilesOK ==
  /\ delivered \in SUBSET Numbers /\ cleared \in SUBSET Numbers
  /\ scripts \in SUBSET Numbers /\ downloadPath \in BOOLEAN
  /\ mrseq \in Numbers \cup {NoSeq, Torn}
  /\ pidFile \in Procs \cup {NoPid}
  /\ status \in [Numbers -> {"none", "transitioning", "success", "error"}]
ProcsOK ==
  /\ pc \in [Procs -> Steps]
  /\ op \in [Procs -> {"enable", "disable"}]
  /\ seq \in [Procs -> Numbers \cup {NoSeq}]
  /\ failed \in [Procs -> BOOLEAN]
  /\ exitCode \in [Procs -> {0, FailExitCode}]
  /\ running \in SUBSET Procs
GhostsOK ==
  /\ mishaps \in Nat
  /\ runs \in [Numbers -> 0..2]
  /\ raced \in BOOLEAN /\ outrun \in SUBSET Procs /\ slipped \in BOOLEAN
  /\ unreported \in SUBSET Procs

(* Every variable has its type.                                             *)
TypeOK == FilesOK /\ ProcsOK /\ GhostsOK

(* The script of a number is started once, whatever dies, restarts or is    *)
(* tried again; the race between check and save is the one way out. A file  *)
(* that was cut off while it was written lets nothing run (seqnum.go:47-66, *)
(* cmds.go:401-419).                                                        *)
ScriptOnce == \A n \in Numbers : runs[n] = 2 => raced

(* One script of a run command runs at a time, because each start kills the *)
(* script before it - unless that script's process is not the one in the    *)
(* pid file (overwritten or deleted by another process, never written, or   *)
(* dead while its script is not), or does not lead its process group        *)
(* (cmds.go:925-931, pid.go:72-100, run-command-shim:80-84).                *)
OneScript == ~slipped => Cardinality(running) <= 1

(* Only a newer command or a disable kills a process, except that a process *)
(* may kill itself, when the pid file it found goes before it is read again *)
(* (pid.go:93-97), and one that was overtaken may kill the newer one.       *)
KillsOlder ==
  [][\A p, q \in Procs :
       pc[p] = "kill" /\ pc'[p] = "unlink" /\ Alive(q) /\ pc'[q] = "dead" =>
         op[p] = "disable" \/ seq[p] > seq[q] \/ p \in outrun \/ raced]_vars

(* A failure that the customer wants treated as a deployment failure leaves *)
(* a trace: the status is error, or, when clean-up by another process has   *)
(* taken the settings that say so, the exit code is not 0; such a failure   *)
(* never ends with Success and 0 (commandProcessor.go:90-106). The way out  *)
(* is a final status that cannot be written: its error is dropped (105),    *)
(* and the settings, if they can be read, make the exit code 0 (106).       *)
FailureSeen ==
  \A p \in Procs :
    pc[p] = "exited" /\ failed[p] /\ seq[p] \in Treated =>
      \/ status[seq[p]] = "error" \/ exitCode[p] = FailExitCode
      \/ p \in unreported \/ raced

(* The script of an older number starts after that of a newer one only if   *)
(* it had passed the check of the sequence number when the newer one was    *)
(* saved, or two processes raced from check to save, which may set the      *)
(* stored number back (cmds.go:401-419, 927).                               *)
NewestLast ==
  [][\A n \in Numbers : runs'[n] > runs[n] =>
       \/ \A m \in Numbers : m > n => runs[m] = 0
       \/ \E p \in outrun : seq[p] = n /\ pc[p] = "exec"
       \/ raced]_vars

(* No execution is left in transition: once a number is saved, its process  *)
(* is at work, has died, or has left a final status - also when another     *)
(* process has cleaned up its settings or its script directory meanwhile,   *)
(* or an earlier report failed (cleanup.go:50-63, cmds.go:195-330,          *)
(* commandProcessor.go:67-117). Only a final status that cannot be written, *)
(* an error that is dropped at lines 105 and 114, leaves it there.          *)
Settled ==
  \A n \in Numbers :
    mrseq = n \/ status[n] = "transitioning" =>
      \/ status[n] \in {"success", "error"}
      \/ \E p \in Procs : seq[p] = n /\ (Alive(p) \/ pc[p] = "dead" \/ p \in unreported)
=============================================================================
