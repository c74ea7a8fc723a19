# A verification project for run-command-handler-linux

TLA+ modules that model the core of the Azure Run Command extension for Linux,
TLC configurations that check them on small instances, and theorems about them
that TLAPS proves for every instance. Paths are relative to `src/`.

Contents: 1 the system, 2 the plan, 3 the modules, 4 the runs, 5 the proofs,
6 disagreements found, 7 what is not modelled.

## 1. The system

The handler runs a customer's scripts on a VM in two ways.

* **Agent-driven.** The guest agent starts a process per operation
  (`cmd/main/main.go`): `install`, `enable`, `disable`, `update`, `uninstall`.
  The process takes the extension's name and the sequence number from its
  environment, reads settings the agent stored, and leaves a status file.
* **Immediate run command (IRC).** A service (`cmd/immediateruncommandservice`)
  polls the HostGAPlugin (HGAP) for *goal states*, runs `enable` or `disable` for
  each in a goroutine of its own, and PUTs an aggregate of all statuses to HGAP.

| Component | State it keeps | Operations | Hard behaviour | Correct when |
|---|---|---|---|---|
| Service loop, `internal/immediateruncommand` | ETag, atomic counter of executing tasks | poll, launch, skip | the counter is read by the loop and written by goroutines; retries | at most 5 goal states at a time; no list is skipped; no place is lost |
| Goal state handling, `internal/goalstate` | two channels and a timer per goal state | handle, report final status | the timer races the command; errors cross goroutines | one verdict per goal state, always one |
| Status observer, `internal/status/immediatestatus.go`, `internal/observer` | `sync.Map` from goal state key to status | `OnNotify`, `RemoveProcessedGoalStates` | called by many goroutines; range, delete and file update are separate steps | a terminal status is never lost; HGAP gets the whole aggregate |
| Terminal-status file, `internal/status/status.go` | a JSON file | read, save, prune | lock per call, not per update; crash between steps | has every terminal status until it is superseded |
| Command processor, `internal/commandProcessor` | none | pre step, report, invoke, report | dropped and shadowed errors; settings read again at the end | a failure is in the status or in the exit code, or the status could not be written |
| Commands, `internal/cmds`, `pkg/seqnumutil` | `<ext>.mrseq`: last sequence number | enable, disable, install, uninstall, update | several processes at a time; check, save and start of the script are separate steps | a script runs at most once, the newest last; nothing stays in transition |
| Pid files, `internal/pid` | `<ext>.pid`: pid and start time | save, delete, kill previous | read twice, deleted whoever it names; in the service, the pid of the service itself | one script at a time; only an older one is killed |
| Downloads, `internal/files`, `pkg/download` | target file | SAS, managed identity, public URL, each with retries | fall-back order; broken-off bodies | what runs is the whole script; each way is tried as often as it should be |
| Script execution, `internal/exec` | log files | exec with a timeout | a script may never end, or leave a child | the command ends, if the script does |
| Output blobs, `internal/cmds` lines 270-383, 975-1050 | position per stream | append | shared by ticker goroutine and command, without a lock | every piece, in order, before the end |
| Clean-up, `internal/cleanup`, `pkg/linuxutils` | scripts and settings on disk | delete all, or all but the latest | before the final report reads the settings; by an older process too | what is still needed stays |
| Service installation, `internal/service`, `internal/immediatecmds`, `pkg/servicehandler`, `pkg/systemd` | systemd unit: file, enablement, running service | enable, disable, update, uninstall | partial failures, repeated calls, deaths, reboots | each command leaves the unit as it promises; a repeated one completes what failed |
| Update, `internal/cmds` lines 85-115, 430-846 | mrseq and status files of two versions | copy, rehydrate, dummy status | a crash between two files | no script runs again after an update |
| HGAP communicator and retries, `internal/hostgacommunicator`, `internal/requesthelper` | none | GET with ETag | retry classification and bound | ends, closes what it does not return |
| Settings, log tail, preprocessing, telemetry, types | none | pure functions and I/O | | |

**Interactions.** The loop launches a *handler* goroutine per goal state. It
increments the counter, stores an empty status for its key, starts a *worker*
goroutine, and waits for it or for 90 minutes. The worker calls the command
processor, whose reports go through a notifier to the observer, as do the loop's
(skipped goal states, removal of goal states HGAP no longer lists). The observer
moves terminal statuses from its map to the file and PUTs map and file to HGAP.
A goal state is new when its key is not in the observer's map, so a finished one
is launched again with each new ETag; the mrseq file turns it away. All scripts
are children of the service, in its process group, and systemd restarts it
(`Restart=always`).

The processes of the agent meet in files only. `enable` is started in the
background by `misc/run-command-shim` (lines 77-90, `nohup ... &`): the agent
never sees its exit code, and its process does not lead its process group, so
that `kill(-pid)` (`pid.go:97`) does not reach it. Within one `enable`, a ticker
goroutine reports and appends output while the script runs; the command stops it
by a send on an unbuffered channel and then appends the rest.

The hazards of this code, each at its line with the properties that cover it,
are listed in `PROJECT.json`.

## 2. The plan

Built, most important behaviour first:

1. `GoalStates`: keys, statuses, what supersedes what.
2. `StatusObserver`, with `StatusObserverProofs`: the hand-over of a terminal
   status from map to file to HGAP.
3. `ImmediateService`, with `ImmediateServiceProofs`: loop, handlers, workers,
   capacity, sequence number, pid file, restart.
4. `Upgrade`, with `UpgradeProofs`: the move between two versions, with an
   `update` that fails or dies at any file and is tried again.
5. `CommandProcessing`, with `CommandProcessingProofs`: the processes of one run
   command that share mrseq, pid file, settings and status file.
6. `Execution`, with `ExecutionProofs`: the inside of one `enable`; and
   `OutputBlob`, with `OutputBlobProofs`: what it promises to the reader of its
   output, which it is proved to implement.
7. `ServiceInstall`, with `ServiceInstallProofs`: the systemd unit and the commands
   that work on it.

Every safety invariant and action property of the passing runs is proved. Left, in
this order:

8. Two abstract specifications more: `GoalStateLifecycle` (a goal state is
   unknown, accepted, started at most once, has a verdict), implemented by
   `ImmediateService` when no two commands race, and `VerdictStore`, terminal
   statuses with an atomic hand-over, implemented by `StatusObserver` as long as
   nothing is in `losses`.
9. The service's retry loop (`internal/requesthelper/retry.go`), of the form of
    the one `Execution` has, with what it closes and returns.

## 3. The modules

`MC*` modules hold the values of constants for the runs and nothing else.

### GoalStates

`GoalStateKey` is `types.GoalStateKey` with a settings state of `enabled`,
`disabled` or `unknown` (any other string). A `StatusItem` is reduced to its
status type; the empty item, stored at launch, is `Empty`, and `Absent` means no
entry in the map. `EntryOf` makes the entry of the terminal-status file: it has
the *item's* name, so the entry of an empty item names no extension.
`Obsoletes(k, e)` is the condition of the prune loop.

### StatusObserver

One action per access to shared state, per calling goroutine:

| Action | Code |
|---|---|
| `OnNotify` | `Store`, start of `OnDemandNotify` |
| `RemoveProcessedGoalStates` | call by the poll loop with the listed keys |
| `StartRange`, `Visit`, `Delete`, `EndRange` | `sync.Map.Range`: a key set, then a load per key and, as a separate step, the unconditional delete |
| `PruneGet`, `PruneKey`, `PruneSave` | `RemoveDisabledAndUpdatedGoalStatesInLocalStatusFile`: locked read, loop with its `break`, locked write |
| `Get`, `Save` | locked read and merge, locked write (temporary file and rename) |
| `Put` | the PUT; HGAP takes the aggregate or refuses it, or no answer ever comes (the step is not fair) |
| `PutPanics`, `Crash` | process death, by the nil response of a PUT without answer or any other cause |

`mode` says whether the caller is in `getImmediateTopLevelStatusToReport`
("report") or `RemoveProcessedGoalStates` ("remove", which always saves, then
reports). Reads and writes may fail as the code lets them: a failed read leaves
an empty list that the save then writes.

`losses` is a ghost that names the six events by which a terminal status can be
lost: *overwritten* (stored over before any report), *deleted* (stored between
load and delete), *stale write* (the read-modify-write race), *unreadable*,
*unwritable*, *crash*. `TerminalKept` says there is no seventh. Two more ghosts
name what makes a caller send something else than map and file: `stale`, callers
whose list is not what the file holds, and `moved`, callers during whose call
another one changed the map. `AggregateComplete` and `HgapNeverForgets` hold for any
number of callers with these exceptions.

### ImmediateService

| Actor | Actions | Code |
|---|---|---|
| HGAP | `Publish` | external: a new list with a new ETag |
| poll loop | `ReadCount`, `Fetch`, `RemoveProcessed`, `Select`, `Skip`, `EndPoll` | `processImmediateRunCommandGoalStates`; the separate steps are where goroutines interleave |
| handler | `Increment`, `StartWorker`, `Receive`, `Timeout`, `ReportFailure` | the launched goroutine and `HandleImmediateGoalState` |
| worker | `NoCommand`, `FailEarly`, `CheckSeqNum`, `SaveSeqNum`, `StoreSettings`, `EndEnable`, `Prepare`, `PrepareAsync`, `KillSelf`, `NothingToKill`, `RunScript`, `Tick`, `EndScript`, `ReportResult` | `startAsync`, `ProcessImmediateHandlerCommand`, `enablePre`, `enable`, `runCmd`, `disable` |
| observer | `Collect` | any report moves terminal statuses out of the map |
| process | `KillSelf`, `Crash` | `Restart`: memory is lost, mrseq and HGAP stay |

The observer is reduced to its map; `StatusObserver` has its inside. A goal
state may have several handler/worker pairs at once (a timed-out worker that
still runs, and a relaunch): `Copies` bounds them. After a timeout the worker's
send blocks for good; such a place is free for a new task in the model, since
nothing the goroutine holds is read again. In `disable`, the branch for the
service's own handler name is not taken in the service, whose environment does
not have `ConfigExtensionName`. The result of the script does not decide the
final status: clean-up has deleted the settings when they are read
(`commandProcessor.go:100`), so `ReportResult` is Success.

Every report ends in a PUT by a client without a timeout (`statusreporter.go:32`).
With the fault *hang* each step that makes one may be the last of its goroutine,
which is then at "hung" (`After`): the first report of a handler, which comes after
the increment and before the 90 minute timer and so keeps its place for good
(`Lost`), the reports of a worker, whose handler times out, and those of the loop,
after which no list is looked at. The GET of goal states has a timeout
(`vmsettings.go:23`).

`raced` and `overlooked` are ghosts for the two races the code has: two commands
of one run command between check and save of the sequence number, and a counter
that was read before a launched goroutine counted itself. `CapRespected` and
`RunsOnce` say these are the only ways to exceed the capacity and to run a script
twice; both races do happen in the run that checks them.

### CommandProcessing

Processes `1..NumProcs` of one run command, in the order the agent starts them,
each `enable` or `disable` with the sequence number that is the latest when it
starts. One action per access to a shared file:

| Actions | Code |
|---|---|
| `Deliver`, `Launch`, `NoEnvironment` | external: the agent's settings and processes; `getRequiredInitialVariables` |
| `CheckSeqNum`, `SeqNumUnreadable`, `TruncateSeqNum`, `WriteSeqNum`, `WriteFails` | `enablePre`, `checkAndSaveSeqNum`, `IsSmallerThan`, `SaveSeqNum`, which writes the file in place |
| `ReportTransitioning`, `Prepare`, `PrepareFails`, `InstallAsService`, `SaveScript`, `SaveScriptFails` | first report, `enable` up to `runCmd` (its inside is `Execution`) |
| `NoPrevious`, `FindPrevious`, `KillGroup`, `KillMisses`, `UnlinkPrevious` | `KillPreviousExtension`: look, read again and kill, delete |
| `SavePid`, `StartScript`, `NoLogFiles`, `Tick`, `EndScript`, `UnlinkCurrent` | `runCmd` around `ExecCmdInDir`, the ticker |
| `EndCommand`, `TurnAway`, `ReportResult` | `RunCommandCleanup`, final report, exit code |
| `Die`, `Reboot` | deaths, with the script or without it |

`mrseq` is `Torn` between the truncation and the write; `cleared` are the numbers
whose settings another process has truncated. Five things the model shows that
the code does not say:

* Where the second read of the pid file finds no file, the pid is 0 and the
  process kills its own group (`Victim`, `pid.go:93-97`).
* A process started by the shim in the background is not hit (`KillMisses`); the
  pid file is deleted all the same, and both scripts run.
* The clean-up of an older process truncates the settings and deletes the script
  of the newest (`cleanup.go:50`); that one then fails, or, having failed, cannot
  read what `TreatFailureAsDeploymentFailure` says, and leaves it to the exit code.
* Two processes between check and save may set the stored number *back*, after
  which an older script may start after a newer one: this is why `NewestLast`
  excepts `raced`.
* A report that cannot write the status file fails unseen (`NotReported`;
  `status.go:38-41`, `commandProcessor.go:84`, `105`, `114`). If it is the last one, the
  number stays in transition, and a command that failed exits with 0 as long as its
  settings can be read.

Ghosts: `runs`, `raced`, `outrun` (had passed the check when a greater number was
saved), `slipped` (a process with a script was out of reach of the pid file),
`unreported` (ended, and could not write its final status).

### Execution and OutputBlob

`Execution` is one `enable` from its settings to its result. `pc` is the step of
the command, `tpc` that of the ticker goroutine.

| Actions | Code |
|---|---|
| `NoDirectory`, `Inline`, `FromURI`, `NextArtifact`, `BadArtifacts`, `NoMoreArtifacts` | `downloadScript`, `downloadArtifacts` |
| `SasRefused`, `SasFails`, `SasAnswers`, `SasCopyEnds` | `downloadAndProcessURL`, `GetSASBlob` |
| `OpenTarget`, `NoTarget`, `GetBody`, `TryAgain`, `GiveUp`, `CopyBody`, `CopyBreaks` | `getDownloaders`, `SaveTo`, `WithRetries` |
| `PostProcess`, `NothingToProcess` | `PostProcessFile` |
| `CreateNone`, `CreateWithSas`, `CreateWithIdentity`, `CreateFails` | `createOrReplaceAppendBlob`, per stream |
| `StartTicker`, `Fire`, `TakeTick`, `Reported`, `StopTicker`, `Done` | the goroutine, its ticker, its report and its `done` channel |
| `SaveScript`, `SaveFails`, `OpenLogs`, `OpenLogFails`, `NoStart`, `StartScript`, `EndScript`, `Timeout` | `runCmd`, `ExecCmdInDir`, `Exec` |
| `WriteOutput` | external: the script, or a child that outlives it, prints |
| `ReadOutput`, `NothingNew`, `AppendBlock`, `AppendFails`, `AppendAnswerLost` | `appendToBlob` by either actor, read and append as two steps |
| `CleanUp`, `ReportResult` | end of `enable`, final report |

A file is none, a *part*, the whole *script*, an *artifact*, or *cut* by a failed
rewrite. Settings are chosen at the step that first reads them. Output is numbered
in pieces, so that order, gaps and repetitions can be told. Modelled as the code
does it, although one might expect otherwise: a SAS that is answered with an error
status gives neither a path nor an error, so nothing else is tried
(`blob.go:88-89`); the SAS body is saved under the last segment of the URL, not
under FileName; the error of the rewrite is lost (`files.go:179-180`); a shell that
does not start is an error with exit code 0 (`exec.go:144`); the timeout kills the
shell, not its children; an output URL without a blob name gives no blob and no
error (`blob.go:142-143`).

`OutputBlob` is the abstract specification of an output blob: pieces are printed,
the ones after the acknowledged position are shipped, whose answer may be lost,
and at some point nothing is shipped any more. `Execution` instantiates it once
per stream (`OutBlob`, `ErrBlob`): `printed` is the length of the log file,
`shipped` the blob, `acked` the position, `over` the end of the command. The
property `BlobShipped` says that it implements both.

The ghost `answers` has, for each downloader of the file in hand, what it was
answered, in order; `EveryDownloaderTried` reads from it that a downloader is not
asked again after an answer that settles the request (`Settled`), nor more than three
times, that the next one is asked only when it is used up (`Exhausted`), and that a
download fails without a body only when all are used up or its SAS was refused
(`RefusedSas`).

`Local` are the steps that wait for nothing but the processor, the disk or a request
with a timeout; `Transfer` those that wait for one without: the token of the managed
identity (`AsksToken`, `blobwithmsitoken.go:73`), transfers, and the reports, which the
service sends to HGAP.

### ServiceInstall

Two processes of the extension's commands, the *foreground* one the agent waits
for and an `enable` in the background. A command is the list `todo` of the calls
it has yet to make; the first of them (`CheckEnable`, `CheckDisable`, `CheckUpdate`,
`CheckUninstall`, `Register`, `IsEnabled`, `DeRegister`) look at the unit and settle
the list, as `immediatecmds.go` and `servicehandler.go` branch. `Prepare`,
`RemoveUnit`, `CreateUnit`, `WriteUnit`, `EnableUnit`, `StartUnit`, `StopUnit`,
`DisableUnit` and `RemoveData` are the calls, by what they do to the unit file, the
enablement, the running service and the data directory. Any call may `Fail`, any
process `Die`, the machine `Reboot`. `BeginEnable`, `BeginDisable`, `BeginUpdate`,
`BeginUninstall` and `Install` are the agent (external).

An early return of `Register` when the unit has the version already
(`serviceinstall.go:61`), and a start of a running service that does nothing, are
why halfway states last: `halfway` is the ghost of a command that stopped between
enable and start or between stop and disable. `swallowed` are the failures taken
for a success: `immediatecmds.go:89` wraps a nil error, and an `enable` that cannot
look for the unit (98-102) goes on to register it. A unit file that was cut off is
taken for masked by systemd, and no command repairs it.

`Settings` are the two things that no command can change: whether the run command
that asks for the service has the name `runCommandService`, without which `disable`
does not look at the service (`cmds.go:120`), and whether the environment of an
update names the old version's directory (`cmds.go:482-485`), which `WriteUnit` then
writes into the unit (`Directory`, `serviceinstall.go:233`).

`Register` removes the unit file of a service that is on, writes another, and starts
what runs already, which does nothing; the service goes on as it was. The ghost
`replaced` is that event. It takes no fault: it is in every update of a service under
another name, which `disable` has left on. Under the usual name it takes an uninstall
that failed in silence and an `enable` that could not look for what it left, or a
failed update to the old directory that is tried again. `EnableLasts`, `DisableStops`,
`UpdateTakesOver` and `NothingLeft` are promises for histories without it, and without
two commands at work at once (`overlap`); their comments name these and the other
exceptions. None is idle: without it TLC finds a counterexample.

### Upgrade

The agent enables run commands in the version `old` (`EnableRuns`,
`EnableDies`), disables it, updates until an attempt succeeds, and goes on in
`version`. `mrseq` and `status` are the files of both directories. `env` is one
of `Environments`: the versions, and what the agent says of them in the
environment variables of `update`, old agents included that repeat the new
version as the one updated from; `From` and `To` are computed from it as
`determineUpgradeVersionDirectories` does.

| Action | Code |
|---|---|
| `Update` | `update`: the directories, and rehydration or not |
| `RehydrateMrSeqFile`, `EndRehydrate` | the loop over status files of `rehydrateMrSeqFilesForProblematicUpgrades`, which passes over a name that dots do not split into three parts |
| `CopyMrSeqFile`, `EndMrSeqFiles`, `CopyStatusFile`, `EndStatusFiles` | the two calls of `copyFiles` |
| `CreateDummyStatusFile`, `EndUpdate` | `createDummyStatusFilesIfNeeded`, success |
| `Abort`, `AbortWrite` | any error or death, between two files or after a file was created and before it was written |
| `Disable` | external: in a version before `FirstVersionNoRehydration` it deletes the mrseq files |

Each loop takes its list from the directory once and visits it in any order. An
mrseq file that was created and not written is `Torn`: `enable` refuses every
number because of it, rehydration reads 0. A version is a sequence of numbers, and
a directory is named by its version. `PartOf` are the pairs of versions of which one's
text is part of the other's, as 1.3.27 is of 1.3.27.1: `strings.Contains` then finds the
wrong one, and `ReplaceAll` names a directory that no version has (`Nowhere`), so that
the update fails. `DottedNames` are the run commands whose names have a dot. Ghosts:
`runs` counts starts of each script, `untraced` and `untold` are run commands whose
status file, or dummy, could not be written.

## 4. The runs

| Run | Question | Result |
|---|---|---|
| `ObserverOneCaller` | `TerminalDelivered`: every terminal status reaches HGAP, unless a PUT hangs | holds |
| `ObserverRestarts` | `AggregateComplete`, `TypeOK`: one caller, with refused PUTs, panics and restarts | hold |
| `ObserverTwoCallers` | `TerminalKept`, `HgapNeverForgets`: two goroutines, every failure | hold |
| `ObserverLostUpdate` | `TerminalSaved`: is a terminal status saved when it leaves the map? | violated |
| `ServiceUpdate` | `CapRespected`, `RunsOnce`, `OneVerdict`, `TypeOK`: a run command and its update, with failures and requests that hang | hold |
| `ServiceProgress` | `RoomAgain`, `CaughtUp`, `VerdictGiven`: any request without a timeout may hang | hold |
| `ServiceSelfKill` | `TurnedAwayWasProcessed`: was what is turned away processed? | violated |
| `ServiceSilentFailure` | `FailureReported`: is every failure reported? | violated |
| `CommandsCompete` | `ScriptOnce`, `OneScript`, `NewestLast`, `KillsOlder`, `FailureSeen`, `Settled`, `TypeOK`: processes beside each other, deaths, failed writes | hold |
| `CommandRuns` | `ScriptWhole`, `EveryDownloaderTried`, `BlobShipped`, `OutputComplete`, `ResultLast`, `Returns`, `TypeOK`: one enable, with every answer | hold |
| `ServiceInstallation` | `EnableLasts`, `DisableStops`, `UpdateTakesOver`, `NothingLeft`, `UninstallSpares`, `UpdateDone`, `TypeOK`: commands that fail or die | hold |
| `UpgradeRetried` | `NoRerun`, `RetryRepairs`, `StatusReturned`, `TypeOK` | hold |

**Bounds.** Observer: one run command with first version, update and deletion,
and one of unknown state, are all the relations the prune loop distinguishes;
two callers suffice for every pairwise race of accesses; `MaxCalls` 3 allows a
report, a concurrent one and a removal, 4 (`ObserverRestarts`) also a report
after a restart. Service: `MaxConcurrent` 1 (5 in the code) makes the capacity
bind with two goal states, so that skipping, waiting and overrunning happen;
`Copies` 2 lets a relaunch run beside a timed-out worker; `MaxETag` 2 is one
change of HGAP's list; one crash, besides any number of self-kills.
Upgrade: two run commands, one with a dot in its name, are what an update cut off
between files needs, numbers 0 and 1 what rehydration compares, two attempts one
failure and the retry that repairs it. The six environments are a move from a
problematic version, a downgrade by a new and by an old agent, and three in which the
environment names the directory of the old version: from a problematic version, to a
version whose text has the old one's in it, and back, where no attempt can succeed.

`CommandsCompete`: three processes are an older one, a newer one and one that
repeats, is repeated or disables; every hazard here is of two processes, the
third one is what a file that names the wrong process leads to. Two numbers, one
with `AsyncExecution`, both with `TreatFailureAsDeploymentFailure` (without it no
failure is promised to be seen), one with the script in its settings (`Embedded`);
one mishap, which is a death, a reboot or a status that cannot be written (the theorems are
about any number). `CommandRuns`: four items
are a script with every way of downloading, one with contradictory identities,
and artifacts that take a file name of the script; the statuses are one of each
class that the retry distinguishes (no answer, final, access issue, transient);
two pieces of one stream and one of the other are what order and gaps need; one
lost answer.

`ServiceInstallation`: two versions, three of the four settings (the usual
name with the new directory and with the old one, another name with the new one), and
two faults: one that leaves something halfway and one in the command that should
repair it. The theorems are about any number of them.

Deadlock is checked where the system does not stop. The runs of the observer,
of `CommandsCompete`, of `CommandRuns` and of `UpgradeRetried` do not check it:
their behaviours end with the last call, process, step of the command, or attempt;
nor do `ServiceUpdate` and `ServiceProgress`, where the loop and all goroutines may
hang. The two violations of the service, without hanging requests, do.
The theorems have none of these bounds.

**Fairness.** What waits for nothing but the scheduler, the disk, the file lock, a
timer or a request with a timeout is weakly fair; what waits for another request, a
script, HGAP or the agent is not, and is an exception of the liveness properties.
Observer: a goroutine inside a call is scheduled again up to its PUT (weak fairness of
`LocalStep(t)`); the file lock is released by the read or write that took it. The PUT
goes out by `&http.Client{}`, which has no timeout (`statusreporter.go:32`), so `Put` is
not fair, and `TerminalDelivered` excepts a PUT that never ends (`Hangs`). Callers need
not call. Service: weak fairness of the poll loop, each handler (Go's scheduler; the
timer fires after 90 minutes) and each worker up to and after its script; with *hang*
each report among these steps may instead be the last of its goroutine, which is how
the weak fairness asks nothing of a request. `RoomAgain` excepts a service all of whose
places are lost to first reports that hang, `CaughtUp` that and a loop that hangs;
`VerdictGiven` needs no exception: a worker that hangs is timed out, and its verdict is
given to the observer before the PUT that may hang (that it then reaches HGAP is
`TerminalDelivered`). `EndScript`, `Tick`, `Publish` and `Crash` are not fair: a script
may hang, HGAP may stay silent. The progress properties are checked without the failures
of requests and signatures, which the code retries without bound and nothing forces to
end. Execution: weak fairness of the command's own steps (`Local`), of the goroutine's,
and of the timeout of a script that has one; not of `Transfer`, since `http.Get`
(`pkg/download/downloader.go:32-34`), the blob client, the token request and, in the
service, the report have no timeout, and not of the end of a script. `Returns`
therefore says: the command ends, or a request hangs - also one of the goroutine,
for which `done <- true` waits (`cmds.go:306`) - or a script without a timeout runs
for ever. ServiceInstall: weak fairness of each process, and of the agent's retry
of an update that failed ("WALA will try us again", `cmds.go:100`); the number of
faults is bounded, so that some retry has none.

**Mutants.** For each property of a passing run, a changed copy of one
definition (a merge that is missing, a counter not read, `<=` for `<`, a missing
decrement, a process killed instead of its group, a buffered channel...) stands
before the original; with it in place TLC finds the property violated. They are
marked "Mutant" in the modules.

## 5. The proofs

Assumptions are those named in the modules: `GoalStatesAssumption` (sequence
numbers are natural, names are not empty), `ObserverAssumption` and
`ServiceAssumption` (keys are keys, the sets that are counted are finite, the
capacity is positive), `ServiceInstallAssumption` (versions are positive numbers),
`UpgradeAssumption` (in each environment two different versions, the path names one of
them, and the agent tells the old one in one of the two ways of the table at
`cmds.go:460-467`; `Nowhere` is no version),
`CommandAssumption` (numbers are natural) and
`ExecutionAssumption` (items and blob settings have their fields, statuses are
HTTP statuses other than 200).

**StatusObserverProofs.** `TypeCorrect`: `TypeOK` is inductive.
`TerminalStatusesKept`: `TerminalKept` alone is not, since it says nothing of a
caller's list. `IInv` adds `Custody`: a caller has uncollected statuses in its
hands only between range and save (`FreshUntilSaved`); a list about to be saved
has them (`SaveCoversFresh`); a list that is not stale has all of the file but
what was superseded (`ListCoversFile`); keys that prune have been seen
(`KeysSeen`). One lemma per action. Lemmas on sequences give the elements of a
concatenation, of `Append` and of `RemoveAt`; `WithoutKeepsOthers` says that
the prune loop removes only what the key makes obsolete.

`AggregatesComplete` and `HgapRemembers` are about any number of callers, with every
failure. `FlowInv` adds to `IInv`: a caller that nobody disturbs (it is not in `moved`)
holds the running goal states of the keys it has visited, and deletes none of them
(`Gathered`); what it holds beside its list is running (`LiveRuns`); its list is the file
when it sends, unless it is stale (`Ready`); and as long as no write has damaged the
file, every terminal status that HGAP was told (`ToldIsKept`), or is about to be
(`SentIsKept`), is in the file or superseded, so that the next aggregate has it too,
after a restart as well. `BystanderKeeps` is the lemma for the callers that do not act.

**ImmediateServiceProofs.** `Invariance` proves `IInv`, in three parts.
*Types*, with the counter between 0 and the number of tasks. *Counts*: the counter
is the number of handlers between increment and decrement (`CounterExact`), and
an iteration that overlooked nothing has room for what it launches
(`RoomReserved`); cardinality lemmas cover the launch of several tasks.
*Claims*: of a run command that never raced, one worker at a time is about to
save (`OneSaves`), with a number above the stored one (`SaveRaises`); a worker on
its way to the script has its number on disk and its script not started
(`ClaimSaved`), alone (`OneClaims`); the number of a started script is on disk
(`RunSaved`). A restart removes all workers and keeps the disk, which is why the
claims survive it. `CapacityRespected` and `ScriptsRunOnce` follow, for every
capacity, set of goal states, and number of crashes and copies.
`VerdictsAgree` adds *Verdicts*: a worker before its first verdict works on a goal
state without one (`NoVerdictYet`), one that has passed it on a goal state without an
Error (`NoErrorYet`), and the number of a goal state with a verdict is on disk
(`VerdictSaved`), which turns every later worker away. All three except the two cases
that `OneVerdict` excepts.

**CommandProcessingProofs.** All seven properties of the run, for any number of
processes, numbers, deaths and faults. Three invariants carry them. *Numbered*, as
long as nothing raced: one process at a time saves, and its number is greater
than all that passed the check before it (`OneSaves`, `SavesGreater`); the stored
number covers all of those (`StoredCovers`); two processes on their way have
different numbers, and a script not yet started (`OneUses`); who is on its way and was
not outrun has the greatest number (`NotOutrun`). *Pids*: the pid file names a
process that got as far as its script (`PidLate`), and, if none slipped, the only
one that starts or runs one (`Reachable`). *Owned*: a number that is stored or in
transition has a final status, a process that has saved it and goes on, one that died,
or one that ended and could not write its final status (`unreported`).
`ScriptOnce`, `OneScript`, `Settled` and `FailureSeen` follow from the invariant.
`KillsOlder` and `NewestLast` are about steps: `StepKinds` shows that only
`KillGroup` makes another process die, and a reboot, and that only `StartScript`
counts a script.

**OutputBlobProofs.** `PiecesInOrder`: `InOrder` is inductive once the variables have
their types, since a shipment begins after the last acknowledged piece, which is in
the blob.

**ServiceInstallProofs.** All safety properties of the run, for any number of
faults. A command is the list of calls it has left, so `Roles` first says which
lists each command can have, and `Agent` which commands can be at work at which
stage of the agent, one at a time if none overlapped. Lemmas then give each call's
effect on the unit file, the enablement and the running service (`Effect`), so
that the proof has one case per call and not one per command and position. On
these rest three statements about the unit, each for fewer histories than the one
before, and all for histories in which no commands overlapped and `Register` replaced no
service that was on (`Plain`). *Unit*: what runs is enabled and of the unit file's
version, and what is enabled without running was left halfway or is about to be
started or disabled. *Left*, if no uninstall failed in silence: which versions the unit
can have at each stage. *EnabledRight*, if no failure at all was taken for a success:
the unit is of the version that enable was called for. `Spared` is about the uninstall
alone. The theorems are what these say when a command is done.

**ExecutionProofs.** The refinement, `OutputBlobsImplemented`, is the main result:
every step of `Execution` is, for each stream, a step of `OutputBlob` or none. The
actors share positions and blobs without a lock, and what one has read may be
appended later; `BlobInv` says why this is safe. *Places*: the goroutine lives
between `StartTicker` and `Done` only, so that it and the command are never in
`appendToBlob` together. *Holdings*: what an actor holds follows the position of
the stream it is at, and has been printed. *Logs*: nothing is printed before the
log files are created, empty. Most of the forty actions are *quiet* (`QuietStep`):
they move the command or the goroutine along one of eight edges and leave blobs and
positions alone, so that the proof of a property has one case for all of them.
`OutputSent` adds to `BlobInv` what the command's last append leaves (`Complete`),
`WholeScriptsRun` where the script's file is during the downloads (`ScriptInv`:
whole once its own download is over, untouched by artifacts that do not have its
name), `EveryDownloaderIsTried` what each downloader has been answered (`Tries`: the ones
before the present one are exhausted, the present one has as many answers as it was
asked and none of them settled, the later ones have none). `ResultReportedLast` needs only that the goroutine is gone at the end, which
is what the unbuffered channel is for.

**UpgradeProofs.** `NoScriptRunsAgain`: `NoRerun` is not inductive, since the
check that keeps a script from running again looks at an mrseq file only. `IInv`
adds that the mrseq file of the old version covers every script that ran, or was
deleted by a problematic version (`OldCovers`), which then has a status file of
it (`RunsTraced`); that in the new version the file covers it once the loop in
progress has visited what it has left (`NewCovers`), an empty file being passed
over for number 0 only (`TornUnvisited`); and that what is copied is there
(`NamesExist`), so that no copy undoes a rehydration. All but the run commands that
are `Forgotten`: after a problematic version, those whose status file could not be
written, and those with a dot in their name. A failed attempt returns to
the state in which only the old version counts, which is why retries are safe.
`Directories` proves that every environment whose directory to move from exists leads
from the old version to the new one (`Found`: no step beyond `Update` is taken in the
others), `VersionsOrdered` that `compareVersions` orders versions.

`RetriesRepair` and `StatusesReturn` are about the step that ends an update, and rest
on `Moved`: before the update the new version has no mrseq file (`Untouched`), and a
problematic old one has none after `Disable` (`OldBare`); so an mrseq file of the new
version comes from an mrseq file of the old one, or, in a problematic move, from a
status file of it (`Sourced`). Each loop has done its part for what it has no longer in
hand (`MrSeqCopied`, `TornZero`, `StatusCopied`, `DummyMade`), whatever an attempt
before it left. A dummy in the old directory does not disturb this: only a sound move
has mrseq files there, and so dummies to make.

**Only model-checked.** The liveness properties `TerminalDelivered`, `RoomAgain`,
`CaughtUp`, `VerdictGiven`, `UpdateDone` and `Returns`: liveness under fairness, and
ENABLED, are beyond this prover. No module declares a RECURSIVE
operator; loops are one action per round.

## 6. Disagreements between code and text

* `ObserverLostUpdate`: `immediatestatus.go:87` promises that a status removed
  from the map is saved in the local file. Two goroutines that finish together
  read the same file and write one after the other; the first one's is lost.
* `ServiceSelfKill`: `cmds.go:178` exits when a sequence number "is already
  processed". The update of a running run command saves its number, then kills
  the "previous extension", which in the service is the service itself
  (`pid.go:34`, `97`). After the restart the update is turned away unprocessed.
* `ServiceSilentFailure`: `immediateruncommand.go:123` reports the final status
  "if there was an error executing the goal state". `goalstate.go:141` discards the
  error of the command processor.

More are in the models as the code has them, without a run of their own:

* `status.go:147` says that disabled goal states are removed from the list, so that
  they are not reported. The `break` at 163 removes one entry; repeated terminal
  reports of a goal state leave more.
* `cmds.go:443` creates dummy status files "to prevent poll status timeouts". They go
  to the directory that the environment names (`cmds.go:742`), the old version's
  where `cmds.go:482-485` takes effect; `StatusReturned` excepts that case.
* `files.go:70` says that a download which failed with its SAS is tried by managed
  identity or publicly. An error status gives a nil error (`pkg/download/blob.go:88-89`),
  and nothing else is tried (`SasRefused`); the command fails for want of the file.
  `EveryDownloaderTried` excepts it.
* `cmds.go:107` rehydrates the mrseq files that a problematic version has deleted, so
  that no run command runs again. It takes a run command's name and number from the
  status file's name, split at dots, and passes over one that has more than three
  parts (`cmds.go:573-576`): a run command with a dot in its name may run again.
  `NoRerun` excepts it.
* `cmds.go:482-485` provides for an environment that names the old version's directory.
  Where the text of the new version is part of the old one's (1.3.27.1 to 1.3.27),
  `strings.Contains` takes the old directory for the new one, the directory to move
  from does not exist, and every attempt to update fails.
* The same environment is written into the unit of the service
  (`serviceinstall.go:233`), which after such an update starts the old version again.
  `UpdateTakesOver` excepts it.
* An update replaces the unit of a service that is on and starts it, which does nothing
  to one that runs (`servicehandler.go:85-107`). `disable` stops the service under the name
  `runCommandService` only (`cmds.go:120`); under any other, the old version goes on
  running after the update.
* `commandProcessor.go:84`, `105` and `114` look at no error of the report. When the final
  status cannot be written, a command that failed exits with 0 while its settings can be
  read, and its status stays transitioning. `FailureSeen` and `Settled` except it.
* No PUT to HGAP has a timeout (`statusreporter.go:32`), nor has a request for a token
  (`blobwithmsitoken.go:73`). A first report that hangs keeps its place for good, since it
  comes before the 90 minute timer (`immediateruncommand.go:116`), and a report of the
  loop that hangs ends its polling.

## 7. What is not modelled

* *Settings* (parsing, decryption, signatures), *telemetry*, *log tails* and *script
  preprocessing* are pure functions or I/O whose only effect on the modelled state
  is a failure, and that failure is in the models. What a script prints, and the
  texts of the reports, are left out.
* *HGAP communicator*: a request is one step; its retry loop ends within it.
* *Clean-up*: the files of a number are deleted or truncated in one step; the
  directory of a RunAsUser is left out, as are the checks of that user, which are
  one step that may fail (`NoStart`).
* *Pids* are not used again: the start time in the pid file tells a new process
  with an old pid from the old one.
* *A machine without systemd*, on which registering the service is an error and the
  other operations on it do nothing (`serviceinstall.go:38`, `94`).
* Time-outs and sleeps appear as steps that may happen, in any order. A deletion
  of a process's files while it downloads is in `CommandProcessing` only, where
  the download is one step.
