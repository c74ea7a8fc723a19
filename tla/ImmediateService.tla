-------------------------- MODULE ImmediateService --------------------------
(***************************************************************************)
(* The immediate run command service: the poll loop that asks the          *)
(* HostGAPlugin (HGAP) for goal states and launches a goroutine for each   *)
(* new one, that goroutine (the handler) with its 90 minute timeout, the   *)
(* goroutine that executes the command (the worker), and the files that    *)
(* outlive the process: the sequence number (mrseq) and the pid file of    *)
(* each run command. What happens inside the status observer is the        *)
(* subject of StatusObserver; here it is the map from key to status.       *)
(*                                                                         *)
(* Ghost variables (runs, raced, overlooked, reported, timedOut, turned,   *)
(* erred, deaths) record what happened and guard nothing.                  *)
(***************************************************************************)
EXTENDS GoalStates, FiniteSets

CONSTANTS
  Keys,           \* the goal states of the run
  Lists,          \* the sets of goal states that HGAP may list together
  Copies,         \* bound: goroutine pairs that one goal state can have at a time
  MaxConcurrent,  \* maxConcurrentTasks (5 in the code)
  MaxETag,        \* bound: versions of HGAP's list
  MaxCrashes,     \* bound: crashes that the service does not cause itself
  Faults          \* which failures the environment may produce

ASSUME ServiceAssumption ==
  /\ Keys \subseteq GoalStateKey /\ IsFiniteSet(Keys)
  /\ Lists \subseteq SUBSET Keys
  /\ IsFiniteSet(Copies)
  /\ MaxConcurrent \in Nat \ {0} /\ MaxETag \in Nat /\ MaxCrashes \in Nat
  /\ Faults \subseteq {"fetch", "signature", "early", "enable", "hang"}

NoSeq == -1                        \* there is no mrseq file

(* Where a step leaves a goroutine whose last call is a request without a   *)
(* timeout, above all the PUT of a report (statusreporter.go:32): at its    *)
(* next step, or in that request for good.                                  *)
After(label) == {label} \cup (IF "hang" \in Faults THEN {"hung"} ELSE {})

Tasks == Keys \X Copies
KeyOf(t) == t[1]
ExtOf(t) == KeyOf(t).ext

VARIABLES
  listed, etag,       \* HGAP: its goal states and their version
  pollAt,             \* next step of the poll loop
  lastProcessedETag,  \* 0 is ""
  fetched, newETag,   \* goal states and version that the poll works on
  maxTasksToFetch, skippedGoalStates,
  executingTasks,     \* the atomic counter
  goalStateEventMap,  \* the observer's map
  handler, worker,    \* per task: next step of each goroutine
  async,              \* tasks whose settings ask for AsyncExecution
  mrseq,              \* on disk: latest sequence number saved per run command
  pidFiles,           \* on disk: pid files that name the running process
  runs,               \* ghost: scripts started per goal state (0, 1, more)
  raced,              \* ghost: two commands were between check and save of mrseq
  overlooked,         \* ghost: the counter was read before a launched task counted
  reported,           \* ghost: terminal statuses notified per goal state
  timedOut,           \* ghost: goal states given up after 90 minutes
  turned,             \* ghost: goal states turned away as already processed
  erred,              \* ghost: goal states that failed before their first report
  crashes, deaths     \* crashes so far (bounded), ghost: deaths of any cause

hgapVars == <<listed, etag>>
pollVars == <<pollAt, lastProcessedETag, fetched, newETag, maxTasksToFetch,
              skippedGoalStates>>
taskVars == <<executingTasks, handler, worker, async>>
diskVars == <<mrseq, pidFiles>>
ghosts == <<runs, raced, overlooked, reported, timedOut, turned, erred, crashes, deaths>>
vars == <<hgapVars, pollVars, taskVars, goalStateEventMap, diskVars, ghosts>>

Init ==
  /\ listed \in Lists /\ etag = 1
  /\ pollAt = "idle" /\ lastProcessedETag = 0
  /\ fetched = {} /\ newETag = 0 /\ maxTasksToFetch = 0 /\ skippedGoalStates = {}
  /\ executingTasks = 0
  /\ goalStateEventMap = [k \in Keys |-> Absent]
  /\ handler = [t \in Tasks |-> "none"]
  /\ worker = [t \in Tasks |-> "none"]
  /\ async = {}
  /\ mrseq = [e \in ExtensionNames |-> NoSeq]
  /\ pidFiles = {}
  /\ runs = [k \in Keys |-> 0]
  /\ raced = {} /\ overlooked = FALSE
  /\ reported = [k \in Keys |-> {}]
  /\ timedOut = {} /\ turned = {} /\ erred = {}
  /\ crashes = 0 /\ deaths = 0

(* notifier.Notify: the observer stores the status.                         *)
Notify(k, s) ==
  /\ goalStateEventMap' = [goalStateEventMap EXCEPT ![k] = s]
  /\ reported' = IF IsTerminal(s) THEN [reported EXCEPT ![k] = @ \cup {s}]
                                  ELSE reported

(* Any report takes the terminal statuses out of the map (into the file).   *)
Collect(k) ==
  /\ IsTerminal(goalStateEventMap[k])
  /\ goalStateEventMap' = [goalStateEventMap EXCEPT ![k] = Absent]
  /\ UNCHANGED <<hgapVars, pollVars, taskVars, diskVars, ghosts>>

(* HGAP has a new list of goal states.                                      *)
Publish(goalStates) ==
  /\ etag < MaxETag
  /\ etag' = etag + 1 /\ listed' = goalStates
  /\ UNCHANGED <<pollVars, taskVars, goalStateEventMap, diskVars, ghosts>>

-----------------------------------------------------------------------------
(* Mutant: the running tasks are not counted against the capacity.          *)
ReadNoCount ==
  /\ pollAt = "idle"
  /\ maxTasksToFetch' = MaxConcurrent
  /\ overlooked' = (overlooked \/ \E t \in Tasks : handler[t] = "spawned")
  /\ pollAt' = "fetch"
  /\ UNCHANGED <<hgapVars, lastProcessedETag, fetched, newETag, skippedGoalStates,
                 taskVars, goalStateEventMap, diskVars, runs, raced, reported,
                 timedOut, turned, erred, crashes, deaths>>

(* processImmediateRunCommandGoalStates. At full capacity an iteration does *)
(* nothing; so does one whose request fails or whose ETag is known.         *)
ReadCount ==
  /\ pollAt = "idle" /\ executingTasks < MaxConcurrent
  /\ maxTasksToFetch' = MaxConcurrent - executingTasks
  /\ overlooked' = (overlooked \/ \E t \in Tasks : handler[t] = "spawned")
  /\ pollAt' = "fetch"
  /\ UNCHANGED <<hgapVars, lastProcessedETag, fetched, newETag, skippedGoalStates,
                 taskVars, goalStateEventMap, diskVars, runs, raced, reported,
                 timedOut, turned, erred, crashes, deaths>>

Return == pollAt' = "idle" /\ fetched' = {} /\ newETag' = 0 /\ maxTasksToFetch' = 0

Fetch ==
  /\ pollAt = "fetch"
  /\ \/ etag = lastProcessedETag /\ Return
     \/ "fetch" \in Faults /\ Return
     \/ /\ etag # lastProcessedETag
        /\ fetched' = listed /\ newETag' = etag /\ pollAt' = "remove"
        /\ UNCHANGED maxTasksToFetch
  /\ UNCHANGED <<hgapVars, lastProcessedETag, skippedGoalStates, taskVars,
                 goalStateEventMap, diskVars, ghosts>>

(* goalStateEventObserver.RemoveProcessedGoalStates.                        *)
RemoveProcessed ==
  /\ pollAt = "remove" /\ pollAt' \in After("select")
  /\ goalStateEventMap' =
       [k \in Keys |-> IF k \in fetched THEN goalStateEventMap[k] ELSE Absent]
  /\ UNCHANGED <<hgapVars, lastProcessedETag, fetched, newETag, maxTasksToFetch,
                 skippedGoalStates, taskVars, diskVars, ghosts>>

(* A worker whose handler is gone is blocked on its send for good, if it    *)
(* does not hang already.                                                   *)
Free(t) == handler[t] = "none" /\ worker[t] \in {"none", "hung", "sendDone", "sendErr"}

NewTask(k) == CHOOSE t \in Tasks : KeyOf(t) = k /\ Free(t)

Unprocessed == {k \in fetched : goalStateEventMap[k] = Absent}

(* getGoalStatesToProcess: one signature that cannot be validated fails the *)
(* iteration. Otherwise the first maxTasksToFetch goal states, in the order *)
(* of HGAP's list, are launched and the others are skipped.                 *)
Select ==
  /\ pollAt = "select"
  /\ \/ /\ "signature" \in Faults /\ Return
        /\ UNCHANGED <<lastProcessedETag, skippedGoalStates, taskVars>>
     \/ \E new \in SUBSET Unprocessed :
          /\ \/ new = Unprocessed /\ Cardinality(new) <= maxTasksToFetch
             \/ Cardinality(new) = maxTasksToFetch
          /\ \A k \in new : \E t \in Tasks : KeyOf(t) = k /\ Free(t)
          /\ LET started == {NewTask(k) : k \in new} IN
               /\ handler' = [t \in Tasks |->
                                IF t \in started THEN "spawned" ELSE handler[t]]
               /\ worker' = [t \in Tasks |->
                               IF t \in started THEN "none" ELSE worker[t]]
               /\ async' = async \ started
          /\ skippedGoalStates' = Unprocessed \ new
          /\ pollAt' = "skip"
          /\ UNCHANGED <<lastProcessedETag, fetched, newETag, maxTasksToFetch,
                         executingTasks>>
  /\ UNCHANGED <<hgapVars, goalStateEventMap, diskVars, ghosts>>

(* ReportFinalStatusForImmediateGoalState: only the enable command reports. *)
ReportFinal(k, s) ==
  IF k.state = "enabled" THEN Notify(k, s) ELSE UNCHANGED <<goalStateEventMap, reported>>

Skip(k) ==
  /\ pollAt = "skip" /\ k \in skippedGoalStates
  /\ skippedGoalStates' = skippedGoalStates \ {k}
  /\ ReportFinal(k, "skipped")
  /\ pollAt' \in IF k.state = "enabled" THEN After("skip") ELSE {"skip"}
  /\ UNCHANGED <<hgapVars, lastProcessedETag, fetched, newETag, maxTasksToFetch,
                 taskVars, diskVars, runs, raced, overlooked, timedOut, turned, erred,
                 crashes, deaths>>

(* Mutant: the iteration returns the ETag it was called with.               *)
EndPollOldETag ==
  /\ pollAt = "skip" /\ skippedGoalStates = {}
  /\ Return
  /\ UNCHANGED <<hgapVars, lastProcessedETag, skippedGoalStates, taskVars,
                 goalStateEventMap, diskVars, ghosts>>

EndPoll ==
  /\ pollAt = "skip" /\ skippedGoalStates = {}
  /\ lastProcessedETag' = newETag
  /\ Return
  /\ UNCHANGED <<hgapVars, skippedGoalStates, taskVars, goalStateEventMap, diskVars,
                 ghosts>>

-----------------------------------------------------------------------------
(* The handler: the goroutine of processImmediateRunCommandGoalStates and   *)
(* HandleImmediateGoalState, which it calls.                                *)
Increment(t) ==
  /\ handler[t] = "spawned"
  /\ executingTasks' = executingTasks + 1
  /\ handler' = [handler EXCEPT ![t] = "counted"]
  /\ UNCHANGED <<hgapVars, pollVars, worker, async, goalStateEventMap, diskVars, ghosts>>

(* The first report comes before the worker, and before the timer.          *)
StartWorker(t) ==
  /\ handler[t] = "counted"
  /\ Notify(KeyOf(t), Empty)
  /\ \/ /\ handler' = [handler EXCEPT ![t] = "waiting"]
        /\ worker' = [worker EXCEPT ![t] = "start"]
     \/ /\ "hang" \in Faults
        /\ handler' = [handler EXCEPT ![t] = "hung"]
        /\ UNCHANGED worker
  /\ UNCHANGED <<hgapVars, pollVars, executingTasks, async, diskVars, runs, raced,
                 overlooked, timedOut, turned, erred, crashes, deaths>>

Decrement == executingTasks' = executingTasks - 1

(* The select of HandleImmediateGoalState, and the Decrement after it. An   *)
(* error is sent for a goal state of unknown state only, for which          *)
(* ReportFinalStatusForImmediateGoalState returns an error.                 *)
Receive(t) ==
  /\ handler[t] = "waiting" /\ worker[t] \in {"sendDone", "sendErr"}
  /\ handler' = [handler EXCEPT ![t] = "none"]
  /\ worker' = [worker EXCEPT ![t] = "none"]
  /\ async' = async \ {t}
  /\ Decrement
  /\ UNCHANGED <<hgapVars, pollVars, goalStateEventMap, diskVars, ghosts>>

(* Mutant: the return of an error skips the Decrement.                      *)
TimeoutKeepsPlace(t) ==
  /\ handler[t] = "waiting"
  /\ handler' = [handler EXCEPT ![t] = "failed"]
  /\ timedOut' = timedOut \cup {KeyOf(t)}
  /\ UNCHANGED <<hgapVars, pollVars, executingTasks, worker, async, goalStateEventMap,
                 diskVars, runs, raced, overlooked, reported, turned, erred, crashes,
                 deaths>>

Timeout(t) ==
  /\ handler[t] = "waiting"
  /\ handler' = [handler EXCEPT ![t] = "failed"]
  /\ Decrement
  /\ timedOut' = timedOut \cup {KeyOf(t)}
  /\ UNCHANGED <<hgapVars, pollVars, worker, async, goalStateEventMap, diskVars, runs,
                 raced, overlooked, reported, turned, erred, crashes, deaths>>

(* Mutants: a second Decrement on the error path; an error only logged.     *)
ReportFailureAndDecrement(t) ==
  /\ handler[t] = "failed"
  /\ handler' = [handler EXCEPT ![t] = "none"]
  /\ ReportFinal(KeyOf(t), "error")
  /\ Decrement
  /\ UNCHANGED <<hgapVars, pollVars, worker, async, diskVars, runs, raced, overlooked,
                 timedOut, turned, erred, crashes, deaths>>

LogFailure(t) ==
  /\ handler[t] = "failed"
  /\ handler' = [handler EXCEPT ![t] = "none"]
  /\ UNCHANGED <<hgapVars, pollVars, executingTasks, worker, async, goalStateEventMap,
                 diskVars, ghosts>>

(* If this report hangs, the goroutine had nothing else to do.              *)
ReportFailure(t) ==
  /\ handler[t] = "failed"
  /\ handler' = [handler EXCEPT ![t] = "none"]
  /\ ReportFinal(KeyOf(t), "error")
  /\ UNCHANGED <<hgapVars, pollVars, executingTasks, worker, async, diskVars, runs, raced,
                 overlooked, timedOut, turned, erred, crashes, deaths>>

-----------------------------------------------------------------------------
(* The worker: startAsync, ProcessImmediateHandlerCommand and the command.  *)
WorkerGoto(t, label) == worker' = [worker EXCEPT ![t] = label]
WorkerAfter(t, label) == \E l \in After(label) : WorkerGoto(t, l)

(* An error of ProcessImmediateHandlerCommand before its first report: the  *)
(* result is dropped, and done is sent as after a success.                  *)
FailEarly(t) ==
  /\ "early" \in Faults
  /\ worker[t] \in {"start", "save", "store"}
  /\ KeyOf(t).state # "unknown"
  /\ worker[t] # "start" => KeyOf(t).state = "enabled"
  /\ WorkerGoto(t, "sendDone")
  /\ erred' = erred \cup {KeyOf(t)}
  /\ UNCHANGED <<hgapVars, pollVars, executingTasks, handler, async, goalStateEventMap,
                 diskVars, runs, raced, overlooked, reported, timedOut, turned, crashes,
                 deaths>>

NoCommand(t) ==
  /\ worker[t] = "start" /\ KeyOf(t).state = "unknown"
  /\ WorkerGoto(t, "sendErr")
  /\ UNCHANGED <<hgapVars, pollVars, executingTasks, handler, async, goalStateEventMap,
                 diskVars, ghosts>>

(* Mutant: the sequence number saved last passes for a new one.             *)
SmallerOrEqual(t) == mrseq[ExtOf(t)] <= KeyOf(t).seq

(* enablePre, checkAndSaveSeqNum: IsSmallerThan reads the file...           *)
Smaller(t) == mrseq[ExtOf(t)] < KeyOf(t).seq

CheckSeqNum(t) ==
  /\ worker[t] = "start" /\ KeyOf(t).state = "enabled"
  /\ IF Smaller(t)
       THEN /\ WorkerGoto(t, "save")
            /\ raced' = IF \E u \in Tasks : worker[u] = "save" /\ ExtOf(u) = ExtOf(t)
                          THEN raced \cup {ExtOf(t)} ELSE raced
            /\ UNCHANGED turned
       ELSE /\ WorkerGoto(t, "sendDone")      \* ErrAlreadyProcessed
            /\ turned' = turned \cup {KeyOf(t)}
            /\ UNCHANGED raced
  /\ UNCHANGED <<hgapVars, pollVars, executingTasks, handler, async, goalStateEventMap,
                 diskVars, runs, overlooked, reported, timedOut, erred, crashes, deaths>>

(* ... and SaveSeqNum writes it.                                            *)
SaveSeqNum(t) ==
  /\ worker[t] = "save"
  /\ mrseq' = [mrseq EXCEPT ![ExtOf(t)] = KeyOf(t).seq]
  /\ WorkerGoto(t, "store")
  /\ UNCHANGED <<hgapVars, pollVars, executingTasks, handler, async, goalStateEventMap,
                 pidFiles, ghosts>>

(* The settings are stored, the first report says Transitioning.            *)
StoreSettings(t) ==
  /\ worker[t] = "store"
  /\ Notify(KeyOf(t), Transitioning)
  /\ WorkerAfter(t, "enable")
  /\ UNCHANGED <<hgapVars, pollVars, executingTasks, handler, async, diskVars, runs,
                 raced, overlooked, timedOut, turned, erred, crashes, deaths>>

(* Mutant: a failure is reported, and the script started all the same.      *)
ReportAndGoOn(t, s) ==
  /\ worker[t] = "enable"
  /\ Notify(KeyOf(t), s)
  /\ WorkerGoto(t, "kill")
  /\ UNCHANGED <<hgapVars, pollVars, executingTasks, handler, async, diskVars, runs,
                 raced, overlooked, timedOut, turned, erred, crashes, deaths>>

(* enable up to the script: it fails (settings, service, download, blob) or *)
(* has only the service to install (installAsService), and the one final    *)
(* report is an Error if TreatFailureAsDeploymentFailure is set; ...        *)
EndEnable(t, s) ==
  /\ "enable" \in Faults
  /\ worker[t] = "enable"
  /\ Notify(KeyOf(t), s)
  /\ WorkerAfter(t, "sendDone")
  /\ UNCHANGED <<hgapVars, pollVars, executingTasks, handler, async, diskVars, runs,
                 raced, overlooked, timedOut, turned, erred, crashes, deaths>>

(* ... or it goes on, through downloads and the creation of blobs, and with *)
(* AsyncExecution it reports Success before the script.                     *)
Prepare(t) ==
  /\ worker[t] = "enable"
  /\ WorkerAfter(t, "kill")
  /\ UNCHANGED <<hgapVars, pollVars, executingTasks, handler, async, goalStateEventMap,
                 diskVars, ghosts>>

PrepareAsync(t) ==
  /\ worker[t] = "enable"
  /\ Notify(KeyOf(t), "success")
  /\ async' = async \cup {t}
  /\ WorkerAfter(t, "kill")
  /\ UNCHANGED <<hgapVars, pollVars, executingTasks, handler, diskVars, runs, raced,
                 overlooked, timedOut, turned, erred, crashes, deaths>>

(* The process dies: what is in memory is lost, the files stay, systemd     *)
(* starts the service again. A pid file of the dead process matches no      *)
(* process from then on.                                                    *)
Restart ==
  /\ pollAt' = "idle" /\ lastProcessedETag' = 0
  /\ fetched' = {} /\ newETag' = 0 /\ maxTasksToFetch' = 0 /\ skippedGoalStates' = {}
  /\ executingTasks' = 0
  /\ goalStateEventMap' = [k \in Keys |-> Absent]
  /\ handler' = [t \in Tasks |-> "none"]
  /\ worker' = [t \in Tasks |-> "none"]
  /\ async' = {}
  /\ pidFiles' = {}
  /\ deaths' = IF deaths = 0 THEN 1 ELSE deaths
  /\ UNCHANGED <<hgapVars, mrseq, runs, raced, overlooked, reported, timedOut, turned,
                 erred>>

(* KillPreviousExtension, before the script of enable and for a disable.    *)
(* The pid in the file is the service's own: the kill takes its group.      *)
Kills(t) ==
  \/ worker[t] = "kill"
  \/ worker[t] = "start" /\ KeyOf(t).state = "disabled"

KillSelf(t) ==
  /\ Kills(t) /\ ExtOf(t) \in pidFiles
  /\ Restart
  /\ UNCHANGED crashes

NothingToKill(t) ==
  /\ Kills(t) /\ ExtOf(t) \notin pidFiles
  /\ WorkerGoto(t, IF worker[t] = "kill" THEN "pid" ELSE "sendDone")
  /\ UNCHANGED <<hgapVars, pollVars, executingTasks, handler, async, goalStateEventMap,
                 diskVars, ghosts>>

(* SaveCurrentPidAndStartTime and the start of the script.                  *)
RunScript(t) ==
  /\ worker[t] = "pid"
  /\ pidFiles' = pidFiles \cup {ExtOf(t)}
  /\ runs' = [runs EXCEPT ![KeyOf(t)] = IF @ = 0 THEN 1 ELSE 2]
  /\ WorkerGoto(t, "run")
  /\ UNCHANGED <<hgapVars, pollVars, executingTasks, handler, async, goalStateEventMap,
                 mrseq, raced, overlooked, reported, timedOut, turned, erred, crashes,
                 deaths>>

(* The ticker reports while the script runs. A report that hangs is waited  *)
(* for when the script has ended (cmds.go:306), in EndScript.               *)
Tick(t) ==
  /\ worker[t] = "run"
  /\ Notify(KeyOf(t), IF t \in async THEN "success" ELSE Transitioning)
  /\ UNCHANGED <<hgapVars, pollVars, taskVars, diskVars, runs, raced, overlooked,
                 timedOut, turned, erred, crashes, deaths>>

EndScript(t) ==
  /\ worker[t] = "run"
  /\ pidFiles' = pidFiles \ {ExtOf(t)}
  /\ WorkerAfter(t, "final")
  /\ UNCHANGED <<hgapVars, pollVars, executingTasks, handler, async, goalStateEventMap,
                 mrseq, ghosts>>

(* The final report. It is Success also for a script that failed: Cleanup   *)
(* has deleted the settings, TreatFailureAsDeploymentFailure cannot be read.*)
ReportResult(t) ==
  /\ worker[t] = "final"
  /\ Notify(KeyOf(t), "success")
  /\ WorkerAfter(t, "sendDone")
  /\ UNCHANGED <<hgapVars, pollVars, executingTasks, handler, async, diskVars, runs,
                 raced, overlooked, timedOut, turned, erred, crashes, deaths>>

Crash ==
  /\ crashes < MaxCrashes
  /\ crashes' = crashes + 1
  /\ Restart

-----------------------------------------------------------------------------
Poll == ReadCount \/ Fetch \/ RemoveProcessed \/ Select \/ EndPoll
        \/ \E k \in Keys : Skip(k)

Handle(t) == Increment(t) \/ StartWorker(t) \/ Receive(t) \/ Timeout(t) \/ ReportFailure(t)

(* The steps of a worker that depend on nothing but the scheduler.          *)
Work(t) ==
  \/ FailEarly(t) \/ NoCommand(t) \/ CheckSeqNum(t) \/ SaveSeqNum(t) \/ StoreSettings(t)
  \/ Prepare(t) \/ PrepareAsync(t)
  \/ \E s \in {"success", "error"} : EndEnable(t, s)
  \/ KillSelf(t) \/ NothingToKill(t) \/ RunScript(t) \/ ReportResult(t)

Next ==
  \/ \E goalStates \in Lists : Publish(goalStates)
  \/ Poll
  \/ \E k \in Keys : Collect(k)
  \/ \E t \in Tasks : Handle(t) \/ Work(t) \/ Tick(t) \/ EndScript(t)
  \/ Crash

Spec == Init /\ [][Next]_vars

(* Goroutines are scheduled and the 90 minute timer fires. A script need    *)
(* not end, HGAP need not change its list, and a request need not be        *)
(* answered: with "hang" each of these steps may be the last of its         *)
(* goroutine. (The request for goal states has a timeout, vmsettings.go:23.)*)
Fairness ==
  /\ WF_vars(Poll)
  /\ \A k \in Keys : WF_vars(Collect(k))
  /\ \A t \in Tasks : WF_vars(Handle(t)) /\ WF_vars(Work(t))

FairSpec == Spec /\ Fairness

-----------------------------------------------------------------------------
HandlerSteps == {"none", "spawned", "counted", "waiting", "failed", "hung"}
WorkerSteps == {"none", "start", "save", "store", "enable", "kill", "pid", "run",
                "final", "sendDone", "sendErr", "hung"}

PollOK ==
  /\ pollAt \in {"idle", "fetch", "remove", "select", "skip", "hung"}
  /\ lastProcessedETag \in Nat /\ newETag \in Nat
  /\ fetched \in SUBSET Keys /\ skippedGoalStates \in SUBSET Keys
  /\ maxTasksToFetch \in 0..MaxConcurrent
TasksOK ==
  /\ handler \in [Tasks -> HandlerSteps]
  /\ worker \in [Tasks -> WorkerSteps]
  /\ async \in SUBSET Tasks
MapOK ==
  /\ goalStateEventMap \in [Keys -> StatusTypes \cup {Absent}]
  /\ reported \in [Keys -> SUBSET TerminalTypes]
DiskOK ==
  /\ mrseq \in [ExtensionNames -> SeqNumbers \cup {NoSeq}]
  /\ pidFiles \in SUBSET ExtensionNames
  /\ runs \in [Keys -> 0..2]
GhostsOK ==
  /\ raced \in SUBSET ExtensionNames
  /\ overlooked \in BOOLEAN
  /\ timedOut \in SUBSET Keys /\ turned \in SUBSET Keys /\ erred \in SUBSET Keys
  /\ crashes \in Nat /\ deaths \in {0, 1}

(* Every variable has its type; the counter stays between 0 and the number  *)
(* of goroutines, whichever way a goal state ends.                  *)
TypeOK ==
  /\ listed \in SUBSET Keys /\ etag \in Nat
  /\ PollOK /\ TasksOK /\ MapOK /\ DiskOK /\ GhostsOK
  /\ executingTasks \in 0..Cardinality(Tasks)

(* What makes RunsOnce inductive: of a run command that never raced, one    *)
(* worker at a time is about to save its sequence number, which is greater  *)
(* than the one on disk; the number of a worker that is on its way to the   *)
(* script is on disk, its script has not started, and no other worker has   *)
(* the same goal state; the number of a script that was started is on disk. *)
Claimed(t) == worker[t] \in {"store", "enable", "kill", "pid"}

OneSaves ==
  \A t, u \in Tasks : worker[t] = "save" /\ worker[u] = "save" /\ ExtOf(t) = ExtOf(u)
                        => t = u \/ ExtOf(t) \in raced
SaveRaises == \A t \in Tasks : worker[t] = "save" => Smaller(t) \/ ExtOf(t) \in raced
ClaimSaved ==
  \A t \in Tasks : Claimed(t) =>
    \/ mrseq[ExtOf(t)] >= KeyOf(t).seq /\ runs[KeyOf(t)] = 0
    \/ ExtOf(t) \in raced
OneClaims ==
  \A t, u \in Tasks : Claimed(t) /\ Claimed(u) /\ KeyOf(t) = KeyOf(u)
                        => t = u \/ ExtOf(t) \in raced
RunSaved == \A k \in Keys : runs[k] > 0 => mrseq[k.ext] >= k.seq \/ k.ext \in raced

Claims == OneSaves /\ SaveRaises /\ ClaimSaved /\ OneClaims /\ RunSaved

(* The counter is the number of handlers between its increment and its      *)
(* decrement, and an iteration of the poll loop has room for what it        *)
(* launches.                                                                *)
Counted == {t \in Tasks : handler[t] \in {"counted", "waiting", "hung"}}
Admitted == {t \in Tasks : handler[t] \in {"spawned", "counted", "waiting", "hung"}}
CounterExact == executingTasks = Cardinality(Counted)
RoomReserved ==
  ~overlooked /\ pollAt \in {"fetch", "remove", "select"} =>
    Cardinality(Admitted) + maxTasksToFetch <= MaxConcurrent

(* No more goal states are in progress than maxConcurrentTasks, timed out   *)
(* ones excepted, if each launched goroutine counts itself before the loop  *)
(* reads the counter again (immediateruncommand.go:65-66, 104-123).         *)
CapRespected == ~overlooked => Cardinality(Admitted) <= MaxConcurrent

(* The script of a goal state is started once, whatever is relaunched,      *)
(* retried, timed out or restarted; two commands of one run command between *)
(* the check and the save of its sequence number are the one way out        *)
(* (cmds.go:401-419).                                                       *)
RunsOnce == \A k \in Keys : runs[k] = 2 => k.ext \in raced

IInv == TypeOK /\ CounterExact /\ RoomReserved /\ CapRespected /\ Claims /\ RunsOnce

(* HGAP is not told both Success and Error of one goal state, unless it was *)
(* given up after 90 minutes while its script went on (goalstate.go:47).    *)
OneVerdict ==
  \A k \in Keys :
    {"success", "error"} \subseteq reported[k] => k \in timedOut \/ k.ext \in raced

(* A service at full capacity has room again: neither a script nor a report *)
(* that hangs holds its place for more than 90 minutes (goalstate.go:36-51, *)
(* immediateruncommand.go:121), the first report excepted, which comes      *)
(* before the timer: there is room again unless every place is lost to it.  *)
Lost == {t \in Tasks : handler[t] = "hung"}
AllLost == Cardinality(Lost) >= MaxConcurrent
RoomAgain == executingTasks >= MaxConcurrent ~> executingTasks < MaxConcurrent \/ AllLost

(* The poll loop gets to the end of every list that HGAP does not replace,  *)
(* unless a report of the loop itself hangs or every place is lost.         *)
CaughtUp ==
  \A e \in 1..MaxETag :
    etag = e ~> lastProcessedETag = e \/ etag # e \/ pollAt = "hung" \/ AllLost

(* A goal state whose script was started gets a verdict (the observer is    *)
(* given it), whether or not the script ends and whichever report hangs,    *)
(* unless the service died meanwhile.                                       *)
Verdict(k) == reported[k] \cap {"success", "error"} # {}
VerdictGiven == \A k \in Keys : runs[k] > 0 ~> Verdict(k) \/ deaths > 0

(* cmds.go:178: "exit if this sequence number (a snapshot of the            *)
(* configuration) is already processed". It was not when the service killed *)
(* itself between the save of the number and the script.                    *)
TurnedAwayWasProcessed ==
  \A k \in turned : \E j \in Keys :
    /\ j.ext = k.ext /\ j.state = "enabled" /\ j.seq >= k.seq
    /\ \/ runs[j] > 0
       \/ Verdict(j)
       \/ \E t \in Tasks : KeyOf(t) = j /\ worker[t] # "none"

(* immediateruncommand.go:123: "If there was an error executing the goal    *)
(* state, report the final status to the HGAP". The error of an early step  *)
(* is dropped, and nothing is reported.                                     *)
FailureReported ==
  \A k \in erred : k.state = "enabled" =>
    \/ Verdict(k)
    \/ \E t \in Tasks : KeyOf(t) = k /\ ~Free(t)

=============================================================================
