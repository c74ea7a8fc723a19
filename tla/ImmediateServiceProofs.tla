----------------------- MODULE ImmediateServiceProofs -----------------------
(***************************************************************************)
(* Proofs about ImmediateService for every set of goal states, any number  *)
(* of goroutines, any capacity and every choice of faults.                 *)
(***************************************************************************)
EXTENDS ImmediateService, TLAPS, FiniteSetTheorems

(* The keys are what GoalStates says, and there are finitely many tasks.    *)
LEMMA KeyFacts ==
  /\ \A k \in Keys : k.ext \in ExtensionNames /\ k.seq \in SeqNumbers /\ k.seq \in Nat
  /\ \A t \in Tasks : /\ KeyOf(t) \in Keys
                      /\ ExtOf(t) \in ExtensionNames
                      /\ KeyOf(t).seq \in SeqNumbers /\ KeyOf(t).seq \in Nat
  /\ IsFiniteSet(Tasks)
<1>1. \A k \in Keys : k.ext \in ExtensionNames /\ k.seq \in SeqNumbers /\ k.seq \in Nat
  BY ServiceAssumption, GoalStatesAssumption DEF GoalStateKey
<1>2. \A t \in Tasks : KeyOf(t) \in Keys
  BY DEF Tasks, KeyOf
<1>3. IsFiniteSet(Tasks)
  BY ServiceAssumption, FS_Product DEF Tasks
<1>4. QED  BY <1>1, <1>2, <1>3 DEF ExtOf

LEMMA StatusFacts ==
  /\ Empty \in StatusTypes /\ Transitioning \in StatusTypes
  /\ TerminalTypes \subseteq StatusTypes
  /\ "success" \in TerminalTypes /\ "error" \in TerminalTypes /\ "skipped" \in TerminalTypes
BY DEF StatusTypes, TerminalTypes

(* What a notification and a final report do to the map.                    *)
LEMMA NotifyType ==
  ASSUME MapOK, NEW k \in Keys, NEW s \in StatusTypes, Notify(k, s)
  PROVE  MapOK'
BY DEF MapOK, Notify, IsTerminal

LEMMA ReportFinalType ==
  ASSUME MapOK, NEW k \in Keys, NEW s \in StatusTypes, ReportFinal(k, s)
  PROVE  MapOK'
<1>1. CASE Notify(k, s)
  BY <1>1, NotifyType
<1>2. CASE UNCHANGED <<goalStateEventMap, reported>>
  BY <1>2 DEF MapOK
<1>3. QED  BY <1>1, <1>2 DEF ReportFinal

(* The types that a step has to keep, the counter left aside.               *)
OthersOK ==
  /\ listed \in SUBSET Keys /\ etag \in Nat
  /\ PollOK /\ TasksOK /\ MapOK /\ DiskOK /\ GhostsOK

LEMMA PollTypes ==
  ASSUME TypeOK, Poll  PROVE OthersOK'
<1> USE DEF TypeOK, OthersOK
<1>1. CASE ReadCount
  <2>1. PollOK'
    BY <1>1, ServiceAssumption DEF ReadCount, PollOK
  <2>2. GhostsOK'
    BY <1>1 DEF ReadCount, GhostsOK
  <2>3. QED
    BY <1>1, <2>1, <2>2
    DEF ReadCount, hgapVars, taskVars, diskVars, TasksOK, MapOK, DiskOK
<1>2. CASE Fetch
  <2>1. PollOK'
    BY <1>2, ServiceAssumption DEF Fetch, Return, PollOK
  <2>2. QED
    BY <1>2, <2>1
    DEF Fetch, hgapVars, taskVars, diskVars, ghosts, TasksOK, MapOK, DiskOK, GhostsOK
<1>3. CASE RemoveProcessed
  <2>1. PollOK' /\ MapOK'
    BY <1>3 DEF RemoveProcessed, After, PollOK, MapOK, ghosts
  <2>2. QED
    BY <1>3, <2>1
    DEF RemoveProcessed, hgapVars, taskVars, diskVars, ghosts, TasksOK, DiskOK, GhostsOK
<1>4. CASE Select
  <2>1. UNCHANGED <<hgapVars, goalStateEventMap, diskVars, ghosts>>
    BY <1>4 DEF Select
  <2>2. CASE Return /\ UNCHANGED <<lastProcessedETag, skippedGoalStates, taskVars>>
    <3>1. PollOK'
      BY <2>2, ServiceAssumption DEF Return, PollOK
    <3>2. QED
      BY <2>1, <2>2, <3>1
      DEF hgapVars, taskVars, diskVars, ghosts, TasksOK, MapOK, DiskOK, GhostsOK
  <2>3. ASSUME NEW started \in SUBSET Tasks,
               /\ handler' = [t \in Tasks |->
                                IF t \in started THEN "spawned" ELSE handler[t]]
               /\ worker' = [t \in Tasks |->
                               IF t \in started THEN "none" ELSE worker[t]]
               /\ async' = async \ started,
               skippedGoalStates' \in SUBSET Keys, pollAt' = "skip",
               UNCHANGED <<lastProcessedETag, fetched, newETag, maxTasksToFetch>>
        PROVE  OthersOK'
    <3>1. PollOK'
      BY <2>3 DEF PollOK
    <3>2. TasksOK'
      BY <2>3 DEF TasksOK, HandlerSteps, WorkerSteps
    <3>3. QED
      BY <2>1, <3>1, <3>2 DEF hgapVars, diskVars, ghosts, MapOK, DiskOK, GhostsOK
  <2>4. CASE ~Return
    <3>1. PICK new \in SUBSET Unprocessed :
            /\ \A k \in new : \E t \in Tasks : KeyOf(t) = k /\ Free(t)
            /\ LET started == {NewTask(k) : k \in new} IN
                 /\ handler' = [t \in Tasks |->
                                  IF t \in started THEN "spawned" ELSE handler[t]]
                 /\ worker' = [t \in Tasks |->
                                 IF t \in started THEN "none" ELSE worker[t]]
                 /\ async' = async \ started
            /\ skippedGoalStates' = Unprocessed \ new
            /\ pollAt' = "skip"
            /\ UNCHANGED <<lastProcessedETag, fetched, newETag, maxTasksToFetch>>
      BY <1>4, <2>4 DEF Select
    <3>2. {NewTask(k) : k \in new} \in SUBSET Tasks
      BY <3>1 DEF NewTask
    <3>3. skippedGoalStates' \in SUBSET Keys
      BY <3>1 DEF Unprocessed, PollOK
    <3>4. QED  BY <2>3, <3>1, <3>2, <3>3
  <2>5. QED  BY <1>4, <2>2, <2>4 DEF Select, Return
<1>5. ASSUME NEW k \in Keys, Skip(k)  PROVE OthersOK'
  <2>1. PollOK'
    BY <1>5 DEF Skip, After, PollOK
  <2>2. MapOK'
    BY <1>5, ReportFinalType, StatusFacts DEF Skip
  <2>3. QED
    BY <1>5, <2>1, <2>2 DEF Skip, hgapVars, taskVars, diskVars, TasksOK, DiskOK, GhostsOK
<1>6. CASE EndPoll
  <2>1. PollOK'
    BY <1>6, ServiceAssumption DEF EndPoll, Return, PollOK
  <2>2. QED
    BY <1>6, <2>1
    DEF EndPoll, hgapVars, taskVars, diskVars, ghosts, TasksOK, MapOK, DiskOK, GhostsOK
<1>7. QED  BY <1>1, <1>2, <1>3, <1>4, <1>5, <1>6 DEF Poll

LEMMA HandleTypes ==
  ASSUME TypeOK, NEW t \in Tasks, Handle(t)  PROVE OthersOK'
<1> USE DEF TypeOK, OthersOK
<1>1. CASE Increment(t)
  <2>1. TasksOK'
    BY <1>1 DEF Increment, TasksOK, HandlerSteps
  <2>2. QED
    BY <1>1, <2>1
    DEF Increment, hgapVars, pollVars, diskVars, ghosts, PollOK, MapOK, DiskOK, GhostsOK
<1>2. CASE StartWorker(t)
  <2>1. TasksOK'
    BY <1>2 DEF StartWorker, TasksOK, HandlerSteps, WorkerSteps
  <2>2. MapOK'
    BY <1>2, NotifyType, StatusFacts, KeyFacts DEF StartWorker
  <2>3. QED
    BY <1>2, <2>1, <2>2 DEF StartWorker, hgapVars, pollVars, diskVars, PollOK, DiskOK, GhostsOK
<1>3. CASE Receive(t)
  <2>1. TasksOK'
    BY <1>3 DEF Receive, TasksOK, HandlerSteps, WorkerSteps
  <2>2. QED
    BY <1>3, <2>1
    DEF Receive, hgapVars, pollVars, diskVars, ghosts, PollOK, MapOK, DiskOK, GhostsOK
<1>4. CASE Timeout(t)
  <2>1. TasksOK'
    BY <1>4 DEF Timeout, TasksOK, HandlerSteps
  <2>2. GhostsOK'
    BY <1>4, KeyFacts DEF Timeout, GhostsOK
  <2>3. QED
    BY <1>4, <2>1, <2>2 DEF Timeout, hgapVars, pollVars, diskVars, PollOK, MapOK, DiskOK
<1>5. CASE ReportFailure(t)
  <2>1. TasksOK'
    BY <1>5 DEF ReportFailure, TasksOK, HandlerSteps
  <2>2. MapOK'
    BY <1>5, ReportFinalType, StatusFacts, KeyFacts DEF ReportFailure
  <2>3. QED
    BY <1>5, <2>1, <2>2 DEF ReportFailure, hgapVars, pollVars, diskVars, PollOK, DiskOK, GhostsOK
<1>6. QED  BY <1>1, <1>2, <1>3, <1>4, <1>5 DEF Handle

(* The process dies.                                                        *)
LEMMA RestartTypes ==
  ASSUME TypeOK, Restart, crashes' \in Nat  PROVE OthersOK'
<1> USE DEF TypeOK, OthersOK
<1>1. PollOK'
  BY ServiceAssumption DEF Restart, PollOK
<1>2. TasksOK'
  BY DEF Restart, TasksOK, HandlerSteps, WorkerSteps
<1>3. MapOK'
  BY DEF Restart, MapOK
<1>4. DiskOK'
  BY DEF Restart, DiskOK
<1>5. GhostsOK'
  BY DEF Restart, GhostsOK
<1>6. QED  BY <1>1, <1>2, <1>3, <1>4, <1>5 DEF Restart, hgapVars

(* A step that only moves a worker.                                         *)
LEMMA WorkerGotoType ==
  ASSUME TasksOK, NEW t \in Tasks, NEW label \in WorkerSteps, WorkerGoto(t, label),
         UNCHANGED <<handler, async>>
  PROVE  TasksOK'
BY DEF TasksOK, WorkerGoto

(* A worker that moves on from a request, or hangs in it.                   *)
LEMMA AfterSteps ==
  ASSUME NEW t \in Tasks, NEW label \in WorkerSteps, WorkerAfter(t, label)
  PROVE  \E l \in WorkerSteps : WorkerGoto(t, l) /\ l \in {label, "hung"}
BY DEF WorkerAfter, After, WorkerSteps

LEMMA WorkTypes ==
  ASSUME TypeOK, NEW t \in Tasks, Work(t) \/ Tick(t) \/ EndScript(t)
  PROVE  OthersOK'
<1> USE DEF TypeOK, OthersOK
<1>0. {"save", "store", "enable", "kill", "pid", "run", "final", "sendDone", "sendErr"}
        \subseteq WorkerSteps
  BY DEF WorkerSteps
<1>1. CASE FailEarly(t)
  <2>1. TasksOK'
    BY <1>1, <1>0, WorkerGotoType DEF FailEarly
  <2>2. GhostsOK'
    BY <1>1, KeyFacts DEF FailEarly, GhostsOK
  <2>3. QED
    BY <1>1, <2>1, <2>2 DEF FailEarly, hgapVars, pollVars, diskVars, PollOK, MapOK, DiskOK
<1>2. CASE NoCommand(t)
  <2>1. TasksOK'
    BY <1>2, <1>0, WorkerGotoType DEF NoCommand
  <2>2. QED
    BY <1>2, <2>1
    DEF NoCommand, hgapVars, pollVars, diskVars, ghosts, PollOK, MapOK, DiskOK, GhostsOK
<1>3. CASE CheckSeqNum(t)
  <2>1. TasksOK'
    BY <1>3, <1>0, WorkerGotoType DEF CheckSeqNum
  <2>2. raced' \in SUBSET ExtensionNames
    BY <1>3, KeyFacts DEF CheckSeqNum, GhostsOK
  <2>3. turned' \in SUBSET Keys
    BY <1>3, KeyFacts DEF CheckSeqNum, GhostsOK
  <2>4. GhostsOK'
    BY <1>3, <2>2, <2>3 DEF CheckSeqNum, GhostsOK
  <2>5. QED
    BY <1>3, <2>1, <2>4 DEF CheckSeqNum, hgapVars, pollVars, diskVars, PollOK, MapOK, DiskOK
<1>4. CASE SaveSeqNum(t)
  <2>1. TasksOK'
    BY <1>4, <1>0, WorkerGotoType DEF SaveSeqNum
  <2>2. DiskOK'
    BY <1>4, KeyFacts DEF SaveSeqNum, DiskOK, ghosts
  <2>3. QED
    BY <1>4, <2>1, <2>2
    DEF SaveSeqNum, hgapVars, pollVars, ghosts, PollOK, MapOK, GhostsOK
<1>5. CASE StoreSettings(t)
  <2>1. TasksOK'
    BY <1>5, <1>0, AfterSteps, WorkerGotoType DEF StoreSettings
  <2>2. MapOK'
    BY <1>5, NotifyType, StatusFacts, KeyFacts DEF StoreSettings
  <2>3. QED
    BY <1>5, <2>1, <2>2 DEF StoreSettings, hgapVars, pollVars, diskVars, PollOK, DiskOK, GhostsOK
<1>6. CASE Prepare(t)
  <2>1. TasksOK'
    BY <1>6, <1>0, AfterSteps, WorkerGotoType DEF Prepare
  <2>2. QED
    BY <1>6, <2>1
    DEF Prepare, hgapVars, pollVars, diskVars, ghosts, PollOK, MapOK, DiskOK, GhostsOK
<1>7. CASE PrepareAsync(t)
  <2>1. PICK l \in WorkerSteps : WorkerGoto(t, l)
    BY <1>7, <1>0, AfterSteps DEF PrepareAsync
  <2>2. TasksOK'
    BY <1>7, <2>1 DEF PrepareAsync, TasksOK, WorkerGoto
  <2>3. MapOK'
    BY <1>7, NotifyType, StatusFacts, KeyFacts DEF PrepareAsync
  <2>4. QED
    BY <1>7, <2>2, <2>3 DEF PrepareAsync, hgapVars, pollVars, diskVars, PollOK, DiskOK, GhostsOK
<1>8. ASSUME NEW s \in {"success", "error"}, EndEnable(t, s)  PROVE OthersOK'
  <2>1. TasksOK'
    BY <1>8, <1>0, AfterSteps, WorkerGotoType DEF EndEnable
  <2>2. MapOK'
    BY <1>8, NotifyType, StatusFacts, KeyFacts DEF EndEnable
  <2>3. QED
    BY <1>8, <2>1, <2>2 DEF EndEnable, hgapVars, pollVars, diskVars, PollOK, DiskOK, GhostsOK
<1>9. CASE KillSelf(t)
  BY <1>9, RestartTypes DEF KillSelf, GhostsOK
<1>10. CASE NothingToKill(t)
  <2>1. TasksOK'
    BY <1>10, <1>0, WorkerGotoType DEF NothingToKill
  <2>2. QED
    BY <1>10, <2>1
    DEF NothingToKill, hgapVars, pollVars, diskVars, ghosts, PollOK, MapOK, DiskOK, GhostsOK
<1>11. CASE RunScript(t)
  <2>1. TasksOK'
    BY <1>11, <1>0, WorkerGotoType DEF RunScript
  <2>2. DiskOK'
    BY <1>11, KeyFacts DEF RunScript, DiskOK
  <2>3. QED
    BY <1>11, <2>1, <2>2 DEF RunScript, hgapVars, pollVars, PollOK, MapOK, GhostsOK
<1>12. CASE ReportResult(t)
  <2>1. TasksOK'
    BY <1>12, <1>0, AfterSteps, WorkerGotoType DEF ReportResult
  <2>2. MapOK'
    BY <1>12, NotifyType, StatusFacts, KeyFacts DEF ReportResult
  <2>3. QED
    BY <1>12, <2>1, <2>2 DEF ReportResult, hgapVars, pollVars, diskVars, PollOK, DiskOK, GhostsOK
<1>13. CASE Tick(t)
  <2>1. MapOK'
    BY <1>13, NotifyType, StatusFacts, KeyFacts DEF Tick
  <2>2. QED
    BY <1>13, <2>1
    DEF Tick, hgapVars, pollVars, taskVars, diskVars, PollOK, TasksOK, DiskOK, GhostsOK
<1>14. CASE EndScript(t)
  <2>1. TasksOK'
    BY <1>14, <1>0, AfterSteps, WorkerGotoType DEF EndScript
  <2>2. DiskOK'
    BY <1>14 DEF EndScript, DiskOK, ghosts
  <2>3. QED
    BY <1>14, <2>1, <2>2
    DEF EndScript, hgapVars, pollVars, ghosts, PollOK, MapOK, GhostsOK
<1>15. QED
  BY <1>1, <1>2, <1>3, <1>4, <1>5, <1>6, <1>7, <1>8, <1>9, <1>10, <1>11, <1>12,
     <1>13, <1>14
  DEF Work

-----------------------------------------------------------------------------
(* The counter and the capacity.                                            *)

LEMMA SubsetCount ==
  ASSUME NEW S \in SUBSET Tasks
  PROVE  Cardinality(S) \in 0..Cardinality(Tasks)
<1>1. IsFiniteSet(S) /\ Cardinality(S) <= Cardinality(Tasks)
  BY KeyFacts, FS_Subset
<1>2. Cardinality(S) \in Nat /\ Cardinality(Tasks) \in Nat
  BY <1>1, KeyFacts, FS_CardinalityType
<1>3. QED  BY <1>1, <1>2

LEMMA SetsFinite ==
  /\ IsFiniteSet(Counted) /\ Cardinality(Counted) \in 0..Cardinality(Tasks)
  /\ IsFiniteSet(Admitted) /\ Cardinality(Admitted) \in Nat
<1>1. IsFiniteSet(Tasks) /\ Counted \in SUBSET Tasks /\ Admitted \in SUBSET Tasks
  BY KeyFacts DEF Counted, Admitted
<1>2. IsFiniteSet(Counted) /\ Cardinality(Counted) <= Cardinality(Tasks)
  BY <1>1, FS_Subset
<1>3. IsFiniteSet(Admitted)
  BY <1>1, FS_Subset
<1>4. QED  BY <1>1, <1>2, <1>3, FS_CardinalityType

Counting == CounterExact /\ RoomReserved /\ CapRespected

(* A step that leaves the handlers alone keeps the counts.                  *)
LEMMA CountsUnchanged ==
  ASSUME TypeOK, Counting, UNCHANGED <<executingTasks, handler, overlooked>>,
         \/ pollAt' \notin {"fetch", "remove", "select"}
         \/ /\ pollAt \in {"fetch", "remove", "select"}
            /\ maxTasksToFetch' = maxTasksToFetch
         \/ UNCHANGED <<pollAt, maxTasksToFetch>>
  PROVE  Counting'
<1>1. Counted' = Counted /\ Admitted' = Admitted
  BY DEF Counted, Admitted
<1>2. QED  BY <1>1 DEF Counting, CounterExact, RoomReserved, CapRespected

(* A step of one handler.                                                   *)
LEMMA HandlerSets ==
  ASSUME TasksOK, NEW t \in Tasks, NEW s \in HandlerSteps,
         handler' = [handler EXCEPT ![t] = s]
  PROVE  /\ Counted' = IF s \in {"counted", "waiting", "hung"}
                         THEN Counted \cup {t} ELSE Counted \ {t}
         /\ Admitted' = IF s \in {"spawned", "counted", "waiting", "hung"}
                          THEN Admitted \cup {t} ELSE Admitted \ {t}
<1>1. handler'[t] = s /\ \A u \in Tasks : u # t => handler'[u] = handler[u]
  BY DEF TasksOK
<1>2. QED  BY <1>1 DEF Counted, Admitted

(* The launched tasks are no more than the goal states they are for.        *)
LEMMA StartedBound ==
  ASSUME NEW new \in SUBSET Keys, \A k \in new : \E t \in Tasks : KeyOf(t) = k /\ Free(t)
  PROVE  /\ {NewTask(k) : k \in new} \in SUBSET Tasks
         /\ \A t \in {NewTask(k) : k \in new} : Free(t)
         /\ IsFiniteSet({NewTask(k) : k \in new})
         /\ Cardinality({NewTask(k) : k \in new}) <= Cardinality(new)
         /\ Cardinality({NewTask(k) : k \in new}) \in Nat
         /\ Cardinality(new) \in Nat
<1> DEFINE f == [k \in new |-> NewTask(k)]
           started == {NewTask(k) : k \in new}
<1>1. \A k \in new : NewTask(k) \in Tasks /\ Free(NewTask(k))
  BY DEF NewTask
<1>2. IsFiniteSet(new) /\ Cardinality(new) \in Nat
  BY ServiceAssumption, FS_Subset, FS_CardinalityType
<1>3. f \in Surjection(new, started)
  BY DEF Surjection
<1>4. IsFiniteSet(started) /\ Cardinality(started) <= Cardinality(new)
  BY <1>2, <1>3, FS_Surjection
<1>5. Cardinality(started) \in Nat
  BY <1>4, FS_CardinalityType
<1>6. QED  BY <1>1, <1>2, <1>4, <1>5

LEMMA SelectCounts ==
  ASSUME TypeOK, Counting, Select  PROVE Counting'
<1>1. UNCHANGED <<executingTasks, overlooked>>
  BY DEF Select, taskVars, ghosts
<1>2. CASE Return /\ UNCHANGED taskVars
  BY <1>1, <1>2, CountsUnchanged DEF Return, taskVars
<1>3. CASE ~Return
  <2>1. PICK new \in SUBSET Unprocessed :
          /\ \/ new = Unprocessed /\ Cardinality(new) <= maxTasksToFetch
             \/ Cardinality(new) = maxTasksToFetch
          /\ \A k \in new : \E t \in Tasks : KeyOf(t) = k /\ Free(t)
          /\ handler' = [t \in Tasks |->
               IF t \in {NewTask(k) : k \in new} THEN "spawned" ELSE handler[t]]
          /\ pollAt' = "skip"
    BY <1>3 DEF Select
  <2> DEFINE started == {NewTask(k) : k \in new}
  <2>2. new \in SUBSET Keys
    BY <2>1 DEF Unprocessed, TypeOK, PollOK
  <2>3. /\ started \in SUBSET Tasks /\ \A t \in started : Free(t)
        /\ IsFiniteSet(started) /\ Cardinality(started) \in Nat /\ Cardinality(new) \in Nat
        /\ Cardinality(started) <= Cardinality(new)
    BY <2>1, <2>2, StartedBound
  <2>4. Cardinality(started) <= maxTasksToFetch /\ maxTasksToFetch \in Nat
    BY <2>1, <2>3, ServiceAssumption DEF TypeOK, PollOK
  <2>5. \A t \in Tasks : handler'[t] = IF t \in started THEN "spawned" ELSE handler[t]
    BY <2>1
  <2>6. Counted' = Counted
    BY <2>3, <2>5 DEF Counted, Free
  <2>7. Admitted' = Admitted \cup started
    BY <2>3, <2>5 DEF Admitted
  <2>8. /\ Cardinality(Admitted') =
             Cardinality(Admitted) + Cardinality(started) - Cardinality(Admitted \cap started)
        /\ Cardinality(Admitted \cap started) \in Nat
    BY <2>3, <2>7, SetsFinite, FS_Union, FS_Subset, FS_CardinalityType
  <2>9. Cardinality(Admitted') <= Cardinality(Admitted) + maxTasksToFetch
    BY <2>3, <2>4, <2>8, SetsFinite
  <2>10. ~overlooked => Cardinality(Admitted) + maxTasksToFetch <= MaxConcurrent
    BY DEF Counting, RoomReserved, Select
  <2>11. CapRespected'
    <3>1. Cardinality(Admitted') \in Nat
      BY <2>3, <2>7, SetsFinite, FS_Union, FS_CardinalityType
    <3>2. QED  BY <1>1, <2>4, <2>9, <2>10, <3>1, SetsFinite, ServiceAssumption DEF CapRespected
  <2>12. QED
    BY <1>1, <2>1, <2>6, <2>11 DEF Counting, CounterExact, RoomReserved
<1>4. QED  BY <1>2, <1>3 DEF Select, Return

LEMMA ReadCounts ==
  ASSUME TypeOK, Counting, ReadCount  PROVE Counting'
<1>1. Counted' = Counted /\ Admitted' = Admitted
  BY DEF ReadCount, taskVars, Counted, Admitted
<1>2. CounterExact' /\ CapRespected'
  BY <1>1 DEF ReadCount, taskVars, Counting, CounterExact, CapRespected
<1>3. ASSUME ~overlooked'
      PROVE  Cardinality(Admitted) + maxTasksToFetch' <= MaxConcurrent
  <2>1. \A t \in Tasks : handler[t] # "spawned"
    BY <1>3 DEF ReadCount, TypeOK, GhostsOK
  <2>2. Admitted = Counted
    BY <2>1 DEF Admitted, Counted
  <2>3. Cardinality(Admitted) = executingTasks
    BY <2>2 DEF Counting, CounterExact
  <2>4. executingTasks \in Nat /\ MaxConcurrent \in Nat
    BY <2>3, SetsFinite, ServiceAssumption
  <2>5. QED  BY <2>3, <2>4 DEF ReadCount
<1>4. QED  BY <1>1, <1>2, <1>3 DEF Counting, RoomReserved

LEMMA RestartCounts ==
  ASSUME Restart  PROVE Counting'
<1>1. Counted' = {} /\ Admitted' = {}
  BY DEF Restart, Counted, Admitted
<1>2. QED
  BY <1>1, FS_EmptySet, ServiceAssumption
  DEF Restart, Counting, CounterExact, RoomReserved, CapRespected

LEMMA HandleCounts ==
  ASSUME TypeOK, Counting, NEW t \in Tasks, Handle(t)  PROVE Counting'
<1> USE DEF TypeOK
<1>0. /\ UNCHANGED <<pollAt, maxTasksToFetch, overlooked>>
      /\ executingTasks = Cardinality(Counted)
      /\ IsFiniteSet(Counted) /\ IsFiniteSet(Admitted)
      /\ Cardinality(Counted) \in Nat /\ Cardinality(Admitted) \in Nat
      /\ MaxConcurrent \in Nat /\ maxTasksToFetch \in Nat
  BY SetsFinite, ServiceAssumption
  DEF Handle, Increment, StartWorker, Receive, Timeout, ReportFailure, pollVars, ghosts,
      Counting, CounterExact, PollOK
<1>1. ASSUME Cardinality(Admitted') \in Nat, Cardinality(Admitted') <= Cardinality(Admitted)
      PROVE  RoomReserved' /\ CapRespected'
  BY <1>0, <1>1 DEF Counting, RoomReserved, CapRespected
<1>2. CASE Increment(t)
  <2>1. handler[t] = "spawned" /\ handler' = [handler EXCEPT ![t] = "counted"]
    BY <1>2 DEF Increment
  <2>2. Counted' = Counted \cup {t} /\ Admitted' = Admitted \cup {t}
    BY <2>1, HandlerSets DEF HandlerSteps
  <2>3. t \notin Counted /\ t \in Admitted
    BY <2>1 DEF Counted, Admitted
  <2>4. Admitted' = Admitted
    BY <2>2, <2>3
  <2>5. Cardinality(Counted') = Cardinality(Counted) + 1
    BY <1>0, <2>2, <2>3, FS_AddElement
  <2>6. CounterExact'
    BY <1>0, <1>2, <2>5 DEF Increment, CounterExact
  <2>7. QED  BY <1>0, <1>1, <2>4, <2>6 DEF Counting
<1>3. CASE StartWorker(t)
  <2>0. handler[t] = "counted" /\ executingTasks' = executingTasks
    BY <1>3 DEF StartWorker
  <2>1. PICK s \in {"waiting", "hung"} : handler' = [handler EXCEPT ![t] = s]
    BY <1>3 DEF StartWorker
  <2>2. Counted' = Counted \cup {t} /\ Admitted' = Admitted \cup {t}
    BY <2>1, HandlerSets DEF HandlerSteps
  <2>3. Counted' = Counted /\ Admitted' = Admitted
    BY <2>0, <2>2 DEF Counted, Admitted
  <2>4. QED  BY <1>0, <1>1, <2>0, <2>3 DEF Counting, CounterExact
<1>4. CASE Receive(t) \/ Timeout(t)
  <2>1. PICK s \in {"none", "failed"} : handler' = [handler EXCEPT ![t] = s]
    BY <1>4 DEF Receive, Timeout
  <2>2. handler[t] = "waiting" /\ executingTasks' = executingTasks - 1
    BY <1>4 DEF Receive, Timeout, Decrement
  <2>3. Counted' = Counted \ {t} /\ Admitted' = Admitted \ {t}
    BY <2>1, HandlerSets DEF HandlerSteps
  <2>4. t \in Counted /\ t \in Admitted
    BY <2>2 DEF Counted, Admitted
  <2>5. Cardinality(Counted') = Cardinality(Counted) - 1
    BY <1>0, <2>3, <2>4, FS_RemoveElement
  <2>6. Cardinality(Admitted') = Cardinality(Admitted) - 1
    BY <1>0, <2>3, <2>4, FS_RemoveElement
  <2>7. Cardinality(Admitted') \in Nat
    BY <1>0, <2>3, FS_RemoveElement, FS_CardinalityType
  <2>8. RoomReserved' /\ CapRespected'
    BY <1>0, <1>1, <2>6, <2>7
  <2>9. QED  BY <1>0, <2>2, <2>5, <2>8 DEF Counting, CounterExact
<1>5. CASE ReportFailure(t)
  <2>1. /\ handler[t] = "failed" /\ handler' = [handler EXCEPT ![t] = "none"]
        /\ executingTasks' = executingTasks
    BY <1>5 DEF ReportFailure
  <2>2. Counted' = Counted \ {t} /\ Admitted' = Admitted \ {t}
    BY <2>1, HandlerSets DEF HandlerSteps
  <2>3. Counted' = Counted /\ Admitted' = Admitted
    BY <2>1, <2>2 DEF Counted, Admitted
  <2>4. QED  BY <1>0, <1>1, <2>1, <2>3 DEF Counting, CounterExact
<1>6. QED  BY <1>2, <1>3, <1>4, <1>5 DEF Handle

-----------------------------------------------------------------------------
(* Who may start a script.                                                  *)

(* A step by which nobody gets a claim and nothing is saved or started.     *)
LEMMA ClaimsKept ==
  ASSUME Claims, UNCHANGED <<mrseq, runs, raced>>,
         \A t \in Tasks : /\ worker'[t] = "save" => worker[t] = "save"
                          /\ Claimed(t)' => Claimed(t)
  PROVE  Claims'
<1> USE DEF Claims
<1>1. OneSaves' /\ SaveRaises'
  BY DEF OneSaves, SaveRaises, Smaller
<1>2. ClaimSaved' /\ OneClaims'
  BY DEF ClaimSaved, OneClaims
<1>3. RunSaved'
  BY DEF RunSaved
<1>4. QED  BY <1>1, <1>2, <1>3

(* A worker that moves without a new claim.                                 *)
LEMMA ClaimsMoved ==
  ASSUME TypeOK, Claims, UNCHANGED <<mrseq, runs, raced>>, NEW t \in Tasks,
         NEW label \in WorkerSteps, WorkerGoto(t, label), label # "save",
         label \in {"store", "enable", "kill", "pid"} => Claimed(t)
  PROVE  Claims'
<1>1. \A u \in Tasks : worker'[u] = IF u = t THEN label ELSE worker[u]
  BY DEF WorkerGoto, TypeOK, TasksOK
<1>2. \A u \in Tasks : /\ worker'[u] = "save" => worker[u] = "save"
                       /\ Claimed(u)' => Claimed(u)
  BY <1>1 DEF Claimed
<1>3. QED  BY <1>2, ClaimsKept

LEMMA CheckClaims ==
  ASSUME TypeOK, Claims, NEW t \in Tasks, CheckSeqNum(t)  PROVE Claims'
<1> USE DEF Claims
<1>1. UNCHANGED <<mrseq, runs>>
  BY DEF CheckSeqNum, diskVars
<1>2. CASE ~Smaller(t)
  BY <1>1, <1>2, ClaimsMoved DEF CheckSeqNum, WorkerSteps
<1>3. CASE Smaller(t)
  <2>1. \A u \in Tasks : worker'[u] = IF u = t THEN "save" ELSE worker[u]
    BY <1>3 DEF CheckSeqNum, WorkerGoto, TypeOK, TasksOK
  <2>2. /\ raced \subseteq raced'
        /\ \A u \in Tasks : worker[u] = "save" /\ ExtOf(u) = ExtOf(t)
                              => ExtOf(t) \in raced'
    BY <1>3 DEF CheckSeqNum
  <2>3. OneSaves'
    BY <2>1, <2>2 DEF OneSaves
  <2>4. SaveRaises'
    BY <1>1, <1>3, <2>1, <2>2 DEF SaveRaises, Smaller
  <2>5. \A u \in Tasks : Claimed(u)' => Claimed(u)
    BY <2>1 DEF Claimed
  <2>6. ClaimSaved' /\ OneClaims'
    BY <1>1, <2>2, <2>5 DEF ClaimSaved, OneClaims
  <2>7. RunSaved'
    BY <1>1, <2>2 DEF RunSaved
  <2>8. QED  BY <2>3, <2>4, <2>6, <2>7
<1>4. QED  BY <1>2, <1>3

LEMMA SaveClaims ==
  ASSUME TypeOK, Claims, NEW t \in Tasks, SaveSeqNum(t)  PROVE Claims'
<1> USE DEF Claims
<1> DEFINE e == ExtOf(t)
           n == KeyOf(t).seq
<1>1. worker[t] = "save" /\ UNCHANGED <<runs, raced>>
  BY DEF SaveSeqNum, ghosts
<1>2. \A u \in Tasks : worker'[u] = IF u = t THEN "store" ELSE worker[u]
  BY DEF SaveSeqNum, WorkerGoto, TypeOK, TasksOK
<1>3. /\ mrseq'[e] = n
      /\ \A d \in ExtensionNames : d # e => mrseq'[d] = mrseq[d]
  BY KeyFacts DEF SaveSeqNum, TypeOK, DiskOK
<1>4. n \in Nat /\ \A d \in ExtensionNames : mrseq[d] \in Int
  <2>1. SeqNumbers \cup {NoSeq} \subseteq Int
    <3>1. NoSeq \in Int
      BY DEF NoSeq
    <3>2. SeqNumbers \subseteq Nat
      BY GoalStatesAssumption
    <3>3. QED  BY <3>1, <3>2
  <2>2. ASSUME NEW d \in ExtensionNames  PROVE mrseq[d] \in Int
    BY <2>1 DEF TypeOK, DiskOK
  <2>3. QED  BY <2>2, KeyFacts
<1>5. e \notin raced => mrseq[e] < n
  BY <1>1 DEF SaveRaises, Smaller
<1>6. \A d \in ExtensionNames : d \notin raced => mrseq'[d] \in Int /\ mrseq[d] <= mrseq'[d]
  BY <1>3, <1>4, <1>5
<1>7. OneSaves'
  BY <1>1, <1>2 DEF OneSaves
<1>8. SaveRaises'
  <2> SUFFICES ASSUME NEW u \in Tasks, worker'[u] = "save", ExtOf(u) \notin raced
               PROVE  Smaller(u)'
    BY <1>1 DEF SaveRaises
  <2>1. u # t /\ worker[u] = "save"
    BY <1>2
  <2>2. ExtOf(u) # e
    BY <1>1, <2>1 DEF OneSaves
  <2>3. Smaller(u)
    BY <2>1 DEF SaveRaises
  <2>4. mrseq'[ExtOf(u)] = mrseq[ExtOf(u)]
    BY <1>3, <2>2, KeyFacts
  <2>5. QED  BY <2>3, <2>4 DEF Smaller
<1>9. e \notin raced => runs[KeyOf(t)] = 0
  <2>1. KeyOf(t) \in Keys /\ runs[KeyOf(t)] \in 0..2 /\ KeyOf(t).ext = e
    BY KeyFacts DEF TypeOK, DiskOK, ExtOf
  <2>2. runs[KeyOf(t)] > 0 /\ e \notin raced => mrseq[e] >= n
    BY <2>1 DEF RunSaved
  <2>3. e \in ExtensionNames
    BY KeyFacts
  <2>4. QED  BY <1>4, <1>5, <2>1, <2>2, <2>3
<1>10. ASSUME NEW u \in Tasks, u # t, Claimed(u)', ExtOf(u) \notin raced
       PROVE  /\ Claimed(u)
              /\ mrseq[ExtOf(u)] >= KeyOf(u).seq /\ runs[KeyOf(u)] = 0
              /\ KeyOf(u) # KeyOf(t)
  <2>1. Claimed(u)
    BY <1>2, <1>10 DEF Claimed
  <2>2. mrseq[ExtOf(u)] >= KeyOf(u).seq /\ runs[KeyOf(u)] = 0
    BY <1>10, <2>1 DEF ClaimSaved
  <2>3. ASSUME KeyOf(u) = KeyOf(t)  PROVE FALSE
    <3>1. ExtOf(u) = e /\ KeyOf(u).seq = n /\ e \in ExtensionNames
      BY <2>3, KeyFacts DEF ExtOf
    <3>2. QED  BY <1>4, <1>5, <1>10, <2>2, <3>1
  <2>4. QED  BY <2>1, <2>2, <2>3
<1>11. ClaimSaved'
  <2> SUFFICES ASSUME NEW u \in Tasks, Claimed(u)', ExtOf(u) \notin raced
               PROVE  mrseq'[ExtOf(u)] >= KeyOf(u).seq /\ runs[KeyOf(u)] = 0
    BY <1>1 DEF ClaimSaved
  <2>1. CASE u = t
    BY <1>3, <1>4, <1>9, <2>1
  <2>2. CASE u # t
    <3>1. mrseq[ExtOf(u)] >= KeyOf(u).seq /\ runs[KeyOf(u)] = 0
      BY <1>10, <2>2
    <3>2. /\ ExtOf(u) \in ExtensionNames /\ KeyOf(u).seq \in Nat
          /\ mrseq[ExtOf(u)] \in Int
          /\ mrseq'[ExtOf(u)] \in Int /\ mrseq[ExtOf(u)] <= mrseq'[ExtOf(u)]
      BY <1>4, <1>6, KeyFacts
    <3>3. QED  BY <3>1, <3>2
  <2>3. QED  BY <2>1, <2>2
<1>12. OneClaims'
  <2> SUFFICES ASSUME NEW u \in Tasks, NEW v \in Tasks, Claimed(u)', Claimed(v)',
                      KeyOf(u) = KeyOf(v), ExtOf(u) \notin raced
               PROVE  u = v
    BY <1>1 DEF OneClaims
  <2>1. ExtOf(v) \notin raced
    BY DEF ExtOf
  <2>2. CASE u # t /\ v # t
    <3>1. Claimed(u) /\ Claimed(v)
      BY <1>10, <2>1, <2>2
    <3>2. QED  BY <3>1 DEF OneClaims
  <2>3. CASE u = t \/ v = t
    BY <1>10, <2>1, <2>3
  <2>4. QED  BY <2>2, <2>3
<1>13. RunSaved'
  <2> SUFFICES ASSUME NEW k \in Keys, runs[k] > 0, k.ext \notin raced
               PROVE  mrseq'[k.ext] >= k.seq
    BY <1>1 DEF RunSaved
  <2>1. mrseq[k.ext] >= k.seq
    BY DEF RunSaved
  <2>2. /\ k.ext \in ExtensionNames /\ k.seq \in Nat /\ mrseq[k.ext] \in Int
        /\ mrseq'[k.ext] \in Int /\ mrseq[k.ext] <= mrseq'[k.ext]
    BY <1>4, <1>6, KeyFacts
  <2>3. QED  BY <2>1, <2>2
<1>14. QED  BY <1>7, <1>8, <1>11, <1>12, <1>13

LEMMA RunClaims ==
  ASSUME TypeOK, Claims, RunsOnce, NEW t \in Tasks, RunScript(t)
  PROVE  Claims' /\ RunsOnce'
<1> USE DEF Claims
<1>1. worker[t] = "pid" /\ Claimed(t) /\ UNCHANGED <<mrseq, raced>>
  BY DEF RunScript, Claimed
<1>2. \A u \in Tasks : worker'[u] = IF u = t THEN "run" ELSE worker[u]
  BY DEF RunScript, WorkerGoto, TypeOK, TasksOK
<1>3. /\ runs'[KeyOf(t)] = IF runs[KeyOf(t)] = 0 THEN 1 ELSE 2
      /\ \A k \in Keys : k # KeyOf(t) => runs'[k] = runs[k]
  BY KeyFacts DEF RunScript, TypeOK, DiskOK
<1>4. ExtOf(t) \notin raced =>
        mrseq[ExtOf(t)] >= KeyOf(t).seq /\ runs[KeyOf(t)] = 0
  BY <1>1 DEF ClaimSaved
<1>5. \A u \in Tasks : Claimed(u)' => Claimed(u) /\ u # t
  BY <1>2 DEF Claimed
<1>6. OneSaves' /\ SaveRaises'
  BY <1>1, <1>2 DEF OneSaves, SaveRaises, Smaller
<1>7. ClaimSaved'
  <2> SUFFICES ASSUME NEW u \in Tasks, Claimed(u)', ExtOf(u) \notin raced
               PROVE  mrseq[ExtOf(u)] >= KeyOf(u).seq /\ runs'[KeyOf(u)] = 0
    BY <1>1 DEF ClaimSaved
  <2>1. Claimed(u) /\ u # t
    BY <1>5
  <2>2. KeyOf(u) # KeyOf(t)
    BY <1>1, <2>1 DEF OneClaims
  <2>3. mrseq[ExtOf(u)] >= KeyOf(u).seq /\ runs[KeyOf(u)] = 0
    BY <2>1 DEF ClaimSaved
  <2>4. QED  BY <1>3, <2>2, <2>3, KeyFacts
<1>8. OneClaims'
  BY <1>1, <1>5 DEF OneClaims
<1>9. RunSaved'
  <2> SUFFICES ASSUME NEW k \in Keys, runs'[k] > 0, k.ext \notin raced
               PROVE  mrseq[k.ext] >= k.seq
    BY <1>1 DEF RunSaved
  <2>1. CASE k = KeyOf(t)
    BY <1>4, <2>1 DEF ExtOf
  <2>2. CASE k # KeyOf(t)
    BY <1>3, <2>2 DEF RunSaved
  <2>3. QED  BY <2>1, <2>2
<1>10. RunsOnce'
  <2> SUFFICES ASSUME NEW k \in Keys, runs'[k] = 2, k.ext \notin raced  PROVE FALSE
    BY <1>1 DEF RunsOnce
  <2>1. CASE k = KeyOf(t)
    BY <1>3, <1>4, <2>1 DEF ExtOf
  <2>2. CASE k # KeyOf(t)
    BY <1>3, <2>2 DEF RunsOnce
  <2>3. QED  BY <2>1, <2>2
<1>11. QED  BY <1>6, <1>7, <1>8, <1>9, <1>10

(* The same, with a request at its end.                                     *)
LEMMA ClaimsAfter ==
  ASSUME TypeOK, Claims, UNCHANGED <<mrseq, runs, raced>>, NEW t \in Tasks,
         NEW label \in WorkerSteps, WorkerAfter(t, label), label # "save",
         label \in {"store", "enable", "kill", "pid"} => Claimed(t)
  PROVE  Claims'
<1>1. PICK l \in WorkerSteps : WorkerGoto(t, l) /\ l \in {label, "hung"}
  BY AfterSteps
<1>2. QED  BY <1>1, ClaimsMoved

(* The steps of a worker.                                                   *)
LEMMA WorkClaims ==
  ASSUME TypeOK, Claims, RunsOnce, NEW t \in Tasks, Work(t) \/ Tick(t) \/ EndScript(t)
  PROVE  Claims' /\ RunsOnce'
<1>0. {"enable", "kill", "pid", "final", "sendDone", "sendErr"} \subseteq WorkerSteps
  BY DEF WorkerSteps
<1>1. ASSUME UNCHANGED <<runs, raced>>  PROVE RunsOnce'
  BY <1>1 DEF RunsOnce
<1>2. CASE CheckSeqNum(t)
  <2>1. runs' = runs /\ raced \subseteq raced'
    BY <1>2 DEF CheckSeqNum
  <2>2. QED  BY <1>2, <2>1, CheckClaims DEF RunsOnce
<1>3. CASE SaveSeqNum(t)
  BY <1>1, <1>3, SaveClaims DEF SaveSeqNum, ghosts
<1>4. CASE RunScript(t)
  BY <1>4, RunClaims
<1>5. CASE KillSelf(t)
  <2>1. /\ UNCHANGED <<mrseq, runs, raced>>
        /\ \A u \in Tasks : worker'[u] = "none"
    BY <1>5 DEF KillSelf, Restart
  <2>2. QED  BY <1>1, <2>1, ClaimsKept DEF Claimed
<1>6. CASE FailEarly(t)
  BY <1>0, <1>1, <1>6, ClaimsMoved DEF FailEarly, diskVars
<1>7. CASE NoCommand(t)
  BY <1>0, <1>1, <1>7, ClaimsMoved DEF NoCommand, diskVars, ghosts
<1>8. CASE StoreSettings(t)
  BY <1>0, <1>1, <1>8, ClaimsAfter DEF StoreSettings, diskVars, Claimed
<1>9. CASE Prepare(t)
  BY <1>0, <1>1, <1>9, ClaimsAfter DEF Prepare, diskVars, ghosts, Claimed
<1>10. CASE PrepareAsync(t)
  BY <1>0, <1>1, <1>10, ClaimsAfter DEF PrepareAsync, diskVars, Claimed
<1>11. ASSUME NEW s \in {"success", "error"}, EndEnable(t, s)
       PROVE  Claims' /\ RunsOnce'
  BY <1>0, <1>1, <1>11, ClaimsAfter DEF EndEnable, diskVars
<1>12. CASE NothingToKill(t)
  <2>1. UNCHANGED <<mrseq, runs, raced>>
    BY <1>12 DEF NothingToKill, diskVars, ghosts
  <2>2. CASE worker[t] = "kill"
    BY <1>0, <1>1, <1>12, <2>1, <2>2, ClaimsMoved DEF NothingToKill, Claimed
  <2>3. CASE worker[t] # "kill"
    BY <1>0, <1>1, <1>12, <2>1, <2>3, ClaimsMoved DEF NothingToKill
  <2>4. QED  BY <2>2, <2>3
<1>13. CASE ReportResult(t)
  BY <1>0, <1>1, <1>13, ClaimsAfter DEF ReportResult, diskVars
<1>14. CASE Tick(t)
  <2>1. UNCHANGED <<mrseq, runs, raced, worker>>
    BY <1>14 DEF Tick, diskVars, taskVars
  <2>2. QED  BY <1>1, <2>1, ClaimsKept DEF Claimed
<1>15. CASE EndScript(t)
  BY <1>0, <1>1, <1>15, ClaimsAfter DEF EndScript, ghosts
<1>16. QED
  BY <1>2, <1>3, <1>4, <1>5, <1>6, <1>7, <1>8, <1>9, <1>10, <1>11, <1>12, <1>13,
     <1>14, <1>15
  DEF Work

(* The steps of the poll loop and of a handler.                             *)
LEMMA PollHandleClaims ==
  ASSUME TypeOK, Claims, RunsOnce, Poll \/ \E t \in Tasks : Handle(t)
  PROVE  Claims' /\ RunsOnce'
<1>1. UNCHANGED <<mrseq, runs, raced>>
  <2>1. CASE Poll
    BY <2>1
    DEF Poll, ReadCount, Fetch, RemoveProcessed, Select, Skip, EndPoll, diskVars, ghosts
  <2>2. CASE \E t \in Tasks : Handle(t)
    BY <2>2
    DEF Handle, Increment, StartWorker, Receive, Timeout, ReportFailure, diskVars, ghosts
  <2>3. QED  BY <2>1, <2>2
<1>2. \A u \in Tasks : worker'[u] = worker[u] \/ worker'[u] \in {"none", "start"}
  <2>1. CASE Select
    BY <2>1 DEF Select, taskVars
  <2>2. CASE Poll /\ ~Select
    BY <2>2 DEF Poll, ReadCount, Fetch, RemoveProcessed, Skip, EndPoll, taskVars
  <2>3. ASSUME NEW t \in Tasks, Handle(t)
        PROVE  \A u \in Tasks : worker'[u] = worker[u] \/ worker'[u] \in {"none", "start"}
    BY <2>3
    DEF Handle, Increment, StartWorker, Receive, Timeout, ReportFailure, TypeOK, TasksOK
  <2>4. QED  BY <2>1, <2>2, <2>3
<1>3. Claims'
  BY <1>1, <1>2, ClaimsKept DEF Claimed
<1>4. QED  BY <1>1, <1>3 DEF RunsOnce

-----------------------------------------------------------------------------
LEMMA InitIInv == Init => IInv
<1> SUFFICES ASSUME Init  PROVE IInv
  OBVIOUS
<1>1. Counted = {} /\ Admitted = {}
  BY DEF Init, Counted, Admitted
<1>2. CounterExact /\ RoomReserved /\ CapRespected
  BY <1>1, FS_EmptySet, ServiceAssumption DEF Init, CounterExact, RoomReserved, CapRespected
<1>3. Claims /\ RunsOnce
  BY DEF Init, Claims, OneSaves, SaveRaises, ClaimSaved, OneClaims, RunSaved, Claimed, RunsOnce
<1>4. listed \in SUBSET Keys /\ etag \in Nat
  BY ServiceAssumption DEF Init
<1>5. PollOK /\ TasksOK
  BY ServiceAssumption DEF Init, PollOK, TasksOK, HandlerSteps, WorkerSteps
<1>6. MapOK /\ DiskOK /\ GhostsOK
  <2>1. MapOK
    BY DEF Init, MapOK
  <2>2. DiskOK
    BY DEF Init, DiskOK
  <2>3. GhostsOK
    BY DEF Init, GhostsOK
  <2>4. QED  BY <2>1, <2>2, <2>3
<1>7. executingTasks \in 0..Cardinality(Tasks)
  BY <1>1, <1>2, SetsFinite DEF CounterExact
<1>8. QED  BY <1>2, <1>3, <1>4, <1>5, <1>6, <1>7 DEF IInv, TypeOK

(* Every step of the service, of HGAP and every crash keeps the invariant.  *)
LEMMA IInvStep == IInv /\ [Next]_vars => IInv'
<1> SUFFICES ASSUME IInv, [Next]_vars  PROVE OthersOK' /\ Counting' /\ Claims' /\ RunsOnce'
  <2>1. Counted' \in SUBSET Tasks
    BY DEF Counted
  <2>2. Cardinality(Counted') \in 0..Cardinality(Tasks)
    BY <2>1, SubsetCount
  <2>3. QED  BY <2>2 DEF IInv, TypeOK, OthersOK, Counting, CounterExact
<1> USE DEF IInv
<1>0. Counting /\ TypeOK /\ Claims /\ RunsOnce
  BY DEF Counting
<1>1. ASSUME NEW goalStates \in Lists, Publish(goalStates)
      PROVE  OthersOK' /\ Counting' /\ Claims' /\ RunsOnce'
  <2>1. UNCHANGED <<pollVars, taskVars, goalStateEventMap, diskVars, ghosts>>
    BY <1>1 DEF Publish
  <2>2. OthersOK'
    BY <1>0, <1>1, <2>1, ServiceAssumption
    DEF Publish, pollVars, taskVars, diskVars, ghosts, TypeOK, OthersOK, PollOK, TasksOK,
        MapOK, DiskOK, GhostsOK
  <2>3. Counting'
    BY <1>0, <2>1, CountsUnchanged DEF pollVars, taskVars, ghosts
  <2>4. Claims' /\ RunsOnce'
    BY <1>0, <2>1, ClaimsKept DEF taskVars, diskVars, ghosts, Claimed, RunsOnce
  <2>5. QED  BY <2>2, <2>3, <2>4
<1>2. CASE Poll
  <2>1. Counting'
    <3>1. CASE ReadCount
      BY <1>0, <3>1, ReadCounts
    <3>2. CASE Select
      BY <1>0, <3>2, SelectCounts
    <3>3. CASE Fetch
      BY <1>0, <3>3, CountsUnchanged DEF Fetch, Return, taskVars, ghosts
    <3>4. CASE RemoveProcessed
      BY <1>0, <3>4, CountsUnchanged DEF RemoveProcessed, taskVars, ghosts
    <3>5. ASSUME NEW k \in Keys, Skip(k)  PROVE Counting'
      BY <1>0, <3>5, CountsUnchanged DEF Skip, After, taskVars
    <3>6. CASE EndPoll
      BY <1>0, <3>6, CountsUnchanged DEF EndPoll, Return, taskVars, ghosts
    <3>7. QED  BY <1>2, <3>1, <3>2, <3>3, <3>4, <3>5, <3>6 DEF Poll
  <2>2. QED  BY <1>0, <1>2, <2>1, PollTypes, PollHandleClaims
<1>3. ASSUME NEW k \in Keys, Collect(k)
      PROVE  OthersOK' /\ Counting' /\ Claims' /\ RunsOnce'
  <2>1. UNCHANGED <<hgapVars, pollVars, taskVars, diskVars, ghosts>>
    BY <1>3 DEF Collect
  <2>2. MapOK'
    BY <1>0, <1>3 DEF Collect, ghosts, TypeOK, MapOK
  <2>3. OthersOK'
    BY <1>0, <2>1, <2>2
    DEF hgapVars, pollVars, taskVars, diskVars, ghosts, TypeOK, OthersOK, PollOK, TasksOK,
        DiskOK, GhostsOK
  <2>4. Counting'
    BY <1>0, <2>1, CountsUnchanged DEF pollVars, taskVars, ghosts
  <2>5. Claims' /\ RunsOnce'
    BY <1>0, <2>1, ClaimsKept DEF taskVars, diskVars, ghosts, Claimed, RunsOnce
  <2>6. QED  BY <2>3, <2>4, <2>5
<1>4. ASSUME NEW t \in Tasks, Handle(t)
      PROVE  OthersOK' /\ Counting' /\ Claims' /\ RunsOnce'
  BY <1>0, <1>4, HandleTypes, HandleCounts, PollHandleClaims
<1>5. ASSUME NEW t \in Tasks, Work(t) \/ Tick(t) \/ EndScript(t)
      PROVE  OthersOK' /\ Counting' /\ Claims' /\ RunsOnce'
  <2>1. CASE KillSelf(t)
    BY <1>0, <1>5, <2>1, WorkTypes, WorkClaims, RestartCounts DEF KillSelf
  <2>2. CASE ~KillSelf(t)
    <3>1. UNCHANGED <<executingTasks, handler, overlooked, pollAt, maxTasksToFetch>>
      BY <1>5, <2>2
      DEF Work, Tick, EndScript, FailEarly, NoCommand, CheckSeqNum, SaveSeqNum,
          StoreSettings, Prepare, PrepareAsync, EndEnable, NothingToKill, RunScript,
          ReportResult, pollVars, taskVars, ghosts
    <3>2. QED  BY <1>0, <1>5, <3>1, WorkTypes, WorkClaims, CountsUnchanged
  <2>3. QED  BY <2>1, <2>2
<1>6. CASE Crash
  <2>1. Restart /\ crashes' \in Nat
    BY <1>0, <1>6 DEF Crash, TypeOK, GhostsOK
  <2>2. /\ UNCHANGED <<mrseq, runs, raced>>
        /\ \A u \in Tasks : worker'[u] = "none"
    BY <2>1 DEF Restart
  <2>3. Claims' /\ RunsOnce'
    BY <1>0, <2>2, ClaimsKept DEF Claimed, RunsOnce
  <2>4. QED  BY <1>0, <2>1, <2>3, RestartTypes, RestartCounts
<1>7. CASE UNCHANGED vars
  <2>1. UNCHANGED <<hgapVars, pollVars, taskVars, goalStateEventMap, diskVars, ghosts>>
    BY <1>7 DEF vars
  <2>2. OthersOK'
    BY <1>0, <2>1
    DEF hgapVars, pollVars, taskVars, diskVars, ghosts, TypeOK, OthersOK, PollOK, TasksOK,
        MapOK, DiskOK, GhostsOK
  <2>3. Counting'
    BY <1>0, <2>1, CountsUnchanged DEF pollVars, taskVars, ghosts
  <2>4. Claims' /\ RunsOnce'
    BY <1>0, <2>1, ClaimsKept DEF taskVars, diskVars, ghosts, Claimed, RunsOnce
  <2>5. QED  BY <2>2, <2>3, <2>4
<1>8. QED  BY <1>1, <1>2, <1>3, <1>4, <1>5, <1>6, <1>7 DEF Next

(* The inductive invariant of the service (immediateruncommand.go:44-190,   *)
(* cmds.go:401-419).                                                        *)
THEOREM Invariance == Spec => []IInv
BY InitIInv, IInvStep, PTL DEF Spec

(* Every state of the service is well typed, and its counter never goes     *)
(* below zero.                                                              *)
THEOREM TypeCorrect == Spec => []TypeOK
<1>1. IInv => TypeOK
  BY DEF IInv
<1>2. QED  BY <1>1, Invariance, PTL

(* maxConcurrentTasks bounds the goal states in progress, for any capacity  *)
(* and any number of goal states.                                           *)
THEOREM CapacityRespected == Spec => []CapRespected
<1>1. IInv => CapRespected
  BY DEF IInv
<1>2. QED  BY <1>1, Invariance, PTL

(* The script of a goal state is started once, across relaunches, timeouts  *)
(* and restarts of the service, unless two commands raced for its mrseq.    *)
THEOREM ScriptsRunOnce == Spec => []RunsOnce
<1>1. IInv => RunsOnce
  BY DEF IInv
<1>2. QED  BY <1>1, Invariance, PTL

-----------------------------------------------------------------------------
(* What is reported of a goal state.                                        *)

(* A goal state that was given up, or whose command raced, may be told both *)
(* verdicts.                                                                *)
Excused(k) == k \in timedOut \/ k.ext \in raced

(* What makes OneVerdict inductive. Only a goal state that was given up is  *)
(* reported by its handler; a script that runs has been counted; a worker   *)
(* before its first verdict works on a goal state without one, and one that *)
(* has passed it on a goal state without an Error; and the number of a goal *)
(* state with a verdict is on disk, which turns later workers away.         *)
Undecided(t) == worker[t] \in {"store", "enable"}
Going(t) == worker[t] \in {"kill", "pid", "run", "final"}
Started(t) == worker[t] \in {"run", "final"}

GivenUp == \A t \in Tasks : handler[t] = "failed" => KeyOf(t) \in timedOut
StartCounted == \A t \in Tasks : Started(t) => runs[KeyOf(t)] > 0
NoVerdictYet == \A t \in Tasks : Undecided(t) => ~Verdict(KeyOf(t)) \/ Excused(KeyOf(t))
NoErrorYet ==
  \A t \in Tasks : Going(t) => "error" \notin reported[KeyOf(t)] \/ Excused(KeyOf(t))
VerdictSaved == \A k \in Keys : Verdict(k) => mrseq[k.ext] >= k.seq \/ Excused(k)

Verdicts ==
  GivenUp /\ StartCounted /\ NoVerdictYet /\ NoErrorYet /\ VerdictSaved /\ OneVerdict

(* A step that gives no verdict and sends no worker on its way, except from *)
(* one place before the script to the next.                                 *)
LEMMA VerdictsKept ==
  ASSUME Verdicts, UNCHANGED mrseq, raced \subseteq raced', timedOut \subseteq timedOut',
         \A k \in Keys : runs[k] > 0 => runs'[k] > 0,
         \A k \in Keys : \A s \in {"success", "error"} :
           s \in reported'[k] => s \in reported[k],
         \A t \in Tasks : handler'[t] = "failed"
                            => handler[t] = "failed" \/ KeyOf(t) \in timedOut',
         \A t \in Tasks : /\ Undecided(t)' => Undecided(t)
                          /\ Going(t)' => Going(t) \/ Undecided(t)
                          /\ Started(t)' => Started(t) \/ runs'[KeyOf(t)] > 0
  PROVE  Verdicts'
<1> USE DEF Verdicts
<1>1. /\ \A k \in Keys : Verdict(k)' => Verdict(k)
      /\ \A k \in Keys : Excused(k) => Excused(k)'
      /\ \A k \in Keys : "error" \in reported'[k] => Verdict(k)
  BY DEF Verdict, Excused
<1>2. \A t \in Tasks : KeyOf(t) \in Keys
  BY KeyFacts
<1>3. GivenUp'
  BY DEF GivenUp
<1>4. StartCounted'
  BY <1>2 DEF StartCounted
<1>5. NoVerdictYet'
  BY <1>1, <1>2 DEF NoVerdictYet
<1>6. NoErrorYet'
  <2> SUFFICES ASSUME NEW t \in Tasks, Going(t)', "error" \in reported'[KeyOf(t)]
               PROVE  Excused(KeyOf(t))'
    BY DEF NoErrorYet
  <2>1. "error" \in reported[KeyOf(t)] /\ Verdict(KeyOf(t))
    BY <1>1, <1>2
  <2>2. Excused(KeyOf(t))
    BY <2>1 DEF NoErrorYet, NoVerdictYet
  <2>3. QED  BY <1>1, <1>2, <2>2
<1>7. VerdictSaved'
  BY <1>1 DEF VerdictSaved
<1>8. OneVerdict'
  BY DEF OneVerdict
<1>9. QED  BY <1>3, <1>4, <1>5, <1>6, <1>7, <1>8

(* A worker that moves without a report.                                    *)
LEMMA VerdictsMoved ==
  ASSUME TypeOK, Verdicts, NEW t \in Tasks, NEW label \in WorkerSteps, WorkerGoto(t, label),
         UNCHANGED <<mrseq, reported, handler, timedOut>>, raced \subseteq raced',
         \A k \in Keys : runs[k] > 0 => runs'[k] > 0,
         label \in {"store", "enable"} => Undecided(t),
         label \in {"kill", "pid", "run", "final"} => Going(t) \/ Undecided(t),
         label \in {"run", "final"} => Started(t) \/ runs'[KeyOf(t)] > 0
  PROVE  Verdicts'
<1>1. \A u \in Tasks : worker'[u] = IF u = t THEN label ELSE worker[u]
  BY DEF WorkerGoto, TypeOK, TasksOK
<1>2. \A u \in Tasks : /\ Undecided(u)' => Undecided(u)
                       /\ Going(u)' => Going(u) \/ Undecided(u)
                       /\ Started(u)' => Started(u) \/ runs'[KeyOf(u)] > 0
  BY <1>1 DEF Undecided, Going, Started
<1>3. \A u \in Tasks : handler'[u] = "failed" => handler[u] = "failed"
  OBVIOUS
<1>4. QED  BY <1>2, <1>3, VerdictsKept

(* The same, with a request at its end.                                     *)
LEMMA VerdictsAfter ==
  ASSUME TypeOK, Verdicts, NEW t \in Tasks, NEW label \in WorkerSteps, WorkerAfter(t, label),
         UNCHANGED <<mrseq, reported, handler, timedOut>>, raced \subseteq raced',
         \A k \in Keys : runs[k] > 0 => runs'[k] > 0,
         label \in {"store", "enable"} => Undecided(t),
         label \in {"kill", "pid", "run", "final"} => Going(t) \/ Undecided(t),
         label \in {"run", "final"} => Started(t) \/ runs'[KeyOf(t)] > 0
  PROVE  Verdicts'
<1>1. PICK l \in WorkerSteps : WorkerGoto(t, l) /\ l \in {label, "hung"}
  BY AfterSteps
<1>2. QED  BY <1>1, VerdictsMoved

(* A notification that is no verdict.                                       *)
LEMMA NotifyNoVerdict ==
  ASSUME MapOK, NEW k \in Keys, NEW s \in StatusTypes, s \notin {"success", "error"},
         Notify(k, s)
  PROVE  \A j \in Keys : \A v \in {"success", "error"} : v \in reported'[j] => v \in reported[j]
BY DEF Notify, MapOK

(* What a notification of a verdict does.                                   *)
LEMMA NotifyVerdict ==
  ASSUME MapOK, NEW k \in Keys, NEW s \in {"success", "error"}, Notify(k, s)
  PROVE  /\ reported'[k] = reported[k] \cup {s}
         /\ \A j \in Keys : j # k => reported'[j] = reported[j]
<1>1. IsTerminal(s)
  BY DEF IsTerminal, TerminalTypes
<1>2. QED  BY <1>1 DEF Notify, MapOK

(* Of a goal state without an excuse, whose worker is about to decide, no   *)
(* other worker is on its way.                                              *)
LEMMA DeciderAlone ==
  ASSUME IInv, Verdicts, NEW t \in Tasks, Undecided(t), ~Excused(KeyOf(t)),
         NEW u \in Tasks, u # t, KeyOf(u) = KeyOf(t)
  PROVE  ~Undecided(u) /\ ~Going(u)
<1>1. Claimed(t) /\ ExtOf(t) \notin raced
  BY DEF Undecided, Claimed, Excused, ExtOf
<1>2. ~Claimed(u)
  BY <1>1 DEF IInv, Claims, OneClaims
<1>3. runs[KeyOf(t)] = 0
  BY <1>1 DEF IInv, Claims, ClaimSaved
<1>4. ~Started(u)
  <2>1. KeyOf(t) \in Keys /\ ~(runs[KeyOf(t)] > 0)
    BY <1>3, KeyFacts
  <2>2. QED  BY <2>1 DEF Verdicts, StartCounted
<1>5. QED  BY <1>2, <1>4 DEF Undecided, Going, Started, Claimed

(* A worker gives the verdict on its goal state and moves on: the first     *)
(* one, or a Success of a script that was started.                          *)
LEMMA VerdictGivenByWorker ==
  ASSUME IInv, Verdicts, NEW t \in Tasks, NEW s \in {"success", "error"},
         Notify(KeyOf(t), s), UNCHANGED <<mrseq, runs, raced, handler, timedOut>>,
         NEW label \in WorkerSteps,
         \A u \in Tasks : worker'[u] = IF u = t THEN label ELSE worker[u],
         \/ Undecided(t) /\ label \in {"sendDone", "hung"}
         \/ Undecided(t) /\ label = "kill" /\ s = "success"
         \/ Started(t) /\ label \in {"run", "sendDone", "hung"} /\ s = "success"
  PROVE  Verdicts'
<1> USE DEF Verdicts
<1> DEFINE k == KeyOf(t)
<1>1. k \in Keys /\ \A u \in Tasks : KeyOf(u) \in Keys
  BY KeyFacts
<1>2. /\ reported'[k] = reported[k] \cup {s}
      /\ \A j \in Keys : j # k => reported'[j] = reported[j]
  BY <1>1, NotifyVerdict DEF IInv, TypeOK
<1>3. \A j \in Keys : Excused(j)' <=> Excused(j)
  BY DEF Excused
<1>4. GivenUp'
  BY DEF GivenUp
<1>5. StartCounted'
  BY DEF StartCounted, Started
<1>6. ~Excused(k) => mrseq[k.ext] >= k.seq
  <2>1. CASE Undecided(t)
    BY <2>1 DEF IInv, Claims, ClaimSaved, Claimed, Undecided, Excused, ExtOf
  <2>2. CASE Started(t)
    <3>1. runs[k] > 0
      BY <2>2 DEF StartCounted
    <3>2. QED  BY <1>1, <3>1 DEF IInv, Claims, RunSaved, Excused
  <2>3. QED  BY <2>1, <2>2
<1>7. ~Excused(k) => \A u \in Tasks : u # t /\ KeyOf(u) = k => ~Undecided(u)
  <2>1. CASE Undecided(t)
    BY <2>1, DeciderAlone
  <2>2. CASE Started(t)
    <3> SUFFICES ASSUME ~Excused(k), NEW u \in Tasks, KeyOf(u) = k, Undecided(u), u # t
                 PROVE  FALSE
      OBVIOUS
    <3>1. ~Going(t)
      BY DeciderAlone
    <3>2. QED  BY <2>2, <3>1 DEF Going, Started
  <2>3. QED  BY <2>1, <2>2
<1>8. NoVerdictYet'
  <2> SUFFICES ASSUME NEW u \in Tasks, Undecided(u)', ~Excused(KeyOf(u))
               PROVE  ~Verdict(KeyOf(u))'
    BY <1>1, <1>3 DEF NoVerdictYet
  <2>1. u # t /\ Undecided(u)
    BY DEF Undecided
  <2>2. KeyOf(u) # k
    BY <1>7, <2>1
  <2>3. QED  BY <1>1, <1>2, <2>1, <2>2 DEF NoVerdictYet, Verdict
<1>9. NoErrorYet'
  <2> SUFFICES ASSUME NEW u \in Tasks, Going(u)', ~Excused(KeyOf(u)),
                      "error" \in reported'[KeyOf(u)]
               PROVE  FALSE
    BY <1>1, <1>3 DEF NoErrorYet
  <2>1. CASE KeyOf(u) # k
    <3>1. u # t /\ Going(u) /\ "error" \in reported[KeyOf(u)]
      BY <1>1, <1>2, <2>1 DEF Going
    <3>2. QED  BY <3>1 DEF NoErrorYet
  <2>2. CASE KeyOf(u) = k
    <3>1. CASE u = t
      <4>1. s = "success" /\ (Undecided(t) \/ Going(t))
        BY <3>1 DEF Going, Started
      <4>2. "error" \in reported[k]
        BY <1>2, <2>2, <4>1
      <4>3. QED  BY <2>2, <4>1, <4>2 DEF NoErrorYet, NoVerdictYet, Verdict
    <3>2. CASE u # t
      <4>1. Going(u)
        BY <3>2 DEF Going
      <4>2. ~Undecided(t)
        BY <2>2, <3>2, <4>1, DeciderAlone
      <4>3. "error" \in reported[k]
        BY <1>2, <2>2, <4>2
      <4>4. QED  BY <2>2, <4>1, <4>3 DEF NoErrorYet
    <3>3. QED  BY <3>1, <3>2
  <2>3. QED  BY <2>1, <2>2
<1>10. VerdictSaved'
  <2> SUFFICES ASSUME NEW j \in Keys, Verdict(j)', ~Excused(j)  PROVE mrseq[j.ext] >= j.seq
    BY <1>3 DEF VerdictSaved
  <2>1. CASE j = k
    BY <1>6, <2>1
  <2>2. CASE j # k
    BY <1>2, <2>2 DEF VerdictSaved, Verdict
  <2>3. QED  BY <2>1, <2>2
<1>11. OneVerdict'
  <2> SUFFICES ASSUME NEW j \in Keys, {"success", "error"} \subseteq reported'[j], ~Excused(j)
               PROVE  FALSE
    BY <1>3 DEF OneVerdict, Excused
  <2>1. CASE j # k
    BY <1>2, <2>1 DEF OneVerdict, Excused
  <2>2. CASE j = k
    <3>1. CASE Undecided(t)
      <4>1. ~Verdict(k)
        BY <2>2, <3>1 DEF NoVerdictYet
      <4>2. "success" \notin reported[k] /\ "error" \notin reported[k]
        BY <4>1 DEF Verdict
      <4>3. QED  BY <1>2, <2>2, <4>2
    <3>2. CASE Started(t)
      <4>1. "error" \notin reported[k]
        BY <2>2, <3>2 DEF NoErrorYet, Going, Started
      <4>2. s = "success"
        BY <3>2 DEF Started, Undecided
      <4>3. QED  BY <1>2, <2>2, <4>1, <4>2
    <3>3. QED  BY <3>1, <3>2
  <2>3. QED  BY <2>1, <2>2
<1>12. QED  BY <1>4, <1>5, <1>8, <1>9, <1>10, <1>11

(* The number is saved: no verdict was given on the goal state before.      *)
LEMMA SaveVerdicts ==
  ASSUME IInv, Verdicts, NEW t \in Tasks, SaveSeqNum(t)  PROVE Verdicts'
<1> USE DEF Verdicts
<1> DEFINE k == KeyOf(t)
<1>1. /\ worker[t] = "save"
      /\ UNCHANGED <<handler, runs, raced, reported, timedOut>>
  BY DEF SaveSeqNum, ghosts
<1>2. \A u \in Tasks : worker'[u] = IF u = t THEN "store" ELSE worker[u]
  BY DEF SaveSeqNum, WorkerGoto, IInv, TypeOK, TasksOK
<1>3. /\ mrseq'[k.ext] = k.seq
      /\ \A d \in ExtensionNames : d # k.ext => mrseq'[d] = mrseq[d]
  BY KeyFacts DEF SaveSeqNum, ExtOf, IInv, TypeOK, DiskOK
<1>4. /\ \A j \in Keys : j.ext \in ExtensionNames /\ j.seq \in Nat /\ mrseq[j.ext] \in Int
      /\ k \in Keys
  <2>1. NoSeq \in Int
    BY DEF NoSeq
  <2>2. SeqNumbers \cup {NoSeq} \subseteq Int
    <3>1. SeqNumbers \subseteq Nat
      BY GoalStatesAssumption
    <3>2. QED  BY <2>1, <3>1
  <2>3. ASSUME NEW d \in ExtensionNames  PROVE mrseq[d] \in Int
    BY <2>2 DEF IInv, TypeOK, DiskOK
  <2>4. QED  BY <2>3, KeyFacts
<1>5. k.ext \notin raced => mrseq[k.ext] < k.seq
  BY <1>1 DEF IInv, Claims, SaveRaises, Smaller, ExtOf
<1>6. ~Excused(k) => ~Verdict(k)
  BY <1>4, <1>5 DEF VerdictSaved, Excused
<1>7. \A j \in Keys : (Excused(j)' <=> Excused(j)) /\ (Verdict(j)' <=> Verdict(j))
  BY <1>1 DEF Excused, Verdict
<1>8. GivenUp' /\ StartCounted'
  BY <1>1, <1>2 DEF GivenUp, StartCounted, Started
<1>9. NoVerdictYet'
  <2> SUFFICES ASSUME NEW u \in Tasks, Undecided(u)', ~Excused(KeyOf(u))
               PROVE  ~Verdict(KeyOf(u))
    BY <1>7, KeyFacts DEF NoVerdictYet
  <2>1. CASE u = t
    BY <1>6, <2>1
  <2>2. CASE u # t
    BY <1>2, <2>2 DEF NoVerdictYet, Undecided
  <2>3. QED  BY <2>1, <2>2
<1>10. NoErrorYet'
  BY <1>1, <1>2, <1>7, KeyFacts DEF NoErrorYet, Going
<1>11. VerdictSaved'
  <2> SUFFICES ASSUME NEW j \in Keys, Verdict(j), ~Excused(j)
               PROVE  mrseq'[j.ext] >= j.seq
    BY <1>7 DEF VerdictSaved
  <2>1. mrseq[j.ext] >= j.seq
    BY DEF VerdictSaved
  <2>2. CASE j.ext # k.ext
    BY <1>3, <1>4, <2>1, <2>2
  <2>3. CASE j.ext = k.ext
    <3>1. mrseq[k.ext] < k.seq
      BY <1>5, <2>3 DEF Excused
    <3>2. QED  BY <1>3, <1>4, <2>1, <2>3, <3>1
  <2>4. QED  BY <2>2, <2>3
<1>12. OneVerdict'
  BY <1>1 DEF OneVerdict
<1>13. QED  BY <1>8, <1>9, <1>10, <1>11, <1>12

(* The steps of a worker.                                                   *)
LEMMA WorkVerdicts ==
  ASSUME IInv, Verdicts, NEW t \in Tasks, Work(t) \/ Tick(t) \/ EndScript(t)
  PROVE  Verdicts'
<1>0. /\ {"save", "enable", "kill", "pid", "run", "final", "sendDone", "sendErr"}
            \subseteq WorkerSteps
      /\ "hung" \in WorkerSteps
      /\ TypeOK /\ MapOK /\ KeyOf(t) \in Keys
  BY KeyFacts DEF WorkerSteps, IInv, TypeOK
<1>1. ASSUME NEW label \in WorkerSteps, WorkerGoto(t, label)
      PROVE  \A u \in Tasks : worker'[u] = IF u = t THEN label ELSE worker[u]
  BY <1>0, <1>1 DEF WorkerGoto, TypeOK, TasksOK
<1>2. CASE FailEarly(t)
  BY <1>0, <1>2, VerdictsMoved DEF FailEarly, diskVars
<1>3. CASE NoCommand(t)
  BY <1>0, <1>3, VerdictsMoved DEF NoCommand, diskVars, ghosts
<1>4. CASE CheckSeqNum(t)
  <2>1. UNCHANGED <<mrseq, reported, handler, timedOut, runs>> /\ raced \subseteq raced'
    BY <1>4 DEF CheckSeqNum, diskVars
  <2>2. PICK label \in {"save", "sendDone"} : WorkerGoto(t, label)
    BY <1>4 DEF CheckSeqNum
  <2>3. QED  BY <1>0, <2>1, <2>2, VerdictsMoved
<1>5. CASE SaveSeqNum(t)
  BY <1>5, SaveVerdicts
<1>6. CASE StoreSettings(t)
  <2>1. \A j \in Keys : \A v \in {"success", "error"} : v \in reported'[j] => v \in reported[j]
    BY <1>0, <1>6, NotifyNoVerdict, StatusFacts DEF StoreSettings, Transitioning
  <2>2. PICK l \in {"enable", "hung"} :
          \A u \in Tasks : worker'[u] = IF u = t THEN l ELSE worker[u]
    BY <1>0, <1>1, <1>6, AfterSteps DEF StoreSettings
  <2>3. \A u \in Tasks : /\ Undecided(u)' => Undecided(u)
                         /\ Going(u)' => Going(u)
                         /\ Started(u)' => Started(u)
    BY <1>6, <2>2 DEF StoreSettings, Undecided, Going, Started
  <2>4. UNCHANGED <<mrseq, raced, timedOut, runs, handler>>
    BY <1>6 DEF StoreSettings, diskVars
  <2>5. QED  BY <2>1, <2>3, <2>4, VerdictsKept
<1>7. CASE Prepare(t)
  BY <1>0, <1>7, VerdictsAfter DEF Prepare, diskVars, ghosts, Undecided
<1>8. CASE PrepareAsync(t)
  <2>1. PICK l \in {"kill", "hung"} :
          \A u \in Tasks : worker'[u] = IF u = t THEN l ELSE worker[u]
    BY <1>0, <1>1, <1>8, AfterSteps DEF PrepareAsync
  <2>2. UNCHANGED <<mrseq, runs, raced, handler, timedOut>>
    BY <1>8 DEF PrepareAsync, diskVars
  <2>3. Undecided(t)
    BY <1>8 DEF PrepareAsync, Undecided
  <2>4. QED  BY <1>0, <1>8, <2>1, <2>2, <2>3, VerdictGivenByWorker DEF PrepareAsync
<1>9. ASSUME NEW s \in {"success", "error"}, EndEnable(t, s)  PROVE Verdicts'
  <2>1. PICK l \in {"sendDone", "hung"} :
          \A u \in Tasks : worker'[u] = IF u = t THEN l ELSE worker[u]
    BY <1>0, <1>1, <1>9, AfterSteps DEF EndEnable
  <2>2. UNCHANGED <<mrseq, runs, raced, handler, timedOut>>
    BY <1>9 DEF EndEnable, diskVars
  <2>3. Undecided(t)
    BY <1>9 DEF EndEnable, Undecided
  <2>4. QED  BY <1>0, <1>9, <2>1, <2>2, <2>3, VerdictGivenByWorker DEF EndEnable
<1>10. CASE KillSelf(t)
  <2>1. /\ UNCHANGED <<mrseq, runs, raced, reported, timedOut>>
        /\ \A u \in Tasks : worker'[u] = "none" /\ handler'[u] = "none"
    BY <1>10 DEF KillSelf, Restart
  <2>2. QED  BY <2>1, VerdictsKept DEF Undecided, Going, Started
<1>11. CASE NothingToKill(t)
  <2>1. UNCHANGED <<mrseq, runs, raced, reported, handler, timedOut>>
    BY <1>11 DEF NothingToKill, diskVars, ghosts
  <2>2. CASE worker[t] = "kill"
    BY <1>0, <1>11, <2>1, <2>2, VerdictsMoved DEF NothingToKill, Going
  <2>3. CASE worker[t] # "kill"
    BY <1>0, <1>11, <2>1, <2>3, VerdictsMoved DEF NothingToKill
  <2>4. QED  BY <2>2, <2>3
<1>12. CASE RunScript(t)
  <2>1. UNCHANGED <<mrseq, raced, reported, handler, timedOut>> /\ Going(t)
    BY <1>12 DEF RunScript, Going
  <2>2. /\ runs'[KeyOf(t)] = IF runs[KeyOf(t)] = 0 THEN 1 ELSE 2
        /\ \A k \in Keys : k # KeyOf(t) => runs'[k] = runs[k]
    BY <1>0, <1>12 DEF RunScript, TypeOK, DiskOK
  <2>3. runs'[KeyOf(t)] > 0 /\ \A k \in Keys : runs[k] > 0 => runs'[k] > 0
    BY <2>2
  <2>4. QED  BY <1>0, <1>12, <2>1, <2>3, VerdictsMoved DEF RunScript
<1>13. CASE ReportResult(t)
  <2>1. PICK l \in {"sendDone", "hung"} :
          \A u \in Tasks : worker'[u] = IF u = t THEN l ELSE worker[u]
    BY <1>0, <1>1, <1>13, AfterSteps DEF ReportResult
  <2>2. UNCHANGED <<mrseq, runs, raced, handler, timedOut>>
    BY <1>13 DEF ReportResult, diskVars
  <2>3. Started(t)
    BY <1>13 DEF ReportResult, Started
  <2>4. QED  BY <1>0, <1>13, <2>1, <2>2, <2>3, VerdictGivenByWorker DEF ReportResult
<1>14. CASE Tick(t)
  <2>1. UNCHANGED <<mrseq, runs, raced, handler, worker, timedOut>> /\ worker[t] = "run"
    BY <1>14 DEF Tick, diskVars, taskVars
  <2>2. CASE t \in async
    <3>1. Notify(KeyOf(t), "success")
      BY <1>14, <2>2 DEF Tick
    <3>2. Started(t) /\ \A u \in Tasks : worker'[u] = IF u = t THEN "run" ELSE worker[u]
      BY <2>1 DEF Started
    <3>3. QED  BY <1>0, <2>1, <3>1, <3>2, VerdictGivenByWorker
  <2>3. CASE t \notin async
    <3>1. \A j \in Keys : \A v \in {"success", "error"} :
            v \in reported'[j] => v \in reported[j]
      BY <1>0, <1>14, <2>3, NotifyNoVerdict, StatusFacts DEF Tick, Transitioning
    <3>2. QED  BY <2>1, <3>1, VerdictsKept DEF Undecided, Going, Started
  <2>4. QED  BY <2>2, <2>3
<1>15. CASE EndScript(t)
  BY <1>0, <1>15, VerdictsAfter DEF EndScript, ghosts, Going, Started
<1>16. QED
  BY <1>2, <1>3, <1>4, <1>5, <1>6, <1>7, <1>8, <1>9, <1>10, <1>11, <1>12, <1>13,
     <1>14, <1>15
  DEF Work

(* The steps of a handler: one that gives up a goal state may report it.    *)
LEMMA HandleVerdicts ==
  ASSUME IInv, Verdicts, NEW t \in Tasks, Handle(t)  PROVE Verdicts'
<1>0. TasksOK /\ MapOK /\ KeyOf(t) \in Keys
  BY KeyFacts DEF IInv, TypeOK
<1>1. UNCHANGED <<mrseq, runs, raced>> /\ timedOut \subseteq timedOut'
  BY DEF Handle, Increment, StartWorker, Receive, Timeout, ReportFailure, diskVars, ghosts
<1>2. \A u \in Tasks : handler'[u] = "failed"
                         => handler[u] = "failed" \/ KeyOf(u) \in timedOut'
  BY <1>0
  DEF Handle, Increment, StartWorker, Receive, Timeout, ReportFailure, TasksOK
<1>3. \A u \in Tasks : worker'[u] = worker[u] \/ worker'[u] \in {"none", "start"}
  BY <1>0
  DEF Handle, Increment, StartWorker, Receive, Timeout, ReportFailure, TasksOK
<1>4. \A u \in Tasks : /\ Undecided(u)' => Undecided(u)
                       /\ Going(u)' => Going(u)
                       /\ Started(u)' => Started(u)
  BY <1>3 DEF Undecided, Going, Started
<1>5. CASE ~ReportFailure(t)
  <2>1. \A j \in Keys : \A v \in {"success", "error"} : v \in reported'[j] => v \in reported[j]
    <3>1. CASE StartWorker(t)
      BY <1>0, <3>1, NotifyNoVerdict, StatusFacts DEF StartWorker, Empty
    <3>2. CASE ~StartWorker(t)
      BY <1>5, <3>2 DEF Handle, Increment, Receive, Timeout, ghosts
    <3>3. QED  BY <3>1, <3>2
  <2>2. QED  BY <1>1, <1>2, <1>4, <2>1, VerdictsKept
<1>6. CASE ReportFailure(t)
  <2>1. /\ KeyOf(t) \in timedOut /\ UNCHANGED <<timedOut, worker>>
        /\ ReportFinal(KeyOf(t), "error")
    BY <1>6 DEF ReportFailure, Verdicts, GivenUp
  <2>2. \A j \in Keys : j # KeyOf(t) => reported'[j] = reported[j]
    BY <1>0, <2>1, NotifyVerdict DEF ReportFinal
  <2>3. \A j \in Keys : (Excused(j)' <=> Excused(j)) /\ (j = KeyOf(t) => Excused(j))
    BY <1>1, <2>1 DEF Excused
  <2>4. GivenUp' /\ StartCounted'
    BY <1>1, <1>2, <2>1 DEF Verdicts, GivenUp, StartCounted, Started
  <2>5. NoVerdictYet' /\ NoErrorYet'
    BY <1>4, <2>2, <2>3, KeyFacts DEF Verdicts, NoVerdictYet, NoErrorYet, Verdict
  <2>6. VerdictSaved'
    BY <1>1, <2>2, <2>3 DEF Verdicts, VerdictSaved, Verdict
  <2>7. OneVerdict'
    BY <2>2, <2>3 DEF Verdicts, OneVerdict, Excused
  <2>8. QED  BY <2>4, <2>5, <2>6, <2>7 DEF Verdicts
<1>7. QED  BY <1>5, <1>6

(* The steps of the poll loop, which reports what it skips.                 *)
LEMMA PollVerdicts ==
  ASSUME IInv, Verdicts, Poll  PROVE Verdicts'
<1>0. MapOK /\ PollOK
  BY DEF IInv, TypeOK
<1>1. UNCHANGED <<mrseq, runs, raced, timedOut>>
  BY DEF Poll, ReadCount, Fetch, RemoveProcessed, Select, Skip, EndPoll, diskVars, ghosts
<1>2. \A u \in Tasks : /\ worker'[u] = worker[u] \/ worker'[u] = "none"
                       /\ handler'[u] = handler[u] \/ handler'[u] = "spawned"
  <2>1. CASE Select
    BY <2>1 DEF Select, taskVars
  <2>2. CASE ~Select
    BY <2>2 DEF Poll, ReadCount, Fetch, RemoveProcessed, Skip, EndPoll, taskVars
  <2>3. QED  BY <2>1, <2>2
<1>3. \A u \in Tasks : /\ Undecided(u)' => Undecided(u)
                       /\ Going(u)' => Going(u)
                       /\ Started(u)' => Started(u)
                       /\ handler'[u] = "failed" => handler[u] = "failed"
  BY <1>2 DEF Undecided, Going, Started
<1>4. \A j \in Keys : \A v \in {"success", "error"} : v \in reported'[j] => v \in reported[j]
  <2>1. ASSUME NEW k \in Keys, Skip(k)
        PROVE  \A j \in Keys : \A v \in {"success", "error"} :
                 v \in reported'[j] => v \in reported[j]
    <3>1. CASE Notify(k, "skipped")
      BY <1>0, <3>1, NotifyNoVerdict, StatusFacts
    <3>2. QED  BY <2>1, <3>1 DEF Skip, ReportFinal
  <2>2. CASE ~\E k \in Keys : Skip(k)
    BY <2>2 DEF Poll, ReadCount, Fetch, RemoveProcessed, Select, EndPoll, ghosts
  <2>3. QED  BY <2>1, <2>2
<1>5. QED  BY <1>1, <1>3, <1>4, VerdictsKept

LEMMA InitVerdicts == Init => Verdicts
<1> SUFFICES ASSUME Init  PROVE Verdicts
  OBVIOUS
<1>1. \A t \in Tasks : worker[t] = "none" /\ handler[t] = "none"
  BY DEF Init
<1>2. \A k \in Keys : reported[k] = {}
  BY DEF Init
<1>3. QED
  BY <1>1, <1>2
  DEF Verdicts, GivenUp, StartCounted, NoVerdictYet, NoErrorYet, VerdictSaved, OneVerdict,
      Undecided, Going, Started, Verdict

LEMMA VerdictsStep == IInv /\ Verdicts /\ [Next]_vars => Verdicts'
<1> SUFFICES ASSUME IInv, Verdicts, [Next]_vars  PROVE Verdicts'
  OBVIOUS
<1>1. ASSUME UNCHANGED <<taskVars, diskVars, runs, raced, reported, timedOut>>
      PROVE  Verdicts'
  BY <1>1, VerdictsKept DEF taskVars, diskVars, Undecided, Going, Started
<1>2. CASE \E goalStates \in Lists : Publish(goalStates)
  BY <1>1, <1>2 DEF Publish, ghosts
<1>3. CASE \E k \in Keys : Collect(k)
  BY <1>1, <1>3 DEF Collect, ghosts
<1>4. CASE Crash
  <2>1. /\ UNCHANGED <<mrseq, runs, raced, reported, timedOut>>
        /\ \A u \in Tasks : worker'[u] = "none" /\ handler'[u] = "none"
    BY <1>4 DEF Crash, Restart
  <2>2. QED  BY <2>1, VerdictsKept DEF Undecided, Going, Started
<1>5. CASE UNCHANGED vars
  BY <1>1, <1>5 DEF vars, ghosts
<1>6. QED
  BY <1>2, <1>3, <1>4, <1>5, PollVerdicts, HandleVerdicts, WorkVerdicts DEF Next

(* HGAP is told one verdict on a goal state, whatever is relaunched,        *)
(* restarted or repeated by the ticker; the exceptions are a goal state     *)
(* given up after 90 minutes and a race for its mrseq (goalstate.go:36-60). *)
THEOREM VerdictsAgree == Spec => []OneVerdict
<1>1. Verdicts => OneVerdict
  BY DEF Verdicts
<1>2. QED  BY <1>1, InitVerdicts, VerdictsStep, Invariance, PTL DEF Spec

=============================================================================
