--------------------------- MODULE StatusObserver ---------------------------
(***************************************************************************)
(* internal/status: the observer that the goroutines of the immediate run  *)
(* command service call with the status of their goal state. A call stores *)
(* the status in a sync.Map, ranges over the map, merges what became       *)
(* terminal into a local file (read, prune, write; the file lock is held   *)
(* for each read and each write, never over the update), and PUTs the      *)
(* whole aggregate to the HostGAPlugin (HGAP).                             *)
(*                                                                         *)
(* One action per access to shared state, so that the callers interleave   *)
(* where the goroutines can. Ghost variables (seen, final, stale, moved,   *)
(* losses) record what happened and guard nothing.                         *)
(***************************************************************************)
EXTENDS GoalStates, SequencesExt

CONSTANTS
  Keys,       \* the goal states of the run
  Callers,    \* goroutines that call OnNotify
  Statuses,   \* statuses that enabled goal states report in the run
  Poller,     \* the poll loop, the only caller of RemoveProcessedGoalStates
  MaxCalls,   \* bound: calls started in a behaviour
  Faults      \* which failures the environment may produce

ASSUME ObserverAssumption ==
  /\ Keys \subseteq GoalStateKey
  /\ Poller \in Callers
  /\ Statuses \subseteq StatusTypes
  /\ MaxCalls \in Nat
  /\ Faults \subseteq {"read", "write", "put", "crash"}

VARIABLES
  goalStateEventMap,  \* sync.Map: key -> status, Absent when not stored
  file,               \* content of the terminal-status file
  hgap,               \* the aggregate HGAP received last
  pc, mode, listed,   \* per caller: next step, "report" or "remove", argument
  todo, doomed,       \* per caller: keys still to visit, key read and to be deleted
  live, fresh,        \* latestStatusToReport, newStatusInTerminalState
  prune, list,        \* keys to remove with, statusInTerminalState
  calls,              \* calls started (bounded by MaxCalls)
  seen,               \* ghost: keys ever stored
  final,              \* ghost: last terminal status notified for a key
  stale,              \* ghost: callers whose list is not what the file holds
  moved,              \* ghost: callers during whose call another changed the map
  losses              \* ghost: the events that can lose a terminal status

shared == <<goalStateEventMap, file, hgap>>
scratch == <<listed, todo, doomed, live, fresh, prune, list>>
ghosts == <<seen, final, stale, moved, losses>>
vars == <<shared, pc, mode, scratch, calls, ghosts>>

Stored == {k \in Keys : goalStateEventMap[k] # Absent}

(* Statuses a goal state is notified with: the command of a disabled or     *)
(* unknown goal state reports nothing after the empty item of its launch.   *)
Notifiable(k) == IF k.state = "enabled" THEN Statuses ELSE {Empty}

Init ==
  /\ goalStateEventMap = [k \in Keys |-> Absent]
  /\ file = <<>>
  /\ hgap = {}
  /\ pc = [t \in Callers |-> "idle"]
  /\ mode = [t \in Callers |-> "report"]
  /\ listed = [t \in Callers |-> {}]
  /\ todo = [t \in Callers |-> {}]
  /\ doomed = [t \in Callers |-> {}]
  /\ live = [t \in Callers |-> {}]
  /\ fresh = [t \in Callers |-> <<>>]
  /\ prune = [t \in Callers |-> {}]
  /\ list = [t \in Callers |-> <<>>]
  /\ calls = 0
  /\ seen = {}
  /\ final = [k \in Keys |-> Absent]
  /\ stale = {}
  /\ moved = {}
  /\ losses = {}

Goto(t, label) == pc' = [pc EXCEPT ![t] = label]

(* t's list came from the file.                                             *)
Held(t) == pc[t] \in {"prune", "pruneSave", "save", "put"}

(* The map changes under every other caller that has started to range.      *)
MovesOthers(t) ==
  moved' = moved \cup {u \in Callers \ {t} : pc[u] \notin {"idle", "collect"}}

-----------------------------------------------------------------------------
(* OnNotify: store the item, then OnDemandNotify. Storing over a terminal   *)
(* status that nobody has collected yet loses it.                           *)
OnNotify(t, k, s) ==
  /\ pc[t] = "idle" /\ calls < MaxCalls
  /\ calls' = calls + 1
  /\ goalStateEventMap' = [goalStateEventMap EXCEPT ![k] = s]
  /\ mode' = [mode EXCEPT ![t] = "report"]
  /\ Goto(t, "collect")
  /\ seen' = seen \cup {k}
  /\ final' = IF IsTerminal(s) THEN [final EXCEPT ![k] = s] ELSE final
  /\ losses' = IF IsTerminal(goalStateEventMap[k]) /\ goalStateEventMap[k] # s
                 THEN losses \cup {"overwritten"} ELSE losses
  /\ MovesOthers(t)
  /\ UNCHANGED <<file, hgap, scratch, stale>>

(* RemoveProcessedGoalStates(goalStateKeys), by the poll loop only.         *)
RemoveProcessedGoalStates(keys) ==
  /\ pc[Poller] = "idle" /\ calls < MaxCalls
  /\ calls' = calls + 1
  /\ mode' = [mode EXCEPT ![Poller] = "remove"]
  /\ listed' = [listed EXCEPT ![Poller] = keys]
  /\ Goto(Poller, "collect")
  /\ UNCHANGED <<shared, todo, doomed, live, fresh, prune, list, ghosts>>

(* Range takes the keys present when it starts and loads each value when it *)
(* gets to it.                                                              *)
StartRange(t) ==
  /\ pc[t] = "collect"
  /\ todo' = [todo EXCEPT ![t] = Stored]
  /\ live' = [live EXCEPT ![t] = {}]
  /\ fresh' = [fresh EXCEPT ![t] = <<>>]
  /\ prune' = [prune EXCEPT ![t] = {}]
  /\ list' = [list EXCEPT ![t] = <<>>]
  /\ moved' = moved \ {t}
  /\ Goto(t, "range")
  /\ UNCHANGED <<shared, mode, listed, doomed, calls, seen, final, stale, losses>>

(* What a visit of key k with value v does to the caller's lists.           *)
Reports(t, k, v) ==
  mode[t] = "report" /\ v # Absent /\ k.state # "disabled" /\ v # Empty
Collects(t, k, v) ==       \* the key is then deleted from the map
  \/ Reports(t, k, v) /\ IsTerminal(v)
  \/ mode[t] = "remove" /\ v # Absent /\ k \notin listed[t]
PrunesWith(t, k, v) ==
  \/ Reports(t, k, v)
  \/ mode[t] = "report" /\ v # Absent /\ k.state = "disabled"
  \/ Collects(t, k, v)

Visit(t, k) ==
  /\ pc[t] = "range" /\ doomed[t] = {} /\ k \in todo[t]
  /\ LET v == goalStateEventMap[k] IN
       /\ todo' = [todo EXCEPT ![t] = @ \ {k}]
       /\ live' = IF Reports(t, k, v) /\ ~IsTerminal(v)
                    THEN [live EXCEPT ![t] = @ \cup {EntryOf(k, v)}] ELSE live
       /\ fresh' = IF Collects(t, k, v) /\ k.state # "disabled"
                     THEN [fresh EXCEPT ![t] = Append(@, EntryOf(k, v))]
                     ELSE fresh
       /\ prune' = IF PrunesWith(t, k, v)
                     THEN [prune EXCEPT ![t] = @ \cup {k}] ELSE prune
       /\ doomed' = IF Collects(t, k, v)
                      THEN [doomed EXCEPT ![t] = {k}] ELSE doomed
  /\ UNCHANGED <<shared, pc, mode, listed, list, calls, ghosts>>

(* The deletion is not conditional on the value that was read.              *)
Delete(t, k) ==
  /\ pc[t] = "range" /\ k \in doomed[t]
  /\ goalStateEventMap' = [goalStateEventMap EXCEPT ![k] = Absent]
  /\ doomed' = [doomed EXCEPT ![t] = {}]
  /\ losses' = IF /\ IsTerminal(goalStateEventMap[k])
                  /\ EntryOf(k, goalStateEventMap[k]) \notin ToSet(fresh[t])
                 THEN losses \cup {"deleted"} ELSE losses
  /\ MovesOthers(t)
  /\ UNCHANGED <<file, hgap, pc, mode, listed, todo, live, fresh, prune, list,
                 calls, seen, final, stale>>

EndRange(t) ==
  /\ pc[t] = "range" /\ doomed[t] = {} /\ todo[t] = {}
  /\ Goto(t, IF prune[t] = {} THEN "get" ELSE "pruneGet")
  /\ UNCHANGED <<shared, mode, scratch, calls, ghosts>>

-----------------------------------------------------------------------------
(* RemoveDisabledAndUpdatedGoalStatesInLocalStatusFile. A failed read ends  *)
(* it; the caller only logs that.                                           *)
PruneGet(t) ==
  /\ pc[t] = "pruneGet"
  /\ \/ /\ list' = [list EXCEPT ![t] = file]
        /\ stale' = stale \ {t}
        /\ Goto(t, "prune")
     \/ /\ "read" \in Faults
        /\ Goto(t, "get")
        /\ UNCHANGED <<list, stale>>
  /\ UNCHANGED <<shared, mode, listed, todo, doomed, live, fresh, prune, calls,
                 seen, final, moved, losses>>

(* One iteration of the loop over the keys: at most one entry goes (break). *)
FirstObsolete(l, k) ==
  CHOOSE i \in DOMAIN l : /\ Obsoletes(k, l[i])
                          /\ \A j \in 1..(i - 1) : ~Obsoletes(k, l[j])
Without(l, k) ==
  IF \E i \in DOMAIN l : Obsoletes(k, l[i])
    THEN RemoveAt(l, FirstObsolete(l, k)) ELSE l

PruneKey(t, k) ==
  /\ pc[t] = "prune" /\ k \in prune[t]
  /\ IF k.state \in {"enabled", "disabled"}
       THEN /\ list' = [list EXCEPT ![t] = Without(@, k)]
            /\ prune' = [prune EXCEPT ![t] = @ \ {k}]
            /\ Goto(t, IF prune[t] = {k} THEN "pruneSave" ELSE "prune")
       ELSE /\ Goto(t, "get")          \* returns an error before saving
            /\ UNCHANGED <<list, prune>>
  /\ UNCHANGED <<shared, mode, listed, todo, doomed, live, fresh, calls, ghosts>>

(* SaveGoalStatesInTerminalStatus(list): a temporary file and a rename, so  *)
(* the file has the old content or the new. Every other caller that holds a *)
(* list read earlier is stale from then on.                                 *)
Write(t) ==
  /\ file' = list[t]
  /\ stale' = {u \in Callers \ {t} : u \in stale \/ (Held(u) /\ file' # file)}
  /\ losses' = IF t \in stale THEN losses \cup {"stale write"} ELSE losses

PruneSave(t) ==
  /\ pc[t] = "pruneSave"
  /\ \/ Write(t)
     \/ "write" \in Faults /\ UNCHANGED <<file, stale, losses>>
  /\ Goto(t, "get")
  /\ UNCHANGED <<goalStateEventMap, hgap, mode, scratch, calls, seen, final, moved>>

-----------------------------------------------------------------------------
(* Mutants of Get: the new statuses are not merged; the old ones are not.   *)
GetWithoutMerge(t) ==
  /\ pc[t] = "get"
  /\ list' = [list EXCEPT ![t] = file]
  /\ stale' = stale \ {t}
  /\ Goto(t, IF fresh[t] # <<>> THEN "save" ELSE "put")
  /\ UNCHANGED <<shared, mode, listed, todo, doomed, live, fresh, prune, calls,
                 seen, final, moved, losses>>

GetOnlyNew(t) ==
  /\ pc[t] = "get"
  /\ list' = [list EXCEPT ![t] = IF fresh[t] # <<>> THEN fresh[t] ELSE file]
  /\ stale' = stale \ {t}
  /\ Goto(t, IF fresh[t] # <<>> THEN "save" ELSE "put")
  /\ UNCHANGED <<shared, mode, listed, todo, doomed, live, fresh, prune, calls,
                 seen, final, moved, losses>>

(* GetGoalStatesInTerminalStatus and the merge. A failed read is logged and *)
(* leaves an empty list, which is sent, and which a save writes over the    *)
(* file.                                                                    *)
Saves(t) == fresh[t] # <<>> \/ mode[t] = "remove"

Get(t) ==
  /\ pc[t] = "get"
  /\ \E ok \in BOOLEAN :
       /\ ok \/ "read" \in Faults
       /\ list' = [list EXCEPT ![t] = (IF ok THEN file ELSE <<>>) \o fresh[t]]
       /\ stale' = IF ok THEN stale \ {t} ELSE stale \cup {t}
       /\ losses' = IF ~ok /\ Saves(t) THEN losses \cup {"unreadable"} ELSE losses
  /\ Goto(t, IF Saves(t) THEN "save" ELSE "put")
  /\ UNCHANGED <<shared, mode, listed, todo, doomed, live, fresh, prune, calls,
                 seen, final, moved>>

(* Save, and in RemoveProcessedGoalStates go on with OnDemandNotify.        *)
Save(t) ==
  /\ pc[t] = "save"
  /\ \/ Write(t)
     \/ /\ "write" \in Faults
        /\ losses' = losses \cup {"unwritable"}
        /\ stale' = stale \cup {t}
        /\ UNCHANGED file
  /\ fresh' = [fresh EXCEPT ![t] = <<>>]
  /\ mode' = [mode EXCEPT ![t] = "report"]
  /\ Goto(t, IF mode[t] = "remove" THEN "collect" ELSE "put")
  /\ UNCHANGED <<goalStateEventMap, hgap, listed, todo, doomed, live, prune,
                 list, calls, seen, final, moved>>

-----------------------------------------------------------------------------
(* Mutant: only what is in the event map is sent.                           *)
PayloadOfMap(t) == live[t]

Payload(t) == live[t] \cup ToSet(list[t])

(* reportImmediateStatus: HGAP answers, with 200 or another code. The HTTP  *)
(* client has no timeout, so that no answer need ever come.                 *)
Put(t) ==
  /\ pc[t] = "put"
  /\ \/ hgap' = Payload(t)
     \/ "put" \in Faults /\ UNCHANGED hgap
  /\ Goto(t, "idle")
  /\ live' = [live EXCEPT ![t] = {}]
  /\ prune' = [prune EXCEPT ![t] = {}]
  /\ list' = [list EXCEPT ![t] = <<>>]
  /\ listed' = [listed EXCEPT ![t] = {}]
  /\ stale' = stale \ {t}
  /\ moved' = moved \ {t}
  /\ UNCHANGED <<goalStateEventMap, file, mode, todo, doomed, fresh, calls, seen,
                 final, losses>>

(* The service process ends: memory is gone, the file stays.                *)
Restart ==
  /\ goalStateEventMap' = [k \in Keys |-> Absent]
  /\ pc' = [t \in Callers |-> "idle"]
  /\ mode' = [t \in Callers |-> "report"]
  /\ listed' = [t \in Callers |-> {}]
  /\ todo' = [t \in Callers |-> {}]
  /\ doomed' = [t \in Callers |-> {}]
  /\ live' = [t \in Callers |-> {}]
  /\ fresh' = [t \in Callers |-> <<>>]
  /\ prune' = [t \in Callers |-> {}]
  /\ list' = [t \in Callers |-> <<>>]
  /\ stale' = {}
  /\ moved' = {}
  /\ losses' = IF \/ \E k \in Keys : IsTerminal(goalStateEventMap[k])
                  \/ \E t \in Callers : fresh[t] # <<>>
                 THEN losses \cup {"crash"} ELSE losses
  /\ UNCHANGED <<file, hgap, calls, seen, final>>

(* No answer: the response is nil, and reading response.Request for the log *)
(* line before looking at err panics, which ends the process.               *)
PutPanics(t) == "put" \in Faults /\ pc[t] = "put" /\ Restart

Crash == "crash" \in Faults /\ Restart

-----------------------------------------------------------------------------
LocalStep(t) ==
  \/ StartRange(t)
  \/ \E k \in Keys : Visit(t, k) \/ Delete(t, k) \/ PruneKey(t, k)
  \/ EndRange(t)
  \/ PruneGet(t)
  \/ PruneSave(t)
  \/ Get(t)
  \/ Save(t)

Step(t) == LocalStep(t) \/ Put(t)

Next ==
  \/ \E t \in Callers, k \in Keys : \E s \in Notifiable(k) : OnNotify(t, k, s)
  \/ \E keys \in SUBSET Keys : RemoveProcessedGoalStates(keys)
  \/ \E t \in Callers : Step(t) \/ PutPanics(t)
  \/ Crash

Spec == Init /\ [][Next]_vars

(* A goroutine that is inside a call is scheduled again, and up to the PUT  *)
(* nothing blocks it but the file lock, which is released after each read   *)
(* or write. The PUT itself may hang: nothing makes it end.                 *)
Fairness == \A t \in Callers : WF_vars(LocalStep(t))

FairSpec == Spec /\ Fairness

-----------------------------------------------------------------------------
Steps == {"idle", "collect", "range", "pruneGet", "prune", "pruneSave",
          "get", "save", "put"}
Losses == {"overwritten", "deleted", "stale write", "unreadable", "unwritable",
           "crash"}

(* Every variable has its type.                                             *)
TypeOK ==
  /\ goalStateEventMap \in [Keys -> StatusTypes \cup {Absent}]
  /\ file \in Seq(ImmediateStatus)
  /\ hgap \in SUBSET ImmediateStatus
  /\ pc \in [Callers -> Steps]
  /\ mode \in [Callers -> {"report", "remove"}]
  /\ listed \in [Callers -> SUBSET Keys]
  /\ todo \in [Callers -> SUBSET Keys]
  /\ doomed \in [Callers -> SUBSET Keys]
  /\ live \in [Callers -> SUBSET ImmediateStatus]
  /\ fresh \in [Callers -> Seq(ImmediateStatus)]
  /\ prune \in [Callers -> SUBSET Keys]
  /\ list \in [Callers -> Seq(ImmediateStatus)]
  /\ calls \in Nat
  /\ seen \in SUBSET Keys
  /\ final \in [Keys -> TerminalTypes \cup {Absent}]
  /\ stale \in SUBSET Callers
  /\ moved \in SUBSET Callers
  /\ losses \in SUBSET Losses

(* A terminal entry may go when a newer enabled goal state, or the disabled *)
(* one, has been seen.                                                      *)
Superseded(e) == \E k \in seen : Obsoletes(k, e)

InMap(e) == \E k \in Keys : /\ IsTerminal(goalStateEventMap[k])
                            /\ EntryOf(k, goalStateEventMap[k]) = e
InHand(e) == \E t \in Callers : e \in ToSet(fresh[t])
InFile(e) == e \in ToSet(file)

Finals == {EntryOf(k, final[k]) : k \in {j \in Keys : IsTerminal(final[j])}}

(* The last terminal status of every goal state is in the map, in the hands *)
(* of the caller that took it out of the map, or in the file, until the     *)
(* goal state is superseded - unless one of the six named events happened.  *)
(* (immediatestatus.go:64-123, 166-211: the hand-over from map to file.)    *)
TerminalKept ==
  losses = {} =>
    \A e \in Finals : InMap(e) \/ InHand(e) \/ InFile(e) \/ Superseded(e)

(* What makes TerminalKept inductive: a caller has uncollected statuses in  *)
(* its hands only between the range and the save, and in its list when it   *)
(* saves; a list that is not stale has all of the file but what was         *)
(* superseded; and only keys that have been seen are stored or pruned with. *)
FreshUntilSaved ==
  \A t \in Callers : fresh[t] # <<>> =>
    pc[t] \in {"range", "pruneGet", "prune", "pruneSave", "get", "save"}
SaveCoversFresh ==
  \A t \in Callers : pc[t] = "save" => ToSet(fresh[t]) \subseteq ToSet(list[t])
ListCoversFile ==
  \A t \in Callers : Held(t) /\ t \notin stale =>
    \A e \in ToSet(file) : e \in ToSet(list[t]) \/ Superseded(e)
KeysSeen == Stored \subseteq seen /\ \A t \in Callers : prune[t] \subseteq seen

Custody ==
  FreshUntilSaved /\ SaveCoversFresh /\ ListCoversFile /\ KeysSeen

IInv == TypeOK /\ Custody /\ TerminalKept

Quiet == \A t \in Callers : pc[t] = "idle"

Running == {EntryOf(k, goalStateEventMap[k]) :
              k \in {j \in Keys : /\ j.state # "disabled"
                                  /\ goalStateEventMap[j] = Transitioning}}

(* What a caller sends to HGAP is exactly what the map and the file hold at *)
(* that moment: the running goal states and the finished ones. Two things   *)
(* excuse a caller: its list is not what the file holds (a read or a save   *)
(* that failed, another caller's write in between), or another caller       *)
(* changed the map while it was at work (immediatestatus.go:64-139).        *)
AggregateComplete ==
  \A t \in Callers : pc[t] = "put" /\ t \notin stale \cup moved =>
    Payload(t) = Running \cup ToSet(file)

FileDamage == {"stale write", "unreadable", "unwritable"}

(* HGAP never loses sight of a terminal status it was told, except when the *)
(* goal state is superseded - not by a restart of the service either, nor   *)
(* by callers that overlap: only the PUT of a caller whose list is not what *)
(* the file holds, or an earlier write that lost entries of the file, can   *)
(* make HGAP forget (immediatestatus.go:100-122, status.go:131-215).        *)
HgapNeverForgets ==
  [][\A e \in hgap : IsTerminal(e.status) =>
       \/ e \in hgap'
       \/ Superseded(e)
       \/ \E t \in stale : Put(t)
       \/ losses \cap FileDamage # {}]_vars

(* A PUT that never ends.                                                   *)
Hangs(t) == <>[](pc[t] = "put")

(* The last terminal status of a goal state reaches HGAP, unless a PUT      *)
(* hangs for ever.                                                          *)
TerminalDelivered ==
  \/ \E t \in Callers : Hangs(t)
  \/ \A k \in Keys : \A s \in TerminalTypes :
       final[k] = s ~> \/ EntryOf(k, s) \in hgap
                       \/ Superseded(EntryOf(k, s))
                       \/ final[k] # s

(* immediatestatus.go:87: "Remove the goal state from the event map since   *)
(* it is in terminal state. The state will be saved in the local status     *)
(* file." Two goal states that finish at the same time can break that, even *)
(* when nobody stores over a status that is still in the map.               *)
TerminalSaved ==
  Quiet /\ "overwritten" \notin losses => \A e \in Finals : InFile(e) \/ Superseded(e)
=============================================================================
