----------------------- MODULE CommandProcessingProofs -----------------------
(***************************************************************************)
(* The properties of CommandProcessing, for any number of processes,       *)
(* sequence numbers, deaths and faults.                                    *)
(*                                                                         *)
(* Three invariants carry them. Numbered: without a race, the stored       *)
(* sequence number is at least that of everything that has passed the      *)
(* check, and whoever is saving a number has a greater one than all those  *)
(* before it. Pids: a process that starts or runs a script is the one in   *)
(* the pid file, unless it slipped out of reach. Owned: a number that is   *)
(* stored or in transition has a process that will report on it, or that   *)
(* could not.                                                              *)
(***************************************************************************)
EXTENDS CommandProcessing, FiniteSetTheorems, TLAPS

ToScript == {"report", "prepare", "script", "previous", "kill", "unlink", "pid", "exec"}
Committed == ToScript \cup {"run", "unpid", "cleanup", "final"}
Late == {"exec", "run", "unpid", "cleanup", "final", "exited", "dead"}

(* The steps of an enable, a failed command, and a process with a number.   *)
EnableSteps == (Committed \ {"previous", "kill", "unlink"})
               \cup {"check", "save", "write", "turned"}
Places ==
  \A p \in Procs :
    /\ pc[p] \in EnableSteps => op[p] = "enable"
    /\ failed[p] => op[p] = "enable" /\ pc[p] \in {"unpid", "cleanup", "final", "exited", "dead"}
    /\ pc[p] # "none" => seq[p] \in Numbers
    /\ p \in unreported => pc[p] = "exited"

-----------------------------------------------------------------------------
(* An enable that has saved its number and goes on; a number that such an   *)
(* enable, a failed one, or a script has used.                              *)
Past(p) == op[p] = "enable" /\ pc[p] \in Committed
Used(p) == Past(p) \/ failed[p]
Taken(n) == runs[n] # 0 \/ \E p \in Procs : seq[p] = n /\ Used(p)
Saving(p) == pc[p] \in {"save", "write"}

OneSaves ==
  /\ \A p, q \in Procs : Saving(p) /\ Saving(q) => p = q
  /\ \A p \in Procs : pc[p] = "write" => mrseq = Torn
StoredCovers == mrseq # Torn => \A n \in Numbers : Taken(n) => n <= mrseq
SavesGreater ==
  \A p \in Procs : Saving(p) => \A n \in Numbers : Taken(n) => n < seq[p]
OneUses ==
  /\ \A p, q \in Procs : p # q /\ Used(p) /\ Past(q) => seq[p] # seq[q]
  /\ \A p \in Procs : Past(p) /\ pc[p] \in ToScript => runs[seq[p]] = 0
  /\ \A n \in Numbers : runs[n] # 2
NotOutrun ==
  \A p \in Procs : Past(p) /\ pc[p] \in ToScript /\ p \notin outrun =>
    \A n \in Numbers : Taken(n) => n <= seq[p]

Numbered ==
  ~raced => OneSaves /\ StoredCovers /\ SavesGreater /\ OneUses /\ NotOutrun

(* The pid file names a process that got as far as its script, ...          *)
PidLate == pidFile # NoPid => pc[pidFile] \in Late
(* ... and the one whose script runs or starts.                             *)
Reachable ==
  ~slipped =>
    /\ \A p \in Procs : pc[p] \in {"exec", "run"} => pidFile = p
    /\ \A p \in running : pc[p] = "run"
Pids == PidLate /\ Reachable

Owner(p) == pc[p] = "dead" \/ Past(p) \/ p \in unreported
Owned ==
  \A n \in Numbers :
    mrseq = n \/ status[n] = "transitioning" =>
      \/ status[n] \in {"success", "error"}
      \/ \E p \in Procs : seq[p] = n /\ Owner(p)

IInv == TypeOK /\ Places /\ Numbered /\ Pids /\ Owned /\ FailureSeen

-----------------------------------------------------------------------------
Base == TypeOK /\ Places

(* Types and places are kept by every step.                                 *)
LEMMA BaseNext ==
  ASSUME Base, [Next]_vars
  PROVE  Base'
<1> USE DEF Base, TypeOK, Places, FilesOK, ProcsOK, GhostsOK, Steps, EnableSteps, Committed,
            ToScript, files, procVars, ghosts
<1>1. ASSUME NEW p \in Procs, CheckSeqNum(p) PROVE Base'
  BY <1>1 DEF CheckSeqNum, Goto, Smaller
<1>2. ASSUME NEW p \in Procs, SeqNumUnreadable(p) PROVE Base'
  BY <1>2 DEF SeqNumUnreadable, Exit, Goto, FailExitCode
<1>3. ASSUME NEW p \in Procs, TruncateSeqNum(p) PROVE Base'
  BY <1>3 DEF TruncateSeqNum, Goto, Torn
<1>4. ASSUME NEW p \in Procs, WriteSeqNum(p) PROVE Base'
  BY <1>4 DEF WriteSeqNum, Goto, OnItsWay
<1>5. ASSUME NEW p \in Procs, WriteFails(p) PROVE Base'
  BY <1>5 DEF WriteFails, Exit, Goto, FailExitCode
<1>6. ASSUME NEW p \in Procs, ReportTransitioning(p) PROVE Base'
  <2>1. mishaps' \in Nat /\ FilesOK' /\ Places'
    BY <1>6 DEF ReportTransitioning, Report, Reported, NotReported, Goto, Fail
  <2>2. ProcsOK'
    <3>1. CASE Readable(seq[p])
      BY <1>6, <3>1 DEF ReportTransitioning, Goto
    <3>2. CASE ~Readable(seq[p])
      BY <1>6, <3>2 DEF ReportTransitioning, Goto, Fail
    <3> QED
      BY <3>1, <3>2
  <2> QED
    BY <1>6, <2>1, <2>2 DEF ReportTransitioning
<1>7. ASSUME NEW p \in Procs, Prepare(p) PROVE Base'
  BY <1>7 DEF Prepare, Report, Reported, NotReported, Goto
<1>8. ASSUME NEW p \in Procs, PrepareFails(p) PROVE Base'
  BY <1>8 DEF PrepareFails, Fail, Goto
<1>9. ASSUME NEW p \in Procs, InstallAsService(p) PROVE Base'
  BY <1>9 DEF InstallAsService, Goto
<1>10. ASSUME NEW p \in Procs, SaveScript(p) PROVE Base'
  BY <1>10 DEF SaveScript, Goto
<1>31. ASSUME NEW p \in Procs, SaveScriptFails(p) PROVE Base'
  BY <1>31 DEF SaveScriptFails, Goto, Fail
<1>11. ASSUME NEW p \in Procs, NoPrevious(p) PROVE Base'
  BY <1>11 DEF NoPrevious, AfterKill, Exit, Goto, FailExitCode
<1>12. ASSUME NEW p \in Procs, FindPrevious(p) PROVE Base'
  BY <1>12 DEF FindPrevious, Goto
<1>13. ASSUME NEW p \in Procs, KillGroup(p) PROVE Base'
  BY <1>13 DEF KillGroup, Alive
<1>14. ASSUME NEW p \in Procs, KillMisses(p) PROVE Base'
  BY <1>14 DEF KillMisses, Goto, Alive
<1>15. ASSUME NEW p \in Procs, UnlinkPrevious(p) PROVE Base'
  BY <1>15 DEF UnlinkPrevious, AfterKill, NamesOther, Exit, Goto, NoPid, Alive
<1>16. ASSUME NEW p \in Procs, SavePid(p) PROVE Base'
  BY <1>16 DEF SavePid, Goto, NamesOther, NoPid, Alive
<1>17. ASSUME NEW p \in Procs, StartScript(p) PROVE Base'
  BY <1>17 DEF StartScript, Goto
<1>18. ASSUME NEW p \in Procs, NoLogFiles(p) PROVE Base'
  BY <1>18 DEF NoLogFiles, Fail, Goto
<1>19. ASSUME NEW p \in Procs, UnlinkCurrent(p) PROVE Base'
  BY <1>19 DEF UnlinkCurrent, Goto, NamesOther, NoPid, Alive
<1>20. ASSUME NEW p \in Procs, EndCommand(p) PROVE Base'
  BY <1>20 DEF EndCommand, CleanUp, Goto
<1>21. ASSUME NEW p \in Procs, TurnAway(p) PROVE Base'
  BY <1>21 DEF TurnAway, CleanUp, Exit, Goto, FailExitCode
<1>22. ASSUME NEW p \in Procs, ReportResult(p) PROVE Base'
  BY <1>22 DEF ReportResult, Result, Reported, NotReported, Exit, Goto, FailExitCode
<1>23. ASSUME NEW p \in Procs, Tick(p) PROVE Base'
  BY <1>23 DEF Tick, Report, Reported, NotReported
<1>24. ASSUME NEW p \in Procs, EndScript(p) PROVE Base'
  BY <1>24 DEF EndScript, Fail, Goto
<1>25. ASSUME NEW p \in Procs, Die(p) PROVE Base'
  <2> USE <1>25 DEF Die, Goto, Alive
  <2>1. FilesOK' /\ pc' \in [Procs -> Steps] /\ running' \in SUBSET Procs
    OBVIOUS
  <2>2. ProcsOK'
    BY <2>1
  <2>3. mishaps' \in Nat
    BY CommandAssumption
  <2>6. slipped' \in BOOLEAN
    BY Zenon
  <2>4. GhostsOK'
    BY <2>3, <2>6
  <2>5. Places'
    OBVIOUS
  <2> QED
    BY <2>1, <2>2, <2>4, <2>5
<1>26. ASSUME NEW n \in Numbers, Deliver(n) PROVE Base'
  BY <1>26 DEF Deliver
<1>27. ASSUME NEW p \in Procs, NEW o \in {"enable", "disable"}, NEW n \in Numbers,
              Launch(p, o, n)
       PROVE Base'
  BY <1>27 DEF Launch, Goto
<1>28. ASSUME NEW p \in Procs, NEW o \in {"enable", "disable"}, NEW n \in Numbers,
              NoEnvironment(p, o, n)
       PROVE Base'
  BY <1>28 DEF NoEnvironment, Exit, Goto, FailExitCode
<1>29. CASE Reboot
  BY <1>29 DEF Reboot, Alive
<1>30. CASE UNCHANGED vars
  BY <1>30 DEF vars
<1> QED
  BY <1>1, <1>2, <1>3, <1>4, <1>5, <1>6, <1>7, <1>8, <1>9, <1>10, <1>11, <1>12,
     <1>13, <1>14, <1>15, <1>16, <1>17, <1>18, <1>19, <1>20, <1>21, <1>22,
     <1>23, <1>24, <1>25, <1>26, <1>27, <1>28, <1>29, <1>30, <1>31
     DEF Next, Step

-----------------------------------------------------------------------------
(* Sequence numbers. Most steps only take processes forward or end them.    *)
Continues(p) ==
  \/ pc'[p] = pc[p]
  \/ pc'[p] \in {"turned", "exited", "dead"}
  \/ pc[p] \in ToScript /\ pc'[p] \in Committed
  \/ pc[p] \in Committed /\ pc'[p] \in Committed \ ToScript
AllContinue ==
  /\ UNCHANGED <<op, seq, mrseq, runs, raced, outrun>>
  /\ \A p \in Procs : Continues(p) /\ (failed'[p] => Used(p))

(* No process is new among those that have used a number.                   *)
NoneNew ==
  /\ UNCHANGED <<mrseq, runs, raced, outrun>>
  /\ \A p \in Procs :
       /\ Used(p)' => Used(p) /\ seq'[p] = seq[p]
       /\ Past(p)' => Past(p) /\ (pc'[p] \in ToScript => pc[p] \in ToScript)
       /\ Saving(p)' => Saving(p) /\ seq'[p] = seq[p] /\ (pc'[p] = "write" => pc[p] = "write")

LEMMA NumbersAreNat == \A n \in Numbers : n \in Nat
  BY CommandAssumption

LEMMA NoneNewKeeps ==
  ASSUME Numbered, NoneNew
  PROVE  Numbered'
<1> SUFFICES ASSUME ~raced
             PROVE  (OneSaves /\ StoredCovers /\ SavesGreater /\ OneUses /\ NotOutrun)'
  BY DEF Numbered, NoneNew
<1>1. \A n \in Numbers : Taken(n)' => Taken(n)
  BY DEF NoneNew, Taken
<1>2. OneSaves'
  BY DEF NoneNew, Numbered, OneSaves, Saving
<1>3. StoredCovers'
  BY <1>1 DEF NoneNew, Numbered, StoredCovers
<1>4. SavesGreater'
  BY <1>1 DEF NoneNew, Numbered, SavesGreater
<1>5. \A p \in Procs : Past(p) => Used(p)
  BY DEF Used
<1>6. \A p \in Procs : Past(p)' => Used(p)'
  BY DEF Used
<1>7. OneUses'
  BY <1>5, <1>6 DEF NoneNew, Numbered, OneUses
<1>8. NotOutrun'
  BY <1>1, <1>6 DEF NoneNew, Numbered, NotOutrun
<1> QED
  BY <1>2, <1>3, <1>4, <1>7, <1>8

LEMMA ContinueKeeps ==
  ASSUME Base, Numbered, AllContinue
  PROVE  Numbered'
<1>1. ASSUME NEW p \in Procs
      PROVE  /\ Past(p)' => Past(p) /\ (pc'[p] \in ToScript => pc[p] \in ToScript)
             /\ Saving(p)' => Saving(p) /\ (pc'[p] = "write" => pc[p] = "write")
  BY DEF AllContinue, Continues, Past, Saving, Committed, ToScript
<1>2. ASSUME NEW p \in Procs PROVE Used(p)' => Used(p)
  BY <1>1 DEF Used, AllContinue
<1>3. NoneNew
  BY <1>1, <1>2 DEF NoneNew, AllContinue
<1> QED
  BY <1>3, NoneNewKeeps

(* A new process, which saves nothing yet and has used nothing.             *)
Starts(p) ==
  /\ pc[p] = "none"
  /\ UNCHANGED <<mrseq, runs, raced, outrun, failed>>
  /\ \A q \in Procs : q # p => pc'[q] = pc[q] /\ op'[q] = op[q] /\ seq'[q] = seq[q]
  /\ pc'[p] \in {"check", "exited"} \/ (pc'[p] = "previous" /\ op'[p] = "disable")

LEMMA StartKeeps ==
  ASSUME Base, Numbered, NEW p \in Procs, Starts(p)
  PROVE  Numbered'
<1>1. ~failed[p]
  BY DEF Base, Places, Starts
<1>2. ~Used(p)' /\ ~Past(p)' /\ ~Saving(p)'
  BY <1>1 DEF Starts, Used, Past, Saving, Committed, ToScript
<1>3. \A q \in Procs : q # p => /\ Used(q)' = Used(q) /\ seq'[q] = seq[q]
                                /\ Past(q)' = Past(q) /\ Saving(q)' = Saving(q)
                                /\ pc'[q] = pc[q]
  BY DEF Starts, Used, Past, Saving
<1>4. NoneNew
  BY <1>2, <1>3 DEF NoneNew, Starts
<1> QED
  BY <1>4, NoneNewKeeps

(* Check and save.                                                          *)
LEMMA CheckKeeps ==
  ASSUME Base, Numbered, NEW p \in Procs, CheckSeqNum(p)
  PROVE  Numbered'
<1> USE DEF CheckSeqNum, Goto, procVars
<1>1. CASE ~Smaller(p)
  <2>1. AllContinue
    BY <1>1 DEF AllContinue, Continues, Base, TypeOK, ProcsOK, GhostsOK, Used, Past
  <2> QED
    BY <2>1, ContinueKeeps
<1>2. CASE Smaller(p)
  <2> SUFFICES ASSUME ~raced, \A q \in Procs : pc[q] # "save"
               PROVE  (OneSaves /\ StoredCovers /\ SavesGreater /\ OneUses /\ NotOutrun)'
    BY <1>2 DEF Numbered
  <2>1. /\ pc' = [pc EXCEPT ![p] = "save"] /\ pc[p] = "check" /\ mrseq # Torn
        /\ UNCHANGED <<op, seq, failed, mrseq, runs, outrun>>
    BY <1>2
  <2>2. \A q \in Procs : pc[q] # "write"
    BY <2>1 DEF Numbered, OneSaves
  <2>3. \A q \in Procs : Saving(q)' => q = p
    BY <2>1, <2>2 DEF Saving, Base, TypeOK, ProcsOK
  <2>4. \A q \in Procs : /\ Past(q)' => Past(q) /\ pc'[q] = pc[q]
                         /\ Used(q)' => Used(q)
    BY <2>1 DEF Used, Past, Committed, ToScript, Base, TypeOK, ProcsOK
  <2>5. \A n \in Numbers : Taken(n)' => Taken(n)
    BY <2>1, <2>4 DEF Taken
  <2>6. mrseq < seq[p] /\ mrseq \in Int /\ seq[p] \in Int /\ \A n \in Numbers : n \in Int
    <3>1. mrseq \in Numbers \cup {NoSeq, Torn} /\ seq[p] \in Numbers \cup {NoSeq}
      BY DEF Base, TypeOK, FilesOK, ProcsOK
    <3> QED
      BY <3>1, <1>2, NumbersAreNat DEF Smaller, NoSeq, Torn
  <2>7. OneSaves'
    BY <2>1, <2>2, <2>3 DEF OneSaves, Base, TypeOK, ProcsOK
  <2>8. StoredCovers'
    BY <2>1, <2>5 DEF Numbered, StoredCovers
  <2>9. SavesGreater'
    BY <2>1, <2>3, <2>5, <2>6 DEF Numbered, StoredCovers, SavesGreater
  <2>10. OneUses'
    BY <2>1, <2>4 DEF Numbered, OneUses
  <2>11. NotOutrun'
    BY <2>1, <2>4, <2>5 DEF Numbered, NotOutrun
  <2> QED
    BY <2>7, <2>8, <2>9, <2>10, <2>11
<1> QED
  BY <1>1, <1>2

LEMMA TruncateKeeps ==
  ASSUME Base, Numbered, NEW p \in Procs, TruncateSeqNum(p)
  PROVE  Numbered'
<1> SUFFICES ASSUME ~raced
             PROVE  (OneSaves /\ StoredCovers /\ SavesGreater /\ OneUses /\ NotOutrun)'
  BY DEF Numbered, TruncateSeqNum, ghosts
<1>1. /\ pc' = [pc EXCEPT ![p] = "write"] /\ pc[p] = "save" /\ mrseq' = Torn
      /\ UNCHANGED <<op, seq, failed, runs, outrun>>
  BY DEF TruncateSeqNum, Goto, procVars, ghosts
<1>2. \A q \in Procs : /\ Past(q)' => Past(q) /\ pc'[q] = pc[q]
                       /\ Used(q)' => Used(q)
                       /\ Saving(q)' => Saving(q)
  BY <1>1 DEF Used, Past, Saving, Committed, ToScript, Base, TypeOK, ProcsOK
<1>3. \A n \in Numbers : Taken(n)' => Taken(n)
  BY <1>1, <1>2 DEF Taken
<1>4. OneSaves'
  BY <1>1, <1>2 DEF OneSaves, Numbered
<1>5. StoredCovers'
  BY <1>1 DEF StoredCovers
<1>6. SavesGreater'
  BY <1>1, <1>2, <1>3 DEF SavesGreater, Numbered
<1>7. OneUses'
  BY <1>1, <1>2 DEF OneUses, Numbered
<1>8. NotOutrun'
  BY <1>1, <1>2, <1>3 DEF NotOutrun, Numbered
<1> QED
  BY <1>4, <1>5, <1>6, <1>7, <1>8

LEMMA WriteKeeps ==
  ASSUME Base, Numbered, NEW p \in Procs, WriteSeqNum(p)
  PROVE  Numbered'
<1> SUFFICES ASSUME ~raced
             PROVE  (OneSaves /\ StoredCovers /\ SavesGreater /\ OneUses /\ NotOutrun)'
  BY DEF Numbered, WriteSeqNum
<1>1. /\ pc' = [pc EXCEPT ![p] = "report"] /\ pc[p] = "write" /\ mrseq' = seq[p]
      /\ outrun' = outrun \cup {q \in Procs : OnItsWay(q) /\ seq[q] < seq[p]}
      /\ UNCHANGED <<op, seq, failed, runs>>
  BY DEF WriteSeqNum, Goto, procVars
<1>2. seq[p] \in Numbers /\ (\A n \in Numbers : n \in Nat) /\ Saving(p)
  BY <1>1, NumbersAreNat DEF Base, Places, Saving
<1>3. \A n \in Numbers : Taken(n) => n < seq[p]
  BY <1>2 DEF Numbered, SavesGreater
<1>4. \A q \in Procs : q # p => ~Saving(q)
  BY <1>2 DEF Numbered, OneSaves
<1>5. \A q \in Procs : q # p => /\ pc'[q] = pc[q] /\ Past(q)' = Past(q)
                                /\ Used(q)' = Used(q) /\ Saving(q)' = Saving(q)
  BY <1>1 DEF Past, Used, Saving, Base, TypeOK, ProcsOK
<1>6. ~Saving(p)' /\ pc'[p] = "report" /\ ~failed[p]
  BY <1>1 DEF Saving, Base, TypeOK, ProcsOK, Places
<1>7. \A n \in Numbers : Taken(n)' => Taken(n) \/ n = seq[p]
  BY <1>1, <1>5 DEF Taken
<1>8. \A q \in Procs : Used(q) /\ q # p => seq[q] < seq[p]
  <2> TAKE q \in Procs
  <2> HAVE Used(q) /\ q # p
  <2>1. pc[q] # "none"
    BY DEF Used, Past, Base, Places, Committed, ToScript
  <2>2. seq[q] \in Numbers
    BY <2>1 DEF Base, Places
  <2> QED
    BY <2>2, <1>3 DEF Taken
<1>9. OneSaves'
  BY <1>4, <1>5, <1>6 DEF OneSaves, Saving
<1>10. StoredCovers'
  BY <1>1, <1>2, <1>3, <1>7 DEF StoredCovers
<1>11. SavesGreater'
  BY <1>4, <1>5, <1>6 DEF SavesGreater
<1>12. OneUses'
  <2>1. runs[seq[p]] = 0
    BY <1>2, <1>3 DEF Taken
  <2>2. \A q, r \in Procs : q # r /\ Used(q)' /\ Past(r)' => seq'[q] # seq'[r]
    <3> TAKE q, r \in Procs
    <3> HAVE q # r /\ Used(q)' /\ Past(r)'
    <3>1. CASE q = p
      BY <3>1, <1>1, <1>2, <1>5, <1>8 DEF Used
    <3>2. CASE r = p
      BY <3>2, <1>1, <1>2, <1>5, <1>8
    <3>3. CASE q # p /\ r # p
      BY <3>3, <1>1, <1>5 DEF Numbered, OneUses
    <3> QED
      BY <3>1, <3>2, <3>3
  <2> QED
    BY <2>1, <2>2, <1>1, <1>5 DEF Numbered, OneUses
<1>13. NotOutrun'
  <2> SUFFICES ASSUME NEW q \in Procs, Past(q)', pc'[q] \in ToScript, q \notin outrun',
                      NEW n \in Numbers, Taken(n)'
               PROVE  n <= seq'[q]
    BY DEF NotOutrun
  <2>1. CASE q = p
    BY <2>1, <1>1, <1>2, <1>3, <1>7
  <2>2. CASE q # p
    <3>1. Past(q) /\ pc[q] \in ToScript /\ q \notin outrun /\ seq'[q] = seq[q]
      BY <2>2, <1>1, <1>5
    <3>2. OnItsWay(q)
      BY <3>1 DEF OnItsWay, ToScript
    <3>3. seq[q] \in Numbers /\ ~(seq[q] < seq[p])
      BY <3>1, <3>2, <1>1 DEF Base, Places, ToScript
    <3> QED
      BY <3>1, <3>3, <1>2, <1>7 DEF Numbered, NotOutrun
  <2> QED
    BY <2>1, <2>2
<1> QED
  BY <1>9, <1>10, <1>11, <1>12, <1>13

LEMMA StartScriptKeeps ==
  ASSUME Base, Numbered, NEW p \in Procs, StartScript(p)
  PROVE  Numbered'
<1> SUFFICES ASSUME ~raced
             PROVE  (OneSaves /\ StoredCovers /\ SavesGreater /\ OneUses /\ NotOutrun)'
  BY DEF Numbered, StartScript
<1>1. /\ pc' = [pc EXCEPT ![p] = "run"] /\ pc[p] = "exec"
      /\ runs' = [runs EXCEPT ![seq[p]] = IF runs[seq[p]] = 0 THEN 1 ELSE 2]
      /\ UNCHANGED <<op, seq, failed, mrseq, outrun>>
  BY DEF StartScript, Goto, procVars
<1>2. seq[p] \in Numbers /\ op[p] = "enable" /\ runs \in [Numbers -> 0..2]
  BY <1>1 DEF Base, Places, TypeOK, GhostsOK, EnableSteps, Committed, ToScript
<1>3. Past(p) /\ Used(p) /\ pc[p] \in ToScript
  BY <1>1, <1>2 DEF Past, Used, Committed, ToScript
<1>4. \A q \in Procs : /\ Used(q)' => Used(q)
                       /\ Past(q)' => Past(q)
                       /\ pc'[q] \in ToScript => q # p /\ pc'[q] = pc[q]
                       /\ Saving(q)' => Saving(q) /\ pc'[q] = pc[q]
  BY <1>1, <1>2 DEF Used, Past, Saving, Committed, ToScript, Base, TypeOK, ProcsOK
<1>5. \A n \in Numbers : Taken(n)' => Taken(n)
  BY <1>1, <1>2, <1>3, <1>4 DEF Taken
<1>6. runs[seq[p]] = 0
  BY <1>3 DEF Numbered, OneUses
<1>7. \A n \in Numbers : n # seq[p] => runs'[n] = runs[n]
  BY <1>1, <1>2
<1>8. runs'[seq[p]] = 1
  BY <1>1, <1>2, <1>6
<1>9. OneSaves'
  BY <1>1, <1>4 DEF Numbered, OneSaves
<1>10. StoredCovers'
  BY <1>1, <1>5 DEF Numbered, StoredCovers
<1>11. SavesGreater'
  BY <1>1, <1>4, <1>5 DEF Numbered, SavesGreater
<1>12. OneUses'
  <2>1. \A q \in Procs : Past(q)' /\ pc'[q] \in ToScript => runs'[seq[q]] = 0
    <3> TAKE q \in Procs
    <3> HAVE Past(q)' /\ pc'[q] \in ToScript
    <3>1. Past(q) /\ q # p /\ pc[q] \in ToScript /\ pc[q] # "none"
      BY <1>4 DEF ToScript
    <3>2. seq[q] # seq[p] /\ runs[seq[q]] = 0 /\ seq[q] \in Numbers
      BY <3>1, <1>3 DEF Numbered, OneUses, Base, Places
    <3> QED
      BY <3>2, <1>7
  <2>2. \A n \in Numbers : runs'[n] # 2
    BY <1>7, <1>8 DEF Numbered, OneUses
  <2> QED
    BY <2>1, <2>2, <1>1, <1>4 DEF Numbered, OneUses
<1>13. NotOutrun'
  BY <1>1, <1>4, <1>5 DEF Numbered, NotOutrun
<1> QED
  BY <1>9, <1>10, <1>11, <1>12, <1>13

(* The numbers are kept by every step.                                      *)
LEMMA NumberedNext ==
  ASSUME Base, Numbered, [Next]_vars
  PROVE  Numbered'
<1> USE DEF AllContinue, Continues, Used, Past, Starts, Committed, ToScript,
            Base, TypeOK, FilesOK, ProcsOK, GhostsOK, files, procVars, ghosts
<1>1. ASSUME NEW p \in Procs, CheckSeqNum(p) PROVE Numbered'
  BY <1>1, CheckKeeps
<1>2. ASSUME NEW p \in Procs, SeqNumUnreadable(p) PROVE AllContinue
  BY <1>2 DEF SeqNumUnreadable, Exit, Goto, FailExitCode
<1>3. ASSUME NEW p \in Procs, TruncateSeqNum(p) PROVE Numbered'
  BY <1>3, TruncateKeeps
<1>4. ASSUME NEW p \in Procs, WriteSeqNum(p) PROVE Numbered'
  BY <1>4, WriteKeeps
<1>5. ASSUME NEW p \in Procs, WriteFails(p) PROVE AllContinue
  BY <1>5 DEF WriteFails, Exit, Goto, FailExitCode
<1>6. ASSUME NEW p \in Procs, ReportTransitioning(p) PROVE AllContinue
  BY <1>6 DEF ReportTransitioning, Goto, Fail, Places, EnableSteps
<1>7. ASSUME NEW p \in Procs, Prepare(p) PROVE AllContinue
  BY <1>7 DEF Prepare, Goto
<1>8. ASSUME NEW p \in Procs, PrepareFails(p) PROVE AllContinue
  BY <1>8 DEF PrepareFails, Fail, Goto, Places, EnableSteps
<1>9. ASSUME NEW p \in Procs, InstallAsService(p) PROVE AllContinue
  BY <1>9 DEF InstallAsService, Goto
<1>10. ASSUME NEW p \in Procs, SaveScript(p) PROVE AllContinue
  BY <1>10 DEF SaveScript, Goto, Places, EnableSteps
<1>31. ASSUME NEW p \in Procs, SaveScriptFails(p) PROVE AllContinue
  BY <1>31 DEF SaveScriptFails, Fail, Goto, Places, EnableSteps
<1>11. ASSUME NEW p \in Procs, NoPrevious(p) PROVE AllContinue
  BY <1>11 DEF NoPrevious, AfterKill, Exit, Goto, FailExitCode
<1>12. ASSUME NEW p \in Procs, FindPrevious(p) PROVE AllContinue
  BY <1>12 DEF FindPrevious, Goto
<1>13. ASSUME NEW p \in Procs, KillGroup(p) PROVE AllContinue
  BY <1>13 DEF KillGroup, Alive
<1>14. ASSUME NEW p \in Procs, KillMisses(p) PROVE AllContinue
  BY <1>14 DEF KillMisses, Goto, Alive
<1>15. ASSUME NEW p \in Procs, UnlinkPrevious(p) PROVE AllContinue
  BY <1>15 DEF UnlinkPrevious, AfterKill, NamesOther, Exit, Goto, NoPid, Alive
<1>16. ASSUME NEW p \in Procs, SavePid(p) PROVE AllContinue
  BY <1>16 DEF SavePid, Goto, NamesOther, NoPid, Alive
<1>17. ASSUME NEW p \in Procs, StartScript(p) PROVE Numbered'
  BY <1>17, StartScriptKeeps
<1>18. ASSUME NEW p \in Procs, NoLogFiles(p) PROVE AllContinue
  BY <1>18 DEF NoLogFiles, Fail, Goto, Places, EnableSteps
<1>19. ASSUME NEW p \in Procs, UnlinkCurrent(p) PROVE AllContinue
  BY <1>19 DEF UnlinkCurrent, Goto, NamesOther, NoPid, Alive
<1>20. ASSUME NEW p \in Procs, EndCommand(p) PROVE AllContinue
  BY <1>20 DEF EndCommand, CleanUp, Goto
<1>21. ASSUME NEW p \in Procs, TurnAway(p) PROVE AllContinue
  BY <1>21 DEF TurnAway, CleanUp, Exit, Goto, FailExitCode
<1>22. ASSUME NEW p \in Procs, ReportResult(p) PROVE AllContinue
  BY <1>22 DEF ReportResult, Exit, Goto, FailExitCode
<1>23. ASSUME NEW p \in Procs, Tick(p) PROVE AllContinue
  BY <1>23 DEF Tick
<1>24. ASSUME NEW p \in Procs, EndScript(p) PROVE AllContinue
  BY <1>24 DEF EndScript, Fail, Goto, Places, EnableSteps
<1>25. ASSUME NEW p \in Procs, Die(p) PROVE AllContinue
  BY <1>25 DEF Die, Goto, Alive
<1>26. ASSUME NEW n \in Numbers, Deliver(n) PROVE AllContinue
  BY <1>26 DEF Deliver
<1>27. ASSUME NEW p \in Procs, NEW o \in {"enable", "disable"}, NEW n \in Numbers,
              Launch(p, o, n)
       PROVE  Starts(p)
  BY <1>27 DEF Launch, Goto
<1>28. ASSUME NEW p \in Procs, NEW o \in {"enable", "disable"}, NEW n \in Numbers,
              NoEnvironment(p, o, n)
       PROVE  Starts(p)
  BY <1>28 DEF NoEnvironment, Exit, Goto
<1>29. CASE Reboot
  <2>1. AllContinue
    BY <1>29 DEF Reboot, Alive
  <2> QED
    BY <2>1, ContinueKeeps
<1>30. CASE UNCHANGED vars
  <2>1. AllContinue
    BY <1>30 DEF vars
  <2> QED
    BY <2>1, ContinueKeeps
<1> QED
  BY <1>1, <1>2, <1>3, <1>4, <1>5, <1>6, <1>7, <1>8, <1>9, <1>10, <1>11, <1>12,
     <1>13, <1>14, <1>15, <1>16, <1>17, <1>18, <1>19, <1>20, <1>21, <1>22,
     <1>23, <1>24, <1>25, <1>26, <1>27, <1>28, <1>29, <1>30, <1>31, ContinueKeeps,
     StartKeeps
     DEF Next, Step

-----------------------------------------------------------------------------
(* The pid file. Most steps leave it and the scripts alone, and nobody      *)
(* comes to its script or leaves it.                                        *)
SamePids ==
  /\ UNCHANGED <<pidFile, running>>
  /\ slipped => slipped'
  /\ \A p \in Procs :
       \/ pc'[p] = pc[p]
       \/ /\ pc[p] # "run" /\ pc'[p] \notin {"exec", "run"}
          /\ pc[p] \in Late => pc'[p] \in Late

LEMMA SamePidsKeeps ==
  ASSUME Base, Pids, SamePids
  PROVE  Pids'
<1>1. PidLate'
  BY DEF Pids, PidLate, SamePids, Base, TypeOK, FilesOK
<1>2. Reachable'
  BY DEF Pids, Reachable, SamePids, Base, TypeOK, ProcsOK
<1> QED
  BY <1>1, <1>2 DEF Pids

(* A kill takes its victim out of the scripts and of the processes.         *)
LEMMA KillPids ==
  ASSUME Base, Pids, NEW p \in Procs, KillGroup(p)
  PROVE  Pids'
<1> DEFINE v == Victim(p)
<1>1. /\ pc[p] = "kill" /\ UNCHANGED <<pidFile, slipped>>
      /\ running' = running \ {v}
      /\ pc' = [q \in Procs |-> IF q = v /\ Alive(v) THEN "dead"
                                ELSE IF q = p THEN "unlink" ELSE pc[q]]
  BY DEF KillGroup, ghosts
<1>2. pidFile # NoPid => v = pidFile /\ pidFile \in Procs
  BY DEF Victim, Base, TypeOK, FilesOK
<1> HIDE DEF v
<1>3. PidLate'
  BY <1>1, <1>2 DEF Pids, PidLate, Late
<1>4. Reachable'
  BY <1>1 DEF Pids, Reachable, Alive, Base, TypeOK, ProcsOK
<1> QED
  BY <1>3, <1>4 DEF Pids

(* A process that starts or runs its script is named by the file: if the    *)
(* file is deleted or overwritten by another one, it slips.                 *)
LEMMA UnlinkPids ==
  ASSUME Base, Pids, NEW p \in Procs, UnlinkPrevious(p) \/ UnlinkCurrent(p)
  PROVE  Pids'
<1>1. /\ pc[p] \in {"unlink", "unpid"} /\ pidFile' = NoPid
      /\ slipped' = (slipped \/ NamesOther(p)) /\ running' = running
      /\ pc'[p] \in {"pid", "exited", "cleanup"}
      /\ \A q \in Procs : q # p => pc'[q] = pc[q]
  BY DEF UnlinkPrevious, UnlinkCurrent, AfterKill, Goto, Exit, Base, TypeOK, ProcsOK
<1>2. PidLate'
  BY <1>1 DEF PidLate
<1>3. ASSUME ~slipped'
      PROVE  \A q \in Procs : pc[q] \notin {"exec", "run"}
  <2> SUFFICES ASSUME NEW q \in Procs, pc[q] \in {"exec", "run"} PROVE FALSE
    OBVIOUS
  <2>1. pidFile = q /\ q # p
    BY <1>1, <1>3 DEF Pids, Reachable
  <2>2. q # NoPid /\ Alive(q)
    BY DEF Procs, NoPid, Alive
  <2> QED
    BY <1>1, <1>3, <2>1, <2>2 DEF NamesOther
<1>4. Reachable'
  BY <1>1, <1>3 DEF Pids, Reachable, Base, TypeOK, ProcsOK
<1> QED
  BY <1>2, <1>4 DEF Pids

LEMMA SavePidPids ==
  ASSUME Base, Pids, NEW p \in Procs, SavePid(p)
  PROVE  Pids'
<1>1. /\ pc[p] = "pid" /\ running' = running /\ pc' = [pc EXCEPT ![p] = "exec"]
      /\ \/ pidFile' = p /\ slipped' = (slipped \/ NamesOther(p))
         \/ pidFile' = pidFile /\ slipped' = TRUE
  BY DEF SavePid, Goto
<1>2. PidLate'
  BY <1>1 DEF Pids, PidLate, Late, Base, TypeOK, FilesOK, ProcsOK
<1>3. CASE slipped'
  BY <1>2, <1>3 DEF Pids, Reachable
<1>4. CASE ~slipped'
  <2>1. pidFile' = p /\ ~slipped /\ ~NamesOther(p)
    BY <1>1, <1>4
  <2>2. \A q \in Procs : pc[q] \notin {"exec", "run"}
    <3> SUFFICES ASSUME NEW q \in Procs, pc[q] \in {"exec", "run"} PROVE FALSE
      OBVIOUS
    <3>1. pidFile = q /\ q # p
      BY <1>1, <2>1 DEF Pids, Reachable
    <3>2. q # NoPid /\ Alive(q)
      BY DEF Procs, NoPid, Alive
    <3> QED
      BY <2>1, <3>1, <3>2 DEF NamesOther
  <2>3. Reachable'
    BY <1>1, <2>1, <2>2 DEF Pids, Reachable, Base, TypeOK, ProcsOK
  <2> QED
    BY <1>2, <2>3 DEF Pids
<1> QED
  BY <1>3, <1>4

(* The start of a script, its end, and the ways to die.                     *)
LEMMA ScriptPids ==
  ASSUME Base, Pids,
         Reboot \/ \E p \in Procs : StartScript(p) \/ EndScript(p) \/ Die(p)
  PROVE  Pids'
<1> USE DEF Pids, PidLate, Reachable, Late, Alive, Base, TypeOK, FilesOK, ProcsOK
<1>1. ASSUME NEW p \in Procs, StartScript(p) PROVE Pids'
  BY <1>1 DEF StartScript, Goto
<1>2. ASSUME NEW p \in Procs, EndScript(p) PROVE Pids'
  BY <1>2 DEF EndScript, Goto, Fail, ghosts
<1>3. ASSUME NEW p \in Procs, Die(p) PROVE Pids'
  BY <1>3 DEF Die, Goto
<1>4. CASE Reboot
  BY <1>4 DEF Reboot, ghosts
<1> QED
  BY <1>1, <1>2, <1>3, <1>4

(* The pid file names whoever starts or runs a script, after every step.    *)
LEMMA PidsNext ==
  ASSUME Base, Pids, [Next]_vars
  PROVE  Pids'
<1> USE DEF SamePids, Late, Base, TypeOK, FilesOK, ProcsOK, files, procVars, ghosts
<1>1. ASSUME NEW p \in Procs, CheckSeqNum(p) PROVE SamePids
  BY <1>1 DEF CheckSeqNum, Goto, Smaller
<1>2. ASSUME NEW p \in Procs, SeqNumUnreadable(p) PROVE SamePids
  BY <1>2 DEF SeqNumUnreadable, Exit, Goto, FailExitCode
<1>3. ASSUME NEW p \in Procs, TruncateSeqNum(p) PROVE SamePids
  BY <1>3 DEF TruncateSeqNum, Goto, Torn
<1>4. ASSUME NEW p \in Procs, WriteSeqNum(p) PROVE SamePids
  BY <1>4 DEF WriteSeqNum, Goto, OnItsWay
<1>5. ASSUME NEW p \in Procs, WriteFails(p) PROVE SamePids
  BY <1>5 DEF WriteFails, Exit, Goto, FailExitCode
<1>6. ASSUME NEW p \in Procs, ReportTransitioning(p) PROVE SamePids
  BY <1>6 DEF ReportTransitioning, Goto, Fail
<1>7. ASSUME NEW p \in Procs, Prepare(p) PROVE SamePids
  BY <1>7 DEF Prepare, Goto
<1>8. ASSUME NEW p \in Procs, PrepareFails(p) PROVE SamePids
  BY <1>8 DEF PrepareFails, Fail, Goto
<1>9. ASSUME NEW p \in Procs, InstallAsService(p) PROVE SamePids
  BY <1>9 DEF InstallAsService, Goto
<1>10. ASSUME NEW p \in Procs, SaveScript(p) PROVE SamePids
  BY <1>10 DEF SaveScript, Goto
<1>31. ASSUME NEW p \in Procs, SaveScriptFails(p) PROVE SamePids
  BY <1>31 DEF SaveScriptFails, Fail, Goto
<1>11. ASSUME NEW p \in Procs, NoPrevious(p) PROVE SamePids
  BY <1>11 DEF NoPrevious, AfterKill, Exit, Goto, FailExitCode
<1>12. ASSUME NEW p \in Procs, FindPrevious(p) PROVE SamePids
  BY <1>12 DEF FindPrevious, Goto
<1>13. ASSUME NEW p \in Procs, KillGroup(p) PROVE Pids'
  BY <1>13, KillPids
<1>14. ASSUME NEW p \in Procs, KillMisses(p) PROVE SamePids
  BY <1>14 DEF KillMisses, Goto, Alive
<1>15. ASSUME NEW p \in Procs, UnlinkPrevious(p) PROVE Pids'
  BY <1>15, UnlinkPids
<1>16. ASSUME NEW p \in Procs, SavePid(p) PROVE Pids'
  BY <1>16, SavePidPids
<1>17. ASSUME NEW p \in Procs, StartScript(p) PROVE Pids'
  BY <1>17, ScriptPids
<1>18. ASSUME NEW p \in Procs, NoLogFiles(p) PROVE SamePids
  BY <1>18 DEF NoLogFiles, Fail, Goto
<1>19. ASSUME NEW p \in Procs, UnlinkCurrent(p) PROVE Pids'
  BY <1>19, UnlinkPids
<1>20. ASSUME NEW p \in Procs, EndCommand(p) PROVE SamePids
  BY <1>20 DEF EndCommand, CleanUp, Goto
<1>21. ASSUME NEW p \in Procs, TurnAway(p) PROVE SamePids
  BY <1>21 DEF TurnAway, CleanUp, Exit, Goto, FailExitCode
<1>22. ASSUME NEW p \in Procs, ReportResult(p) PROVE SamePids
  BY <1>22 DEF ReportResult, Exit, Goto, FailExitCode
<1>23. ASSUME NEW p \in Procs, Tick(p) PROVE SamePids
  BY <1>23 DEF Tick
<1>24. ASSUME NEW p \in Procs, EndScript(p) PROVE Pids'
  BY <1>24, ScriptPids
<1>25. ASSUME NEW p \in Procs, Die(p) PROVE Pids'
  BY <1>25, ScriptPids
<1>26. ASSUME NEW n \in Numbers, Deliver(n) PROVE SamePids
  BY <1>26 DEF Deliver
<1>27. ASSUME NEW p \in Procs, NEW o \in {"enable", "disable"}, NEW n \in Numbers,
              Launch(p, o, n)
       PROVE  SamePids
  BY <1>27 DEF Launch, Goto
<1>28. ASSUME NEW p \in Procs, NEW o \in {"enable", "disable"}, NEW n \in Numbers,
              NoEnvironment(p, o, n)
       PROVE  SamePids
  BY <1>28 DEF NoEnvironment, Exit, Goto
<1>29. CASE Reboot
  BY <1>29, ScriptPids
<1>30. CASE UNCHANGED vars
  <2>1. SamePids
    BY <1>30 DEF vars
  <2> QED
    BY <2>1, SamePidsKeeps
<1> QED
  BY <1>1, <1>2, <1>3, <1>4, <1>5, <1>6, <1>7, <1>8, <1>9, <1>10, <1>11, <1>12,
     <1>13, <1>14, <1>15, <1>16, <1>17, <1>18, <1>19, <1>20, <1>21, <1>22,
     <1>23, <1>24, <1>25, <1>26, <1>27, <1>28, <1>29, <1>30, <1>31, SamePidsKeeps DEF
     Next, Step

-----------------------------------------------------------------------------
(* Reports. Most steps report nothing, and keep the owners of the numbers.  *)
SameOwners == \A p \in Procs : Owner(p) => Owner(p)' /\ seq'[p] = seq[p]
SameEnded(p) ==
  pc'[p] = "exited" /\ failed'[p] =>
    pc[p] = "exited" /\ failed[p] /\ seq'[p] = seq[p] /\ exitCode'[p] = exitCode[p]
SameReports ==
  /\ UNCHANGED <<status, unreported>>
  /\ mrseq' = mrseq \/ mrseq' = Torn
  /\ raced => raced'
  /\ SameOwners /\ \A p \in Procs : SameEnded(p)

LEMMA SameReportsKeep ==
  ASSUME Owned, FailureSeen, SameReports
  PROVE  Owned' /\ FailureSeen'
<1>1. Torn \notin Numbers
  BY NumbersAreNat DEF Torn
<1>2. Owned'
  BY <1>1 DEF Owned, SameReports, SameOwners
<1>3. FailureSeen'
  BY DEF FailureSeen, SameReports, SameEnded
<1> QED
  BY <1>2, <1>3

LEMMA WriteReports ==
  ASSUME Base, Owned, FailureSeen, NEW p \in Procs, WriteSeqNum(p)
  PROVE  Owned' /\ FailureSeen'
<1>1. /\ pc[p] = "write" /\ pc' = [pc EXCEPT ![p] = "report"] /\ mrseq' = seq[p]
      /\ UNCHANGED <<status, op, seq, failed, exitCode, raced, unreported>>
  BY DEF WriteSeqNum, Goto, procVars
<1>2. \A q \in Procs : Owner(q) => Owner(q)'
  BY <1>1 DEF Owner, Past, Committed, ToScript, Base, TypeOK, ProcsOK
<1>3. Owner(p)'
  BY <1>1 DEF Owner, Past, Committed, ToScript, Base, TypeOK, ProcsOK, Places, EnableSteps
<1>4. Owned'
  BY <1>1, <1>2, <1>3 DEF Owned
<1>5. FailureSeen'
  BY <1>1 DEF FailureSeen, Base, TypeOK, ProcsOK
<1> QED
  BY <1>4, <1>5

(* A report on the way, by a process that goes on: it is of a number that   *)
(* no process has failed with.                                              *)
Reports(p) ==
  /\ Past(p) /\ Past(p)'
  /\ UNCHANGED status \/ \E s : status' = [status EXCEPT ![seq[p]] = s]
  /\ \A q \in Procs : q # p => pc'[q] = pc[q]
  /\ failed' = failed \/ failed' = [failed EXCEPT ![p] = TRUE]
  /\ UNCHANGED <<op, seq, mrseq, exitCode, raced, unreported>>

LEMMA PastIsNotEnded ==
  ASSUME NEW p \in Procs, Past(p)
  PROVE  pc[p] \notin {"none", "exited", "dead"}
BY DEF Past, Committed, ToScript

LEMMA ReportsKeep ==
  ASSUME Base, Numbered, Owned, FailureSeen, NEW p \in Procs, Reports(p)
  PROVE  Owned' /\ FailureSeen'
<1>1. seq[p] \in Numbers /\ pc[p] \notin {"exited", "dead"} /\ pc'[p] # "exited"
  BY PastIsNotEnded DEF Reports, Base, Places, Past, Committed, ToScript
<1>2. \A n \in Numbers : n # seq[p] => status'[n] = status[n]
  BY <1>1 DEF Reports, Base, TypeOK, FilesOK
<1>3. \A q \in Procs : Owner(q) => Owner(q)'
  BY <1>1 DEF Reports, Owner, Past
<1>4. Owner(p)'
  BY DEF Reports, Owner
<1>5. Owned'
  BY <1>1, <1>2, <1>3, <1>4 DEF Owned, Reports
<1>6. ASSUME NEW q \in Procs, pc'[q] = "exited", failed'[q], seq'[q] \in Treated, ~raced,
             q \notin unreported
      PROVE  status'[seq'[q]] = "error" \/ exitCode'[q] = FailExitCode
  <2>1. q # p /\ pc[q] = "exited" /\ seq'[q] = seq[q] /\ exitCode'[q] = exitCode[q]
    BY <1>1, <1>6 DEF Reports
  <2>2. failed[q]
    BY <1>6, <2>1 DEF Reports, Base, TypeOK, ProcsOK
  <2>3. seq[q] # seq[p]
    BY <1>6, <2>1, <2>2 DEF Reports, Numbered, OneUses, Used
  <2>4. seq[q] \in Numbers
    BY <2>1 DEF Base, Places
  <2> QED
    BY <1>2, <1>6, <2>1, <2>2, <2>3, <2>4 DEF FailureSeen
<1>7. FailureSeen'
  BY <1>6 DEF FailureSeen, Reports
<1> QED
  BY <1>5, <1>7

(* The last report: it is written, or the process has joined those whose    *)
(* report was not.                                                          *)
LEMMA ResultReported ==
  ASSUME Base, Numbered, Owned, FailureSeen, NEW p \in Procs, ReportResult(p)
  PROVE  Owned' /\ FailureSeen'
<1> DEFINE s == IF failed[p] /\ Readable(seq[p]) /\ seq[p] \in Treated
                  THEN "error" ELSE "success"
<1>1. /\ pc[p] = "final" /\ pc' = [pc EXCEPT ![p] = "exited"]
      /\ \/ status' = [status EXCEPT ![seq[p]] = s] /\ unreported' = unreported
         \/ status' = status /\ unreported' = unreported \cup {p}
      /\ exitCode' = [exitCode EXCEPT ![p] =
                        IF failed[p] /\ ~Readable(seq[p]) THEN FailExitCode ELSE 0]
      /\ UNCHANGED <<op, seq, failed, mrseq, raced>>
  BY DEF ReportResult, Result, Reported, NotReported, Exit, Goto
<1>2. seq[p] \in Numbers /\ Past(p)
  BY <1>1 DEF Base, Places, EnableSteps, Past, Committed
<1>3. /\ \/ status'[seq[p]] = s /\ s \in {"success", "error"}
         \/ status'[seq[p]] = status[seq[p]] /\ p \in unreported'
      /\ \A n \in Numbers : n # seq[p] => status'[n] = status[n]
      /\ unreported \subseteq unreported'
  BY <1>1, <1>2 DEF Base, TypeOK, FilesOK
<1>4. \A q \in Procs : q # p => (Owner(q) => Owner(q)')
  BY <1>1, <1>3 DEF Owner, Past, Base, TypeOK, ProcsOK
<1>5. Owned'
  <2> SUFFICES ASSUME NEW n \in Numbers, (mrseq = n \/ status[n] = "transitioning")'
               PROVE  \/ status'[n] \in {"success", "error"}
                      \/ \E q \in Procs : seq'[q] = n /\ Owner(q)'
    BY DEF Owned
  <2>1. CASE n = seq[p]
    BY <1>1, <1>3, <2>1 DEF Owner
  <2>2. CASE n # seq[p]
    BY <1>1, <1>3, <1>4, <2>2 DEF Owned
  <2> QED
    BY <2>1, <2>2
<1>6. ASSUME NEW q \in Procs, q # p, pc'[q] = "exited", failed'[q],
             seq'[q] \in Treated, ~raced, q \notin unreported'
      PROVE  status'[seq'[q]] = "error" \/ exitCode'[q] = FailExitCode
  <2>1. /\ pc[q] = "exited" /\ seq'[q] = seq[q] /\ exitCode'[q] = exitCode[q] /\ failed[q]
        /\ q \notin unreported
    BY <1>1, <1>3, <1>6 DEF Base, TypeOK, ProcsOK
  <2>2. seq[q] # seq[p]
    BY <1>2, <1>6, <2>1 DEF Numbered, OneUses, Used
  <2>3. seq[q] \in Numbers
    BY <2>1 DEF Base, Places
  <2> QED
    BY <1>3, <1>6, <2>1, <2>2, <2>3 DEF FailureSeen
<1>7. ASSUME failed'[p], seq'[p] \in Treated, p \notin unreported'
      PROVE  status'[seq'[p]] = "error" \/ exitCode'[p] = FailExitCode
  <2>1. CASE Readable(seq[p])
    BY <2>1, <1>1, <1>3, <1>7
  <2>2. CASE ~Readable(seq[p])
    BY <2>2, <1>1, <1>7 DEF Base, TypeOK, ProcsOK
  <2> QED
    BY <2>1, <2>2
<1>8. FailureSeen'
  BY <1>1, <1>6, <1>7 DEF FailureSeen
<1> QED
  BY <1>5, <1>8

(* The owners and the traces of failures are kept by every step.            *)
LEMMA ReportsNext ==
  ASSUME Base, Numbered, Owned, FailureSeen, [Next]_vars
  PROVE  Owned' /\ FailureSeen'
<1> USE DEF Reports, SameReports, SameOwners, SameEnded, Owner, Past, Committed, ToScript,
            Base, TypeOK, FilesOK, ProcsOK, GhostsOK, Places, EnableSteps,
            files, procVars, ghosts
<1>1. ASSUME NEW p \in Procs, CheckSeqNum(p) PROVE SameReports
  BY <1>1 DEF CheckSeqNum, Goto, Smaller
<1>2. ASSUME NEW p \in Procs, SeqNumUnreadable(p) PROVE SameReports
  BY <1>2 DEF SeqNumUnreadable, Exit, Goto, FailExitCode
<1>3. ASSUME NEW p \in Procs, TruncateSeqNum(p) PROVE SameReports
  BY <1>3 DEF TruncateSeqNum, Goto, Torn
<1>4. ASSUME NEW p \in Procs, WriteSeqNum(p) PROVE Owned' /\ FailureSeen'
  BY <1>4, WriteReports
<1>5. ASSUME NEW p \in Procs, WriteFails(p) PROVE SameReports
  BY <1>5 DEF WriteFails, Exit, Goto, FailExitCode
<1>6. ASSUME NEW p \in Procs, ReportTransitioning(p) PROVE Reports(p)
  BY <1>6 DEF ReportTransitioning, Report, Reported, NotReported, Goto, Fail
<1>7. ASSUME NEW p \in Procs, Prepare(p) PROVE Reports(p) \/ SameReports
  <2> USE <1>7 DEF Prepare, Report, Reported, NotReported, Goto
  <2>1. CASE seq[p] \in Async
    BY <2>1
  <2>2. CASE seq[p] \notin Async
    BY <2>2
  <2> QED
    BY <2>1, <2>2
<1>8. ASSUME NEW p \in Procs, PrepareFails(p) PROVE SameReports
  BY <1>8 DEF PrepareFails, Fail, Goto
<1>9. ASSUME NEW p \in Procs, InstallAsService(p) PROVE SameReports
  BY <1>9 DEF InstallAsService, Goto
<1>10. ASSUME NEW p \in Procs, SaveScript(p) PROVE SameReports
  BY <1>10 DEF SaveScript, Goto
<1>31. ASSUME NEW p \in Procs, SaveScriptFails(p) PROVE SameReports
  BY <1>31 DEF SaveScriptFails, Fail, Goto
<1>11. ASSUME NEW p \in Procs, NoPrevious(p) PROVE SameReports
  BY <1>11 DEF NoPrevious, AfterKill, Exit, Goto, FailExitCode
<1>12. ASSUME NEW p \in Procs, FindPrevious(p) PROVE SameReports
  BY <1>12 DEF FindPrevious, Goto
<1>13. ASSUME NEW p \in Procs, KillGroup(p) PROVE SameReports
  BY <1>13 DEF KillGroup, Alive
<1>14. ASSUME NEW p \in Procs, KillMisses(p) PROVE SameReports
  BY <1>14 DEF KillMisses, Goto, Alive
<1>15. ASSUME NEW p \in Procs, UnlinkPrevious(p) PROVE SameReports
  BY <1>15 DEF UnlinkPrevious, AfterKill, NamesOther, Exit, Goto, NoPid, Alive
<1>16. ASSUME NEW p \in Procs, SavePid(p) PROVE SameReports
  BY <1>16 DEF SavePid, Goto, NamesOther, NoPid, Alive
<1>17. ASSUME NEW p \in Procs, StartScript(p) PROVE SameReports
  BY <1>17 DEF StartScript, Goto
<1>18. ASSUME NEW p \in Procs, NoLogFiles(p) PROVE SameReports
  BY <1>18 DEF NoLogFiles, Fail, Goto
<1>19. ASSUME NEW p \in Procs, UnlinkCurrent(p) PROVE SameReports
  BY <1>19 DEF UnlinkCurrent, Goto, NamesOther, NoPid, Alive
<1>20. ASSUME NEW p \in Procs, EndCommand(p) PROVE SameReports
  BY <1>20 DEF EndCommand, CleanUp, Goto
<1>21. ASSUME NEW p \in Procs, TurnAway(p) PROVE SameReports
  BY <1>21 DEF TurnAway, CleanUp, Exit, Goto, FailExitCode
<1>22. ASSUME NEW p \in Procs, ReportResult(p) PROVE Owned' /\ FailureSeen'
  BY <1>22, ResultReported
<1>23. ASSUME NEW p \in Procs, Tick(p) PROVE Reports(p)
  BY <1>23 DEF Tick, Report, Reported, NotReported
<1>24. ASSUME NEW p \in Procs, EndScript(p) PROVE SameReports
  BY <1>24 DEF EndScript, Fail, Goto
<1>25. ASSUME NEW p \in Procs, Die(p) PROVE SameReports
  BY <1>25 DEF Die, Goto, Alive
<1>26. ASSUME NEW n \in Numbers, Deliver(n) PROVE SameReports
  BY <1>26 DEF Deliver
<1>27. ASSUME NEW p \in Procs, NEW o \in {"enable", "disable"}, NEW n \in Numbers,
              Launch(p, o, n)
       PROVE  SameReports
  BY <1>27 DEF Launch, Goto
<1>28. ASSUME NEW p \in Procs, NEW o \in {"enable", "disable"}, NEW n \in Numbers,
              NoEnvironment(p, o, n)
       PROVE  SameReports
  BY <1>28 DEF NoEnvironment, Exit, Goto
<1>29. CASE Reboot
  <2>1. SameReports
    BY <1>29 DEF Reboot, Alive
  <2> QED
    BY <2>1, SameReportsKeep
<1>30. CASE UNCHANGED vars
  <2>1. SameReports
    BY <1>30 DEF vars
  <2> QED
    BY <2>1, SameReportsKeep
<1> HIDE DEF Reports, SameReports
<1> QED
  BY <1>1, <1>2, <1>3, <1>4, <1>5, <1>6, <1>7, <1>8, <1>9, <1>10, <1>11, <1>12,
     <1>13, <1>14, <1>15, <1>16, <1>17, <1>18, <1>19, <1>20, <1>21, <1>22,
     <1>23, <1>24, <1>25, <1>26, <1>27, <1>28, <1>29, <1>30, <1>31, SameReportsKeep,
     ReportsKeep
     DEF Next, Step

-----------------------------------------------------------------------------
(* The invariant holds at the beginning and is kept.                        *)
LEMMA InitHolds == Init => IInv
<1> SUFFICES ASSUME Init PROVE IInv
  OBVIOUS
<1>1. TypeOK
  <2>1. FilesOK
    BY DEF Init, FilesOK
  <2>2. ProcsOK
    BY DEF Init, ProcsOK, Steps
  <2>3. mishaps \in Nat /\ runs \in [Numbers -> 0..2]
    BY DEF Init
  <2>4. /\ raced \in BOOLEAN /\ outrun \in SUBSET Procs /\ slipped \in BOOLEAN
        /\ unreported \in SUBSET Procs
    BY DEF Init
  <2> QED
    BY <2>1, <2>2, <2>3, <2>4 DEF TypeOK, GhostsOK
<1>2. Places
  BY DEF Init, Places, EnableSteps, Committed, ToScript
<1>3. \A n \in Numbers : ~Taken(n)
  BY DEF Init, Taken, Used, Past, Committed, ToScript
<1>4. Numbered
  BY <1>3 DEF Init, Numbered, OneSaves, StoredCovers, SavesGreater, OneUses, NotOutrun,
              Used, Past, Saving, Committed, ToScript
<1>5. Pids
  BY DEF Init, Pids, PidLate, Reachable
<1>6. Owned
  BY NumbersAreNat DEF Init, Owned, NoSeq
<1>7. FailureSeen
  BY DEF Init, FailureSeen
<1> QED
  BY <1>1, <1>2, <1>4, <1>5, <1>6, <1>7 DEF IInv

LEMMA NextHolds == IInv /\ [Next]_vars => IInv'
  BY BaseNext, NumberedNext, PidsNext, ReportsNext DEF IInv, Base

(* The inductive invariant.                                                 *)
THEOREM Invariance == Spec => []IInv
<1>1. Init => IInv
  BY InitHolds
<1>2. IInv /\ [Next]_vars => IInv'
  BY NextHolds
<1> QED
  BY <1>1, <1>2, PTL DEF Spec

(* Every variable keeps its type, whatever the processes do to each other.  *)
THEOREM TypeCorrect == Spec => []TypeOK
<1>1. IInv => TypeOK
  BY DEF IInv
<1> QED
  BY <1>1, Invariance, PTL

(* No script is started twice but for the race of check and save            *)
(* (seqnum.go:47-66, cmds.go:401-419).                                      *)
THEOREM ScriptStartedOnce == Spec => []ScriptOnce
<1>1. IInv => ScriptOnce
  BY DEF IInv, Numbered, OneUses, ScriptOnce
<1> QED
  BY <1>1, Invariance, PTL

(* One script at a time, if no process slipped out of reach of the pid file *)
(* (cmds.go:925-931, pid.go:72-100).                                        *)
THEOREM OneScriptAtATime == Spec => []OneScript
<1>1. IInv => OneScript
  <2> SUFFICES ASSUME IInv, ~slipped PROVE Cardinality(running) <= 1
    BY DEF OneScript
  <2>1. \A p \in running : p = pidFile
    BY DEF IInv, TypeOK, ProcsOK, Pids, Reachable
  <2>2. running \subseteq {pidFile}
    BY <2>1
  <2>3. IsFiniteSet({pidFile}) /\ Cardinality({pidFile}) = 1
    BY FS_Singleton
  <2>4. Cardinality(running) <= Cardinality({pidFile})
    BY <2>2, <2>3, FS_Subset
  <2> QED
    BY <2>3, <2>4
<1> QED
  BY <1>1, Invariance, PTL

(* A failure to be treated as a deployment failure leaves a trace, unless   *)
(* the final status could not be written (commandProcessor.go:90-106).      *)
THEOREM FailuresSeen == Spec => []FailureSeen
<1>1. IInv => FailureSeen
  BY DEF IInv
<1> QED
  BY <1>1, Invariance, PTL

(* A number that is stored or in transition has a process that works on it, *)
(* one that died, one that ended and could not write its final status, or a *)
(* final status (cmds.go:195-330, commandProcessor.go:67-117).              *)
THEOREM AllSettled == Spec => []Settled
<1>1. \A p \in Procs : Owner(p) => Alive(p) \/ pc[p] = "dead" \/ p \in unreported
  BY PastIsNotEnded DEF Owner, Alive
<1>2. IInv => Settled
  BY <1>1 DEF IInv, Owned, Settled
<1> QED
  BY <1>2, Invariance, PTL

-----------------------------------------------------------------------------
(* Only the kill of a group, and a reboot, move more than one process; only *)
(* StartScript counts a script.                                             *)
OneMoves == \E p \in Procs : \A q \in Procs : q # p => pc'[q] = pc[q]
SameRuns == UNCHANGED runs
PlainStep == OneMoves /\ SameRuns

LEMMA StepKinds ==
  ASSUME Base, [Next]_vars
  PROVE  /\ \/ UNCHANGED pc \/ OneMoves
            \/ \A p \in Procs : pc'[p] = pc[p] \/ pc'[p] = "dead"
            \/ \E p \in Procs : KillGroup(p)
         /\ SameRuns \/ \E p \in Procs : StartScript(p)
<1> USE DEF PlainStep, OneMoves, SameRuns, Base, TypeOK, ProcsOK, procVars, ghosts
<1>1. ASSUME NEW p \in Procs, CheckSeqNum(p) PROVE PlainStep
  BY <1>1 DEF CheckSeqNum, Goto, Smaller
<1>2. ASSUME NEW p \in Procs, SeqNumUnreadable(p) PROVE PlainStep
  BY <1>2 DEF SeqNumUnreadable, Exit, Goto, FailExitCode
<1>3. ASSUME NEW p \in Procs, TruncateSeqNum(p) PROVE PlainStep
  BY <1>3 DEF TruncateSeqNum, Goto, Torn
<1>4. ASSUME NEW p \in Procs, WriteSeqNum(p) PROVE PlainStep
  BY <1>4 DEF WriteSeqNum, Goto, OnItsWay
<1>5. ASSUME NEW p \in Procs, WriteFails(p) PROVE PlainStep
  BY <1>5 DEF WriteFails, Exit, Goto, FailExitCode
<1>6. ASSUME NEW p \in Procs, ReportTransitioning(p) PROVE PlainStep
  BY <1>6 DEF ReportTransitioning, Goto, Fail
<1>7. ASSUME NEW p \in Procs, Prepare(p) PROVE PlainStep
  BY <1>7 DEF Prepare, Goto
<1>8. ASSUME NEW p \in Procs, PrepareFails(p) PROVE PlainStep
  BY <1>8 DEF PrepareFails, Fail, Goto
<1>9. ASSUME NEW p \in Procs, InstallAsService(p) PROVE PlainStep
  BY <1>9 DEF InstallAsService, Goto
<1>10. ASSUME NEW p \in Procs, SaveScript(p) PROVE PlainStep
  BY <1>10 DEF SaveScript, Goto
<1>31. ASSUME NEW p \in Procs, SaveScriptFails(p) PROVE PlainStep
  BY <1>31 DEF SaveScriptFails, Fail, Goto
<1>11. ASSUME NEW p \in Procs, NoPrevious(p) PROVE PlainStep
  BY <1>11 DEF NoPrevious, AfterKill, Exit, Goto, FailExitCode
<1>12. ASSUME NEW p \in Procs, FindPrevious(p) PROVE PlainStep
  BY <1>12 DEF FindPrevious, Goto
<1>13. ASSUME NEW p \in Procs, KillGroup(p) PROVE SameRuns
  BY <1>13 DEF KillGroup, ghosts, SameRuns
<1>14. ASSUME NEW p \in Procs, KillMisses(p) PROVE PlainStep
  BY <1>14 DEF KillMisses, Goto, Alive
<1>15. ASSUME NEW p \in Procs, UnlinkPrevious(p) PROVE PlainStep
  BY <1>15 DEF UnlinkPrevious, AfterKill, NamesOther, Exit, Goto, NoPid, Alive
<1>16. ASSUME NEW p \in Procs, SavePid(p) PROVE PlainStep
  BY <1>16 DEF SavePid, Goto, NamesOther, NoPid, Alive
<1>17. ASSUME NEW p \in Procs, StartScript(p) PROVE OneMoves
  BY <1>17 DEF StartScript, Goto
<1>18. ASSUME NEW p \in Procs, NoLogFiles(p) PROVE PlainStep
  BY <1>18 DEF NoLogFiles, Fail, Goto
<1>19. ASSUME NEW p \in Procs, UnlinkCurrent(p) PROVE PlainStep
  BY <1>19 DEF UnlinkCurrent, Goto, NamesOther, NoPid, Alive
<1>20. ASSUME NEW p \in Procs, EndCommand(p) PROVE PlainStep
  BY <1>20 DEF EndCommand, CleanUp, Goto
<1>21. ASSUME NEW p \in Procs, TurnAway(p) PROVE PlainStep
  BY <1>21 DEF TurnAway, CleanUp, Exit, Goto, FailExitCode
<1>22. ASSUME NEW p \in Procs, ReportResult(p) PROVE PlainStep
  BY <1>22 DEF ReportResult, Exit, Goto, FailExitCode
<1>23. ASSUME NEW p \in Procs, Tick(p) PROVE PlainStep
  BY <1>23 DEF Tick
<1>24. ASSUME NEW p \in Procs, EndScript(p) PROVE PlainStep
  BY <1>24 DEF EndScript, Fail, Goto
<1>25. ASSUME NEW p \in Procs, Die(p) PROVE PlainStep
  BY <1>25 DEF Die, Goto, Alive
<1>26. ASSUME NEW n \in Numbers, Deliver(n) PROVE UNCHANGED pc /\ SameRuns
  BY <1>26 DEF Deliver
<1>27. ASSUME NEW p \in Procs, NEW o \in {"enable", "disable"}, NEW n \in Numbers,
              Launch(p, o, n)
       PROVE  PlainStep
  BY <1>27 DEF Launch, Goto
<1>28. ASSUME NEW p \in Procs, NEW o \in {"enable", "disable"}, NEW n \in Numbers,
              NoEnvironment(p, o, n)
       PROVE  PlainStep
  BY <1>28 DEF NoEnvironment, Exit, Goto
<1>29. ASSUME Reboot
       PROVE  SameRuns /\ \A p \in Procs : pc'[p] = pc[p] \/ pc'[p] = "dead"
  BY <1>29 DEF Reboot
<1>30. ASSUME UNCHANGED vars PROVE UNCHANGED pc /\ SameRuns
  BY <1>30 DEF vars
<1> HIDE DEF OneMoves, SameRuns, Base
<1> QED
  BY <1>1, <1>2, <1>3, <1>4, <1>5, <1>6, <1>7, <1>8, <1>9, <1>10, <1>11, <1>12,
     <1>13, <1>14, <1>15, <1>16, <1>17, <1>18, <1>19, <1>20, <1>21, <1>22,
     <1>23, <1>24, <1>25, <1>26, <1>27, <1>28, <1>29, <1>30, <1>31, Zenon
     DEF Next, Step, PlainStep

(* A process that is on its way to its script, has not been outrun, and did *)
(* not race, kills older processes only: the one in the pid file has used   *)
(* its number (pid.go:72-100).                                              *)
LEMMA KillOlder ==
  ASSUME IInv, NEW p \in Procs, NEW q \in Procs, KillGroup(p),
         Alive(q), pc'[q] = "dead", pc'[p] = "unlink"
  PROVE  op[p] = "disable" \/ seq[p] > seq[q] \/ p \in outrun \/ raced
<1> SUFFICES ASSUME op[p] # "disable", p \notin outrun, ~raced
             PROVE  seq[p] > seq[q]
  OBVIOUS
<1> USE DEF IInv, TypeOK, FilesOK, ProcsOK
<1>1. q # p /\ pc[p] = "kill" /\ pc[q] # "dead"
  BY DEF KillGroup, Alive
<1>2. q = Victim(p)
  BY <1>1 DEF KillGroup
<1>3. q = pidFile /\ pidFile # NoPid
  BY <1>1, <1>2 DEF Victim
<1>4. pc[q] \in {"exec", "run", "unpid", "cleanup", "final"}
  BY <1>3 DEF Pids, PidLate, Late, Alive
<1>5. op[p] = "enable" /\ op[q] = "enable"
  BY <1>4 DEF Places, EnableSteps, Committed, ToScript
<1>6. Past(p) /\ pc[p] \in ToScript /\ Past(q) /\ Used(q)
  BY <1>1, <1>4, <1>5 DEF Past, Used, Committed, ToScript
<1>7. seq[q] \in Numbers /\ seq[p] \in Numbers
  BY <1>1, <1>4 DEF Places
<1>8. seq[q] <= seq[p]
  BY <1>6, <1>7 DEF Numbered, NotOutrun, Taken
<1>9. seq[q] # seq[p]
  BY <1>1, <1>6 DEF Numbered, OneUses
<1> QED
  BY <1>7, <1>8, <1>9, NumbersAreNat

(* Only a newer command or a disable kills another process, except one that *)
(* was outrun or raced (pid.go:72-100, cmds.go:925-931).                    *)
THEOREM OnlyOlderKilled == Spec => KillsOlder
<1>1. ASSUME IInv, [Next]_vars, NEW p \in Procs, NEW q \in Procs,
             pc[p] = "kill", pc'[p] = "unlink", Alive(q), pc'[q] = "dead"
      PROVE  op[p] = "disable" \/ seq[p] > seq[q] \/ p \in outrun \/ raced
  <2>1. pc[q] # "dead" /\ p # q
    BY <1>1 DEF Alive
  <2>2. ~UNCHANGED pc /\ ~OneMoves
    BY <1>1, <2>1 DEF OneMoves
  <2>3. PICK r \in Procs : KillGroup(r)
    BY <1>1, <2>2, StepKinds DEF IInv, Base
  <2>4. r = p
    BY <1>1, <2>3 DEF KillGroup
  <2> QED
    BY <1>1, <2>3, <2>4, KillOlder
<1>2. IInv /\ [Next]_vars =>
        [\A p, q \in Procs :
           pc[p] = "kill" /\ pc'[p] = "unlink" /\ Alive(q) /\ pc'[q] = "dead" =>
             op[p] = "disable" \/ seq[p] > seq[q] \/ p \in outrun \/ raced]_vars
  BY <1>1
<1> QED
  BY <1>2, Invariance, PTL DEF Spec, KillsOlder

(* The scripts start in the order of their numbers, but for those that had  *)
(* passed the check when a newer number was saved, or raced (cmds.go:       *)
(* 401-419, 927).                                                           *)
THEOREM NewestRunsLast == Spec => NewestLast
<1>1. ASSUME IInv, [Next]_vars, NEW n \in Numbers, runs'[n] > runs[n]
      PROVE  \/ \A m \in Numbers : m > n => runs[m] = 0
             \/ \E p \in outrun : seq[p] = n /\ pc[p] = "exec"
             \/ raced
  <2> USE <1>1 DEF IInv, TypeOK, GhostsOK
  <2>1. runs[n] \in 0..2
    OBVIOUS
  <2>2. ~SameRuns
    BY <1>1, <2>1 DEF SameRuns
  <2>3. PICK p \in Procs : StartScript(p)
    BY <1>1, <2>2, StepKinds DEF Base
  <2>4. pc[p] = "exec" /\ runs' = [runs EXCEPT ![seq[p]] = IF runs[seq[p]] = 0 THEN 1 ELSE 2]
    BY <2>3 DEF StartScript
  <2>5. seq[p] = n
    BY <1>1, <2>1, <2>4
  <2>6. CASE p \in outrun
    BY <2>4, <2>5, <2>6
  <2>7. CASE p \notin outrun /\ ~raced
    <3>1. Past(p) /\ pc[p] \in ToScript
      BY <2>4 DEF Places, EnableSteps, Past, Committed, ToScript
    <3>2. \A m \in Numbers : Taken(m) => m <= n
      BY <2>5, <2>7, <3>1 DEF Numbered, NotOutrun
    <3>3. \A m \in Numbers : m > n => ~Taken(m)
      BY <3>2, NumbersAreNat
    <3> QED
      BY <3>3 DEF Taken
  <2> QED
    BY <2>6, <2>7
<1>2. IInv /\ [Next]_vars =>
        [\A n \in Numbers : runs'[n] > runs[n] =>
           \/ \A m \in Numbers : m > n => runs[m] = 0
           \/ \E p \in outrun : seq[p] = n /\ pc[p] = "exec"
           \/ raced]_vars
  BY <1>1
<1> QED
  BY <1>2, Invariance, PTL DEF Spec, NewestLast
=============================================================================
