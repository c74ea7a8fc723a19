--------------------------- MODULE ExecutionProofs ---------------------------
(***************************************************************************)
(* Execution implements OutputBlob for both streams, sends all its output, *)
(* reports its result last, runs whole scripts only and tries every way to *)
(* download them, for any items, blob settings, statuses and bounds.       *)
(*                                                                         *)
(* The positions and the blobs are shared by the command and the goroutine *)
(* without a lock. What makes this safe is in BlobInv: the two are never   *)
(* in appendToBlob together (Places), so what one of them has read still   *)
(* begins at the position when it appends it (Holdings). Complete adds     *)
(* what the last append of the command leaves, ScriptInv which file the    *)
(* script is in while it and the artifacts are downloaded, and Tries what  *)
(* the downloaders have been answered.                                     *)
(***************************************************************************)
EXTENDS Execution, SequenceTheorems, TLAPS

Before == {"directory", "sas", "sas copy", "ways", "fetch", "copy", "post", "artifacts",
           "create out", "create err", "ticker"}
During == {"save", "logs", "exec", "run", "stop", "done"}
Appending == {"append out", "append err"}
Over == {"returned", "exited"}

BlobTypes ==
  /\ pc \in Before \cup During \cup Appending \cup {"clean up"} \cup Over
  /\ tpc \in {"none", "idle", "report", "append out", "append err", "stopped"}
  /\ log \in [Streams -> Nat \cup {NoLog}]
  /\ pos \in [Streams -> Nat]
  /\ chunk \in [Actors -> Seq(Nat)]
  /\ remote \in [Streams -> Seq(Nat)]

(* The goroutine lives while the command is between StartTicker and Done.   *)
Places ==
  /\ pc \in Before => tpc = "none"
  /\ pc \in Appending \cup {"clean up"} => tpc = "stopped"
  /\ pc \in Over => tpc \in {"none", "stopped"}

(* The log files are created once, and empty, and nothing prints before.    *)
Early == Before \cup {"save", "logs"}
Logs ==
  pc \in Early =>
    (\A s \in Streams : Printed(s) = 0) /\ script # "running" /\ orphan = FALSE

(* What an actor has read follows the position.                             *)
Follows(s, c) ==
  c = [i \in 1..Len(c) |-> pos[s] + i] /\ pos[s] + Len(c) <= Printed(s)

Holdings ==
  \A a \in Actors : chunk[a] # <<>> =>
    \E s \in Streams : At(a, s) /\ Follows(s, chunk[a])

BlobInv == BlobTypes /\ Places /\ Logs /\ Holdings

-----------------------------------------------------------------------------
(* The steps that leave positions, blobs and what was read alone, by how    *)
(* they move the command and the goroutine.                                 *)
Moves ==
  \/ UNCHANGED <<pc, tpc>>
  \/ pc \in Before /\ pc' \in Before \cup {"returned"} /\ UNCHANGED tpc
  \/ pc = "ticker" /\ pc' = "save" /\ tpc' = "idle"
  \/ pc \in During /\ pc' \in During \ {"save", "logs"} /\ UNCHANGED tpc
  \/ pc = "save" /\ pc' = "logs" /\ UNCHANGED tpc
  \/ pc = "done" /\ pc' = "append out" /\ tpc = "idle" /\ tpc' = "stopped"
  \/ pc \in Over \cup {"clean up"} /\ pc' \in Over /\ UNCHANGED tpc
  \/ UNCHANGED pc /\ tpc = "idle" /\ tpc' = "report"
  \/ UNCHANGED pc /\ tpc = "report" /\ tpc' = "append out"

OpensLogs == pc = "logs" /\ log' \in [Streams -> {0, NoLog}]

QuietStep ==
  /\ UNCHANGED <<pos, remote, chunk>>
  /\ UNCHANGED log \/ OpensLogs
  /\ UNCHANGED <<script, orphan>> \/ pc \notin Early
  /\ Moves
  /\ UNCHANGED unsent
  /\ blob' = blob \/ pc \in Before
  /\ orphan' = orphan \/ pc = "run"
  /\ script' = script \/ script' = "ended" \/ pc' = "run"
  /\ pc = "run" /\ pc' # "run" => script' = "ended"
  /\ status' = status \/ tpc = "idle" \/ pc = "returned"

DownloadSteps ==
  \/ Inline \/ NoDirectory \/ BadArtifacts \/ NoMoreArtifacts \/ NoTarget
  \/ GetBody \/ PostProcess \/ NothingToProcess \/ SasFails
  \/ (\E r \in Statuses : SasRefused(r))
  \/ SasAnswers \/ SasCopyEnds \/ CopyBody \/ CopyBreaks
  \/ (\E i \in Items : FromURI(i)) \/ (\E i \in Items : NextArtifact(i))
  \/ (\E token \in BOOLEAN : OpenTarget(token))
  \/ (\E r \in Statuses : TryAgain(r)) \/ (\E r \in Statuses : GiveUp(r))
  \/ (\E s \in Streams : CreateNone(s)) \/ (\E s \in Streams : CreateFails(s))
  \/ (\E s \in Streams, b \in BlobSettings : CreateWithSas(s, b))
  \/ (\E s \in Streams, b \in BlobSettings : CreateWithIdentity(s, b))

(* The downloads and the creation of the blobs. They are quiet. *)
LEMMA DownloadStepsQuiet ==
  ASSUME BlobTypes, DownloadSteps
  PROVE  QuietStep
<1> USE DEF QuietStep, Moves, OpensLogs, Early, Before, During, Over, Appending, BlobTypes,
            download, fileVars, blobVars, tickVars, runVars
<1>1. CASE Inline
  BY <1>1 DEF Inline
<1>2. CASE NoDirectory
  BY <1>2 DEF NoDirectory, Return
<1>3. CASE BadArtifacts
  BY <1>3 DEF BadArtifacts, Return
<1>4. CASE NoMoreArtifacts
  BY <1>4 DEF NoMoreArtifacts
<1>5. CASE NoTarget
  BY <1>5 DEF NoTarget, Return
<1>6. CASE GetBody
  BY <1>6 DEF GetBody
<1>7. CASE PostProcess
  BY <1>7 DEF PostProcess
<1>8. CASE NothingToProcess
  BY <1>8 DEF NothingToProcess, Return
<1>9. ASSUME NEW r \in Statuses, SasRefused(r) PROVE QuietStep
  BY <1>9 DEF SasRefused
<1>10. CASE SasFails
  BY <1>10 DEF SasFails
<1>11. CASE SasAnswers
  BY <1>11 DEF SasAnswers
<1>12. CASE SasCopyEnds
  BY <1>12 DEF SasCopyEnds
<1>13. CASE CopyBody
  BY <1>13 DEF CopyBody
<1>14. CASE CopyBreaks
  BY <1>14 DEF CopyBreaks, Return
<1>15. ASSUME NEW i \in Items, FromURI(i) PROVE QuietStep
  BY <1>15 DEF FromURI, StartDownload
<1>16. ASSUME NEW i \in Items, NextArtifact(i) PROVE QuietStep
  BY <1>16 DEF NextArtifact, StartDownload
<1>17. ASSUME NEW token \in BOOLEAN, OpenTarget(token) PROVE QuietStep
  BY <1>17 DEF OpenTarget
<1>18. ASSUME NEW r \in Statuses, TryAgain(r) PROVE QuietStep
  BY <1>18 DEF TryAgain
<1>19. ASSUME NEW r \in Statuses, GiveUp(r) PROVE QuietStep
  BY <1>19 DEF GiveUp, Return
<1>20. ASSUME NEW s \in Streams, CreateNone(s) PROVE QuietStep
  BY <1>20 DEF CreateNone, Creating, AfterCreate, CreateStep
<1>21. ASSUME NEW s \in Streams, CreateFails(s) PROVE QuietStep
  BY <1>21 DEF CreateFails, Creating, CreateStep, Return
<1>22. ASSUME NEW s \in Streams, NEW b \in BlobSettings, CreateWithSas(s, b) PROVE QuietStep
  BY <1>22 DEF CreateWithSas, Creating, AfterCreate, CreateStep
<1>23. ASSUME NEW s \in Streams, NEW b \in BlobSettings, CreateWithIdentity(s, b) PROVE QuietStep
  BY <1>23 DEF CreateWithIdentity, Creating, AfterCreate, CreateStep
<1> QED
  BY <1>1, <1>2, <1>3, <1>4, <1>5, <1>6, <1>7, <1>8, <1>9, <1>10, <1>11,
     <1>12, <1>13, <1>14, <1>15, <1>16, <1>17, <1>18, <1>19, <1>20, <1>21,
     <1>22, <1>23
     DEF DownloadSteps

RunSteps ==
  \/ StartTicker \/ SaveScript \/ SaveFails \/ OpenLogs \/ NoStart
  \/ StopTicker \/ Done \/ CleanUp \/ ReportResult \/ TakeTick \/ Reported \/ Fire
  \/ EndScript \/ Timeout \/ (\E s \in Streams : OpenLogFails(s))
  \/ (\E limit \in BOOLEAN : StartScript(limit))

(* The script, the end of the command, and the ticks. They are quiet. *)
LEMMA RunStepsQuiet ==
  ASSUME BlobTypes, Logs, RunSteps
  PROVE  QuietStep
<1> USE DEF QuietStep, Moves, OpensLogs, Early, Before, During, Over, Appending, BlobTypes,
            download, fileVars, blobVars, tickVars, runVars
<1>1. CASE StartTicker
  BY <1>1 DEF StartTicker
<1>2. CASE SaveScript
  BY <1>2 DEF SaveScript
<1>3. CASE SaveFails
  BY <1>3 DEF SaveFails, FailRun
<1>4. CASE OpenLogs
  BY <1>4 DEF OpenLogs
<1>5. CASE NoStart
  BY <1>5 DEF NoStart, FailRun
<1>6. CASE StopTicker
  BY <1>6 DEF StopTicker
<1>7. CASE Done
  BY <1>7 DEF Done
<1>8. CASE CleanUp
  BY <1>8 DEF CleanUp
<1>9. CASE ReportResult
  BY <1>9 DEF ReportResult
<1>10. CASE TakeTick \/ Reported
  BY <1>10 DEF TakeTick, Reported
<1>11. CASE Fire
  BY <1>11 DEF Fire
<1>12. CASE EndScript
  BY <1>12 DEF EndScript, FailRun
<1>13. CASE Timeout
  BY <1>13 DEF Timeout, FailRun
<1>14. ASSUME NEW s \in Streams, OpenLogFails(s) PROVE QuietStep
  BY <1>14 DEF OpenLogFails, FailRun, Logs, Printed, NoLog, Streams
<1>15. ASSUME NEW limit \in BOOLEAN, StartScript(limit) PROVE QuietStep
  BY <1>15 DEF StartScript
<1> QED
  BY <1>1, <1>2, <1>3, <1>4, <1>5, <1>6, <1>7, <1>8, <1>9, <1>10, <1>11,
     <1>12, <1>13, <1>14, <1>15
     DEF RunSteps

-----------------------------------------------------------------------------
(* The place of an actor in appendToBlob.                                   *)
LEMMA AppendPlaces ==
  ASSUME NEW a \in Actors, NEW s \in Streams
  PROVE  /\ AppendStep(s) \in Appending
         /\ a = "main" => (At(a, s) <=> pc = AppendStep(s))
         /\ a = "ticker" => (At(a, s) <=> tpc = AppendStep(s))
<1>1. CASE s = "out"
  BY <1>1, Zenon DEF At, AppendStep, Appending
<1>2. CASE s = "err"
  BY <1>2, Zenon DEF At, AppendStep, Appending
<1> QED
  BY <1>1, <1>2 DEF Streams

LEMMA DistinctSteps ==
  ASSUME NEW s \in Streams, NEW t \in Streams, AppendStep(s) = AppendStep(t)
  PROVE  s = t
<1>1. s \in {"out", "err"} /\ t \in {"out", "err"}
  BY DEF Streams
<1>2. AppendStep("out") # AppendStep("err")
  BY Zenon DEF AppendStep
<1> QED
  BY <1>1, <1>2

(* Whoever is in appendToBlob is there alone, what it holds is of the       *)
(* stream it is at, and the command is not over.                            *)
LEMMA Alone ==
  ASSUME BlobInv, NEW a \in Actors, NEW s \in Streams, At(a, s)
  PROVE  /\ \A b \in Actors : b # a => chunk[b] = <<>>
         /\ chunk[a] # <<>> => Follows(s, chunk[a])
         /\ ~AppendsOver
         /\ a = "main" => tpc = "stopped"
         /\ a = "ticker" => pc \in During
<1> USE DEF BlobInv
<1>1. a \in {"main", "ticker"} /\ AppendStep(s) \in Appending
  BY AppendPlaces DEF Actors
<1>2. /\ a = "main" => pc = AppendStep(s)
      /\ a = "ticker" => tpc = AppendStep(s)
  BY AppendPlaces
<1>3. /\ a = "main" => tpc = "stopped" /\ pc \in Appending
      /\ a = "ticker" => pc \in During /\ tpc \in Appending
  BY <1>1, <1>2 DEF BlobTypes, Places, Before, During, Appending, Over
<1>4. ~AppendsOver
  BY <1>1, <1>3 DEF AppendsOver, During, Appending
<1>5. ASSUME NEW b \in Actors, b # a, chunk[b] # <<>> PROVE FALSE
  <2>1. PICK t \in Streams : At(b, t)
    BY <1>5 DEF Holdings
  <2>2. b \in {"main", "ticker"} /\ AppendStep(t) \in Appending
    BY AppendPlaces DEF Actors
  <2>3. /\ b = "main" => pc = AppendStep(t)
        /\ b = "ticker" => tpc = AppendStep(t)
    BY <2>1, AppendPlaces
  <2> QED
    BY <1>1, <1>3, <1>5, <2>2, <2>3 DEF During, Appending
<1>6. ASSUME chunk[a] # <<>> PROVE Follows(s, chunk[a])
  <2>1. PICK t \in Streams : At(a, t) /\ Follows(t, chunk[a])
    BY <1>6 DEF Holdings
  <2>2. AppendStep(t) = AppendStep(s)
    BY <1>1, <1>2, <2>1, AppendPlaces
  <2>3. s = t
    BY <2>2, DistinctSteps
  <2> QED
    BY <2>1, <2>3
<1> QED
  BY <1>1, <1>3, <1>4, <1>5, <1>6

(* In a quiet step nobody who is in appendToBlob moves, and nobody prints.  *)
LEMMA QuietStays ==
  ASSUME BlobInv, QuietStep
  PROVE  /\ pc \in Appending => pc' = pc
         /\ tpc \in Appending => tpc' = tpc
         /\ pc' \in Early => pc \in Early
         /\ \A s \in Streams : Printed(s)' = Printed(s)
<1>1. /\ pc \in Appending => pc' = pc
      /\ tpc \in Appending => tpc' = tpc
      /\ pc' \in Early => pc \in Early
  BY DEF BlobInv, QuietStep, Moves, Places, Early, Before, During, Appending, Over
<1>2. ASSUME NEW s \in Streams PROVE Printed(s)' = Printed(s)
  <2>1. CASE UNCHANGED log
    BY <2>1 DEF Printed
  <2>2. CASE OpensLogs
    <3>1. Printed(s) = 0
      BY <2>2 DEF OpensLogs, BlobInv, Logs, Early
    <3>2. Printed(s)' = 0
      BY <2>2 DEF OpensLogs, Printed, NoLog
    <3> QED
      BY <3>1, <3>2
  <2> QED
    BY <2>1, <2>2 DEF QuietStep
<1> QED
  BY <1>1, <1>2

LEMMA QuietKeeps ==
  ASSUME BlobInv, QuietStep
  PROVE  BlobInv'
<1>1. BlobTypes'
  <2>1. ASSUME UNCHANGED log PROVE log' \in [Streams -> Nat \cup {NoLog}]
    BY <2>1 DEF BlobInv, BlobTypes
  <2>2. ASSUME OpensLogs PROVE log' \in [Streams -> Nat \cup {NoLog}]
    BY <2>2 DEF OpensLogs, NoLog
  <2>3. log' \in [Streams -> Nat \cup {NoLog}]
    BY <2>1, <2>2 DEF QuietStep
  <2> QED
    BY <2>3 DEF QuietStep, Moves, BlobInv, BlobTypes, Before, During, Appending, Over
<1>2. Places'
  BY DEF QuietStep, Moves, BlobInv, Places, Before, During, Appending, Over
<1>3. Logs'
  BY QuietStays DEF BlobInv, Logs, QuietStep
<1>4. ASSUME NEW a \in Actors, chunk'[a] # <<>>
      PROVE  \E s \in Streams : At(a, s)' /\ Follows(s, chunk[a])'
  <2>1. chunk' = chunk /\ pos' = pos
    BY DEF QuietStep
  <2>2. PICK s \in Streams : At(a, s) /\ Follows(s, chunk[a])
    BY <1>4, <2>1 DEF BlobInv, Holdings
  <2>3. a \in {"main", "ticker"} /\ AppendStep(s) \in Appending
    BY AppendPlaces DEF Actors
  <2>4. At(a, s)'
    <3>1. CASE a = "main"
      BY <3>1, <2>2, <2>3, AppendPlaces, QuietStays, Zenon DEF At
    <3>2. CASE a = "ticker"
      BY <3>2, <2>2, <2>3, AppendPlaces, QuietStays, Zenon DEF At
    <3> QED
      BY <2>3, <3>1, <3>2
  <2>5. Follows(s, chunk[a])'
    BY <2>1, <2>2, QuietStays DEF Follows
  <2> QED
    BY <2>4, <2>5
<1> QED
  BY <1>1, <1>2, <1>3, <1>4 DEF BlobInv, Holdings

-----------------------------------------------------------------------------
(* The steps of OutputBlob, for a stream of Execution.                      *)
Unmoved(t) == remote[t]' = remote[t] /\ pos[t]' = pos[t]
Stutter(t) == Unmoved(t) /\ Printed(t)' = Printed(t) /\ AppendsOver' = AppendsOver
Emission(t) ==
  Unmoved(t) /\ Printed(t)' = Printed(t) + 1 /\ AppendsOver' = AppendsOver
Completion(t) ==
  Unmoved(t) /\ Printed(t)' = Printed(t) /\ ~AppendsOver /\ AppendsOver'
Shipment(t, m) ==
  /\ ~AppendsOver /\ AppendsOver' = AppendsOver
  /\ remote[t]' = remote[t] \o [i \in 1..m |-> pos[t] + i]
  /\ pos[t]' \in {pos[t], pos[t] + m}
  /\ Printed(t)' = Printed(t)
BlobStep(t) ==
  \/ Stutter(t) \/ Emission(t) \/ Completion(t)
  \/ \E m \in 1..(Printed(t) - pos[t]) : Shipment(t, m)

LEMMA QuietImplements ==
  ASSUME BlobInv, QuietStep, NEW t \in Streams
  PROVE  BlobStep(t)
<1>1. Unmoved(t) /\ Printed(t)' = Printed(t)
  BY QuietStays DEF QuietStep, Unmoved
<1>2. AppendsOver => AppendsOver'
  BY DEF QuietStep, Moves, AppendsOver, Before, During, Over
<1>3. CASE AppendsOver <=> AppendsOver'
  <2>1. AppendsOver' = AppendsOver
    BY <1>3 DEF AppendsOver
  <2> QED
    BY <1>1, <2>1, Zenon DEF BlobStep, Stutter
<1>4. CASE ~AppendsOver /\ AppendsOver'
  BY <1>1, <1>4, Zenon DEF BlobStep, Completion
<1> QED
  BY <1>2, <1>3, <1>4, Zenon

(* The script prints when the log files are there; a file that could not be *)
(* created would first come into being.                                     *)
LEMMA WriteOutputCorrect ==
  ASSUME BlobInv, NEW s \in Streams, WriteOutput(s)
  PROVE  BlobInv' /\ \A t \in Streams : BlobStep(t)
<1> USE DEF WriteOutput, download, fileVars, blobVars, tickVars
<1>1. /\ UNCHANGED <<pc, tpc, pos, remote, chunk, script, orphan>>
      /\ log' = [log EXCEPT ![s] = @ + 1]
  OBVIOUS
<1>2. log \in [Streams -> Nat \cup {NoLog}] /\ log' \in [Streams -> Nat \cup {NoLog}]
  <2>1. log \in [Streams -> Nat \cup {NoLog}]
    BY DEF BlobInv, BlobTypes
  <2>2. log[s] \in Nat \cup {NoLog} /\ NoLog + 1 = 0
    BY <2>1 DEF NoLog
  <2>3. log[s] + 1 \in Nat
    BY <2>2
  <2> QED
    BY <1>1, <2>1, <2>3
<1>3. \A t \in Streams : Printed(t)' \in {Printed(t), Printed(t) + 1}
                         /\ Printed(t) \in Nat
  BY <1>1, <1>2 DEF Printed, NoLog
<1>4. pc \notin Early
  BY Zenon DEF BlobInv, Logs
<1>5. ASSUME NEW a \in Actors, chunk[a] # <<>>
      PROVE  \E u \in Streams : At(a, u)' /\ Follows(u, chunk[a])'
  <2>1. PICK u \in Streams : At(a, u) /\ Follows(u, chunk[a])
    BY <1>5 DEF BlobInv, Holdings
  <2>2. At(a, u)'
    BY <1>1, <2>1, Zenon DEF At
  <2>3. chunk[a] \in Seq(Nat) /\ pos[u] \in Nat
    BY DEF BlobInv, BlobTypes
  <2>4. Len(chunk[a]) \in Nat
    BY <2>3, LenProperties
  <2>5. Follows(u, chunk[a])'
    BY <1>1, <1>3, <2>1, <2>3, <2>4 DEF Follows
  <2> QED
    BY <2>2, <2>5
<1>6. BlobInv'
  BY <1>1, <1>2, <1>4, <1>5 DEF BlobInv, BlobTypes, Places, Logs, Holdings
<1>7. ASSUME NEW t \in Streams PROVE BlobStep(t)
  BY <1>1, <1>3 DEF BlobStep, Stutter, Emission, Unmoved, AppendsOver
<1> QED
  BY <1>6, <1>7

-----------------------------------------------------------------------------
(* What an actor reads is what follows the position.                        *)
LEMMA ReadOutputCorrect ==
  ASSUME BlobInv, NEW a \in Actors, NEW s \in Streams, ReadOutput(a, s)
  PROVE  BlobInv' /\ \A t \in Streams : BlobStep(t)
<1> USE DEF download, fileVars, tickVars, runVars
<1>1. PICK c :
        /\ c = [i \in 1..(log[s] - pos[s]) |-> pos[s] + i]
        /\ chunk' = [chunk EXCEPT ![a] = c]
        /\ UNCHANGED <<pc, tpc, log, pos, remote, script, orphan>>
        /\ At(a, s) /\ chunk[a] = <<>> /\ log[s] > pos[s]
  BY DEF ReadOutput, HasNew
<1>2. pos[s] \in Nat /\ log[s] \in Nat \cup {NoLog}
  BY DEF BlobInv, BlobTypes
<1>3. PICK k \in Nat : k = log[s] - pos[s]
  BY <1>1, <1>2 DEF NoLog
<1>4. Printed(s) = log[s] /\ pos[s] + k = log[s]
  BY <1>1, <1>2, <1>3 DEF Printed, NoLog
<1>5. c \in Seq(Nat) /\ Len(c) = k /\ c = [i \in 1..k |-> pos[s] + i]
  <2>1. c = [i \in 1..k |-> pos[s] + i]
    BY <1>1, <1>3
  <2>2. c \in [1..k -> Nat]
    BY <2>1, <1>2, <1>3
  <2>3. c \in Seq(Nat)
    BY <2>2, <1>3, SeqDef
  <2>4. DOMAIN c = 1..Len(c) /\ Len(c) \in Nat
    BY <2>3, LenProperties
  <2> QED
    BY <2>1, <2>2, <2>3, <2>4, <1>3
<1>6. chunk' \in [Actors -> Seq(Nat)] /\ chunk'[a] = c
      /\ \A b \in Actors : b # a => chunk'[b] = <<>>
  BY <1>1, <1>5, Alone DEF BlobInv, BlobTypes
<1>7. At(a, s)' /\ Follows(s, c)'
  <2>1. At(a, s) /\ pc' = pc /\ tpc' = tpc
    BY <1>1
  <2>2. pos' = pos /\ log' = log /\ pos[s] + Len(c) <= Printed(s)
    <3>1. Len(c) = k
      BY <1>5
    <3>2. pos[s] + k <= Printed(s)
      BY <1>2, <1>3, <1>4
    <3> QED
      BY <1>1, <3>1, <3>2
  <2>3. c = [i \in 1..Len(c) |-> pos[s] + i]
    BY <1>5, Zenon
  <2> QED
    BY <2>1, <2>2, <2>3, Zenon DEF At, Follows, Printed
<1>8. Holdings'
  BY <1>6, <1>7 DEF Holdings
<1>9. BlobInv'
  BY <1>1, <1>6, <1>8 DEF BlobInv, BlobTypes, Places, Logs, Printed
<1>10. ASSUME NEW t \in Streams PROVE BlobStep(t)
  BY <1>1 DEF BlobStep, Stutter, Unmoved, AppendsOver, Printed
<1> QED
  BY <1>9, <1>10

(* The end of an append, successful or not, with what is common to all:     *)
(* the actor goes on, holding nothing.                                      *)
AppendEnd(a, s) ==
  /\ At(a, s) /\ AfterAppend(a, s)
  /\ chunk' = [chunk EXCEPT ![a] = <<>>]
  /\ UNCHANGED <<log, script, orphan>>

(* An append that is done: of what the actor holds, acknowledged or not.    *)
Appended(a, s) ==
  /\ chunk[a] # <<>>
  /\ remote' = [remote EXCEPT ![s] = @ \o chunk[a]]
  /\ \/ UNCHANGED pos
     \/ pos' = [pos EXCEPT ![s] = @ + Len(chunk[a])]

LEMMA AppendEndKeeps ==
  ASSUME BlobInv, NEW a \in Actors, NEW s \in Streams, AppendEnd(a, s),
         remote' \in [Streams -> Seq(Nat)], pos' \in [Streams -> Nat]
  PROVE  BlobInv' /\ AppendsOver' = AppendsOver
<1>1. <<>> \in Seq(Nat)
  BY EmptySeq
<1>2. chunk' \in [Actors -> Seq(Nat)] /\ \A b \in Actors : chunk'[b] = <<>>
  BY <1>1, Alone DEF AppendEnd, BlobInv, BlobTypes
<1>3. \/ tpc = "stopped" /\ tpc' = tpc /\ pc' \in {"append err", "clean up"}
      \/ pc \in During /\ pc' = pc /\ tpc' \in {"append err", "idle"}
  <2>1. CASE a = "main"
    BY <2>1, Alone, Zenon DEF AppendEnd, AfterAppend
  <2>2. CASE a = "ticker"
    BY <2>2, Alone, Zenon DEF AppendEnd, AfterAppend
  <2> QED
    BY <2>1, <2>2 DEF Actors
<1>4. BlobTypes'
  BY <1>2, <1>3 DEF AppendEnd, BlobInv, BlobTypes, Appending, During
<1>5. Places'
  BY <1>3 DEF Places, Before, During, Appending, Over
<1>6. Logs'
  BY <1>3 DEF AppendEnd, BlobInv, Logs, Printed, Early, Before, During
<1>7. Holdings'
  BY <1>2 DEF Holdings
<1>8. AppendsOver' = AppendsOver
  <2>1. ~AppendsOver
    BY Alone DEF AppendEnd
  <2>2. ~AppendsOver'
    BY <1>3 DEF AppendsOver, During
  <2> QED
    BY <2>1, <2>2 DEF AppendsOver
<1> QED
  BY <1>4, <1>5, <1>6, <1>7, <1>8 DEF BlobInv

(* Nothing to append, or an append that fails.                              *)
LEMMA NoAppendCorrect ==
  ASSUME BlobInv, NEW a \in Actors, NEW s \in Streams, AppendEnd(a, s),
         UNCHANGED <<pos, remote>>
  PROVE  BlobInv' /\ \A t \in Streams : BlobStep(t)
<1>1. BlobInv' /\ AppendsOver' = AppendsOver
  BY AppendEndKeeps DEF BlobInv, BlobTypes
<1>2. \A t \in Streams : Unmoved(t) /\ Printed(t)' = Printed(t)
  BY DEF AppendEnd, Unmoved, Printed
<1> QED
  BY <1>1, <1>2, Zenon DEF BlobStep, Stutter

(* An append that is done is a shipment of what follows the position.       *)
LEMMA AppendedCorrect ==
  ASSUME BlobInv, NEW a \in Actors, NEW s \in Streams,
         AppendEnd(a, s), Appended(a, s)
  PROVE  BlobInv' /\ \A t \in Streams : BlobStep(t)
<1>1. PICK c : c = chunk[a]
  OBVIOUS
<1>2. /\ c \in Seq(Nat) /\ c # <<>> /\ pos[s] \in Nat /\ remote[s] \in Seq(Nat)
      /\ remote \in [Streams -> Seq(Nat)] /\ pos \in [Streams -> Nat]
  BY <1>1 DEF Appended, BlobInv, BlobTypes
<1>3. Follows(s, c)
  BY <1>1, Alone DEF AppendEnd, Appended
<1>4. PICK m \in Nat : m = Len(c)
  BY <1>2, LenProperties
<1>5. m > 0
  BY <1>2, <1>4, EmptySeq
<1>6. remote[s] \o c \in Seq(Nat)
  BY <1>2, ConcatProperties
<1>7. /\ remote' = [remote EXCEPT ![s] = remote[s] \o c]
      /\ pos' = pos \/ pos' = [pos EXCEPT ![s] = pos[s] + m]
  BY <1>1, <1>4 DEF Appended
<1>8. remote' \in [Streams -> Seq(Nat)] /\ pos' \in [Streams -> Nat]
  <2>1. pos[s] + m \in Nat
    BY <1>2, <1>4
  <2>2. remote' \in [Streams -> Seq(Nat)]
    BY <1>2, <1>6, <1>7, Zenon
  <2> QED
    BY <2>1, <2>2, <1>2, <1>7, Zenon
<1>9. BlobInv' /\ AppendsOver' = AppendsOver
  BY <1>8, AppendEndKeeps
<1>10. \A t \in Streams : Printed(t)' = Printed(t)
  BY DEF AppendEnd, Printed
<1>11. ASSUME NEW t \in Streams, t # s PROVE BlobStep(t)
  <2>1. Unmoved(t)
    BY <1>2, <1>7, <1>11 DEF Unmoved
  <2> QED
    BY <2>1, <1>9, <1>10, Zenon DEF BlobStep, Stutter
<1>12. BlobStep(s)
  <2>1. ~AppendsOver
    BY Alone DEF AppendEnd
  <2>2. remote[s]' = remote[s] \o c /\ pos[s]' \in {pos[s], pos[s] + m}
    BY <1>2, <1>7
  <2>3. c = [i \in 1..m |-> pos[s] + i]
    BY <1>3, <1>4, Zenon DEF Follows
  <2>4. Shipment(s, m)
    BY <2>1, <2>2, <2>3, <1>9, <1>10, Zenon DEF Shipment
  <2>5. Printed(s) \in Nat
    BY DEF Printed, NoLog, BlobInv, BlobTypes
  <2>6. m \in 1..(Printed(s) - pos[s])
    BY <2>5, <1>2, <1>3, <1>4, <1>5 DEF Follows
  <2> QED
    BY <2>4, <2>6 DEF BlobStep
<1> QED
  BY <1>9, <1>11, <1>12

-----------------------------------------------------------------------------
LEMMA AppendStepsCorrect ==
  ASSUME BlobInv, NEW a \in Actors, NEW s \in Streams,
         \/ NothingNew(a, s) \/ AppendBlock(a, s)
         \/ AppendFails(a, s) \/ AppendAnswerLost(a, s)
  PROVE  BlobInv' /\ \A t \in Streams : BlobStep(t)
<1> USE DEF AppendEnd, Appended, download, fileVars, runVars
<1>1. CASE NothingNew(a, s)
  <2>1. chunk \in [Actors -> Seq(Nat)]
    BY DEF BlobInv, BlobTypes
  <2>2. chunk' = chunk /\ chunk[a] = <<>> /\ UNCHANGED <<pos, remote>>
    BY <1>1 DEF NothingNew
  <2>3. chunk' = [chunk EXCEPT ![a] = <<>>]
    BY <2>1, <2>2
  <2>4. AppendEnd(a, s)
    BY <1>1, <2>3 DEF NothingNew
  <2> QED
    BY <2>2, <2>4, NoAppendCorrect
<1>2. CASE AppendFails(a, s)
  <2>1. AppendEnd(a, s) /\ UNCHANGED <<pos, remote>>
    BY <1>2 DEF AppendFails
  <2> QED
    BY <2>1, NoAppendCorrect
<1>3. CASE AppendBlock(a, s)
  <2>1. AppendEnd(a, s) /\ Appended(a, s)
    BY <1>3 DEF AppendBlock
  <2> QED
    BY <2>1, AppendedCorrect
<1>4. CASE AppendAnswerLost(a, s)
  <2>1. AppendEnd(a, s) /\ Appended(a, s)
    BY <1>4 DEF AppendAnswerLost
  <2> QED
    BY <2>1, AppendedCorrect
<1> QED
  BY <1>1, <1>2, <1>3, <1>4

(* The steps of Next, by the lemmas that treat them.                        *)
LEMMA StepsOfNext ==
  ASSUME [Next]_vars
  PROVE  \/ DownloadSteps \/ RunSteps \/ UNCHANGED vars
         \/ \E s \in Streams : WriteOutput(s)
         \/ \E a \in Actors, s \in Streams :
              \/ ReadOutput(a, s)
              \/ \/ NothingNew(a, s) \/ AppendBlock(a, s)
                 \/ AppendFails(a, s) \/ AppendAnswerLost(a, s)
<1>1. "main" \in Actors /\ "ticker" \in Actors
  BY DEF Actors
<1>2. Local =>
        \/ DownloadSteps \/ RunSteps
        \/ \E s \in Streams : NothingNew("main", s) \/ ReadOutput("main", s)
  BY Zenon DEF Local, Request, DownloadSteps, RunSteps
<1>3. Transfer =>
        \/ DownloadSteps \/ RunSteps
        \/ \E a \in Actors, s \in Streams :
             AppendBlock(a, s) \/ AppendFails(a, s) \/ AppendAnswerLost(a, s)
  BY Zenon DEF Transfer, Request, DownloadSteps, RunSteps
<1>4. TickerStep =>
        \/ RunSteps
        \/ \E s \in Streams : NothingNew("ticker", s) \/ ReadOutput("ticker", s)
  BY Zenon DEF TickerStep, RunSteps
<1>5. Fire \/ EndScript \/ Timeout => RunSteps
  BY DEF RunSteps
<1> QED
  BY <1>1, <1>2, <1>3, <1>4, <1>5, Zenon DEF Next

LEMMA SameIsQuiet == ASSUME UNCHANGED vars PROVE QuietStep
BY DEF vars, QuietStep, Moves, download, fileVars, blobVars, tickVars, runVars

(* Every step keeps the invariant and is, for each stream, a step of        *)
(* OutputBlob or none.                                                      *)
LEMMA NextCorrect ==
  ASSUME BlobInv, [Next]_vars
  PROVE  BlobInv' /\ \A t \in Streams : BlobStep(t)
<1>1. CASE DownloadSteps \/ RunSteps \/ UNCHANGED vars
  <2>1. QuietStep
    BY <1>1, DownloadStepsQuiet, RunStepsQuiet, SameIsQuiet DEF BlobInv
  <2> QED
    BY <2>1, QuietKeeps, QuietImplements
<1>2. ASSUME NEW s \in Streams, WriteOutput(s)
      PROVE  BlobInv' /\ \A t \in Streams : BlobStep(t)
  BY <1>2, WriteOutputCorrect
<1>3. ASSUME NEW a \in Actors, NEW s \in Streams, ReadOutput(a, s)
      PROVE  BlobInv' /\ \A t \in Streams : BlobStep(t)
  BY <1>3, ReadOutputCorrect
<1>4. ASSUME NEW a \in Actors, NEW s \in Streams,
             \/ NothingNew(a, s) \/ AppendBlock(a, s)
             \/ AppendFails(a, s) \/ AppendAnswerLost(a, s)
      PROVE  BlobInv' /\ \A t \in Streams : BlobStep(t)
  BY <1>4, AppendStepsCorrect
<1> QED
  BY <1>1, <1>2, <1>3, <1>4, StepsOfNext, Zenon

LEMMA InitCorrect ==
  ASSUME Init
  PROVE  BlobInv /\ OutBlob!Init /\ ErrBlob!Init
<1>1. <<>> \in Seq(Nat)
  BY EmptySeq
<1>2. \A s \in Streams : Printed(s) = 0
  BY DEF Init, Printed
<1>3. BlobTypes
  BY <1>1 DEF Init, BlobTypes, Before, NoLog
<1>4. Places /\ Holdings
  BY DEF Init, Places, Holdings, Before, Appending, Over
<1>5. Logs
  BY <1>2 DEF Init, Logs
<1>6. OutBlob!Init
  BY <1>2 DEF Init, OutBlob!Init, AppendsOver, Streams
<1>7. ErrBlob!Init
  BY <1>2 DEF Init, ErrBlob!Init, AppendsOver, Streams
<1> QED
  BY <1>3, <1>4, <1>5, <1>6, <1>7 DEF BlobInv

LEMMA OutStep == BlobStep("out") => [OutBlob!Next]_OutBlob!vars
  BY DEF BlobStep, Stutter, Emission, Completion, Shipment, Unmoved, OutBlob!Next,
         OutBlob!Emit, OutBlob!Ship, OutBlob!Following, OutBlob!Finish, OutBlob!vars

LEMMA ErrStep == BlobStep("err") => [ErrBlob!Next]_ErrBlob!vars
  BY DEF BlobStep, Stutter, Emission, Completion, Shipment, Unmoved, ErrBlob!Next,
         ErrBlob!Emit, ErrBlob!Ship, ErrBlob!Following, ErrBlob!Finish, ErrBlob!vars

(* The command and its goroutine, which share positions and blobs, behave   *)
(* for each stream as one sender that ships the output in order (cmds.go:   *)
(* 283-322, 355-383).                                                       *)
THEOREM OutputBlobsImplemented == Spec => BlobShipped
<1>1. Init => BlobInv /\ OutBlob!Init /\ ErrBlob!Init
  BY InitCorrect
<1>2. BlobInv /\ [Next]_vars => BlobInv'
  BY NextCorrect
<1>3. BlobInv /\ [Next]_vars => [OutBlob!Next]_OutBlob!vars /\ [ErrBlob!Next]_ErrBlob!vars
  BY NextCorrect, OutStep, ErrStep DEF Streams
<1> QED
  BY <1>1, <1>2, <1>3, PTL DEF Spec, BlobShipped, OutBlob!Spec, ErrBlob!Spec

-----------------------------------------------------------------------------
(* What the command has appended at the end is all there is: nothing prints *)
(* any more, unless the script left a child.                                *)
Sent(s) == blob[s] /\ log[s] > pos[s] => s \in unsent
Complete ==
  /\ pc # "run" => script # "running"
  /\ ~orphan =>
       /\ pc \in {"append err", "clean up"} \cup Over => Sent("out")
       /\ pc \in {"clean up"} \cup Over => Sent("err")
       /\ \A s \in Streams : At("main", s) /\ chunk["main"] # <<>> =>
            pos[s] + Len(chunk["main"]) = log[s]

LEMMA QuietCompletes ==
  ASSUME BlobInv, Complete, QuietStep
  PROVE  Complete'
<1>1. pc' # "run" => script' # "running"
  BY DEF Complete, QuietStep
<1>2. UNCHANGED <<pos, chunk, unsent>>
  BY DEF QuietStep
<1> SUFFICES ASSUME ~orphan'
             PROVE  /\ pc' \in {"append err", "clean up"} \cup Over => Sent("out")'
                    /\ pc' \in {"clean up"} \cup Over => Sent("err")'
                    /\ \A s \in Streams : At("main", s)' /\ chunk'["main"] # <<>> =>
                         pos'[s] + Len(chunk'["main"]) = log'[s]
  BY <1>1, Zenon DEF Complete
<1>3. CASE pc \in Before
  <2>1. pc' \in Before \cup {"save", "returned"}
    BY <1>3 DEF QuietStep, Moves, Before, During, Over
  <2>2. UNCHANGED log /\ \A s \in Streams : Printed(s) = 0 /\ pos[s] \in Nat
    BY <1>3 DEF QuietStep, OpensLogs, BlobInv, BlobTypes, Logs, Early, Before
  <2>3. \A s \in Streams : ~(log'[s] > pos'[s])
    BY <1>2, <2>2 DEF Printed, NoLog
  <2>4. \A s \in Streams : Sent(s)'
    BY <2>3 DEF Sent
  <2>5. \A s \in Streams : ~At("main", s)'
    BY <2>1, AppendPlaces, Zenon DEF At, Before, Actors, Appending, AppendStep
  <2> QED
    BY <2>4, <2>5 DEF Streams
<1>4. CASE pc \in During
  <2>1. pc' \in During \cup {"append out"}
    BY <1>4 DEF QuietStep, Moves, Before, During, Over
  <2>2. pc' = "append out" => tpc = "idle"
    BY <1>4 DEF QuietStep, Moves, Before, During, Over
  <2>3. chunk["main"] = <<>>
    BY <1>4, AppendPlaces DEF BlobInv, Holdings, Actors, During, Appending
  <2> QED
    BY <1>2, <2>1, <2>3 DEF During, Over
<1>5. CASE pc \in Appending \cup {"clean up"} \cup Over
  <2>1. UNCHANGED <<log, blob, orphan>>
    BY <1>5 DEF QuietStep, OpensLogs, Before, Appending, Over
  <2>2. /\ pc' \in {"append err", "clean up"} \cup Over =>
            pc \in {"append err", "clean up"} \cup Over
        /\ pc' \in {"clean up"} \cup Over => pc \in {"clean up"} \cup Over
        /\ pc' \in Appending => pc' = pc
    BY <1>5 DEF QuietStep, Moves, Before, During, Appending, Over
  <2>3. Sent("out")' = Sent("out") /\ Sent("err")' = Sent("err")
    BY <1>2, <2>1 DEF Sent
  <2>4. \A s \in Streams : At("main", s)' => At("main", s)
    <3> TAKE s \in Streams
    <3> HAVE At("main", s)'
    <3>1. pc' = AppendStep(s) /\ AppendStep(s) \in Appending
      BY AppendPlaces, Zenon DEF At, Actors
    <3> QED
      BY <2>2, <3>1, Zenon DEF At
  <2>5. ~orphan
    BY <2>1
  <2> QED
    BY <1>2, <2>1, <2>2, <2>3, <2>4, <2>5 DEF Complete
<1> QED
  BY <1>3, <1>4, <1>5 DEF BlobInv, BlobTypes

LEMMA WriteCompletes ==
  ASSUME BlobInv, Complete, NEW s \in Streams, WriteOutput(s)
  PROVE  Complete'
<1>1. /\ script = "running" \/ orphan
      /\ UNCHANGED <<pc, pos, chunk, script, orphan>>
  BY DEF WriteOutput, blobVars
<1>2. CASE orphan
  BY <1>1, <1>2 DEF Complete
<1>3. CASE ~orphan
  <2>1. pc = "run"
    BY <1>1, <1>3 DEF Complete
  <2>2. \A t \in Streams : ~At("main", t)'
    BY <1>1, <2>1, AppendPlaces, Zenon DEF At, Actors, Appending, AppendStep
  <2> QED
    BY <1>1, <2>1, <2>2 DEF Complete, Over
<1> QED
  BY <1>2, <1>3

LEMMA ReadCompletes ==
  ASSUME BlobInv, Complete, NEW a \in Actors, NEW s \in Streams, ReadOutput(a, s)
  PROVE  Complete'
<1>1. PICK c :
        /\ c = [i \in 1..(log[s] - pos[s]) |-> pos[s] + i]
        /\ chunk' = [chunk EXCEPT ![a] = c]
        /\ UNCHANGED <<pc, blob, unsent, log, pos, script, orphan>>
        /\ At(a, s) /\ log[s] > pos[s]
  BY DEF ReadOutput, HasNew, runVars
<1>2. Sent("out")' = Sent("out") /\ Sent("err")' = Sent("err")
  BY <1>1 DEF Sent
<1>3. \A t \in Streams : At("main", t)' <=> At("main", t)
  BY <1>1, Zenon DEF At
<1>4. CASE a = "ticker"
  <2>1. chunk'["main"] = chunk["main"]
    BY <1>1, <1>4 DEF BlobInv, BlobTypes, Actors
  <2> QED
    BY <1>1, <1>2, <1>3, <2>1 DEF Complete
<1>5. CASE a = "main"
  <2>1. chunk'["main"] = c
    BY <1>1, <1>5 DEF BlobInv, BlobTypes, Actors
  <2>2. pos[s] \in Nat /\ log[s] \in Nat \cup {NoLog}
    BY DEF BlobInv, BlobTypes
  <2>3. PICK k \in Nat : k = log[s] - pos[s]
    BY <1>1, <2>2 DEF NoLog
  <2>4. Len(c) = k
    <3>1. c = [i \in 1..k |-> pos[s] + i]
      BY <1>1, <2>3
    <3>2. c \in [1..k -> Nat]
      BY <3>1, <2>2, <2>3
    <3>3. c \in Seq(Nat)
      BY <3>2, <2>3, SeqDef
    <3>4. DOMAIN c = 1..Len(c) /\ Len(c) \in Nat
      BY <3>3, LenProperties
    <3> QED
      BY <3>2, <3>4, <2>3
  <2>5. pos[s] + Len(c) = log[s]
    BY <2>2, <2>3, <2>4 DEF NoLog
  <2>6. \A t \in Streams : At("main", t) => t = s
    <3> TAKE t \in Streams
    <3> HAVE At("main", t)
    <3>1. AppendStep(s) = AppendStep(t)
      BY <1>1, <1>5, AppendPlaces
    <3> QED
      BY <3>1, DistinctSteps
  <2>7. \A t \in Streams : At("main", t)' /\ chunk'["main"] # <<>> =>
            pos'[t] + Len(chunk'["main"]) = log'[t]
    BY <1>1, <1>3, <2>1, <2>5, <2>6
  <2> QED
    BY <1>1, <1>2, <2>7 DEF Complete
<1> QED
  BY <1>4, <1>5 DEF Actors

(* The end of an append by the command: of all there was, or noted as a     *)
(* failure.                                                                 *)
LEMMA AppendCompletes ==
  ASSUME BlobInv, Complete, NEW a \in Actors, NEW s \in Streams,
         \/ NothingNew(a, s) \/ AppendBlock(a, s)
         \/ AppendFails(a, s) \/ AppendAnswerLost(a, s)
  PROVE  Complete'
<1>1. /\ At(a, s) /\ AfterAppend(a, s)
      /\ UNCHANGED <<blob, log, script, orphan>>
      /\ unsent \subseteq unsent'
      /\ \/ chunk' = chunk /\ chunk[a] = <<>>
         \/ chunk' = [chunk EXCEPT ![a] = <<>>]
      /\ \A t \in Streams : t # s => pos'[t] = pos[t]
  BY DEF NothingNew, AppendBlock, AppendFails, AppendAnswerLost, LeftUnsent, runVars,
         BlobInv, BlobTypes
<1>2. CASE a = "ticker"
  <2>1. pc' = pc /\ pc \in During
    BY <1>1, <1>2, Alone, Zenon DEF AfterAppend
  <2>2. \A t \in Streams : ~At("main", t)'
    BY <2>1, AppendPlaces, Zenon DEF At, Actors, Appending, AppendStep, During
  <2> QED
    BY <1>1, <2>1, <2>2 DEF Complete, During, Over
<1>3. CASE a = "main"
  <2>1. chunk'["main"] = <<>>
    BY <1>1, <1>3 DEF BlobInv, BlobTypes, Actors
  <2>2. /\ s = "out" => pc = "append out" /\ pc' = "append err"
        /\ s = "err" => pc = "append err" /\ pc' = "clean up"
    BY <1>1, <1>3, Zenon DEF At, AppendStep, AfterAppend, Streams
  <2>3. ASSUME ~orphan PROVE Sent(s)'
    <3>1. CASE NothingNew(a, s)
      BY <3>1 DEF NothingNew, HasNew, Sent, runVars
    <3>2. CASE AppendBlock(a, s)
      <4>1. pos[s] + Len(chunk["main"]) = log[s]
        BY <1>1, <1>3, <2>3, <3>2 DEF Complete, AppendBlock
      <4>2. pos'[s] = pos[s] + Len(chunk["main"]) /\ log' = log
        BY <1>1, <1>3, <3>2 DEF AppendBlock, BlobInv, BlobTypes
      <4>3. log[s] \in Nat \cup {NoLog}
        BY DEF BlobInv, BlobTypes
      <4> QED
        BY <4>1, <4>2, <4>3 DEF Sent, NoLog
    <3>3. CASE AppendFails(a, s) \/ AppendAnswerLost(a, s)
      BY <3>3, <1>3 DEF AppendFails, AppendAnswerLost, LeftUnsent, Sent
    <3> QED
      BY <3>1, <3>2, <3>3
  <2>4. \A t \in Streams : t # s /\ Sent(t) => Sent(t)'
    BY <1>1 DEF Sent
  <2>5. pc' # "run" => script' # "running"
    BY <1>1, <2>2 DEF Complete, Streams
  <2> QED
    BY <1>1, <2>1, <2>2, <2>3, <2>4, <2>5 DEF Complete, Streams, Over
<1> QED
  BY <1>2, <1>3 DEF Actors

LEMMA NextCompletes ==
  ASSUME BlobInv, Complete, [Next]_vars
  PROVE  Complete'
<1>1. CASE DownloadSteps \/ RunSteps \/ UNCHANGED vars
  <2>1. QuietStep
    BY <1>1, DownloadStepsQuiet, RunStepsQuiet, SameIsQuiet DEF BlobInv
  <2> QED
    BY <2>1, QuietCompletes
<1>2. ASSUME NEW s \in Streams, WriteOutput(s) PROVE Complete'
  BY <1>2, WriteCompletes
<1>3. ASSUME NEW a \in Actors, NEW s \in Streams, ReadOutput(a, s) PROVE Complete'
  BY <1>3, ReadCompletes
<1>4. ASSUME NEW a \in Actors, NEW s \in Streams,
             \/ NothingNew(a, s) \/ AppendBlock(a, s)
             \/ AppendFails(a, s) \/ AppendAnswerLost(a, s)
      PROVE  Complete'
  BY <1>4, AppendCompletes
<1> QED
  BY <1>1, <1>2, <1>3, <1>4, StepsOfNext, Zenon

LEMMA InitCompletes ==
  ASSUME Init
  PROVE  Complete
<1>1. \A s \in Streams : ~At("main", s)
  BY AppendPlaces, Zenon DEF Init, At, Actors, Appending, AppendStep
<1> QED
  BY <1>1 DEF Init, Complete, Over

(* The invariant holds: the command and the goroutine never append at the   *)
(* same time, and the command sends what is left (cmds.go:283-322).         *)
THEOREM BlobInvariance == Spec => [](BlobInv /\ Complete)
<1>1. Init => BlobInv /\ Complete
  BY InitCorrect, InitCompletes
<1>2. BlobInv /\ Complete /\ [Next]_vars => (BlobInv /\ Complete)'
  BY NextCorrect, NextCompletes
<1> QED
  BY <1>1, <1>2, PTL DEF Spec

(* When the command has exited, everything that was printed is in the blob, *)
(* but for a last append that failed or a child that still prints (cmds.go: *)
(* 320-322, 371-379).                                                       *)
THEOREM OutputSent == Spec => []OutputComplete
<1>1. Complete => OutputComplete
  BY DEF Complete, OutputComplete, Sent, Streams, Over
<1> QED
  BY <1>1, BlobInvariance, PTL

(* After the result nothing is reported: the goroutine is gone (cmds.go:    *)
(* 283-306).                                                                *)
THEOREM ResultReportedLast == Spec => ResultLast
<1>1. ASSUME BlobInv, [Next]_vars, pc = "exited" PROVE UNCHANGED status
  <2>1. CASE DownloadSteps \/ RunSteps \/ UNCHANGED vars
    <3>1. QuietStep
      BY <1>1, <2>1, DownloadStepsQuiet, RunStepsQuiet, SameIsQuiet DEF BlobInv
    <3> QED
      BY <1>1, <3>1 DEF QuietStep, BlobInv, Places, Over
  <2>2. ASSUME NEW s \in Streams, WriteOutput(s) PROVE UNCHANGED status
    BY <2>2 DEF WriteOutput, tickVars
  <2>3. ASSUME NEW a \in Actors, NEW s \in Streams, ReadOutput(a, s)
        PROVE  UNCHANGED status
    BY <2>3 DEF ReadOutput, tickVars
  <2>4. ASSUME NEW a \in Actors, NEW s \in Streams,
               \/ NothingNew(a, s) \/ AppendBlock(a, s)
               \/ AppendFails(a, s) \/ AppendAnswerLost(a, s)
        PROVE  UNCHANGED status
    BY <2>4 DEF NothingNew, AppendBlock, AppendFails, AppendAnswerLost
  <2> QED
    BY <1>1, <2>1, <2>2, <2>3, <2>4, StepsOfNext, Zenon
<1>2. BlobInv /\ [Next]_vars => [pc = "exited" => UNCHANGED status]_status
  BY <1>1
<1> QED
  BY <1>2, BlobInvariance, PTL DEF Spec, ResultLast

-----------------------------------------------------------------------------
(* Types. Those of the steps, the log files and the positions are in        *)
(* BlobTypes.                                                               *)
Types ==
  /\ inline \in BOOLEAN /\ item \in 0..MaxArtifacts /\ it \in Items \cup {NoItem}
  /\ ways \in {<<>>, <<"url">>, <<"msi", "url">>}
  /\ way \in 1..2 /\ n \in 0..2
  /\ target \in Names /\ scriptPath \in Names
  /\ file \in [Names -> {"none", "part", "script", "artifact", "cut"}]
  /\ clashed \in BOOLEAN
  /\ blob \in [Streams -> BOOLEAN] /\ unsent \subseteq Streams
  /\ tick \in BOOLEAN /\ timed \in BOOLEAN /\ orphan \in BOOLEAN /\ failed \in BOOLEAN
  /\ status \in {"partial", "failed", "succeeded"}
  /\ script \in {"none", "running", "ended"}

LEMMA NamesOfItems ==
  /\ InlineName \in Names /\ MaxArtifacts \in Nat /\ 0 \in 0..MaxArtifacts
  /\ \A i \in Items \cup {NoItem} : i.name \in Names /\ i.last \in Names
  /\ \A b \in BlobSettings : b.named \in BOOLEAN
BY ExecutionAssumption DEF NoItem

LEMMA WholeType ==
  /\ Whole \in {"script", "artifact"}
  /\ item = 0 => Whole = "script"
<1>1. CASE item = 0
  BY <1>1, Zenon DEF Whole
<1>2. CASE item # 0
  BY <1>2, Zenon DEF Whole
<1> QED
  BY <1>1, <1>2

LEMMA DownloadTypes ==
  ASSUME Types, DownloadSteps
  PROVE  Types'
<1> USE NamesOfItems DEF Types, download, fileVars, blobVars, tickVars, runVars
<1>1. CASE Inline
  BY <1>1 DEF Inline
<1>2. CASE NoDirectory
  BY <1>2 DEF NoDirectory, Return
<1>3. CASE BadArtifacts
  BY <1>3 DEF BadArtifacts, Return
<1>4. CASE NoMoreArtifacts
  BY <1>4 DEF NoMoreArtifacts
<1>5. CASE NoTarget
  BY <1>5 DEF NoTarget, Return
<1>6. CASE GetBody
  BY <1>6 DEF GetBody
<1>7. CASE PostProcess
  BY <1>7 DEF PostProcess, Put
<1>8. CASE NothingToProcess
  BY <1>8 DEF NothingToProcess, Return
<1>9. ASSUME NEW r \in Statuses, SasRefused(r) PROVE Types'
  BY <1>9 DEF SasRefused
<1>10. CASE SasFails
  BY <1>10 DEF SasFails
<1>11. CASE SasAnswers
  BY <1>11 DEF SasAnswers, Put
<1>12. CASE SasCopyEnds
  <2>1. file' \in {file, [file EXCEPT ![target] = Whole]}
    BY <1>12 DEF SasCopyEnds, Put
  <2>2. UNCHANGED <<download, inline, scriptPath, clashed, blobVars, tickVars, runVars, failed>>
    BY <1>12 DEF SasCopyEnds
  <2> QED
    BY <2>1, <2>2, WholeType
<1>13. CASE CopyBody
  BY <1>13, WholeType DEF CopyBody, Put
<1>14. CASE CopyBreaks
  BY <1>14 DEF CopyBreaks, Return
<1>15. ASSUME NEW i \in Items, FromURI(i) PROVE Types'
  BY <1>15 DEF FromURI, StartDownload
<1>16. ASSUME NEW i \in Items, NextArtifact(i) PROVE Types'
  BY <1>16 DEF NextArtifact, StartDownload
<1>17. ASSUME NEW token \in BOOLEAN, OpenTarget(token) PROVE Types'
  BY <1>17 DEF OpenTarget, Put
<1>18. ASSUME NEW r \in Statuses, TryAgain(r) PROVE Types'
  BY <1>18 DEF TryAgain, expRetryN
<1>19. ASSUME NEW r \in Statuses, GiveUp(r) PROVE Types'
  <2>1. way' \in 1..2
    <3>1. Len(<<>>) = 0 /\ Len(<<"url">>) = 1 /\ Len(<<"msi", "url">>) = 2
      OBVIOUS
    <3>2. Len(ways) \in {0, 1, 2}
      BY <3>1, Zenon
    <3>3. CASE way < Len(ways)
      <4>1. way' = way + 1
        BY <1>19, <3>3, Zenon DEF GiveUp
      <4>2. \A k \in {0, 1, 2} : way < k => way + 1 \in 1..2
        OBVIOUS
      <4> QED
        BY <3>2, <3>3, <4>1, <4>2, Zenon
    <3>4. CASE ~(way < Len(ways))
      BY <1>19, <3>4 DEF GiveUp, Return
    <3> QED
      BY <3>3, <3>4
  <2>2. n' \in {0, n} /\ failed' \in BOOLEAN
    BY <1>19 DEF GiveUp, Return
  <2>3. UNCHANGED <<item, it, ways, target, fileVars, blobVars, tickVars, runVars>>
    BY <1>19 DEF GiveUp
  <2> QED
    BY <2>1, <2>2, <2>3
<1>20. ASSUME NEW s \in Streams, CreateNone(s) PROVE Types'
  BY <1>20 DEF CreateNone, AfterCreate
<1>21. ASSUME NEW s \in Streams, CreateFails(s) PROVE Types'
  BY <1>21 DEF CreateFails, Return
<1>22. ASSUME NEW s \in Streams, NEW b \in BlobSettings, CreateWithSas(s, b) PROVE Types'
  BY <1>22 DEF CreateWithSas, AfterCreate
<1>23. ASSUME NEW s \in Streams, NEW b \in BlobSettings, CreateWithIdentity(s, b) PROVE Types'
  BY <1>23 DEF CreateWithIdentity, AfterCreate
<1> QED
  BY <1>1, <1>2, <1>3, <1>4, <1>5, <1>6, <1>7, <1>8, <1>9, <1>10, <1>11,
     <1>12, <1>13, <1>14, <1>15, <1>16, <1>17, <1>18, <1>19, <1>20,
     <1>21, <1>22, <1>23
     DEF DownloadSteps

LEMMA RunTypes ==
  ASSUME Types, RunSteps
  PROVE  Types'
<1> USE NamesOfItems DEF Types, download, fileVars, blobVars, tickVars, runVars
<1>1. CASE StartTicker
  BY <1>1 DEF StartTicker
<1>2. CASE SaveScript
  BY <1>2 DEF SaveScript, Put
<1>3. CASE SaveFails
  BY <1>3 DEF SaveFails, FailRun, Put
<1>4. CASE OpenLogs
  BY <1>4 DEF OpenLogs
<1>5. CASE NoStart
  BY <1>5 DEF NoStart, FailRun
<1>6. CASE StopTicker
  BY <1>6 DEF StopTicker
<1>7. CASE Done
  BY <1>7 DEF Done
<1>8. CASE CleanUp
  BY <1>8 DEF CleanUp
<1>9. CASE ReportResult
  BY <1>9 DEF ReportResult
<1>10. CASE TakeTick \/ Reported
  <2>1. CASE TakeTick
    BY <2>1 DEF TakeTick
  <2>2. CASE Reported
    BY <2>2 DEF Reported
  <2> QED
    BY <1>10, <2>1, <2>2
<1>11. CASE Fire
  BY <1>11 DEF Fire
<1>12. CASE EndScript
  BY <1>12 DEF EndScript, FailRun
<1>13. CASE Timeout
  BY <1>13 DEF Timeout, FailRun
<1>14. ASSUME NEW s \in Streams, OpenLogFails(s) PROVE Types'
  BY <1>14 DEF OpenLogFails, FailRun
<1>15. ASSUME NEW limit \in BOOLEAN, StartScript(limit) PROVE Types'
  BY <1>15 DEF StartScript
<1> QED
  BY <1>1, <1>2, <1>3, <1>4, <1>5, <1>6, <1>7, <1>8, <1>9, <1>10, <1>11,
     <1>12, <1>13, <1>14, <1>15
     DEF RunSteps

LEMMA AppendTypes ==
  ASSUME Types, NEW a \in Actors, NEW s \in Streams,
         \/ ReadOutput(a, s)
         \/ \/ NothingNew(a, s) \/ AppendBlock(a, s)
            \/ AppendFails(a, s) \/ AppendAnswerLost(a, s)
  PROVE  Types'
<1>1. UNCHANGED <<download, fileVars, blob, tick, status, script, timed, orphan, failed>>
  BY DEF ReadOutput, NothingNew, AppendBlock, AppendFails, AppendAnswerLost, tickVars, runVars
<1>2. unsent' \in {unsent, unsent \cup {s}}
  BY DEF ReadOutput, NothingNew, AppendBlock, AppendFails, AppendAnswerLost, LeftUnsent
<1> QED
  BY <1>1, <1>2 DEF Types, download, fileVars

LEMMA NextTypes ==
  ASSUME Types, [Next]_vars
  PROVE  Types'
<1>1. CASE DownloadSteps
  BY <1>1, DownloadTypes
<1>2. CASE RunSteps
  BY <1>2, RunTypes
<1>3. CASE UNCHANGED vars
  BY <1>3 DEF Types, vars, download, fileVars, blobVars, tickVars, runVars
<1>4. ASSUME NEW s \in Streams, WriteOutput(s) PROVE Types'
  BY <1>4 DEF WriteOutput, Types, download, fileVars, blobVars, tickVars
<1>5. ASSUME NEW a \in Actors, NEW s \in Streams,
             \/ ReadOutput(a, s)
             \/ \/ NothingNew(a, s) \/ AppendBlock(a, s)
                \/ AppendFails(a, s) \/ AppendAnswerLost(a, s)
      PROVE  Types'
  BY <1>5, AppendTypes
<1> QED
  BY <1>1, <1>2, <1>3, <1>4, <1>5, StepsOfNext, Zenon

LEMMA InitTypes ==
  ASSUME Init
  PROVE  Types
<1>1. file \in [Names -> {"none", "part", "script", "artifact", "cut"}]
  BY DEF Init
<1>2. blob \in [Streams -> BOOLEAN] /\ unsent \subseteq Streams
  BY DEF Init
<1>3. /\ item \in 0..MaxArtifacts /\ it \in Items \cup {NoItem}
      /\ ways \in {<<>>, <<"url">>, <<"msi", "url">>}
  BY NamesOfItems DEF Init
<1>4. way \in 1..2 /\ n \in 0..2 /\ target \in Names /\ scriptPath \in Names
  BY NamesOfItems DEF Init
<1>5. /\ inline \in BOOLEAN /\ clashed \in BOOLEAN /\ tick \in BOOLEAN /\ timed \in BOOLEAN
      /\ orphan \in BOOLEAN /\ failed \in BOOLEAN
      /\ status \in {"partial", "failed", "succeeded"}
      /\ script \in {"none", "running", "ended"}
  BY DEF Init
<1> QED
  BY <1>1, <1>2, <1>3, <1>4, <1>5 DEF Types

(* Every variable keeps its type.                                           *)
THEOREM TypeCorrect == Spec => []TypeOK
<1>1. Init => Types
  BY InitTypes
<1>2. Types /\ [Next]_vars => Types'
  BY NextTypes
<1>3. Types /\ BlobInv => TypeOK
  <2> SUFFICES ASSUME Types, BlobInv PROVE TypeOK
    OBVIOUS
  <2>1. pc \in Steps
    BY DEF BlobInv, BlobTypes, Steps, Before, During, Appending, Over
  <2>2. n \in 0..(expRetryN - 1)
    BY DEF Types, expRetryN
  <2>3. DownloadOK
    BY <2>1, <2>2 DEF Types, DownloadOK
  <2>4. BlobsOK
    BY DEF Types, BlobInv, BlobTypes, BlobsOK
  <2>5. {tick, timed, orphan, failed} \subseteq BOOLEAN
    BY Zenon DEF Types
  <2>6. RunOK
    BY <2>5 DEF Types, BlobInv, BlobTypes, RunOK
  <2> QED
    BY <2>3, <2>4, <2>6 DEF TypeOK
<1> QED
  BY <1>1, <1>2, <1>3, BlobInvariance, PTL DEF Spec

-----------------------------------------------------------------------------
(* The script that will run is there from the end of its download on, or,   *)
(* when it comes with the settings, from SaveScript on. Before, its file    *)
(* may be a part of one; an artifact does not touch it, or has its name.    *)
Ready == file[scriptPath] \in {"script", "cut"} \/ clashed
Saving == {"sas copy", "fetch", "copy", "post"}
Downloading == {"sas", "ways"} \cup Saving
Waiting == {"artifacts", "create out", "create err", "ticker", "save"}
Starting == {"logs", "exec", "run"}

OfScript ==
  /\ it.name = scriptPath /\ it.last = scriptPath
  /\ pc = "sas" => file[scriptPath] = "none"
  /\ pc = "post" => file[scriptPath] \in {"none", "script"}
OfArtifact == Ready /\ (clashed \/ scriptPath \notin {it.name, it.last})

ScriptInv ==
  /\ pc = "directory" => ~inline /\ item = 0 /\ \A f \in Names : file[f] = "none"
  /\ pc \in Saving => target \in {it.name, it.last}
  /\ ~inline /\ pc \in Downloading => IF item = 0 THEN OfScript ELSE OfArtifact
  /\ ~inline /\ pc \in Waiting => Ready
  /\ pc \in Starting => Ready

(* Steps that the script need not fear.                                     *)
Elsewhere ==
  \/ /\ UNCHANGED fileVars
     /\ \/ UNCHANGED <<pc, item, it, target>>
        \/ pc \in Waiting /\ pc' \in Waiting
        \/ pc \in Starting /\ pc' \in Starting
  \/ pc' \notin {"directory"} \cup Downloading \cup Waiting \cup Starting

LEMMA ElsewhereKeeps ==
  ASSUME ScriptInv, Elsewhere
  PROVE  ScriptInv'
<1>1. CASE UNCHANGED fileVars /\ UNCHANGED <<pc, item, it, target>>
  BY <1>1 DEF ScriptInv, OfScript, OfArtifact, Ready, fileVars
<1>2. CASE UNCHANGED fileVars /\ pc \in Waiting /\ pc' \in Waiting
  BY <1>2 DEF ScriptInv, Ready, Saving, Downloading, Waiting, Starting, fileVars
<1>3. CASE UNCHANGED fileVars /\ pc \in Starting /\ pc' \in Starting
  BY <1>3 DEF ScriptInv, Ready, Saving, Downloading, Waiting, Starting, fileVars
<1>4. CASE pc' \notin {"directory"} \cup Downloading \cup Waiting \cup Starting
  BY <1>4 DEF ScriptInv, Saving, Downloading, Waiting, Starting
<1> QED
  BY <1>1, <1>2, <1>3, <1>4 DEF Elsewhere

LEMMA DownloadKeepsScript ==
  ASSUME BlobTypes, Types, ScriptInv, DownloadSteps
  PROVE  ScriptInv'
<1> USE NamesOfItems DEF download, fileVars, Types, Saving, Downloading, Waiting, Starting
<1>1. CASE Inline
  BY <1>1 DEF Inline, ScriptInv, OfScript, OfArtifact, Ready
<1>2. CASE NoDirectory
  BY <1>2, ElsewhereKeeps DEF Elsewhere, NoDirectory, Return
<1>3. CASE BadArtifacts
  BY <1>3, ElsewhereKeeps DEF Elsewhere, BadArtifacts, Return
<1>4. CASE NoMoreArtifacts
  BY <1>4, ElsewhereKeeps DEF Elsewhere, NoMoreArtifacts
<1>5. CASE NoTarget
  BY <1>5, ElsewhereKeeps DEF Elsewhere, NoTarget, Return
<1>6. CASE GetBody
  BY <1>6 DEF GetBody, ScriptInv, OfScript, OfArtifact, Ready
<1>7. CASE PostProcess
  BY <1>7 DEF PostProcess, ScriptInv, OfScript, OfArtifact, Ready, Put
<1>8. CASE NothingToProcess
  BY <1>8, ElsewhereKeeps DEF Elsewhere, NothingToProcess, Return
<1>9. ASSUME NEW r \in Statuses, SasRefused(r) PROVE ScriptInv'
  BY <1>9 DEF SasRefused, ScriptInv, OfScript, OfArtifact, Ready
<1>10. CASE SasFails
  BY <1>10 DEF SasFails, ScriptInv, OfScript, OfArtifact, Ready
<1>11. CASE SasAnswers
  BY <1>11 DEF SasAnswers, ScriptInv, OfScript, OfArtifact, Ready, Put
<1>12. CASE SasCopyEnds
  BY <1>12, WholeType DEF SasCopyEnds, ScriptInv, OfScript, OfArtifact, Ready, Put
<1>13. CASE CopyBody
  BY <1>13, WholeType DEF CopyBody, ScriptInv, OfScript, OfArtifact, Ready, Put
<1>14. CASE CopyBreaks
  BY <1>14, ElsewhereKeeps DEF Elsewhere, CopyBreaks, Return
<1>15. ASSUME NEW i \in Items, FromURI(i) PROVE ScriptInv'
  BY <1>15 DEF FromURI, ScriptInv, OfScript, OfArtifact, Ready, StartDownload
<1>16. ASSUME NEW i \in Items, NextArtifact(i) PROVE ScriptInv'
  <2>1. Ready \/ inline
    BY <1>16 DEF NextArtifact, ScriptInv
  <2>2. /\ it' = i /\ item' = item + 1 /\ pc' \in {"sas", "ways"}
        /\ clashed' = (clashed \/ (~inline /\ scriptPath \in {i.name, i.last}))
        /\ UNCHANGED <<target, inline, file, scriptPath>>
    BY <1>16 DEF NextArtifact, StartDownload
  <2>3. ~inline => OfArtifact'
    BY <2>1, <2>2 DEF OfArtifact, Ready
  <2>4. item' # 0
    BY <2>2
  <2> QED
    BY <2>2, <2>3, <2>4 DEF ScriptInv
<1>17. ASSUME NEW token \in BOOLEAN, OpenTarget(token) PROVE ScriptInv'
  BY <1>17 DEF OpenTarget, ScriptInv, OfScript, OfArtifact, Ready, Put
<1>18. ASSUME NEW r \in Statuses, TryAgain(r) PROVE ScriptInv'
  BY <1>18, ElsewhereKeeps DEF Elsewhere, TryAgain, expRetryN
<1>19. ASSUME NEW r \in Statuses, GiveUp(r) PROVE ScriptInv'
  BY <1>19, ElsewhereKeeps DEF Elsewhere, GiveUp, Return
<1>20. ASSUME NEW s \in Streams, CreateNone(s) PROVE ScriptInv'
  BY <1>20, ElsewhereKeeps DEF Elsewhere, CreateNone, Creating, CreateStep, AfterCreate
<1>21. ASSUME NEW s \in Streams, CreateFails(s) PROVE ScriptInv'
  BY <1>21, ElsewhereKeeps DEF Elsewhere, CreateFails, Creating, CreateStep, Return
<1>22. ASSUME NEW s \in Streams, NEW b \in BlobSettings, CreateWithSas(s, b) PROVE ScriptInv'
  BY <1>22, ElsewhereKeeps DEF Elsewhere, CreateWithSas, Creating, CreateStep, AfterCreate
<1>23. ASSUME NEW s \in Streams, NEW b \in BlobSettings, CreateWithIdentity(s, b) PROVE ScriptInv'
  BY <1>23, ElsewhereKeeps DEF Elsewhere, CreateWithIdentity, Creating, CreateStep, AfterCreate
<1> QED
  BY <1>1, <1>2, <1>3, <1>4, <1>5, <1>6, <1>7, <1>8, <1>9, <1>10, <1>11,
     <1>12, <1>13, <1>14, <1>15, <1>16, <1>17, <1>18, <1>19, <1>20,
     <1>21, <1>22, <1>23
     DEF DownloadSteps

LEMMA RunKeepsScript ==
  ASSUME BlobTypes, Types, ScriptInv, RunSteps
  PROVE  ScriptInv'
<1> USE DEF download, fileVars, Saving, Downloading, Waiting, Starting
<1>1. CASE StartTicker
  BY <1>1, ElsewhereKeeps DEF Elsewhere, StartTicker
<1>2. CASE SaveScript
  BY <1>2, NamesOfItems DEF SaveScript, Put, ScriptInv, Ready, Types
<1>3. CASE SaveFails
  BY <1>3, ElsewhereKeeps DEF Elsewhere, SaveFails, FailRun, Put
<1>4. CASE OpenLogs
  BY <1>4, ElsewhereKeeps DEF Elsewhere, OpenLogs
<1>5. CASE NoStart
  BY <1>5, ElsewhereKeeps DEF Elsewhere, NoStart, FailRun
<1>6. CASE StopTicker
  BY <1>6, ElsewhereKeeps DEF Elsewhere, StopTicker
<1>7. CASE Done
  BY <1>7, ElsewhereKeeps DEF Elsewhere, Done
<1>8. CASE CleanUp
  BY <1>8, ElsewhereKeeps DEF Elsewhere, CleanUp
<1>9. CASE ReportResult
  BY <1>9, ElsewhereKeeps DEF Elsewhere, ReportResult
<1>10. CASE TakeTick \/ Reported
  BY <1>10, ElsewhereKeeps DEF Elsewhere, TakeTick, Reported
<1>11. CASE Fire
  BY <1>11, ElsewhereKeeps DEF Elsewhere, Fire
<1>12. CASE EndScript
  BY <1>12, ElsewhereKeeps DEF Elsewhere, EndScript, FailRun
<1>13. CASE Timeout
  BY <1>13, ElsewhereKeeps DEF Elsewhere, Timeout, FailRun
<1>14. ASSUME NEW s \in Streams, OpenLogFails(s) PROVE ScriptInv'
  BY <1>14, ElsewhereKeeps DEF Elsewhere, OpenLogFails, FailRun
<1>15. ASSUME NEW limit \in BOOLEAN, StartScript(limit) PROVE ScriptInv'
  BY <1>15, ElsewhereKeeps DEF Elsewhere, StartScript
<1> QED
  BY <1>1, <1>2, <1>3, <1>4, <1>5, <1>6, <1>7, <1>8, <1>9, <1>10, <1>11,
     <1>12, <1>13, <1>14, <1>15
     DEF RunSteps

LEMMA NextKeepsScript ==
  ASSUME BlobInv, Types, ScriptInv, [Next]_vars
  PROVE  ScriptInv'
<1>1. CASE DownloadSteps \/ RunSteps
  BY <1>1, DownloadKeepsScript, RunKeepsScript DEF BlobInv
<1>2. CASE UNCHANGED vars
  BY <1>2, ElsewhereKeeps DEF Elsewhere, vars, download
<1>3. ASSUME NEW s \in Streams, WriteOutput(s) PROVE ScriptInv'
  BY <1>3, ElsewhereKeeps DEF Elsewhere, WriteOutput, download
<1>4. ASSUME NEW a \in Actors, NEW s \in Streams, ReadOutput(a, s) PROVE ScriptInv'
  BY <1>4, ElsewhereKeeps DEF Elsewhere, ReadOutput, download
<1>5. ASSUME NEW a \in Actors, NEW s \in Streams,
             \/ NothingNew(a, s) \/ AppendBlock(a, s)
             \/ AppendFails(a, s) \/ AppendAnswerLost(a, s)
      PROVE  ScriptInv'
  <2>1. At(a, s) /\ AfterAppend(a, s) /\ UNCHANGED <<download, fileVars>>
    BY <1>5 DEF NothingNew, AppendBlock, AppendFails, AppendAnswerLost
  <2>2. pc' = pc \/ pc' \in {"append err", "clean up"}
    BY <2>1, Zenon DEF AfterAppend
  <2>3. Elsewhere
    BY <2>1, <2>2 DEF Elsewhere, download, Downloading, Saving, Waiting, Starting
  <2> QED
    BY <2>3, ElsewhereKeeps
<1> QED
  BY <1>1, <1>2, <1>3, <1>4, <1>5, StepsOfNext, Zenon

(* No part of a script is ever run (files.go:61-97, 163-181, blob.go:76-127, *)
(* save.go:19-36).                                                          *)
THEOREM WholeScriptsRun == Spec => []ScriptWhole
<1>1. Init => Types /\ ScriptInv
  <2>1. Init => ScriptInv
    BY DEF Init, ScriptInv, Saving, Downloading, Waiting, Starting
  <2> QED
    BY <2>1, InitTypes
<1>2. BlobInv /\ Types /\ ScriptInv /\ [Next]_vars => (Types /\ ScriptInv)'
  BY NextTypes, NextKeepsScript
<1>3. Complete /\ ScriptInv => ScriptWhole
  BY DEF Complete, ScriptInv, ScriptWhole, Starting, Ready
<1> QED
  BY <1>1, <1>2, <1>3, BlobInvariance, PTL DEF Spec

-----------------------------------------------------------------------------
(* The answers to the requests of a download. While it is fetched with one  *)
(* downloader (Fetching) that one has had n answers, none of which settles  *)
(* anything, the one before it is used up and the one after it not asked.   *)
Sources == Ways \cup {"sas"}
Answers == answers \in [Sources -> Seq(Int)]
FewTries ==
  \A w \in Ways :
    Len(answers[w]) <= 3 /\ \A i \in 1..(Len(answers[w]) - 1) : ~Settled(answers[w][i])
InOrder == answers["url"] # <<>> /\ Len(ways) = 2 => Exhausted("msi")
Fetching ==
  /\ ways \in {<<"url">>, <<"msi", "url">>} /\ way \in 1..Len(ways)
  /\ Len(answers[ways[way]]) = n
  /\ \A i \in 1..n : ~Settled(answers[ways[way]][i])
  /\ way = 1 /\ Len(ways) = 2 => answers["url"] = <<>>
  /\ way = 2 => Exhausted("msi")
  /\ NoBody

(* When nothing is fetched: nothing was asked yet, or the download is over. *)
Fetched == {"copy", "post", "returned", "exited"}
Tries ==
  /\ Answers /\ FewTries /\ InOrder
  /\ pc = "fetch" => Fetching
  /\ pc \notin {"fetch"} \cup Fetched => answers = NoAnswers
  /\ pc \in Fetched /\ answers # NoAnswers /\ NoBody =>
       RefusedSas \/ \A i \in 1..Len(ways) : Exhausted(ways[i])

(* The downloader in use.                                                   *)
InUse(c) ==
  \/ ways = <<"url">> /\ Len(ways) = 1 /\ way = 1 /\ c = "url"
  \/ /\ ways = <<"msi", "url">> /\ Len(ways) = 2
     /\ \/ way = 1 /\ c = "msi" /\ answers["url"] = <<>>
        \/ way = 2 /\ c = "url" /\ Exhausted("msi")

(* Steps that ask nothing.                                                  *)
Unasked ==
  /\ UNCHANGED <<ways, way, n, answers>>
  /\ \/ pc' = pc
     \/ pc \notin {"fetch"} \cup Fetched /\ pc' # "fetch"
     \/ pc \in Fetched /\ pc' \in Fetched

(* They keep what is said of the answers.                                   *)
LEMMA UnaskedKeeps ==
  ASSUME Tries, Unasked
  PROVE  Tries'
BY DEF Tries, Unasked, Answers, FewTries, InOrder, Fetching, NoBody, RefusedSas, Exhausted,
       Last, Fetched

(* Nothing has been asked.                                                  *)
LEMMA NoneAsked ==
  /\ NoAnswers \in [Sources -> Seq(Int)]
  /\ \A w \in Ways : NoAnswers[w] = <<>> /\ Len(NoAnswers[w]) = 0
BY DEF NoAnswers, Sources

(* While it is fetched, one is in use.                                      *)
LEMMA SomeInUse ==
  ASSUME Tries, pc = "fetch"
  PROVE  \E c \in Ways : c = ways[way] /\ InUse(c)
<1>1. Fetching
  BY DEF Tries
<1>2. CASE ways = <<"url">>
  BY <1>1, <1>2 DEF Fetching, InUse, Ways
<1>3. CASE ways = <<"msi", "url">> /\ way = 1
  BY <1>1, <1>3 DEF Fetching, InUse, Ways
<1>4. CASE ways = <<"msi", "url">> /\ way = 2
  BY <1>1, <1>4 DEF Fetching, InUse, Ways
<1>5. QED  BY <1>1, <1>2, <1>3, <1>4 DEF Fetching

(* One answer more for the downloader in use.                               *)
LEMMA OneAnswered ==
  ASSUME Tries, pc = "fetch", NEW c \in Ways, c = ways[way], NEW a \in Int, Answered(a)
  PROVE  /\ n \in Nat /\ Answers'
         /\ Len(answers'[c]) = n + 1 /\ answers'[c] # <<>> /\ answers'[c][n + 1] = a
         /\ Last(c)' = a
         /\ \A i \in 1..n : ~Settled(answers'[c][i])
         /\ \A w \in Ways : w # c => answers'[w] = answers[w] /\ Last(w)' = Last(w)
                                     /\ Exhausted(w)' = Exhausted(w)
<1>1. Fetching /\ Answers /\ Ways \subseteq Sources
  BY DEF Tries, Sources
<1>2. answers[c] \in Seq(Int) /\ Len(answers[c]) = n /\ n \in Nat
  BY <1>1 DEF Answers, Fetching
<1>3. /\ answers'[c] = Append(answers[c], a)
      /\ \A w \in Ways : w # c => answers'[w] = answers[w]
      /\ answers' = [answers EXCEPT ![c] = Append(@, a)]
  BY <1>1 DEF Answered, Answers
<1>4. /\ Append(answers[c], a) \in Seq(Int) /\ Len(Append(answers[c], a)) = n + 1
      /\ Append(answers[c], a)[n + 1] = a
      /\ \A i \in 1..n : Append(answers[c], a)[i] = answers[c][i]
      /\ Append(answers[c], a) # <<>>
  BY <1>2
<1>5. Answers'
  BY <1>1, <1>3, <1>4 DEF Answers
<1>6. Last(c)' = a
  BY <1>3, <1>4 DEF Last
<1>7. \A i \in 1..n : ~Settled(answers'[c][i])
  BY <1>1, <1>3, <1>4 DEF Fetching
<1>8. \A w \in Ways : w # c => Last(w)' = Last(w) /\ Exhausted(w)' = Exhausted(w)
  BY <1>3 DEF Last, Exhausted
<1>9. QED  BY <1>2, <1>3, <1>4, <1>5, <1>6, <1>7, <1>8

(* What an answer leaves of the order and the number of requests.           *)
LEMMA AnsweredInOrder ==
  ASSUME Tries, pc = "fetch", NEW c \in Ways, c = ways[way], InUse(c), NEW a \in Int,
         Answered(a), UNCHANGED ways, n <= 2
  PROVE  FewTries' /\ InOrder'
<1>1. /\ n \in Nat /\ Len(answers'[c]) = n + 1
      /\ \A i \in 1..n : ~Settled(answers'[c][i])
      /\ \A w \in Ways : w # c => answers'[w] = answers[w] /\ Exhausted(w)' = Exhausted(w)
  BY OneAnswered
<1>2. FewTries'
  <2> SUFFICES ASSUME NEW w \in Ways
               PROVE  /\ Len(answers'[w]) <= 3
                      /\ \A i \in 1..(Len(answers'[w]) - 1) : ~Settled(answers'[w][i])
    BY DEF FewTries
  <2>1. CASE w = c
    <3>1. Len(answers'[w]) <= 3 /\ Len(answers'[w]) - 1 = n
      BY <1>1, <2>1
    <3>2. QED  BY <1>1, <2>1, <3>1
  <2>2. CASE w # c
    BY <1>1, <2>2 DEF Tries, FewTries
  <2>3. QED  BY <2>1, <2>2
<1>3. InOrder'
  BY <1>1 DEF InOrder, InUse, Ways
<1>4. QED  BY <1>2, <1>3

(* What the answers to a status are.                                        *)
LEMMA StatusFacts ==
  ASSUME NEW a \in Statuses
  PROVE  /\ a \in Int /\ a # 200
         /\ Retryable(a) <=> ~Settled(a)
<1>1. a \in ((100..599) \ {200}) \cup {NoRequest}
  BY ExecutionAssumption
<1>2. a \in Int /\ a # 200
  BY <1>1 DEF NoRequest
<1>3. NoRequest \notin AccessIssue
  BY DEF NoRequest, AccessIssue
<1>4. QED  BY <1>2, <1>3 DEF Retryable, Settled

(* The steps that count: the downloaders are chosen; ...                    *)
LEMMA OpenKeepsTries ==
  ASSUME Tries, NEW token \in BOOLEAN, OpenTarget(token)
  PROVE  Tries'
<1>1. /\ pc' = "fetch" /\ ways' \in {<<"url">>, <<"msi", "url">>}
      /\ way' = 1 /\ n' = 0 /\ answers' = NoAnswers
  BY DEF OpenTarget
<1>2. Len(ways') \in {1, 2} /\ ways'[1] \in Ways /\ 1 \in 1..Len(ways')
  BY <1>1 DEF Ways
<1>3. "url" \in Ways
  BY DEF Ways
<1>4. Answers' /\ FewTries' /\ InOrder'
  BY <1>1, <1>3, NoneAsked DEF Answers, FewTries, InOrder
<1>5. Fetching'
  BY <1>1, <1>2, <1>3, NoneAsked DEF Fetching, NoBody
<1>6. QED  BY <1>1, <1>4, <1>5 DEF Tries, Fetched

(* ... a body, which ends the requests; ...                                 *)
LEMMA BodyKeepsTries ==
  ASSUME Tries, n \in 0..2, GetBody
  PROVE  Tries'
<1>0. PICK c \in Ways : c = ways[way] /\ InUse(c)
  BY SomeInUse DEF GetBody
<1>1. pc = "fetch" /\ pc' = "copy" /\ Answered(200) /\ UNCHANGED ways
  BY DEF GetBody
<1>2. FewTries' /\ InOrder'
  BY <1>0, <1>1, AnsweredInOrder
<1>3. Answers' /\ ~NoBody'
  BY <1>0, <1>1, OneAnswered DEF NoBody
<1>4. QED  BY <1>1, <1>2, <1>3 DEF Tries, Fetched

(* ... an answer after which the same downloader is asked again; ...        *)
LEMMA AgainKeepsTries ==
  ASSUME Tries, NEW a \in Statuses, TryAgain(a)
  PROVE  Tries'
<1>0. PICK c \in Ways : c = ways[way] /\ InUse(c)
  BY SomeInUse DEF TryAgain
<1>1. pc = "fetch" /\ pc' = "fetch" /\ Answered(a) /\ UNCHANGED <<ways, way>>
      /\ Retryable(a) /\ n < 2 /\ n' = n + 1
  BY DEF TryAgain, expRetryN
<1>2. a \in Int /\ a # 200 /\ ~Settled(a)
  BY <1>1, StatusFacts
<1>3. Fetching
  BY <1>1 DEF Tries
<1>4. /\ n \in Nat /\ Answers'
      /\ Len(answers'[c]) = n + 1 /\ Last(c)' = a
      /\ \A i \in 1..n : ~Settled(answers'[c][i])
      /\ \A w \in Ways : w # c => answers'[w] = answers[w] /\ Last(w)' = Last(w)
                                  /\ Exhausted(w)' = Exhausted(w)
  BY <1>0, <1>1, <1>2, OneAnswered
<1>5. FewTries' /\ InOrder'
  <2>1. n <= 2
    BY <1>1, <1>4
  <2>2. QED  BY <1>0, <1>1, <1>2, <2>1, AnsweredInOrder
<1>6. \A i \in 1..(n + 1) : ~Settled(answers'[c][i])
  <2>1. ~Settled(answers'[c][n + 1])
    BY <1>2, <1>4 DEF Last
  <2>2. \A i \in 1..(n + 1) : i \in 1..n \/ i = n + 1
    BY <1>4
  <2>3. QED  BY <1>4, <2>1, <2>2
<1>7. NoBody'
  BY <1>2, <1>3, <1>4 DEF Fetching, NoBody
<1>8. Fetching'
  <2>1. "msi" \in Ways /\ "url" \in Ways
    BY DEF Ways
  <2>2. /\ way' = 1 /\ Len(ways') = 2 => answers'["url"] = <<>>
        /\ way' = 2 => Exhausted("msi")'
    BY <1>0, <1>1, <1>4, <2>1 DEF InUse
  <2>3. QED  BY <1>0, <1>1, <1>3, <1>4, <1>6, <1>7, <2>2 DEF Fetching
<1>9. QED  BY <1>1, <1>4, <1>5, <1>8 DEF Tries, Fetched

(* ... an answer that is the last of its downloader; ...                    *)
LEMMA GiveUpKeepsTries ==
  ASSUME Tries, n \in 0..2, NEW a \in Statuses, GiveUp(a)
  PROVE  Tries'
<1>0. PICK c \in Ways : c = ways[way] /\ InUse(c)
  BY SomeInUse DEF GiveUp
<1>1. /\ pc = "fetch" /\ Answered(a) /\ UNCHANGED ways
      /\ ~Retryable(a) \/ n >= 2
      /\ way < Len(ways) => way' = way + 1 /\ n' = 0 /\ pc' = pc
      /\ ~(way < Len(ways)) => pc' = "returned"
  BY DEF GiveUp, expRetryN, Return
<1>2. a \in Int /\ a # 200 /\ (Settled(a) \/ n = 2)
  BY <1>1, StatusFacts
<1>3. Fetching
  BY <1>1 DEF Tries
<1>4. /\ n \in Nat /\ Answers'
      /\ Len(answers'[c]) = n + 1 /\ answers'[c] # <<>> /\ Last(c)' = a
      /\ \A w \in Ways : w # c => answers'[w] = answers[w] /\ Last(w)' = Last(w)
                                  /\ Exhausted(w)' = Exhausted(w)
  BY <1>0, <1>1, <1>2, OneAnswered
<1>5. FewTries' /\ InOrder'
  <2>1. n <= 2
    OBVIOUS
  <2>2. QED  BY <1>0, <1>1, <1>2, <2>1, AnsweredInOrder
<1>6. Exhausted(c)'
  BY <1>1, <1>2, <1>4 DEF Exhausted
<1>7. NoBody'
  BY <1>2, <1>3, <1>4 DEF Fetching, NoBody
<1>8. "msi" \in Ways /\ "url" \in Ways /\ "msi" # "url"
  BY DEF Ways
<1>9. CASE way < Len(ways)
  <2>1. /\ ways' = <<"msi", "url">> /\ Len(ways') = 2 /\ way' = 2 /\ n' = 0 /\ pc' = "fetch"
        /\ c = "msi" /\ answers'["url"] = <<>>
    <3>1. ways = <<"msi", "url">> /\ Len(ways) = 2 /\ way = 1 /\ c = "msi"
          /\ answers["url"] = <<>>
      <4>1. ~(Len(ways) = 1 /\ way = 1) /\ ~(Len(ways) = 2 /\ way = 2)
        BY <1>9
      <4>2. QED  BY <1>0, <4>1, Zenon DEF InUse
    <3>2. answers'["url"] = answers["url"]
      BY <1>4, <1>8, <3>1
    <3>3. way' = 2 /\ n' = 0 /\ pc' = "fetch"
      BY <1>1, <1>9, <3>1
    <3>4. QED  BY <1>1, <3>1, <3>2, <3>3
  <2>2. ways'[way'] = "url" /\ Len(answers'["url"]) = 0
    BY <2>1
  <2>3. Fetching'
    BY <1>6, <1>7, <2>1, <2>2, <1>1 DEF Fetching
  <2>4. QED  BY <1>4, <1>5, <2>1, <2>3 DEF Tries, Fetched
<1>10. CASE ~(way < Len(ways))
  <2>1. pc' = "returned"
    BY <1>1, <1>10
  <2>2. (\A i \in 1..Len(ways) : Exhausted(ways[i]))'
    <3>1. CASE ways = <<"url">>
      <4>1. c = "url" /\ ways' = <<"url">>
        BY <1>0, <1>1, <3>1 DEF InUse
      <4>2. \A i \in 1..Len(ways') : ways'[i] = "url"
        BY <4>1
      <4>3. QED  BY <1>6, <4>1, <4>2
    <3>2. CASE ways # <<"url">>
      <4>1. ways' = <<"msi", "url">> /\ c = "url" /\ Exhausted("msi")
        BY <1>0, <1>1, <1>10, <3>2 DEF InUse
      <4>2. Exhausted("msi")' /\ Exhausted("url")'
        BY <1>4, <1>6, <1>8, <4>1
      <4>3. \A i \in 1..Len(ways') : ways'[i] = "msi" \/ ways'[i] = "url"
        BY <4>1
      <4>4. QED  BY <4>2, <4>3
    <3>3. QED  BY <3>1, <3>2
  <2>3. QED  BY <1>4, <1>5, <2>1, <2>2 DEF Tries, Fetched
<1>11. QED  BY <1>9, <1>10

(* ... and the end of the download, after which all answers are forgotten.  *)
LEMMA ProcessKeepsTries ==
  ASSUME Tries, PostProcess
  PROVE  Tries'
<1>1. pc' = "artifacts" /\ ways' = <<>> /\ answers' = NoAnswers
  BY DEF PostProcess
<1>2. "url" \in Ways
  BY DEF Ways
<1>3. QED  BY <1>1, <1>2, NoneAsked DEF Tries, Fetched, Answers, FewTries, InOrder

(* A refused SAS, after which nothing is asked.                             *)
LEMMA RefusalKeepsTries ==
  ASSUME Tries, NEW a \in Statuses, SasRefused(a)
  PROVE  Tries'
<1>1. /\ pc = "sas" /\ pc' = "post" /\ UNCHANGED <<ways, way, n>>
      /\ answers' = [NoAnswers EXCEPT !["sas"] = <<a>>]
  BY DEF SasRefused, Tries, Fetched
<1>2. a \in Int /\ <<a>> \in Seq(Int) /\ <<a>> # <<>>
  BY StatusFacts
<1>3. "sas" \in Sources /\ "sas" \notin Ways /\ "url" \in Ways /\ Ways \subseteq Sources
  BY DEF Sources, Ways
<1>4. \A w \in Ways : answers'[w] = <<>> /\ Len(answers'[w]) = 0
  BY <1>1, <1>3, NoneAsked
<1>5. Answers' /\ RefusedSas'
  BY <1>1, <1>2, <1>3, NoneAsked DEF Answers, RefusedSas
<1>6. FewTries' /\ InOrder'
  BY <1>3, <1>4 DEF FewTries, InOrder
<1>7. QED  BY <1>1, <1>5, <1>6 DEF Tries, Fetched

(* The other steps of the downloads and of the blobs ask nothing.           *)
LEMMA DownloadKeepsTries ==
  ASSUME Tries, n \in 0..2, DownloadSteps
  PROVE  Tries'
<1> USE DEF Unasked, Fetched, download
<1>1. CASE Inline \/ NoDirectory \/ BadArtifacts \/ NoMoreArtifacts \/ NoTarget
  BY <1>1, UnaskedKeeps
  DEF Inline, NoDirectory, BadArtifacts, NoMoreArtifacts, NoTarget, Return
<1>2. CASE NothingToProcess \/ SasFails \/ SasAnswers \/ SasCopyEnds
  BY <1>2, UnaskedKeeps DEF NothingToProcess, SasFails, SasAnswers, SasCopyEnds, Return
<1>3. CASE CopyBody \/ CopyBreaks
  BY <1>3, UnaskedKeeps DEF CopyBody, CopyBreaks, Return
<1>4. ASSUME NEW i \in Items, FromURI(i) \/ NextArtifact(i)  PROVE Tries'
  <2>1. pc' \in {"sas", "ways"} /\ pc \in {"directory", "artifacts"}
    BY <1>4 DEF FromURI, NextArtifact, StartDownload
  <2>2. UNCHANGED <<ways, way, n, answers>>
    BY <1>4 DEF FromURI, NextArtifact
  <2>3. QED  BY <2>1, <2>2, UnaskedKeeps
<1>5. ASSUME NEW s \in Streams, Creating(s), AfterCreate(s) \/ Return, UNCHANGED download
      PROVE  Tries'
  <2>1. pc \in {"create out", "create err"} /\ pc' \in {"create err", "ticker", "returned"}
    BY <1>5 DEF Creating, CreateStep, AfterCreate, Return
  <2>2. QED  BY <1>5, <2>1, UnaskedKeeps
<1>6. ASSUME NEW s \in Streams, NEW b \in BlobSettings,
             CreateWithSas(s, b) \/ CreateWithIdentity(s, b)
      PROVE  Tries'
  BY <1>5, <1>6 DEF CreateWithSas, CreateWithIdentity
<1>7. ASSUME NEW s \in Streams, CreateNone(s) \/ CreateFails(s)  PROVE Tries'
  BY <1>5, <1>7 DEF CreateNone, CreateFails
<1>8. QED
  BY <1>1, <1>2, <1>3, <1>4, <1>6, <1>7, OpenKeepsTries, BodyKeepsTries, AgainKeepsTries,
     GiveUpKeepsTries, ProcessKeepsTries, RefusalKeepsTries DEF DownloadSteps

(* Neither does the rest of the command.                                    *)
LEMMA RunKeepsTries ==
  ASSUME Tries, RunSteps
  PROVE  Tries'
<1> USE DEF Unasked, Fetched, download
<1>1. CASE StartTicker \/ SaveScript \/ SaveFails \/ OpenLogs \/ NoStart \/ StopTicker
  BY <1>1, UnaskedKeeps
  DEF StartTicker, SaveScript, SaveFails, OpenLogs, NoStart, StopTicker, FailRun
<1>2. CASE Done \/ CleanUp \/ ReportResult \/ TakeTick \/ Reported \/ Fire \/ EndScript \/ Timeout
  BY <1>2, UnaskedKeeps
  DEF Done, CleanUp, ReportResult, TakeTick, Reported, Fire, EndScript, Timeout, FailRun
<1>3. ASSUME NEW s \in Streams, OpenLogFails(s)  PROVE Tries'
  BY <1>3, UnaskedKeeps DEF OpenLogFails, FailRun
<1>4. ASSUME NEW limit \in BOOLEAN, StartScript(limit)  PROVE Tries'
  BY <1>4, UnaskedKeeps DEF StartScript
<1>5. QED  BY <1>1, <1>2, <1>3, <1>4 DEF RunSteps

(* Every step keeps the invariant.                                          *)
LEMMA NextKeepsTries ==
  ASSUME Types, BlobTypes, Tries, [Next]_vars
  PROVE  Tries'
<1>1. n \in 0..2
  BY DEF Types
<1>2. CASE DownloadSteps \/ RunSteps
  BY <1>1, <1>2, DownloadKeepsTries, RunKeepsTries
<1>3. CASE UNCHANGED vars
  BY <1>3, UnaskedKeeps DEF Unasked, vars, download
<1>4. ASSUME NEW s \in Streams, WriteOutput(s)  PROVE Tries'
  BY <1>4, UnaskedKeeps DEF Unasked, WriteOutput, download
<1>5. ASSUME NEW a \in Actors, NEW s \in Streams, ReadOutput(a, s)  PROVE Tries'
  BY <1>5, UnaskedKeeps DEF Unasked, ReadOutput, download
<1>6. ASSUME NEW a \in Actors, NEW s \in Streams,
             \/ NothingNew(a, s) \/ AppendBlock(a, s)
             \/ AppendFails(a, s) \/ AppendAnswerLost(a, s)
      PROVE  Tries'
  <2>1. At(a, s) /\ AfterAppend(a, s) /\ UNCHANGED download
    BY <1>6 DEF NothingNew, AppendBlock, AppendFails, AppendAnswerLost
  <2>2. \/ pc' = pc
        \/ pc \in {"append out", "append err"} /\ pc' \in {"append err", "clean up"}
    BY <2>1, Zenon DEF At, AppendStep, AfterAppend
  <2>3. Unasked
    BY <2>1, <2>2 DEF Unasked, download, Fetched
  <2>4. QED  BY <2>3, UnaskedKeeps
<1>7. QED  BY <1>2, <1>3, <1>4, <1>5, <1>6, StepsOfNext, Zenon

(* Each downloader is tried up to its limit, in order, and all of them are  *)
(* before a download that has asked fails for want of a body, unless its    *)
(* SAS was refused (retry.go:22-77, blob.go:87-89).                         *)
THEOREM EveryDownloaderIsTried == Spec => []EveryDownloaderTried
<1>1. Init => Types /\ BlobTypes /\ Tries
  <2>1. Init => Tries
    <3>1. "url" \in Ways
      BY DEF Ways
    <3>2. QED
      BY <3>1, NoneAsked DEF Init, Tries, Fetched, Answers, FewTries, InOrder
  <2>2. Init => BlobTypes
    BY InitCorrect DEF BlobInv
  <2>3. QED  BY <2>1, <2>2, InitTypes
<1>2. BlobInv /\ Types /\ Tries /\ [Next]_vars => (Types /\ Tries)'
  BY NextTypes, NextKeepsTries DEF BlobInv
<1>3. Tries => EveryDownloaderTried
  BY DEF Tries, FewTries, InOrder, Fetched, EveryDownloaderTried
<1>4. QED  BY <1>1, <1>2, <1>3, BlobInvariance, PTL DEF Spec
=============================================================================
