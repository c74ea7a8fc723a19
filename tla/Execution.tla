------------------------------ MODULE Execution ------------------------------
(***************************************************************************)
(* The inside of one enable, from its settings to its result: the script   *)
(* and the artifacts are downloaded (SAS, managed identity, public URL,    *)
(* with retries), the output blobs are created, and the script runs while  *)
(* a goroutine, driven by a ticker, reports and appends what the script    *)
(* has printed. What the processes of several commands do to each other is *)
(* in CommandProcessing.                                                   *)
(*                                                                         *)
(* A setting is chosen at the step that first reads it. A file is none, a  *)
(* part, or the whole of the script or of an artifact; the output of a     *)
(* stream is its pieces 1, 2, ... Ghosts: answers, clashed, unsent.        *)
(***************************************************************************)
EXTENDS Integers, Sequences

CONSTANTS
  Names,         \* file names in the script directory
  InlineName,    \* the one of a script that comes with the settings, script.sh
  Items,         \* what can be downloaded
  MaxArtifacts,  \* bound: artifacts of a command
  Statuses,      \* answers to a request that are not 200: HTTP statuses, NoRequest
  BlobSettings,  \* what the settings say of an output blob
  MaxOutput,     \* bound, by stream: pieces that the script prints
  MaxLost,       \* bound: appends that are done and whose answer is lost
  DiskFails      \* whether writing a file may fail

NoRequest == -1
expRetryN == 3
AccessIssue == {401, 403, 404, 409}
Transient == {408, 429, 500, 502, 503, 504}

ASSUME ExecutionAssumption ==
  /\ InlineName \in Names
  (* name: FileName; last: the last segment of the URL; azure: a storage     *)
  (* blob; both: ClientId and ObjectId are given.                            *)
  /\ Items \subseteq [name: Names, last: Names, sas: BOOLEAN, azure: BOOLEAN,
                      both: BOOLEAN]
  (* named: the URL has a name after the container; object: ObjectId only.   *)
  /\ BlobSettings \subseteq [sas: BOOLEAN, named: BOOLEAN, object: BOOLEAN]
  /\ Statuses \subseteq ((100..599) \ {200}) \cup {NoRequest}
  /\ MaxArtifacts \in Nat /\ MaxOutput \in [{"out", "err"} -> Nat] /\ MaxLost \in Nat
  /\ DiskFails \in BOOLEAN

Streams == {"out", "err"}
Actors == {"main", "ticker"}
Ways == {"msi", "url"}
NoAnswers == [w \in Ways \cup {"sas"} |-> <<>>]
NoItem == [name |-> InlineName, last |-> InlineName, sas |-> FALSE, azure |-> FALSE,
           both |-> FALSE]
NoLog == -1

VARIABLES
  pc,                    \* the step of the command
  inline, item, it,      \* script in the settings; number and settings of the download
  ways, way, n,          \* its downloaders, the one in use, failed attempts with it
  target, file, scriptPath,
  blob,                  \* stream -> whether it has a blob
  log, pos, remote,      \* stream -> pieces in its file, position, pieces in its blob
  chunk,                 \* actor -> pieces it has read and not yet appended
  tpc, tick,             \* the goroutine, its ticker's channel
  script, timed, orphan, \* the script, its TimeoutInSeconds, whether it left a child
  failed, status,
  answers, clashed,  \* ghosts of the downloads
  unsent                 \* ghost of the blobs

download == <<item, it, ways, way, n, target, answers>>
fileVars == <<inline, file, scriptPath, clashed>>
blobVars == <<blob, pos, remote, chunk, unsent>>
tickVars == <<tpc, tick, status>>
runVars == <<log, script, timed, orphan>>
vars == <<pc, download, fileVars, blobVars, tickVars, runVars, failed>>

Init ==
  /\ pc = "directory"
  /\ inline = FALSE /\ item = 0 /\ it = NoItem
  /\ ways = <<>> /\ way = 1 /\ n = 0 /\ answers = NoAnswers
  /\ target = InlineName /\ scriptPath = InlineName
  /\ file = [f \in Names |-> "none"] /\ clashed = FALSE
  /\ blob = [s \in Streams |-> FALSE]
  /\ log = [s \in Streams |-> NoLog] /\ pos = [s \in Streams |-> 0]
  /\ remote = [s \in Streams |-> <<>>] /\ chunk = [a \in Actors |-> <<>>]
  /\ unsent = {}
  /\ tpc = "none" /\ tick = FALSE
  /\ status = "partial"
  /\ script = "none" /\ timed = FALSE /\ orphan = FALSE
  /\ failed = FALSE

(* An error before the script: enable returns at once.                      *)
Return == pc' = "returned" /\ failed' = TRUE

-----------------------------------------------------------------------------
(* downloadScript makes the directory. The script is in the settings, or    *)
(* has a URL, which may be invalid or without a file name.                  *)
NoDirectory ==
  /\ pc = "directory"
  /\ Return
  /\ UNCHANGED <<download, fileVars, blobVars, tickVars, runVars>>

Inline ==
  /\ pc = "directory"
  /\ inline' = TRUE /\ pc' = "artifacts"
  /\ UNCHANGED <<download, file, scriptPath, clashed, blobVars, tickVars, runVars,
                 failed>>

(* downloadAndProcessURL: the SAS first, if there is one.                   *)
StartDownload(i) == it' = i /\ pc' = IF i.sas THEN "sas" ELSE "ways"

FromURI(i) ==
  /\ pc = "directory" /\ i.name = i.last
  /\ StartDownload(i) /\ scriptPath' = i.name
  /\ UNCHANGED <<item, ways, way, n, target, answers, inline, file, clashed,
                 blobVars, tickVars, runVars, failed>>

(* downloadArtifacts. The name of an artifact is free: it may be that of    *)
(* the script.                                                              *)
NextArtifact(i) ==
  /\ pc = "artifacts" /\ item < MaxArtifacts
  /\ item' = item + 1
  /\ StartDownload(i)
  /\ clashed' = (clashed \/ (~inline /\ scriptPath \in {i.name, i.last}))
  /\ UNCHANGED <<ways, way, n, target, answers, inline, file, scriptPath,
                 blobVars, tickVars, runVars, failed>>

(* ReadArtifacts found no match, or a URL is not valid.                     *)
BadArtifacts ==
  /\ pc = "artifacts"
  /\ Return
  /\ UNCHANGED <<download, fileVars, blobVars, tickVars, runVars>>

NoMoreArtifacts ==
  /\ pc = "artifacts"
  /\ pc' = "create out" /\ it' = NoItem /\ item' = 0 /\ target' = InlineName
  /\ UNCHANGED <<ways, way, n, answers, fileVars, blobVars, tickVars, runVars, failed>>

-----------------------------------------------------------------------------
Whole == IF item = 0 THEN "script" ELSE "artifact"
Put(f, content) == file' = [file EXCEPT ![f] = content]

(* GetSASBlob: an answer that is not OK gives no path and, as there is no   *)
(* error to wrap, no error either: nothing else is tried; ...               *)
SasRefused(a) ==
  /\ pc = "sas" /\ a # NoRequest
  /\ answers' = [answers EXCEPT !["sas"] = <<a>>]
  /\ target' = it.name /\ pc' = "post"
  /\ UNCHANGED <<item, it, ways, way, n, fileVars, blobVars, tickVars, runVars, failed>>

(* ... no answer is an error, and the downloaders are next; ...             *)
SasFails ==
  /\ pc = "sas"
  /\ pc' = "ways"
  /\ UNCHANGED <<download, fileVars, blobVars, tickVars, runVars, failed>>

(* ... the answer OK is copied to the last segment of the URL, whatever     *)
(* FileName says.                                                           *)
SasAnswers ==
  /\ pc = "sas"
  /\ target' = it.last /\ Put(it.last, "part")
  /\ pc' = "sas copy"
  /\ UNCHANGED <<item, it, ways, way, n, answers, inline, scriptPath, clashed,
                 blobVars, tickVars, runVars, failed>>

SasCopyEnds ==
  /\ pc = "sas copy"
  /\ \/ Put(target, Whole) /\ pc' = "post"
     \/ UNCHANGED file /\ pc' = "ways"
  /\ UNCHANGED <<download, inline, scriptPath, clashed, blobVars, tickVars,
                 runVars, failed>>

(* getDownloaders asks for a token: without one there is the public URL     *)
(* only. SaveTo truncates the file before it asks for the body.             *)
OpenTarget(token) ==
  /\ pc = "ways" /\ ~(it.azure /\ it.both)
  /\ ways' = IF it.azure /\ token THEN <<"msi", "url">> ELSE <<"url">>
  /\ way' = 1 /\ n' = 0 /\ answers' = NoAnswers
  /\ target' = it.name /\ Put(it.name, "part")
  /\ pc' = "fetch"
  /\ UNCHANGED <<item, it, inline, scriptPath, clashed, blobVars, tickVars,
                 runVars, failed>>

NoTarget ==
  /\ pc = "ways"
  /\ (it.azure /\ it.both) \/ DiskFails
  /\ Return
  /\ UNCHANGED <<download, fileVars, blobVars, tickVars, runVars>>

Answered(a) == answers' = [answers EXCEPT ![ways[way]] = Append(@, a)]

(* WithRetries. An access issue, or a status that will not change, is the   *)
(* end of this downloader.                                                  *)
Retryable(a) == a = NoRequest \/ a \in Transient \ AccessIssue

GetBody ==
  /\ pc = "fetch"
  /\ Answered(200)
  /\ pc' = "copy"
  /\ UNCHANGED <<item, it, ways, way, n, target, fileVars, blobVars, tickVars, runVars,
                 failed>>

(* Mutant: expRetryN retries after the first attempt.                       *)
OneMoreTry(a) ==
  /\ pc = "fetch" /\ Retryable(a) /\ n < expRetryN
  /\ Answered(a)
  /\ n' = n + 1
  /\ UNCHANGED <<pc, item, it, ways, way, target, fileVars, blobVars, tickVars, runVars,
                 failed>>

TryAgain(a) ==
  /\ pc = "fetch" /\ Retryable(a) /\ n < expRetryN - 1
  /\ Answered(a)
  /\ n' = n + 1
  /\ UNCHANGED <<pc, item, it, ways, way, target, fileVars, blobVars, tickVars, runVars,
                 failed>>

(* Mutant: an access issue is the end of all downloaders.                   *)
GiveUpAll(a) ==
  /\ pc = "fetch" /\ (~Retryable(a) \/ n >= expRetryN - 1)
  /\ Answered(a)
  /\ IF way < Len(ways) /\ a \notin AccessIssue
       THEN way' = way + 1 /\ n' = 0 /\ UNCHANGED <<pc, failed>>
       ELSE Return /\ UNCHANGED <<way, n>>
  /\ UNCHANGED <<item, it, ways, target, fileVars, blobVars, tickVars, runVars>>

GiveUp(a) ==
  /\ pc = "fetch" /\ (~Retryable(a) \/ n >= expRetryN - 1)
  /\ Answered(a)
  /\ IF way < Len(ways)
       THEN way' = way + 1 /\ n' = 0 /\ UNCHANGED <<pc, failed>>
       ELSE Return /\ UNCHANGED <<way, n>>
  /\ UNCHANGED <<item, it, ways, target, fileVars, blobVars, tickVars, runVars>>

CopyBody ==
  /\ pc = "copy"
  /\ Put(target, Whole) /\ pc' = "post"
  /\ UNCHANGED <<download, inline, scriptPath, clashed, blobVars, tickVars,
                 runVars, failed>>

(* Mutant: the error of the copy is not looked at.                          *)
CopyBreaksUnseen ==
  /\ pc = "copy"
  /\ pc' = "post"
  /\ UNCHANGED <<download, fileVars, blobVars, tickVars, runVars, failed>>

CopyBreaks ==
  /\ pc = "copy"
  /\ Return
  /\ UNCHANGED <<download, fileVars, blobVars, tickVars, runVars>>

(* PostProcessFile reads the file and writes it anew; the error of that     *)
(* write is overwritten by the one of a rename to the same name.            *)
PostProcess ==
  /\ pc = "post" /\ file[target] # "none"
  /\ \/ UNCHANGED file
     \/ DiskFails /\ Put(target, "cut")
  /\ pc' = "artifacts"
  /\ ways' = <<>> /\ way' = 1 /\ n' = 0 /\ answers' = NoAnswers
  /\ UNCHANGED <<item, it, target, inline, scriptPath, clashed, blobVars, tickVars,
                 runVars, failed>>

NothingToProcess ==
  /\ pc = "post" /\ file[target] = "none"
  /\ Return
  /\ UNCHANGED <<download, fileVars, blobVars, tickVars, runVars>>

-----------------------------------------------------------------------------
(* createOrReplaceAppendBlob, for the output and then for the errors. A URL *)
(* without a name after the container gives neither a blob nor an error.    *)
CreateStep(s) == IF s = "out" THEN "create out" ELSE "create err"
Creating(s) == pc = CreateStep(s)
AfterCreate(s) == pc' = IF s = "out" THEN "create err" ELSE "ticker"

CreateNone(s) ==
  /\ Creating(s)
  /\ AfterCreate(s)
  /\ UNCHANGED <<download, fileVars, blobVars, tickVars, runVars, failed>>

CreateWithSas(s, b) ==
  /\ Creating(s) /\ b.sas
  /\ blob' = [blob EXCEPT ![s] = b.named]
  /\ AfterCreate(s)
  /\ UNCHANGED <<download, fileVars, pos, remote, chunk, unsent, tickVars, runVars,
                 failed>>

(* Without a SAS, or after it failed; an ObjectId is not supported.         *)
CreateWithIdentity(s, b) ==
  /\ Creating(s) /\ ~b.object
  /\ blob' = [blob EXCEPT ![s] = TRUE]
  /\ AfterCreate(s)
  /\ UNCHANGED <<download, fileVars, pos, remote, chunk, unsent, tickVars, runVars,
                 failed>>

CreateFails(s) ==
  /\ Creating(s)
  /\ Return
  /\ UNCHANGED <<download, fileVars, blobVars, tickVars, runVars>>

(* The goroutine starts. What is reported until the end, statusToReport, is *)
(* Transitioning, or Success with AsyncExecution (reported here already):   *)
(* partial.                                                                 *)
StartTicker ==
  /\ pc = "ticker"
  /\ tpc' = "idle" /\ pc' = "save"
  /\ UNCHANGED <<download, fileVars, blobVars, tick, status, runVars, failed>>

-----------------------------------------------------------------------------
(* RunCmd. What fails in it ends the execution like the end of the script.  *)
FailRun == pc' = "stop" /\ failed' = TRUE

SaveScript ==
  /\ pc = "save"
  /\ IF inline
       THEN Put(InlineName, "script") /\ scriptPath' = InlineName
       ELSE UNCHANGED <<file, scriptPath>>
  /\ pc' = "logs"
  /\ UNCHANGED <<download, inline, clashed, blobVars, tickVars, runVars, failed>>

SaveFails ==
  /\ pc = "save" /\ inline /\ DiskFails
  /\ Put(InlineName, "part")
  /\ FailRun
  /\ UNCHANGED <<download, inline, scriptPath, clashed, blobVars, tickVars,
                 runVars>>

(* ExecCmdInDir creates the log files.                                      *)
OpenLogs ==
  /\ pc = "logs"
  /\ log' = [s \in Streams |-> 0]
  /\ pc' = "exec"
  /\ UNCHANGED <<download, fileVars, blobVars, tickVars, script, timed, orphan, failed>>

OpenLogFails(s) ==
  /\ pc = "logs" /\ DiskFails
  /\ log' = [log EXCEPT !["out"] = IF s = "err" THEN 0 ELSE NoLog]
  /\ FailRun
  /\ UNCHANGED <<download, fileVars, blobVars, tickVars, script, timed, orphan>>

(* Exec. The checks of RunAsUser; a shell that cannot be started is an      *)
(* error (with exit code 0).                                                *)
NoStart ==
  /\ pc = "exec"
  /\ FailRun
  /\ UNCHANGED <<download, fileVars, blobVars, tickVars, runVars>>

StartScript(limit) ==
  /\ pc = "exec"
  /\ script' = "running" /\ timed' = limit
  /\ pc' = "run"
  /\ UNCHANGED <<download, fileVars, blobVars, tickVars, log, orphan, failed>>

(* The script, and a child that outlives it, prints.                        *)
WriteOutput(s) ==
  /\ script = "running" \/ orphan
  /\ log[s] < MaxOutput[s]
  /\ log' = [log EXCEPT ![s] = @ + 1]
  /\ UNCHANGED <<pc, download, fileVars, blobVars, tickVars, script, timed, orphan, failed>>

EndScript ==
  /\ pc = "run"
  /\ script' = "ended" /\ timed' = FALSE /\ orphan' \in BOOLEAN
  /\ \/ pc' = "stop" /\ UNCHANGED failed
     \/ FailRun
  /\ UNCHANGED <<download, fileVars, blobVars, tickVars, log>>

(* The context kills the shell, and not what the shell has started.         *)
Timeout ==
  /\ pc = "run" /\ timed
  /\ script' = "ended" /\ timed' = FALSE /\ orphan' \in BOOLEAN
  /\ FailRun
  /\ UNCHANGED <<download, fileVars, blobVars, tickVars, log>>

-----------------------------------------------------------------------------
(* ticker.Stop: no tick any more, but one may be in the channel.            *)
StopTicker ==
  /\ pc = "stop"
  /\ pc' = "done"
  /\ UNCHANGED <<download, fileVars, blobVars, tickVars, runVars, failed>>

(* Mutant: a channel with a buffer, the goroutine reads it when it can.     *)
DoneBuffered ==
  /\ pc = "done"
  /\ tpc' = IF tpc = "idle" THEN "stopped" ELSE tpc
  /\ pc' = "append out"
  /\ UNCHANGED <<download, fileVars, blobVars, tick, status, runVars, failed>>

(* done <- true waits for the goroutine to be back at its select.           *)
Done ==
  /\ pc = "done" /\ tpc = "idle"
  /\ tpc' = "stopped"
  /\ pc' = "append out"
  /\ UNCHANGED <<download, fileVars, blobVars, tick, status, runVars, failed>>

Fire ==
  /\ tpc \notin {"none", "stopped"}
  /\ pc \in {"save", "logs", "exec", "run", "stop"}
  /\ tick' = TRUE
  /\ UNCHANGED <<pc, download, fileVars, blobVars, tpc, status, runVars, failed>>

(* The report of the goroutine, which in the service sends a request.       *)
TakeTick ==
  /\ tpc = "idle" /\ tick
  /\ tick' = FALSE
  /\ status' = "partial"
  /\ tpc' = "report"
  /\ UNCHANGED <<pc, download, fileVars, blobVars, runVars, failed>>

Reported ==
  /\ tpc = "report"
  /\ tpc' = "append out"
  /\ UNCHANGED <<pc, download, fileVars, blobVars, tick, status, runVars, failed>>

-----------------------------------------------------------------------------
(* appendToBlob, by the goroutine after a tick and by the command at the    *)
(* end: what the file has from the position on is read, and appended.       *)
AppendStep(s) == IF s = "out" THEN "append out" ELSE "append err"
At(a, s) == AppendStep(s) = IF a = "main" THEN pc ELSE tpc
AfterAppend(a, s) ==
  IF a = "main"
    THEN pc' = (IF s = "out" THEN "append err" ELSE "clean up") /\ UNCHANGED tpc
    ELSE tpc' = (IF s = "out" THEN "append err" ELSE "idle") /\ UNCHANGED pc

(* The command appends once, at the end.                                    *)
LeftUnsent(a, s) == unsent' = IF a = "main" THEN unsent \cup {s} ELSE unsent

(* Mutant: the last piece of the file is left for the next time.            *)
HasMoreThanOne(s) == blob[s] /\ log[s] > pos[s] + 1

HasNew(s) == blob[s] /\ log[s] > pos[s]

ReadOutput(a, s) ==
  /\ At(a, s) /\ chunk[a] = <<>> /\ HasNew(s)
  /\ chunk' = [chunk EXCEPT ![a] = [i \in 1..(log[s] - pos[s]) |-> pos[s] + i]]
  /\ UNCHANGED <<pc, download, fileVars, blob, pos, remote, unsent, tickVars,
                 runVars, failed>>

NothingNew(a, s) ==
  /\ At(a, s) /\ chunk[a] = <<>> /\ ~HasNew(s)
  /\ AfterAppend(a, s)
  /\ UNCHANGED unsent
  /\ UNCHANGED <<download, fileVars, blob, pos, remote, chunk, tick,
                 status, runVars, failed>>

AppendBlock(a, s) ==
  /\ At(a, s) /\ chunk[a] # <<>>
  /\ remote' = [remote EXCEPT ![s] = @ \o chunk[a]]
  /\ pos' = [pos EXCEPT ![s] = @ + Len(chunk[a])]
  /\ chunk' = [chunk EXCEPT ![a] = <<>>]
  /\ UNCHANGED unsent
  /\ AfterAppend(a, s)
  /\ UNCHANGED <<download, fileVars, blob, tick, status, runVars, failed>>

(* Mutant: the position moves on although the append failed.                *)
AppendFailsMovesOn(a, s) ==
  /\ At(a, s) /\ chunk[a] # <<>>
  /\ pos' = [pos EXCEPT ![s] = @ + Len(chunk[a])]
  /\ chunk' = [chunk EXCEPT ![a] = <<>>]
  /\ LeftUnsent(a, s)
  /\ AfterAppend(a, s)
  /\ UNCHANGED <<download, fileVars, blob, remote, tick, status, runVars,
                 failed>>

(* Mutant: the goroutine returns at the first failed append.                *)
AppendFailsReturns(a, s) ==
  /\ At(a, s) /\ chunk[a] # <<>>
  /\ chunk' = [chunk EXCEPT ![a] = <<>>]
  /\ LeftUnsent(a, s)
  /\ IF a = "main" THEN AfterAppend(a, s) ELSE tpc' = "stopped" /\ UNCHANGED pc
  /\ UNCHANGED <<download, fileVars, blob, pos, remote, tick, status,
                 runVars, failed>>

AppendFails(a, s) ==
  /\ At(a, s) /\ chunk[a] # <<>>
  /\ chunk' = [chunk EXCEPT ![a] = <<>>]
  /\ LeftUnsent(a, s)
  /\ AfterAppend(a, s)
  /\ UNCHANGED <<download, fileVars, blob, pos, remote, tick, status,
                 runVars, failed>>

(* The block is appended and the answer is lost: an error all the same.     *)
AppendAnswerLost(a, s) ==
  /\ At(a, s) /\ chunk[a] # <<>> /\ Len(remote[s]) < MaxOutput[s] + MaxLost
  /\ remote' = [remote EXCEPT ![s] = @ \o chunk[a]]
  /\ chunk' = [chunk EXCEPT ![a] = <<>>]
  /\ LeftUnsent(a, s)
  /\ AfterAppend(a, s)
  /\ UNCHANGED <<download, fileVars, blob, pos, tick, status, runVars, failed>>

CleanUp ==
  /\ pc = "clean up"
  /\ pc' = "returned"
  /\ UNCHANGED <<download, fileVars, blobVars, tickVars, runVars, failed>>

(* The final report of ProcessHandlerCommandWithDetails.                    *)
ReportResult ==
  /\ pc = "returned"
  /\ status' = IF failed THEN "failed" ELSE "succeeded"
  /\ pc' = "exited"
  /\ UNCHANGED <<download, fileVars, blobVars, tpc, tick, runVars, failed>>

-----------------------------------------------------------------------------
(* The requests of a downloader have a timeout. That for a token, before    *)
(* them and by each of those with the identity, has none.                   *)
AsksToken ==
  \/ pc = "ways" /\ it.azure /\ ~it.both
  \/ pc = "fetch" /\ ways[way] = "msi"
Request ==
  \/ \E token \in BOOLEAN : OpenTarget(token)
  \/ NoTarget \/ GetBody \/ (\E a \in Statuses : TryAgain(a) \/ GiveUp(a))

(* Steps that wait for nothing but the processor, the disk, or a request    *)
(* with a timeout.                                                          *)
Local ==
  \/ Inline \/ NoDirectory \/ BadArtifacts \/ NoMoreArtifacts
  \/ \E i \in Items : FromURI(i) \/ NextArtifact(i)
  \/ ~AsksToken /\ Request
  \/ PostProcess \/ NothingToProcess
  \/ \E s \in Streams : OpenLogFails(s) \/ NothingNew("main", s) \/ ReadOutput("main", s)
  \/ SaveScript \/ SaveFails \/ OpenLogs
  \/ \E limit \in BOOLEAN : StartScript(limit)
  \/ NoStart \/ StopTicker \/ Done \/ CleanUp

(* Requests without a timeout, which may never end: tokens, transfers, and  *)
(* the reports, which the service sends to HGAP (statusreporter.go:32).     *)
Transfer ==
  \/ AsksToken /\ Request
  \/ \E a \in Statuses : SasRefused(a)
  \/ SasFails \/ SasAnswers \/ SasCopyEnds \/ CopyBody \/ CopyBreaks
  \/ StartTicker \/ Reported \/ ReportResult
  \/ \E s \in Streams :
       \/ CreateNone(s) \/ CreateFails(s)
       \/ \E b \in BlobSettings : CreateWithSas(s, b) \/ CreateWithIdentity(s, b)
       \/ \E a \in Actors : AppendBlock(a, s) \/ AppendFails(a, s) \/ AppendAnswerLost(a, s)

TickerStep ==
  \/ TakeTick
  \/ \E s \in Streams : ReadOutput("ticker", s) \/ NothingNew("ticker", s)

Next ==
  \/ Local \/ Transfer \/ TickerStep \/ Fire \/ EndScript \/ Timeout
  \/ \E s \in Streams : WriteOutput(s)

Spec == Init /\ [][Next]_vars

Fairness == WF_vars(Local) /\ WF_vars(TickerStep) /\ WF_vars(Timeout)
FairSpec == Spec /\ Fairness

-----------------------------------------------------------------------------
Steps == {"directory", "sas", "sas copy", "ways", "fetch", "copy", "post", "artifacts",
          "create out", "create err", "ticker", "save", "logs", "exec", "run", "stop",
          "done", "append out", "append err", "clean up", "returned", "exited"}

DownloadOK ==
  /\ pc \in Steps /\ inline \in BOOLEAN
  /\ item \in 0..MaxArtifacts /\ it \in Items \cup {NoItem}
  /\ ways \in {<<>>, <<"url">>, <<"msi", "url">>}
  /\ way \in 1..2 /\ n \in 0..(expRetryN - 1)
  /\ {target, scriptPath} \subseteq Names
  /\ file \in [Names -> {"none", "part", "script", "artifact", "cut"}]
  /\ clashed \in BOOLEAN
BlobsOK ==
  /\ blob \in [Streams -> BOOLEAN]
  /\ log \in [Streams -> Nat \cup {NoLog}]
  /\ pos \in [Streams -> Nat]
  /\ unsent \subseteq Streams
RunOK ==
  /\ tpc \in {"none", "idle", "report", "append out", "append err", "stopped"}
  /\ {tick, timed, orphan, failed} \subseteq BOOLEAN
  /\ status \in {"partial", "failed", "succeeded"}
  /\ script \in {"none", "running", "ended"}

(* Every variable has its type.                                             *)
TypeOK == DownloadOK /\ BlobsOK /\ RunOK

(* The script that runs is the whole script of the settings. A download     *)
(* that broke off, or was tried another way, never leaves a part of one to  *)
(* run; the exceptions are an artifact that takes the file name of the      *)
(* script, and a failed rewrite, whose error is dropped (files.go:61-97,    *)
(* 163-181, blob.go:76-127, save.go:19-36).                                 *)
ScriptWhole == script = "running" => file[scriptPath] \in {"script", "cut"} \/ clashed

Settled(a) == a \in AccessIssue \/ (a # NoRequest /\ a \notin Transient)
Last(w) == answers[w][Len(answers[w])]
Exhausted(w) == Len(answers[w]) = 3 \/ (answers[w] # <<>> /\ Settled(Last(w)))
NoBody == \A w \in Ways : answers[w] # <<>> => Last(w) # 200
RefusedSas == answers["sas"] # <<>>

(* A downloader is asked at most three times and not again after an answer  *)
(* that will not change; the next one is asked only when this one is used   *)
(* up, and a download that has asked fails without a body only when all     *)
(* downloaders are used up (retry.go:22-77) - or when its SAS was refused:  *)
(* that is not taken for the error after which, as files.go:70 says, the    *)
(* downloaders are attempted (blob.go:87-89).                               *)
EveryDownloaderTried ==
  /\ \A w \in Ways :
       Len(answers[w]) <= 3 /\ \A i \in 1..(Len(answers[w]) - 1) : ~Settled(answers[w][i])
  /\ answers["url"] # <<>> /\ Len(ways) = 2 => Exhausted("msi")
  /\ pc \in {"returned", "exited"} /\ answers # NoAnswers /\ NoBody =>
       RefusedSas \/ \A i \in 1..Len(ways) : Exhausted(ways[i])

(* The blob of a stream is an OutputBlob: in order, without a gap, twice    *)
(* only after a lost answer, and never after enable has returned - although *)
(* the command and the goroutine both append to it, each reading first and  *)
(* appending later (cmds.go:283-322, 355-383).                              *)
Printed(s) == IF log[s] = NoLog THEN 0 ELSE log[s]
AppendsOver == pc \in {"returned", "exited"}
OutBlob == INSTANCE OutputBlob WITH
  printed <- Printed("out"), shipped <- remote["out"], acked <- pos["out"],
  over <- AppendsOver
ErrBlob == INSTANCE OutputBlob WITH
  printed <- Printed("err"), shipped <- remote["err"], acked <- pos["err"],
  over <- AppendsOver
BlobShipped == OutBlob!Spec /\ ErrBlob!Spec

(* When the command has ended, the blob has all that the script printed,    *)
(* unless the last append failed or a child of the script still prints; a   *)
(* failed append is made up for by a later one (cmds.go:320-322, 371-379).  *)
OutputComplete ==
  pc = "exited" /\ ~orphan =>
    \A s \in Streams : blob[s] /\ log[s] > pos[s] => s \in unsent

(* The result is the last thing that is reported: no report of the          *)
(* goroutine comes after it (cmds.go:283-306).                              *)
ResultLast == [][pc = "exited" => UNCHANGED status]_status

(* The command ends, with the script or at its timeout, unless a request    *)
(* that has no timeout hangs - a download, a token, a blob or a report, of  *)
(* the command or of the goroutine, for which the command waits - or a      *)
(* script without TimeoutInSeconds runs for ever (cmds.go:303-306, exec.go: *)
(* 117-130, blob.go:81, blobwithmsitoken.go:73, statusreporter.go:32).      *)
InTransfer ==
  \/ AsksToken \/ tpc = "report"
  \/ pc \in {"sas", "sas copy", "copy", "create out", "create err", "ticker", "returned"}
  \/ \E a \in Actors : chunk[a] # <<>>
Returns == <>(pc = "exited") \/ <>[]InTransfer \/ <>[](script = "running" /\ ~timed)
=============================================================================
