---------------------------- MODULE UpgradeProofs ----------------------------
(***************************************************************************)
(* Type correctness of Upgrade; that no script that ran before the update  *)
(* runs again after it; and what an attempt that succeeds leaves of mrseq  *)
(* and status files: for every set of environments, run commands and       *)
(* numbers, every bound on attempts and every choice of faults.            *)
(*                                                                         *)
(* OldCovers and RunsTraced say what the old version leaves to copy or to  *)
(* rehydrate; NewCovers says what the loops have achieved for each script  *)
(* that ran, whichever of them an earlier attempt was cut off in; IInv     *)
(* adds the types and which files the loops have in hand. Moved, at the    *)
(* end, says where the files of the new version come from.                 *)
(***************************************************************************)
EXTENDS Upgrade, TLAPS

(* Whatever the agent tells update, it moves from the agent's old version   *)
(* to its new one (determineUpgradeVersionDirectories), if the directory to *)
(* move from exists.                                                        *)
LEMMA Directories ==
  ASSUME env \in Environments, From # Nowhere
  PROVE  From = env.old /\ To = env.version
<1>1. UpgradeFromVersion(env) = env.old /\ env.path \in {env.old, env.version}
  BY UpgradeAssumption DEF Environment, UpgradeFromVersion
<1>2. CASE env.path = env.version
  BY <1>1, <1>2 DEF From, To, UpgradeFromDirectory, UpgradeToDirectory, Contains, ReplaceAll
<1>3. CASE env.path = env.old /\ env.path # env.version
  <2>1. ~Contains(env.path, env.version)
    BY <1>3 DEF From, UpgradeFromDirectory, Contains, ReplaceAll
  <2> QED
    BY <1>1, <1>3, <2>1 DEF From, To, UpgradeFromDirectory, UpgradeToDirectory, ReplaceAll
<1> QED
  BY <1>1, <1>2, <1>3

LEMMA VersionsOfEnv ==
  ASSUME env \in Environments
  PROVE  /\ env.old \in Versions /\ env.version \in Versions /\ env.path \in Versions
         /\ env.old # env.version
BY UpgradeAssumption DEF Environment, Versions

-----------------------------------------------------------------------------
(* The order of versions.                                                   *)

LEMMA SegmentIsNat ==
  ASSUME NEW a \in Seq(Nat), NEW i \in 1..4
  PROVE  Segment(a, i) \in Nat
BY DEF Segment

(* The comparison goes segment by segment.                                  *)
LEMMA NewerBySegment ==
  ASSUME NEW a, NEW b
  PROVE  Newer(a, b) <=>
           \/ Segment(a, 1) > Segment(b, 1)
           \/ /\ Segment(a, 1) = Segment(b, 1)
              /\ \/ Segment(a, 2) > Segment(b, 2)
                 \/ /\ Segment(a, 2) = Segment(b, 2)
                    /\ \/ Segment(a, 3) > Segment(b, 3)
                       \/ /\ Segment(a, 3) = Segment(b, 3)
                          /\ Segment(a, 4) > Segment(b, 4)
<1>1. 1..4 = {1, 2, 3, 4} /\ 1..0 = {} /\ 1..1 = {1} /\ 1..2 = {1, 2} /\ 1..3 = {1, 2, 3}
  OBVIOUS
<1>2. 1 - 1 = 0 /\ 2 - 1 = 1 /\ 3 - 1 = 2 /\ 4 - 1 = 3
  OBVIOUS
<1>3. Newer(a, b) <=>
        \/ Segment(a, 1) > Segment(b, 1)
        \/ Segment(a, 2) > Segment(b, 2) /\ Segment(a, 1) = Segment(b, 1)
        \/ /\ Segment(a, 3) > Segment(b, 3)
           /\ Segment(a, 1) = Segment(b, 1) /\ Segment(a, 2) = Segment(b, 2)
        \/ /\ Segment(a, 4) > Segment(b, 4)
           /\ Segment(a, 1) = Segment(b, 1) /\ Segment(a, 2) = Segment(b, 2)
           /\ Segment(a, 3) = Segment(b, 3)
  BY <1>1, <1>2 DEF Newer
<1> QED
  BY <1>3

(* compareVersions (cmds.go:496) is an order: asymmetric, transitive, and it *)
(* calls equal only versions with the same first four segments. So a move   *)
(* is problematic or not by where its old version stands alone.             *)
THEOREM VersionsOrdered ==
  ASSUME NEW a \in Seq(Nat), NEW b \in Seq(Nat), NEW c \in Seq(Nat)
  PROVE  /\ Newer(a, b) => ~Newer(b, a)
         /\ Newer(a, b) /\ Newer(b, c) => Newer(a, c)
         /\ Newer(a, b) \/ Newer(b, a) \/ \A i \in 1..4 : Segment(a, i) = Segment(b, i)
<1>1. \A x \in {a, b, c} : /\ Segment(x, 1) \in Nat /\ Segment(x, 2) \in Nat
                          /\ Segment(x, 3) \in Nat /\ Segment(x, 4) \in Nat
  BY SegmentIsNat
<1>2. Newer(a, b) => ~Newer(b, a)
  <2>1. \A p, q \in Nat : p > q => ~(q > p) /\ p # q
    OBVIOUS
  <2> QED
    BY <1>1, <2>1, NewerBySegment
<1>3. Newer(a, b) /\ Newer(b, c) => Newer(a, c)
  <2> SUFFICES ASSUME Newer(a, b), Newer(b, c) PROVE Newer(a, c)
    OBVIOUS
  <2> DEFINE First(x, y, i) == /\ Segment(x, i) > Segment(y, i)
                               /\ \A j \in 1..(i - 1) : Segment(x, j) = Segment(y, j)
  <2>1. PICK i \in 1..4 : First(a, b, i)
    BY DEF Newer
  <2>2. PICK j \in 1..4 : First(b, c, j)
    BY DEF Newer
  <2>3. \A n \in 1..4 : /\ Segment(a, n) \in Nat
                        /\ Segment(b, n) \in Nat /\ Segment(c, n) \in Nat
    BY SegmentIsNat
  <2>a. i \in Nat /\ j \in Nat
    OBVIOUS
  <2>b. \A n \in 1..(i - 1) : n \in 1..4
    BY <2>a
  <2>4. CASE i < j
    <3>1. i \in 1..(j - 1) /\ \A n \in 1..(i - 1) : n \in 1..(j - 1)
      BY <2>a, <2>4
    <3>2. Segment(a, i) > Segment(c, i)
      BY <2>1, <2>2, <3>1
    <3>3. \A n \in 1..(i - 1) : Segment(a, n) = Segment(c, n)
      BY <2>1, <2>2, <3>1
    <3> QED
      BY <3>2, <3>3 DEF Newer
  <2>5. CASE j < i
    <3>1. j \in 1..(i - 1) /\ \A n \in 1..(j - 1) : n \in 1..(i - 1)
      BY <2>a, <2>5
    <3>2. Segment(a, j) > Segment(c, j)
      BY <2>1, <2>2, <3>1
    <3>3. \A n \in 1..(j - 1) : Segment(a, n) = Segment(c, n)
      BY <2>1, <2>2, <3>1
    <3> QED
      BY <3>2, <3>3 DEF Newer
  <2>6. CASE i = j
    <3>1. Segment(a, i) > Segment(c, i)
      <4>1. \A p, q, r \in Nat : p > q /\ q > r => p > r
        OBVIOUS
      <4> QED
        BY <2>1, <2>2, <2>3, <2>6, <4>1
    <3>2. \A n \in 1..(i - 1) : Segment(a, n) = Segment(c, n)
      BY <2>1, <2>2, <2>6
    <3> QED
      BY <3>1, <3>2 DEF Newer
  <2> QED
    BY <2>a, <2>4, <2>5, <2>6
<1>4. \A i \in 1..4 : i = 1 \/ i = 2 \/ i = 3 \/ i = 4
  OBVIOUS
<1>5. Newer(a, b) \/ Newer(b, a) \/ \A i \in 1..4 : Segment(a, i) = Segment(b, i)
  <2>1. \A p, q \in Nat : p > q \/ q > p \/ p = q
    OBVIOUS
  <2> QED
    BY <1>1, <1>4, <2>1, NewerBySegment
<1> QED
  BY <1>2, <1>3, <1>5

-----------------------------------------------------------------------------
(* Neither NoSeq nor Torn is a number of a run command.                     *)
LEMMA NoNumber == \A n \in SeqNumbers : n \in Nat /\ NoSeq < n /\ Torn < n
<1> TAKE n \in SeqNumbers
<1>1. n \in Nat
  BY GoalStatesAssumption, Zenon
<1> QED
  BY <1>1 DEF NoSeq, Torn

LEMMA MrSeqIsInt ==
  ASSUME TypeOK, NEW d \in Versions, NEW e \in ExtensionNames
  PROVE  mrseq[d][e] \in Int
<1>1. mrseq[d][e] \in SeqNumbers \cup {NoSeq, Torn}
  BY DEF TypeOK
<1> QED
  BY <1>1, NoNumber DEF NoSeq, Torn

LEMMA InitIInv == Init => IInv
<1> SUFFICES ASSUME Init PROVE IInv
  OBVIOUS
<1>1. TypeOK
  BY DEF Init, TypeOK, Phases, NoSeq, StatusFile
<1>2. \A e \in ExtensionNames, n \in SeqNumbers : runs[e][n] = 0
  BY DEF Init
<1>3. OldCovers /\ RunsTraced /\ NewCovers /\ NoRerun
  BY <1>2 DEF OldCovers, RunsTraced, NewCovers, NoRerun, Ran
<1>4. TornUnvisited /\ RehydratesProblematic /\ NamesExist /\ Found
  BY DEF Init, TornUnvisited, RehydratesProblematic, NamesExist, Found
<1> QED
  BY <1>1, <1>3, <1>4 DEF IInv

-----------------------------------------------------------------------------
(* One lemma per kind of step.                                              *)

LEMMA TypeStep == TypeOK /\ Found /\ [Next]_vars => TypeOK' /\ Found'
<1> SUFFICES ASSUME TypeOK, Found, [Next]_vars PROVE TypeOK' /\ Found'
  OBVIOUS
<1> USE DEF TypeOK, Phases
<1>0. /\ env.old \in Versions /\ env.version \in Versions /\ env.path \in Versions
      /\ From # Nowhere => From = env.old /\ To = env.version
      /\ phase \notin {"old", "disabled"} => From = env.old /\ To = env.version
  BY VersionsOfEnv, Directories DEF Found
<1>a. env' = env /\ (phase \in {"old", "disabled"} /\ phase' \notin {"old", "disabled"}
                      => From # Nowhere)
  BY DEF Next, Visit, EnableRuns, EnableDies, Enables, Disable, Update,
     RehydrateMrSeqFile, EndRehydrate, CopyMrSeqFile, EndMrSeqFiles, CopyStatusFile,
     EndStatusFiles, CreateDummyStatusFile, EndUpdate, Abort, AbortWrite, agent, vars
<1>b. From' = From
  BY <1>a DEF From
<1>c. Found'
  BY <1>a, <1>b DEF Found
<1> SUFFICES TypeOK'
  BY <1>c
<1>1. ASSUME NEW e \in ExtensionNames, NEW n \in SeqNumbers, EnableRuns(e, n)
      PROVE  TypeOK'
  <2>1. Active \in Versions
    BY <1>0 DEF Active
  <2>2. mrseq' \in [Versions -> [ExtensionNames -> SeqNumbers \cup {NoSeq, Torn}]]
    BY <1>1, <2>1 DEF EnableRuns, Saved
  <2>3. status' \in [Versions -> SUBSET StatusFile] /\ untraced' \in SUBSET ExtensionNames
    BY <1>1, <2>1 DEF EnableRuns, Reported, StatusFile, File
  <2>4. runs' \in [ExtensionNames -> [SeqNumbers -> 0..2]]
    BY <1>1 DEF EnableRuns
  <2> QED
    BY <1>1, <2>2, <2>3, <2>4 DEF EnableRuns, Enables, loops
<1>2. ASSUME NEW e \in ExtensionNames, NEW n \in SeqNumbers, EnableDies(e, n)
      PROVE  TypeOK'
  <2>1. Active \in Versions
    BY <1>0 DEF Active
  <2>2. mrseq' \in [Versions -> [ExtensionNames -> SeqNumbers \cup {NoSeq, Torn}]]
    <3>1. PICK k \in {n, Torn} : mrseq' = [mrseq EXCEPT ![Active][e] = k]
      BY <1>2 DEF EnableDies, Saved
    <3> QED
      BY <2>1, <3>1
  <2>3. status' \in [Versions -> SUBSET StatusFile]
    BY <1>2, <2>1 DEF EnableDies, Reported, StatusFile, File
  <2> QED
    BY <1>2, <2>2, <2>3 DEF EnableDies, Enables, loops
<1>3. CASE Disable
  BY <1>0, <1>3 DEF Disable, loops, agent, ghosts
<1>4. CASE Update
  <2>1. files' \in SUBSET StatusFile /\ names' \in SUBSET ExtensionNames
    BY <1>0, <1>4 DEF Update, MrSeqFiles, loops
  <2> QED
    BY <1>4, <2>1 DEF Update, disk, loops, ghosts
<1>5. ASSUME NEW e \in ExtensionNames, NEW n \in SeqNumbers,
             RehydrateMrSeqFile(File(e, n))
      PROVE  TypeOK'
  BY <1>0, <1>5 DEF RehydrateMrSeqFile, File, agent, ghosts
<1>6. CASE EndRehydrate
  BY <1>6 DEF EndRehydrate, MrSeqFiles, disk, agent, ghosts
<1>7. ASSUME NEW e \in ExtensionNames, CopyMrSeqFile(e)
      PROVE  TypeOK'
  BY <1>0, <1>7 DEF CopyMrSeqFile, agent, ghosts
<1>8. CASE EndMrSeqFiles
  BY <1>0, <1>8 DEF EndMrSeqFiles, disk, agent, ghosts
<1>9. ASSUME NEW e \in ExtensionNames, NEW n \in SeqNumbers, CopyStatusFile(File(e, n))
      PROVE  TypeOK'
  BY <1>0, <1>9 DEF CopyStatusFile, File, StatusFile, agent, ghosts
<1>10. CASE EndStatusFiles
  BY <1>10 DEF EndStatusFiles, MrSeqFiles, disk, agent, ghosts
<1>11. ASSUME NEW e \in ExtensionNames, CreateDummyStatusFile(e)
       PROVE  TypeOK'
  BY <1>0, <1>11 DEF CreateDummyStatusFile, NeedsDummy, File, StatusFile, agent
<1>12. CASE EndUpdate
  BY <1>12 DEF EndUpdate, disk, loops, agent, ghosts
<1>13. CASE Abort
  BY <1>13 DEF Abort, disk, agent, ghosts
<1>14. ASSUME NEW e \in ExtensionNames, AbortWrite(e)
       PROVE  TypeOK'
  BY <1>0, <1>14 DEF AbortWrite, agent, ghosts
<1>15. CASE UNCHANGED vars
  BY <1>15 DEF vars, disk, loops, agent, ghosts
<1> QED
  BY <1>1, <1>2, <1>3, <1>4, <1>5, <1>6, <1>7, <1>8, <1>9, <1>10, <1>11, <1>12,
     <1>13, <1>14, <1>15 DEF Next, Visit

(* Enabling in the active version: the mrseq file covers what ran, so that  *)
(* a number it accepts has not run, unless the run was forgotten.           *)
LEMMA EnableStep ==
  ASSUME IInv, TypeOK', Found', NEW e \in ExtensionNames, NEW n \in SeqNumbers,
         EnableRuns(e, n) \/ EnableDies(e, n)
  PROVE  IInv'
<1> USE DEF IInv, TypeOK
<1> DEFINE d == Active
<1>0. /\ env.old \in Versions /\ env.version \in Versions /\ d \in Versions
      /\ env.old # env.version
  BY VersionsOfEnv DEF Active
<1>1. /\ phase \in {"old", "new"} /\ phase' = phase
      /\ mrseq[d][e] # Torn /\ mrseq[d][e] < n
      /\ env' = env /\ untraced \subseteq untraced' /\ (Problematic' <=> Problematic)
      /\ d = (IF phase = "old" THEN env.old ELSE env.version) /\ d' = d
  BY DEF EnableRuns, EnableDies, Enables, Accepts, Active, Problematic
<1>2. /\ \A c \in Versions, x \in ExtensionNames :
           <<c, x>> # <<d, e>> => mrseq'[c][x] = mrseq[c][x]
      /\ mrseq'[d][e] \in {n, Torn}
  BY <1>0 DEF EnableRuns, EnableDies, Saved
<1>3. ASSUME NEW x \in ExtensionNames, NEW m \in SeqNumbers, Ran(x, m)'
      PROVE  \/ Ran(x, m)
             \/ x = e /\ m = n /\ EnableRuns(e, n)
  BY <1>3 DEF Ran, EnableRuns, EnableDies
<1>4. \A m \in SeqNumbers : Covers(d, e, m) => Covers(d, e, m)'
  <2> TAKE m \in SeqNumbers
  <2>1. m \in Int /\ n \in Int /\ mrseq[d][e] \in Int
    BY <1>0, MrSeqIsInt, NoNumber
  <2> QED
    BY <1>1, <1>2, <2>1 DEF Covers
<1>5. Covers(d, e, n)'
  BY <1>1, <1>2, NoNumber DEF Covers
<1>6. \A x \in ExtensionNames, m \in SeqNumbers :
        Covers(d, x, m) => Covers(d, x, m)'
  <2> TAKE x \in ExtensionNames, m \in SeqNumbers
  <2>1. CASE x = e
    BY <1>4, <2>1
  <2>2. CASE x # e
    BY <1>0, <1>1, <1>2, <2>2 DEF Covers
  <2> QED
    BY <2>1, <2>2
<1>7. \A x \in ExtensionNames : Forgotten(x) => Forgotten(x)'
  BY <1>1 DEF Forgotten
<1>8. OldCovers'
  BY <1>0, <1>1, <1>3, <1>5, <1>6 DEF OldCovers
<1>9. \A c \in Versions : status[c] \subseteq status'[c]
  BY <1>0 DEF EnableRuns, EnableDies, Reported
<1>10. EnableRuns(e, n) => File(e, n) \in status'[d] \/ e \in untraced'
  BY <1>0 DEF EnableRuns, Reported
<1>11. RunsTraced'
  BY <1>0, <1>1, <1>3, <1>9, <1>10 DEF RunsTraced
<1>12. NewCovers'
  BY <1>0, <1>1, <1>3, <1>5, <1>6, <1>7 DEF NewCovers
<1>13. Ran(e, n) => Forgotten(e)
  <2>1. ~Covers(d, e, n)
    BY <1>0, <1>1, NoNumber, MrSeqIsInt DEF Covers
  <2> QED
    BY <2>1, <1>1 DEF OldCovers, NewCovers
<1>14. ASSUME NEW x \in ExtensionNames, NEW m \in SeqNumbers, runs'[x][m] = 2
       PROVE  runs[x][m] = 2 \/ Forgotten(x)
  <2>1. CASE x = e /\ m = n
    BY <1>13, <1>14, <2>1 DEF EnableRuns, EnableDies, Ran
  <2>2. CASE ~(x = e /\ m = n)
    BY <1>14, <2>2 DEF EnableRuns, EnableDies
  <2> QED
    BY <2>1, <2>2
<1>15. NoRerun'
  BY <1>1, <1>14, <1>7 DEF NoRerun, Forgotten
<1>16. TornUnvisited' /\ RehydratesProblematic' /\ NamesExist'
  BY <1>1 DEF TornUnvisited, RehydratesProblematic, NamesExist
<1> QED
  BY <1>8, <1>11, <1>12, <1>15, <1>16

(* All other steps start no script and forget no status file.               *)
Quiet ==
  /\ env' = env /\ runs' = runs /\ untraced' = untraced
  /\ \A d \in Versions : status[d] \subseteq status'[d]

(* A quiet step keeps IInv if the mrseq files of the old version stay while *)
(* they are needed and what it does in the new version covers what ran.     *)
LEMMA QuietStep ==
  ASSUME IInv, TypeOK', Found', Quiet, OldCovers', NewCovers',
         TornUnvisited', RehydratesProblematic', NamesExist',
         phase' # "new" => phase # "new"
  PROVE  IInv'
<1> USE DEF IInv, TypeOK
<1>0. env.old \in Versions
  BY VersionsOfEnv
<1>1. RunsTraced'
  BY <1>0 DEF Quiet, RunsTraced, Ran
<1>2. NoRerun'
  BY DEF Quiet, NoRerun, Forgotten, Problematic
<1> QED
  BY <1>1, <1>2

LEMMA DisableStep == ASSUME IInv, TypeOK', Found', Disable PROVE IInv'
<1> USE DEF IInv, TypeOK
<1>0. env.old \in Versions
  BY VersionsOfEnv
<1>1. Quiet /\ phase = "old" /\ phase' = "disabled" /\ (Problematic' <=> Problematic)
  BY DEF Disable, Quiet, loops, agent, ghosts, Problematic
<1>2. OldCovers'
  <2>1. CASE Problematic
    BY <1>0, <1>1, <2>1 DEF Disable, OldCovers, Quiet
  <2>2. CASE ~Problematic
    BY <1>0, <1>1, <2>2 DEF Disable, OldCovers, Quiet, Covers, Ran
  <2> QED
    BY <2>1, <2>2
<1>3. NewCovers' /\ TornUnvisited' /\ RehydratesProblematic' /\ NamesExist'
  BY <1>1 DEF NewCovers, TornUnvisited, RehydratesProblematic, NamesExist
<1> QED
  BY <1>1, <1>2, <1>3, QuietStep

-----------------------------------------------------------------------------
(* The steps of update, which leave the mrseq files of the old version.     *)
LEMMA KeepsOld ==
  ASSUME IInv, Quiet, phase \notin {"old", "new"}, mrseq'[env.old] = mrseq[env.old],
         phase' # "old"
  PROVE  OldCovers'
BY DEF IInv, Quiet, OldCovers, Ran, Covers, Problematic

LEMMA UpdateStep == ASSUME IInv, TypeOK', Found', Update PROVE IInv'
<1> USE DEF IInv, TypeOK
<1>a. CASE From = Nowhere
  <2>1. /\ Quiet /\ mrseq' = mrseq /\ phase = "disabled" /\ phase' = phase
        /\ names' = names
    BY <1>a DEF Update, Quiet, disk, loops, ghosts
  <2>2. OldCovers'
    BY <2>1, KeepsOld
  <2>3. NewCovers' /\ TornUnvisited' /\ RehydratesProblematic' /\ NamesExist'
    BY <2>1 DEF NewCovers, TornUnvisited, RehydratesProblematic, NamesExist
  <2> QED
    BY <2>1, <2>2, <2>3, QuietStep
<1> SUFFICES ASSUME From # Nowhere PROVE IInv'
  BY <1>a
<1>0. From = env.old
  BY Directories
<1>1. /\ Quiet /\ phase = "disabled" /\ mrseq' = mrseq /\ phase' \in {"rehydrate", "mrseq"}
      /\ (Problematic' <=> Problematic)
  BY DEF Update, Quiet, disk, ghosts, Problematic
<1>2. OldCovers'
  BY <1>1, KeepsOld
<1>3. NewCovers'
  <2> SUFFICES ASSUME NEW e \in ExtensionNames, NEW n \in SeqNumbers, Ran(e, n),
                      ~Forgotten(e)
               PROVE  \/ phase' = "rehydrate" /\ File(e, n) \in files'
                      \/ phase' = "mrseq" /\ ~Problematic /\ e \in names'
    BY <1>1 DEF NewCovers, Ran, Forgotten, Quiet
  <2>1. CASE Problematic
    BY <1>0, <1>1, <2>1 DEF Update, RunsTraced, Forgotten
  <2>2. CASE ~Problematic
    <3>1. mrseq[env.old][e] # NoSeq
      <4>1. Covers(env.old, e, n)
        BY <1>1, <2>2 DEF OldCovers
      <4> QED
        BY <4>1, NoNumber DEF Covers, NoSeq, Torn
    <3> QED
      BY <1>0, <2>2, <3>1 DEF Update, MrSeqFiles
  <2> QED
    BY <2>1, <2>2
<1>4. TornUnvisited'
  BY <1>0, <1>1 DEF Update, TornUnvisited, RunsTraced, Forgotten, Ran, Quiet
<1>5. RehydratesProblematic' /\ NamesExist'
  BY <1>0, <1>1 DEF Update, RehydratesProblematic, NamesExist, MrSeqFiles, Quiet
<1> QED
  BY <1>1, <1>2, <1>3, <1>4, <1>5, QuietStep

(* A rehydrated mrseq file covers what it covered before and the number of  *)
(* the status file.                                                         *)
LEMMA RehydrateStep ==
  ASSUME IInv, TypeOK', Found', NEW f \in StatusFile, RehydrateMrSeqFile(f)
  PROVE  IInv'
<1> USE DEF IInv, TypeOK
<1> DEFINE v == env.version
<1>0. To = v /\ env.old # v /\ v \in Versions /\ env.old \in Versions
  BY VersionsOfEnv, Directories DEF Found, RehydrateMrSeqFile
<1>a. f.ext \in ExtensionNames /\ f.seq \in SeqNumbers /\ f = File(f.ext, f.seq)
  BY DEF StatusFile, File
<1>1. /\ Quiet /\ phase = "rehydrate" /\ phase' = phase /\ files' = files \ {f}
      /\ (Problematic' <=> Problematic)
  BY DEF RehydrateMrSeqFile, Quiet, agent, ghosts, Problematic
<1>2. /\ mrseq'[env.old] = mrseq[env.old]
      /\ \A e \in ExtensionNames : e # f.ext => mrseq'[v][e] = mrseq[v][e]
      /\ mrseq'[v][f.ext] = IF Rehydrates(f) THEN f.seq ELSE mrseq[v][f.ext]
  BY <1>0, <1>a DEF RehydrateMrSeqFile
<1>3. \A e \in ExtensionNames, n \in SeqNumbers :
        e # f.ext => (Covers(v, e, n)' <=> Covers(v, e, n))
  BY <1>1, <1>2 DEF Covers, Quiet
<1>4. ASSUME NEW n \in SeqNumbers, Ran(f.ext, n)
      PROVE  Forgotten(f.ext) \/ File(f.ext, n) \in files' \/ Covers(v, f.ext, n)'
  <2>1. mrseq[v][f.ext] \in SeqNumbers \cup {NoSeq, Torn}
    BY <1>0, <1>a
  <2>a. CASE f.ext \in DottedNames
    BY <1>1, <2>a DEF Forgotten, RehydratesProblematic
  <2>2. CASE n = f.seq /\ f.ext \notin DottedNames
    BY <1>0, <1>a, <1>1, <1>2, <2>1, <2>2, NoNumber
       DEF Covers, Rehydrates, CurrentSeqNo, Quiet, NoSeq, Torn
  <2>3. CASE n # f.seq /\ File(f.ext, n) \in files
    BY <1>1, <1>a, <2>3 DEF File
  <2>4. CASE mrseq[v][f.ext] = Torn /\ n = 0
    <3>1. mrseq'[v][f.ext] = f.seq \/ mrseq'[v][f.ext] = Torn
      BY <1>2, <2>4
    <3>2. v' = v /\ f.seq \in Nat
      BY <1>1, <1>a, NoNumber DEF Quiet
    <3> QED
      BY <3>1, <3>2, <2>4 DEF Covers
  <2>5. CASE mrseq[v][f.ext] # Torn /\ mrseq[v][f.ext] >= n
    BY <1>0, <1>a, <1>1, <1>2, <2>1, <2>5, NoNumber
       DEF Covers, Rehydrates, CurrentSeqNo, Quiet, NoSeq, Torn
  <2> QED
    BY <1>a, <1>1, <1>4, <2>a, <2>2, <2>3, <2>4, <2>5 DEF NewCovers, TornUnvisited, Covers
<1>5. OldCovers'
  BY <1>1, <1>2, KeepsOld
<1>6. NewCovers'
  <2> SUFFICES ASSUME NEW e \in ExtensionNames, NEW n \in SeqNumbers, Ran(e, n)
               PROVE  Forgotten(e) \/ File(e, n) \in files' \/ Covers(v, e, n)'
    BY <1>1 DEF NewCovers, Ran, Forgotten, Quiet
  <2>1. CASE e = f.ext
    BY <1>4, <2>1
  <2>2. CASE e # f.ext
    BY <1>1, <1>3, <1>a, <2>2 DEF NewCovers, File
  <2> QED
    BY <2>1, <2>2
<1>7. TornUnvisited'
  <2> SUFFICES ASSUME NEW e \in ExtensionNames, NEW n \in SeqNumbers, Ran(e, n),
                      mrseq'[v][e] = Torn, n # 0, ~Forgotten(e)
               PROVE  File(e, n) \in files'
    BY <1>1 DEF TornUnvisited, Ran, Forgotten, Quiet
  <2>1. mrseq[v][e] = Torn
    <3>1. f.seq # Torn
      BY <1>a, NoNumber DEF Torn
    <3> QED
      BY <1>2, <3>1
  <2>2. File(e, n) \in files
    BY <2>1, <1>1 DEF TornUnvisited
  <2>3. File(e, n) # f
    BY <1>0, <1>1, <1>2, <1>a, <2>1, NoNumber
       DEF File, Rehydrates, CurrentSeqNo, NoSeq, Torn, Forgotten, RehydratesProblematic
  <2> QED
    BY <2>2, <2>3, <1>1
<1>8. RehydratesProblematic' /\ NamesExist'
  BY <1>1 DEF RehydratesProblematic, NamesExist
<1> QED
  BY <1>1, <1>5, <1>6, <1>7, <1>8, QuietStep

LEMMA EndRehydrateStep == ASSUME IInv, TypeOK', Found', EndRehydrate PROVE IInv'
<1> USE DEF IInv, TypeOK
<1>0. From = env.old
  BY Directories DEF Found, EndRehydrate
<1>1. /\ Quiet /\ phase = "rehydrate" /\ files = {} /\ phase' = "mrseq"
      /\ mrseq' = mrseq /\ names' = MrSeqFiles(env.old)
      /\ (Problematic' <=> Problematic)
  BY <1>0 DEF EndRehydrate, Quiet, disk, agent, ghosts, Problematic
<1>2. OldCovers'
  BY <1>1, KeepsOld
<1>3. NewCovers'
  BY <1>1 DEF NewCovers, Ran, Forgotten, Covers, Quiet
<1>4. TornUnvisited' /\ RehydratesProblematic' /\ NamesExist'
  BY <1>1 DEF TornUnvisited, RehydratesProblematic, NamesExist, MrSeqFiles, Quiet
<1> QED
  BY <1>1, <1>2, <1>3, <1>4, QuietStep

(* A copy covers what its original covers, and there is one: what a         *)
(* problematic version has deleted is not among the names.                  *)
LEMMA CopyMrSeqStep ==
  ASSUME IInv, TypeOK', Found', NEW x \in ExtensionNames, CopyMrSeqFile(x)
  PROVE  IInv'
<1> USE DEF IInv, TypeOK
<1> DEFINE v == env.version
<1>0. /\ From = env.old /\ To = v /\ env.old # v
      /\ v \in Versions /\ env.old \in Versions
  BY VersionsOfEnv, Directories DEF Found, CopyMrSeqFile
<1>1. /\ Quiet /\ phase = "mrseq" /\ phase' = phase /\ x \in names
      /\ names' = names \ {x} /\ (Problematic' <=> Problematic)
  BY DEF CopyMrSeqFile, Quiet, agent, ghosts, Problematic
<1>2. /\ mrseq'[env.old] = mrseq[env.old]
      /\ \A e \in ExtensionNames : e # x => mrseq'[v][e] = mrseq[v][e]
      /\ mrseq'[v][x] = mrseq[env.old][x]
      /\ mrseq[env.old][x] # NoSeq
  BY <1>0, <1>1 DEF CopyMrSeqFile, NamesExist, MrSeqFiles
<1>3. OldCovers'
  BY <1>1, <1>2, KeepsOld
<1>4. NewCovers'
  <2> SUFFICES ASSUME NEW e \in ExtensionNames, NEW n \in SeqNumbers, Ran(e, n),
                      ~Forgotten(e)
               PROVE  (~Problematic /\ e \in names') \/ Covers(v, e, n)'
    BY <1>1 DEF NewCovers, Ran, Forgotten, Quiet
  <2>1. CASE e = x
    BY <1>0, <1>1, <1>2, <2>1 DEF OldCovers, Covers, Quiet
  <2>2. CASE e # x
    BY <1>0, <1>1, <1>2, <2>2 DEF NewCovers, Covers, Quiet
  <2> QED
    BY <2>1, <2>2
<1>5. TornUnvisited' /\ RehydratesProblematic'
  BY <1>1 DEF TornUnvisited, RehydratesProblematic
<1>6. NamesExist'
  BY <1>1, <1>2 DEF NamesExist, MrSeqFiles, Quiet
<1> QED
  BY <1>1, <1>3, <1>4, <1>5, <1>6, QuietStep

LEMMA EndMrSeqStep == ASSUME IInv, TypeOK', Found', EndMrSeqFiles PROVE IInv'
<1> USE DEF IInv, TypeOK
<1>1. /\ Quiet /\ phase = "mrseq" /\ names = {} /\ phase' = "status" /\ mrseq' = mrseq
      /\ (Problematic' <=> Problematic)
  BY DEF EndMrSeqFiles, Quiet, disk, agent, ghosts, Problematic
<1>2. OldCovers'
  BY <1>1, KeepsOld
<1>3. NewCovers'
  BY <1>1 DEF NewCovers, Ran, Forgotten, Covers, Quiet
<1>4. TornUnvisited' /\ RehydratesProblematic' /\ NamesExist'
  BY <1>1 DEF TornUnvisited, RehydratesProblematic, NamesExist
<1> QED
  BY <1>1, <1>2, <1>3, <1>4, QuietStep

(* The steps after the mrseq files are copied leave all of them alone.      *)
LEMMA LateStep ==
  ASSUME IInv, TypeOK', Found', Quiet, mrseq' = mrseq, phase \in {"status", "dummy"},
         phase' \in {"status", "dummy", "new"}
  PROVE  IInv'
<1> USE DEF IInv, TypeOK
<1>1. Problematic' <=> Problematic
  BY DEF Quiet, Problematic
<1>2. OldCovers'
  BY KeepsOld
<1>3. NewCovers'
  BY <1>1 DEF NewCovers, Ran, Forgotten, Covers, Quiet
<1>4. TornUnvisited' /\ RehydratesProblematic' /\ NamesExist'
  BY DEF TornUnvisited, RehydratesProblematic, NamesExist
<1> QED
  BY <1>2, <1>3, <1>4, QuietStep

(* Whatever a failed attempt has done to the new version, the old one is as *)
(* it was, and the next attempt reads it again.                             *)
LEMMA AbortStep ==
  ASSUME IInv, TypeOK', Found', Abort \/ \E e \in ExtensionNames : AbortWrite(e)
  PROVE  IInv'
<1> USE DEF IInv, TypeOK
<1>0. To = env.version /\ env.old # env.version /\ env.old \in Versions
  BY VersionsOfEnv, Directories DEF Found, Abort, AbortWrite
<1>1. /\ Quiet /\ phase \in {"rehydrate", "mrseq", "status", "dummy"}
      /\ phase' = "disabled" /\ mrseq'[env.old] = mrseq[env.old]
  BY <1>0 DEF Abort, AbortWrite, Quiet, disk, agent, ghosts
<1>2. OldCovers'
  BY <1>1, KeepsOld
<1>3. NewCovers' /\ TornUnvisited' /\ RehydratesProblematic' /\ NamesExist'
  BY <1>1 DEF NewCovers, TornUnvisited, RehydratesProblematic, NamesExist
<1> QED
  BY <1>1, <1>2, <1>3, QuietStep

-----------------------------------------------------------------------------
LEMMA IInvStep == IInv /\ [Next]_vars => IInv'
<1> SUFFICES ASSUME IInv, [Next]_vars PROVE IInv'
  OBVIOUS
<1> USE DEF IInv
<1>0. TypeOK' /\ Found'
  BY TypeStep
<1>a. \A e \in ExtensionNames, n \in SeqNumbers : File(e, n) \in StatusFile
  BY DEF File, StatusFile
<1>1. ASSUME NEW e \in ExtensionNames, NEW n \in SeqNumbers,
             EnableRuns(e, n) \/ EnableDies(e, n)
      PROVE  IInv'
  BY <1>0, <1>1, EnableStep
<1>2. CASE Disable
  BY <1>0, <1>2, DisableStep
<1>3. CASE Update
  BY <1>0, <1>3, UpdateStep
<1>4. ASSUME NEW e \in ExtensionNames, NEW n \in SeqNumbers,
             RehydrateMrSeqFile(File(e, n))
      PROVE  IInv'
  BY <1>0, <1>a, <1>4, RehydrateStep
<1>5. CASE EndRehydrate
  BY <1>0, <1>5, EndRehydrateStep
<1>6. ASSUME NEW e \in ExtensionNames, CopyMrSeqFile(e)
      PROVE  IInv'
  BY <1>0, <1>6, CopyMrSeqStep
<1>7. CASE EndMrSeqFiles
  BY <1>0, <1>7, EndMrSeqStep
<1>8. ASSUME NEW e \in ExtensionNames, NEW n \in SeqNumbers, CopyStatusFile(File(e, n))
      PROVE  IInv'
  <2>1. Quiet /\ mrseq' = mrseq /\ phase = "status" /\ phase' = phase
    BY <1>8 DEF CopyStatusFile, Quiet, agent, ghosts, TypeOK
  <2> QED
    BY <1>0, <2>1, LateStep
<1>9. CASE EndStatusFiles
  <2>1. Quiet /\ mrseq' = mrseq /\ phase = "status" /\ phase' = "dummy"
    BY <1>9 DEF EndStatusFiles, Quiet, disk, agent, ghosts
  <2> QED
    BY <1>0, <2>1, LateStep
<1>10. ASSUME NEW e \in ExtensionNames, CreateDummyStatusFile(e)
       PROVE  IInv'
  <2>1. Quiet /\ mrseq' = mrseq /\ phase = "dummy" /\ phase' = phase
    BY <1>10 DEF CreateDummyStatusFile, Quiet, agent, TypeOK
  <2> QED
    BY <1>0, <2>1, LateStep
<1>11. CASE EndUpdate
  <2>1. Quiet /\ mrseq' = mrseq /\ phase = "dummy" /\ phase' = "new"
    BY <1>11 DEF EndUpdate, Quiet, disk, agent, ghosts
  <2> QED
    BY <1>0, <2>1, LateStep
<1>12. CASE Abort \/ \E e \in ExtensionNames : AbortWrite(e)
  BY <1>0, <1>12, AbortStep
<1>13. CASE UNCHANGED vars
  BY <1>0, <1>13 DEF vars, disk, loops, agent, ghosts, OldCovers, RunsTraced, NewCovers,
     TornUnvisited, RehydratesProblematic, NamesExist, NoRerun, Ran, Covers, Forgotten,
     Problematic, MrSeqFiles
<1> QED
  BY <1>1, <1>2, <1>3, <1>4, <1>5, <1>6, <1>7, <1>8, <1>9, <1>10, <1>11, <1>12, <1>13
     DEF Next, Visit

(* The inductive invariant of the update (cmds.go:430-846).                 *)
THEOREM Invariance == Spec => []IInv
BY InitIInv, IInvStep, PTL DEF Spec

(* Every variable keeps its type.                                           *)
THEOREM TypeCorrect == Spec => []TypeOK
<1>1. IInv => TypeOK
  BY DEF IInv
<1> QED
  BY <1>1, Invariance, PTL

(* No script that ran in the old version runs again after the update        *)
(* (cmds.go:106-107), however many attempts to update failed or died, at    *)
(* whichever file: except, after a problematic version, for a run command   *)
(* that could not write its status file or has a dot in its name.           *)
THEOREM NoScriptRunsAgain == Spec => []NoRerun
<1>1. IInv => NoRerun
  BY DEF IInv
<1> QED
  BY <1>1, Invariance, PTL
-----------------------------------------------------------------------------
(* What an update that succeeds has done.                                   *)
(*                                                                          *)
(* An mrseq file of the new version comes from one of the old version, or   *)
(* in a problematic move from one of its status files (Sourced), and each   *)
(* loop has done its part for what it has no longer in hand: so an attempt  *)
(* that reaches its end has overwritten whatever an earlier one left.       *)
Moving == phase \notin {"old", "new"}

Untouched == phase = "old" => \A e \in ExtensionNames : mrseq[env.version][e] = NoSeq
OldBare ==
  Moving /\ Problematic => \A e \in ExtensionNames : mrseq[env.old][e] = NoSeq
FilesExist == phase = "rehydrate" => files \subseteq status[env.old]
Sourced ==
  Moving => \A e \in ExtensionNames : mrseq[env.version][e] # NoSeq =>
    \/ ~Problematic /\ mrseq[env.old][e] # NoSeq
    \/ Problematic /\ mrseq[env.version][e] = Torn
    \/ Problematic /\ File(e, mrseq[env.version][e]) \in status[env.old]
MrSeqCopied ==
  phase \in {"mrseq", "status", "dummy"} =>
    \A e \in MrSeqFiles(env.old) :
      \/ phase = "mrseq" /\ e \in names
      \/ mrseq[env.version][e] = mrseq[env.old][e]
TornZero ==
  phase \in {"rehydrate", "mrseq", "status", "dummy"} /\ Problematic =>
    \A e \in ExtensionNames : mrseq[env.version][e] = Torn =>
      \A f \in status[env.old] :
        f.ext = e => \/ f.seq = 0
                     \/ phase = "rehydrate" /\ f \in files
DottedBare ==
  Moving /\ Problematic => \A e \in DottedNames : mrseq[env.version][e] = NoSeq
StatusCopied ==
  env.path = env.version /\ phase \in {"status", "dummy"} =>
    \A f \in status[env.old] : \/ f \in status[env.version]
                               \/ phase = "status" /\ f \in files
DummyMade ==
  env.path = env.version /\ phase = "dummy" =>
    \A e \in MrSeqFiles(env.old) :
      mrseq[env.version][e] \in SeqNumbers =>
        \/ e \in names \cup untold
        \/ File(e, mrseq[env.version][e]) \in status[env.version]

Moved ==
  /\ Untouched /\ OldBare /\ FilesExist /\ Sourced
  /\ MrSeqCopied /\ TornZero /\ DottedBare /\ StatusCopied /\ DummyMade

UpdateInv == IInv /\ Moved

LEMMA InitMoved == Init => UpdateInv
<1> SUFFICES ASSUME Init PROVE UpdateInv
  OBVIOUS
<1>1. IInv
  BY InitIInv
<1>2. phase = "old" /\ \A e \in ExtensionNames : mrseq[env.version][e] = NoSeq
  BY VersionsOfEnv DEF Init
<1> QED
  BY <1>1, <1>2 DEF UpdateInv, Moved, Moving, Untouched, OldBare, FilesExist, Sourced,
     MrSeqCopied, TornZero, DottedBare, StatusCopied, DummyMade

(* Nothing is in progress before the update and after it.                   *)
LEMMA EnableMoved ==
  ASSUME UpdateInv, NEW e \in ExtensionNames, NEW n \in SeqNumbers,
         EnableRuns(e, n) \/ EnableDies(e, n)
  PROVE  Moved'
<1> USE DEF UpdateInv, Moved, IInv, TypeOK
<1>1. phase \in {"old", "new"} /\ phase' = phase /\ env' = env
  BY DEF EnableRuns, EnableDies, Enables
<1>2. Untouched'
  <2>1. \E x \in {n, Torn} : mrseq' = [mrseq EXCEPT ![Active][e] = x]
    BY DEF EnableRuns, EnableDies, Saved
  <2>2. phase = "old" => mrseq'[env.version] = mrseq[env.version]
    BY <2>1, VersionsOfEnv DEF Active
  <2> QED
    BY <1>1, <2>2 DEF Untouched
<1> QED
  BY <1>1, <1>2 DEF Moving, OldBare, FilesExist, Sourced, MrSeqCopied, TornZero,
     DottedBare, StatusCopied, DummyMade

LEMMA DisableMoved == ASSUME UpdateInv, Disable PROVE Moved'
<1> USE DEF UpdateInv, Moved, IInv, TypeOK
<1>0. env.old \in Versions /\ env.version \in Versions /\ env.old # env.version
  BY VersionsOfEnv
<1>1. /\ phase = "old" /\ phase' = "disabled" /\ env' = env
      /\ (Problematic' <=> Problematic)
  BY DEF Disable, agent, Problematic
<1>2. OldBare'
  BY <1>0, <1>1 DEF Disable, OldBare
<1>3. \A e \in ExtensionNames : mrseq'[env.version][e] = NoSeq
  BY <1>0, <1>1 DEF Disable, Untouched
<1> QED
  BY <1>1, <1>2, <1>3, UpgradeAssumption DEF Untouched, FilesExist, Sourced,
     MrSeqCopied, TornZero, DottedBare, StatusCopied, DummyMade

LEMMA UpdateMoved == ASSUME UpdateInv, Update PROVE Moved'
<1> USE DEF UpdateInv, Moved, IInv, TypeOK
<1>a. CASE From = Nowhere
  <2>1. /\ phase = "disabled" /\ phase' = phase /\ env' = env /\ mrseq' = mrseq
        /\ status' = status /\ (Problematic' <=> Problematic)
    BY <1>a DEF Update, disk, loops, Problematic
  <2> QED
    BY <2>1 DEF Untouched, OldBare, FilesExist, Sourced, MrSeqCopied, TornZero,
       DottedBare, StatusCopied, DummyMade, Moving
<1> SUFFICES ASSUME From # Nowhere PROVE Moved'
  BY <1>a
<1>0. From = env.old
  BY Directories
<1>1. /\ phase = "disabled" /\ env' = env /\ mrseq' = mrseq /\ status' = status
      /\ (Problematic' <=> Problematic)
      /\ \/ Problematic /\ phase' = "rehydrate" /\ files' = status[env.old]
         \/ ~Problematic /\ phase' = "mrseq" /\ names' = MrSeqFiles(env.old)
  BY <1>0 DEF Update, disk, Problematic
<1>2. Untouched' /\ FilesExist' /\ StatusCopied' /\ DummyMade'
  BY <1>1 DEF Untouched, FilesExist, StatusCopied, DummyMade
<1>3. OldBare' /\ Sourced' /\ DottedBare'
  BY <1>1 DEF OldBare, Sourced, DottedBare, Moving
<1>4. MrSeqCopied' /\ TornZero'
  BY <1>1 DEF MrSeqCopied, TornZero, MrSeqFiles
<1> QED
  BY <1>2, <1>3, <1>4

(* A status file that is passed over while the mrseq file is empty has      *)
(* number 0.                                                                *)
LEMMA RehydrateMoved ==
  ASSUME UpdateInv, NEW f \in StatusFile, RehydrateMrSeqFile(f)
  PROVE  Moved'
<1> USE DEF UpdateInv, Moved, IInv, TypeOK
<1>0. /\ To = env.version /\ env.old # env.version
      /\ env.version \in Versions /\ env.old \in Versions
  BY VersionsOfEnv, Directories DEF Found, RehydrateMrSeqFile
<1>a. f.ext \in ExtensionNames /\ f.seq \in SeqNumbers /\ f = File(f.ext, f.seq)
  BY DEF StatusFile, File
<1>1. /\ phase = "rehydrate" /\ phase' = phase /\ env' = env /\ status' = status
      /\ f \in files /\ files' = files \ {f}
      /\ Problematic /\ Problematic'
  BY DEF RehydrateMrSeqFile, agent, Problematic, RehydratesProblematic
<1>2. /\ mrseq'[env.old] = mrseq[env.old]
      /\ \A e \in ExtensionNames : e # f.ext => mrseq'[env.version][e] = mrseq[env.version][e]
      /\ mrseq'[env.version][f.ext] =
           IF Rehydrates(f) THEN f.seq ELSE mrseq[env.version][f.ext]
  BY <1>0, <1>a DEF RehydrateMrSeqFile
<1>b. DottedBare'
  <2> SUFFICES ASSUME NEW e \in DottedNames PROVE mrseq'[env.version][e] = NoSeq
    BY <1>1 DEF DottedBare
  <2>1. mrseq[env.version][e] = NoSeq /\ e \in ExtensionNames
    BY <1>1, UpgradeAssumption DEF DottedBare, Moving
  <2> QED
    BY <1>2, <2>1 DEF Rehydrates
<1>3. OldBare' /\ FilesExist'
  BY <1>1, <1>2 DEF OldBare, FilesExist, Moving
<1>4. Sourced'
  <2> SUFFICES ASSUME NEW e \in ExtensionNames, mrseq'[env.version][e] # NoSeq
               PROVE  \/ mrseq'[env.version][e] = Torn
                      \/ File(e, mrseq'[env.version][e]) \in status[env.old]
    BY <1>1 DEF Sourced
  <2>1. CASE mrseq'[env.version][e] = mrseq[env.version][e]
    BY <1>1, <2>1 DEF Sourced, Moving
  <2>2. CASE e = f.ext /\ mrseq'[env.version][e] = f.seq
    BY <1>a, <1>1, <2>2 DEF FilesExist
  <2> QED
    BY <1>2, <2>1, <2>2
<1>5. TornZero'
  <2> SUFFICES ASSUME NEW e \in ExtensionNames, mrseq'[env.version][e] = Torn,
                      NEW g \in status[env.old], g.ext = e, g.seq # 0
               PROVE  g \in files'
    BY <1>1 DEF TornZero
  <2>1. mrseq[env.version][e] = Torn
    <3>1. f.seq # Torn
      BY <1>a, NoNumber DEF Torn
    <3> QED
      BY <1>2, <3>1
  <2>2. g \in files
    BY <1>1, <2>1 DEF TornZero
  <2>3. g # f
    <3> SUFFICES ASSUME g = f PROVE FALSE
      OBVIOUS
    <3>1. mrseq[env.version][f.ext] = Torn /\ f.seq # 0 /\ f.seq \in Nat
      BY <1>a, <2>1, NoNumber
    <3>2. f.ext \notin DottedNames
      BY <1>1, <3>1 DEF DottedBare, Moving, Torn, NoSeq
    <3>3. Rehydrates(f)
      BY <1>0, <3>1, <3>2 DEF Rehydrates, CurrentSeqNo
    <3> QED
      BY <1>a, <1>2, <3>1, <3>3 DEF Torn
  <2> QED
    BY <1>1, <2>2, <2>3
<1> QED
  BY <1>1, <1>3, <1>4, <1>5, <1>b DEF Untouched, MrSeqCopied, StatusCopied, DummyMade

LEMMA EndRehydrateMoved == ASSUME UpdateInv, EndRehydrate PROVE Moved'
<1> USE DEF UpdateInv, Moved, IInv, TypeOK
<1>0. From = env.old
  BY Directories DEF Found, EndRehydrate
<1>1. /\ phase = "rehydrate" /\ phase' = "mrseq" /\ env' = env
      /\ mrseq' = mrseq /\ status' = status
      /\ files = {} /\ names' = MrSeqFiles(env.old)
      /\ (Problematic' <=> Problematic)
  BY <1>0 DEF EndRehydrate, disk, agent, Problematic
<1>2. Untouched' /\ FilesExist' /\ StatusCopied' /\ DummyMade'
  BY <1>1 DEF Untouched, FilesExist, StatusCopied, DummyMade
<1>3. OldBare' /\ Sourced' /\ DottedBare'
  BY <1>1 DEF OldBare, Sourced, DottedBare, Moving
<1>4. MrSeqCopied' /\ TornZero'
  BY <1>1 DEF MrSeqCopied, TornZero, MrSeqFiles
<1> QED
  BY <1>2, <1>3, <1>4

(* Only a sound move copies mrseq files: a problematic one has none left.   *)
LEMMA CopyMrSeqMoved ==
  ASSUME UpdateInv, NEW e \in ExtensionNames, CopyMrSeqFile(e)
  PROVE  Moved'
<1> USE DEF UpdateInv, Moved, IInv, TypeOK
<1>0. /\ To = env.version /\ From = env.old /\ env.old # env.version
      /\ env.version \in Versions /\ env.old \in Versions
  BY VersionsOfEnv, Directories DEF Found, CopyMrSeqFile
<1>1. /\ phase = "mrseq" /\ phase' = phase /\ env' = env /\ status' = status
      /\ e \in names /\ names' = names \ {e}
      /\ (Problematic' <=> Problematic)
  BY DEF CopyMrSeqFile, agent, Problematic
<1>2. /\ mrseq'[env.old] = mrseq[env.old]
      /\ mrseq'[env.version] =
           [mrseq[env.version] EXCEPT ![e] = mrseq[env.old][e]]
  BY <1>0 DEF CopyMrSeqFile
<1>3. mrseq[env.old][e] # NoSeq /\ ~Problematic
  BY <1>1 DEF NamesExist, MrSeqFiles, OldBare, Moving
<1>4. /\ Untouched' /\ FilesExist' /\ StatusCopied' /\ DummyMade'
      /\ TornZero' /\ OldBare' /\ DottedBare'
  BY <1>1, <1>3 DEF Untouched, FilesExist, StatusCopied, DummyMade, TornZero, OldBare,
     DottedBare
<1>5. \A d \in ExtensionNames \ {e} : mrseq'[env.version][d] = mrseq[env.version][d]
  BY <1>0, <1>2
<1>6. mrseq'[env.version][e] = mrseq[env.old][e]
  BY <1>0, <1>2
<1>7. Sourced'
  BY <1>1, <1>2, <1>3, <1>5 DEF Sourced, Moving
<1>8. MrSeqCopied'
  BY <1>1, <1>2, <1>5, <1>6 DEF MrSeqCopied, MrSeqFiles
<1> QED
  BY <1>4, <1>7, <1>8

(* The steps after that leave all mrseq files alone, and the status files   *)
(* of the old version too in the moves that still need them.                *)
LEMMA LateMoved ==
  ASSUME UpdateInv, env' = env, mrseq' = mrseq,
         phase \in {"mrseq", "status", "dummy"}, phase' \in {"status", "dummy", "new"},
         phase = "mrseq" => names = {},
         \/ status'[env.old] = status[env.old]
         \/ ~Problematic /\ status[env.old] \subseteq status'[env.old],
         StatusCopied', DummyMade'
  PROVE  Moved'
<1> USE DEF UpdateInv, Moved
<1>1. Problematic' <=> Problematic
  BY DEF Problematic
<1>2. OldBare' /\ Sourced' /\ DottedBare'
  BY <1>1 DEF OldBare, Sourced, DottedBare, Moving
<1>3. MrSeqCopied' /\ TornZero'
  BY <1>1 DEF MrSeqCopied, TornZero, MrSeqFiles
<1> QED
  BY <1>2, <1>3 DEF Untouched, FilesExist

LEMMA EndMrSeqMoved == ASSUME UpdateInv, EndMrSeqFiles PROVE Moved'
<1>0. From = env.old
  BY Directories DEF UpdateInv, IInv, TypeOK, Found, EndMrSeqFiles
<1>1. /\ phase = "mrseq" /\ phase' = "status" /\ names = {}
      /\ env' = env /\ mrseq' = mrseq /\ status' = status /\ files' = status[env.old]
  BY <1>0 DEF EndMrSeqFiles, disk, agent
<1>2. StatusCopied' /\ DummyMade'
  BY <1>1 DEF StatusCopied, DummyMade
<1> QED
  BY <1>1, <1>2, LateMoved

LEMMA CopyStatusMoved ==
  ASSUME UpdateInv, NEW f \in StatusFile, CopyStatusFile(f)
  PROVE  Moved'
<1> USE DEF UpdateInv, Moved, IInv, TypeOK
<1>0. /\ To = env.version /\ env.old # env.version
      /\ env.version \in Versions /\ env.old \in Versions
  BY VersionsOfEnv, Directories DEF Found, CopyStatusFile
<1>1. /\ phase = "status" /\ phase' = phase /\ env' = env /\ mrseq' = mrseq
      /\ files' = files \ {f}
  BY DEF CopyStatusFile, agent
<1>2. /\ status'[env.old] = status[env.old]
      /\ status'[env.version] = status[env.version] \cup {f}
  BY <1>0 DEF CopyStatusFile
<1>3. StatusCopied' /\ DummyMade'
  BY <1>1, <1>2 DEF StatusCopied, DummyMade
<1> QED
  BY <1>1, <1>2, <1>3, LateMoved

LEMMA EndStatusMoved == ASSUME UpdateInv, EndStatusFiles PROVE Moved'
<1> USE DEF UpdateInv, Moved, IInv, TypeOK
<1>0. From = env.old
  BY Directories DEF Found, EndStatusFiles
<1>1. /\ phase = "status" /\ phase' = "dummy" /\ files = {}
      /\ env' = env /\ mrseq' = mrseq /\ status' = status
      /\ names' = MrSeqFiles(env.old)
  BY <1>0 DEF EndStatusFiles, disk, agent
<1>2. StatusCopied' /\ DummyMade'
  BY <1>1 DEF StatusCopied, DummyMade, MrSeqFiles
<1> QED
  BY <1>1, <1>2, LateMoved

(* A dummy goes to the old version only in a move that has mrseq files      *)
(* there, and so is sound.                                                  *)
LEMMA DummyMoved ==
  ASSUME UpdateInv, NEW e \in ExtensionNames, CreateDummyStatusFile(e)
  PROVE  Moved'
<1> USE DEF UpdateInv, Moved, IInv, TypeOK
<1>0. /\ env.old # env.version /\ env.path \in {env.old, env.version}
      /\ env.version \in Versions /\ env.old \in Versions
  BY VersionsOfEnv, UpgradeAssumption DEF Environment
<1>1. /\ phase = "dummy" /\ phase' = phase /\ env' = env /\ mrseq' = mrseq
      /\ names' = names \ {e}
      /\ untold \subseteq untold'
  BY DEF CreateDummyStatusFile, agent
<1>2. \/ status' = status
      \/ /\ NeedsDummy(e)
         /\ status' = [status EXCEPT ![env.path] = @ \cup {File(e, mrseq[env.path][e])}]
  BY DEF CreateDummyStatusFile
<1>3. \A d \in Versions : status[d] \subseteq status'[d]
  BY <1>2
<1>4. \/ status'[env.old] = status[env.old]
      \/ ~Problematic /\ status[env.old] \subseteq status'[env.old]
  <2>1. CASE env.path = env.old /\ NeedsDummy(e)
    <3>1. mrseq[env.old][e] # NoSeq
      BY <2>1, NoNumber DEF NeedsDummy, NoSeq
    <3> QED
      BY <1>0, <1>1, <1>3, <3>1 DEF OldBare, Moving
  <2>2. CASE env.path # env.old \/ status' = status
    BY <1>0, <1>2, <2>2
  <2> QED
    BY <1>2, <2>1, <2>2
<1>5. StatusCopied'
  BY <1>0, <1>1, <1>2, <1>3 DEF StatusCopied
<1>6. DummyMade'
  <2> SUFFICES ASSUME env.path = env.version, NEW d \in MrSeqFiles(env.old),
                      mrseq[env.version][d] \in SeqNumbers, d \notin names' \cup untold'
               PROVE  File(d, mrseq[env.version][d]) \in status'[env.version]
    BY <1>1 DEF DummyMade, MrSeqFiles
  <2>1. CASE d = e
    <3>1. \/ /\ status' = IF NeedsDummy(e)
                            THEN [status EXCEPT ![env.path] =
                                    @ \cup {File(e, mrseq[env.path][e])}]
                            ELSE status
          \/ untold' = untold \cup {e}
      BY DEF CreateDummyStatusFile
    <3> QED
      BY <1>0, <2>1, <3>1 DEF NeedsDummy
  <2>2. CASE d # e
    BY <1>0, <1>1, <1>3, <2>2 DEF DummyMade
  <2> QED
    BY <2>1, <2>2
<1> QED
  BY <1>1, <1>4, <1>5, <1>6, LateMoved

LEMMA EndUpdateMoved == ASSUME UpdateInv, EndUpdate PROVE Moved'
<1>1. /\ phase = "dummy" /\ phase' = "new"
      /\ env' = env /\ mrseq' = mrseq /\ status' = status
  BY DEF EndUpdate, disk, agent
<1>2. StatusCopied' /\ DummyMade'
  BY <1>1 DEF StatusCopied, DummyMade
<1> QED
  BY <1>1, <1>2, LateMoved

LEMMA AbortMoved ==
  ASSUME UpdateInv, Abort \/ \E e \in ExtensionNames : AbortWrite(e)
  PROVE  Moved'
<1> USE DEF UpdateInv, Moved, IInv, TypeOK
<1>0. /\ To = env.version /\ env.old # env.version
      /\ env.version \in Versions /\ env.old \in Versions
  BY VersionsOfEnv, Directories DEF Found, Abort, AbortWrite
<1>1. /\ Moving /\ phase' = "disabled" /\ env' = env /\ status' = status
      /\ (Problematic' <=> Problematic)
  BY DEF Abort, AbortWrite, Moving, disk, agent, Problematic
<1>2. mrseq'[env.old] = mrseq[env.old]
  BY <1>0 DEF Abort, AbortWrite, disk
<1>3. ASSUME NEW e \in ExtensionNames
      PROVE  \/ mrseq'[env.version][e] = mrseq[env.version][e]
             \/ /\ mrseq'[env.version][e] = Torn
                /\ Problematic \/ mrseq[env.old][e] # NoSeq
  <2>1. CASE Abort
    BY <2>1 DEF Abort, disk
  <2>2. ASSUME NEW d \in ExtensionNames, AbortWrite(d)
        PROVE  \/ mrseq'[env.version][e] = mrseq[env.version][e]
               \/ /\ mrseq'[env.version][e] = Torn
                  /\ Problematic \/ mrseq[env.old][e] # NoSeq
    <3>1. CASE d # e
      BY <1>0, <2>2, <3>1 DEF AbortWrite
    <3>2. CASE d = e
      <4>1. mrseq'[env.version][e] = Torn
        BY <1>0, <2>2, <3>2 DEF AbortWrite
      <4>2. phase = "rehydrate" \/ (phase = "mrseq" /\ e \in names)
        BY <2>2, <3>2 DEF AbortWrite
      <4>3. Problematic \/ mrseq[env.old][e] # NoSeq
        BY <4>2 DEF RehydratesProblematic, NamesExist, MrSeqFiles
      <4> QED
        BY <4>1, <4>3
    <3> QED
      BY <3>1, <3>2
  <2> QED
    BY <2>1, <2>2
<1>4. OldBare'
  BY <1>1, <1>2 DEF OldBare, Moving
<1>5. Sourced'
  BY <1>1, <1>2, <1>3 DEF Sourced
<1>6. DottedBare'
  <2> SUFFICES ASSUME Problematic, NEW e \in DottedNames
               PROVE  mrseq'[env.version][e] = NoSeq
    BY <1>1 DEF DottedBare
  <2>1. mrseq[env.version][e] = NoSeq /\ e \in ExtensionNames
    BY <1>1, UpgradeAssumption DEF DottedBare
  <2>2. CASE Abort
    BY <2>1, <2>2 DEF Abort, disk
  <2>3. ASSUME NEW d \in ExtensionNames, AbortWrite(d)
        PROVE  mrseq'[env.version][e] = NoSeq
    <3>1. d # e
      BY <2>3 DEF AbortWrite, Rehydrates, NamesExist, MrSeqFiles, OldBare, Moving
    <3> QED
      BY <1>0, <2>1, <2>3, <3>1 DEF AbortWrite
  <2> QED
    BY <2>2, <2>3
<1> QED
  BY <1>1, <1>4, <1>5, <1>6 DEF Untouched, FilesExist, MrSeqCopied, TornZero, StatusCopied,
     DummyMade

LEMMA UpdateInvStep == UpdateInv /\ [Next]_vars => UpdateInv'
<1> SUFFICES ASSUME UpdateInv, [Next]_vars PROVE UpdateInv'
  OBVIOUS
<1>0. IInv'
  BY IInvStep DEF UpdateInv
<1>a. \A e \in ExtensionNames, n \in SeqNumbers : File(e, n) \in StatusFile
  BY DEF File, StatusFile
<1>1. ASSUME UNCHANGED vars PROVE Moved'
  <2>1. UNCHANGED <<mrseq, status, phase, files, names, env, untold>>
    BY <1>1 DEF vars, disk, loops, agent, ghosts
  <2>2. Untouched' /\ OldBare' /\ FilesExist' /\ Sourced' /\ DottedBare'
    BY <2>1 DEF UpdateInv, Moved, Moving, Untouched, OldBare, FilesExist, Sourced,
       DottedBare, Problematic
  <2>3. MrSeqCopied' /\ TornZero' /\ StatusCopied' /\ DummyMade'
    BY <2>1 DEF UpdateInv, Moved, MrSeqCopied, TornZero, StatusCopied, DummyMade,
       Problematic, MrSeqFiles
  <2> QED
    BY <2>2, <2>3 DEF Moved
<1>2. Moved'
  BY <1>a, <1>1, <1>0, EnableMoved, DisableMoved, UpdateMoved, RehydrateMoved,
     EndRehydrateMoved, CopyMrSeqMoved, EndMrSeqMoved, CopyStatusMoved,
     EndStatusMoved, DummyMoved, EndUpdateMoved, AbortMoved
     DEF Next, Visit, UpdateInv
<1> QED
  BY <1>0, <1>2 DEF UpdateInv

(* The end of an update leaves empty only the mrseq files that were empty   *)
(* in the old version or stand for a status file of number 0, whatever      *)
(* earlier attempts left (cmds.go:430-478, 497-567).                        *)
THEOREM RetriesRepair == Spec => RetryRepairs
<1> DEFINE Repairs ==
      Updated => \A e \in ExtensionNames : mrseq[env.version][e] = Torn =>
        \/ mrseq[env.old][e] = Torn
        \/ \A f \in status[env.old] : f.ext = e => f.seq = 0
<1>1. UpdateInv => [Repairs]_vars
  <2> SUFFICES ASSUME UpdateInv, Updated, NEW e \in ExtensionNames,
                      mrseq[env.version][e] = Torn
               PROVE  \/ mrseq[env.old][e] = Torn
                      \/ \A f \in status[env.old] : f.ext = e => f.seq = 0
    OBVIOUS
  <2>1. phase = "dummy"
    BY DEF Updated
  <2>2. CASE Problematic
    BY <2>1, <2>2 DEF UpdateInv, Moved, TornZero
  <2>3. CASE ~Problematic
    <3>1. mrseq[env.old][e] # NoSeq
      BY <2>1, <2>3 DEF UpdateInv, Moved, Sourced, Moving, NoSeq, Torn
    <3> QED
      BY <2>1, <3>1 DEF UpdateInv, Moved, MrSeqCopied, MrSeqFiles
  <2> QED
    BY <2>2, <2>3
<1>2. Spec => [][Repairs]_vars
  <2> HIDE DEF Repairs
  <2> QED
    BY <1>1, InitMoved, UpdateInvStep, PTL DEF Spec
<1> QED
  BY <1>2 DEF RetryRepairs

(* The end of an update leaves every run command a status file for its      *)
(* number, copied from the old version or made as a dummy (cmds.go:443),    *)
(* if the environment names the new directory and no dummy failed.          *)
THEOREM StatusesReturn == Spec => StatusReturned
<1> DEFINE Returns ==
      Updated /\ env.path = env.version =>
        \A e \in ExtensionNames : mrseq[env.version][e] \in SeqNumbers =>
          \/ File(e, mrseq[env.version][e]) \in status[env.version]
          \/ e \in untold
<1>1. UpdateInv /\ [Next]_vars => [Returns]_vars
  <2> SUFFICES ASSUME UpdateInv, Next, Updated, env.path = env.version,
                      NEW e \in ExtensionNames, mrseq[env.version][e] \in SeqNumbers
               PROVE  \/ File(e, mrseq[env.version][e]) \in status[env.version]
                      \/ e \in untold
    OBVIOUS
  <2>1. phase = "dummy" /\ names = {}
    BY DEF Updated, Next, EnableRuns, EnableDies, Enables, Disable, Update, Visit,
       CopyMrSeqFile, CreateDummyStatusFile, AbortWrite, RehydrateMrSeqFile, CopyStatusFile,
       EndRehydrate, EndMrSeqFiles, EndStatusFiles, EndUpdate, Abort
  <2>2. mrseq[env.version][e] # NoSeq /\ mrseq[env.version][e] # Torn
    BY NoNumber DEF NoSeq, Torn
  <2>3. CASE mrseq[env.old][e] # NoSeq
    BY <2>1, <2>3 DEF UpdateInv, Moved, DummyMade, MrSeqFiles
  <2>4. CASE mrseq[env.old][e] = NoSeq
    <3>1. File(e, mrseq[env.version][e]) \in status[env.old]
      BY <2>1, <2>2, <2>4 DEF UpdateInv, Moved, Sourced, Moving
    <3> QED
      BY <2>1, <3>1 DEF UpdateInv, Moved, StatusCopied
  <2> QED
    BY <2>3, <2>4
<1>2. Spec => [][Returns]_vars
  <2> HIDE DEF Returns
  <2> QED
    BY <1>1, InitMoved, UpdateInvStep, PTL DEF Spec
<1> QED
  BY <1>2 DEF StatusReturned
=============================================================================
