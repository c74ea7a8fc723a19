------------------------ MODULE StatusObserverProofs ------------------------
(***************************************************************************)
(* Theorems about StatusObserver, for every set of goal states, callers,   *)
(* faults and bound.                                                       *)
(***************************************************************************)
EXTENDS StatusObserver, TLAPS, SequenceTheorems, WellFoundedInduction

-----------------------------------------------------------------------------
(* Lists.                                                                   *)

(* What a list holds after an append or a concatenation.                    *)
LEMMA ElementsOfConcat ==
  ASSUME NEW S, NEW l \in Seq(S), NEW m \in Seq(S)
  PROVE  /\ l \o m \in Seq(S)
         /\ ToSet(l) \subseteq ToSet(l \o m)
         /\ ToSet(m) \subseteq ToSet(l \o m)
<1>1. /\ l \o m \in Seq(S)
      /\ Len(l \o m) = Len(l) + Len(m)
      /\ \A i \in 1..Len(l) : (l \o m)[i] = l[i]
      /\ \A i \in 1..Len(m) : (l \o m)[Len(l) + i] = m[i]
  OBVIOUS
<1>2. DOMAIN l = 1..Len(l) /\ DOMAIN m = 1..Len(m) /\ DOMAIN (l \o m) = 1..Len(l \o m)
  BY <1>1
<1>3. Len(l) \in Nat /\ Len(m) \in Nat
  OBVIOUS
<1>4. ToSet(l) \subseteq ToSet(l \o m)
  BY <1>1, <1>2, <1>3 DEF ToSet
<1>5. ASSUME NEW i \in 1..Len(m)  PROVE m[i] \in ToSet(l \o m)
  <2>1. Len(l) + i \in DOMAIN (l \o m)
    BY <1>1, <1>2, <1>3
  <2>2. QED  BY <2>1, <1>1 DEF ToSet
<1>6. QED  BY <1>1, <1>2, <1>4, <1>5 DEF ToSet

LEMMA ElementsOfAppend ==
  ASSUME NEW S, NEW l \in Seq(S), NEW e \in S
  PROVE  /\ Append(l, e) \in Seq(S)
         /\ ToSet(l) \subseteq ToSet(Append(l, e))
         /\ e \in ToSet(Append(l, e))
<1>1. /\ Append(l, e) \in Seq(S)
      /\ Len(Append(l, e)) = Len(l) + 1
      /\ \A i \in 1..Len(l) : Append(l, e)[i] = l[i]
      /\ Append(l, e)[Len(l) + 1] = e
      /\ Len(l) \in Nat
  OBVIOUS
<1>2. DOMAIN l = 1..Len(l) /\ DOMAIN Append(l, e) = 1..(Len(l) + 1)
  BY <1>1
<1>3. Len(l) + 1 \in DOMAIN Append(l, e)
  BY <1>1, <1>2
<1>4. QED  BY <1>1, <1>2, <1>3 DEF ToSet

(* Removing the element at an index keeps every other element.              *)
LEMMA ElementsOfRemoveAt ==
  ASSUME NEW S, NEW l \in Seq(S), NEW i \in 1..Len(l)
  PROVE  /\ RemoveAt(l, i) \in Seq(S)
         /\ \A e \in ToSet(l) : e # l[i] => e \in ToSet(RemoveAt(l, i))
<1> DEFINE front == SubSeq(l, 1, i - 1)
           back == SubSeq(l, i + 1, Len(l))
<1>1. Len(l) \in Nat /\ i \in Nat /\ i <= Len(l) /\ DOMAIN l = 1..Len(l)
  OBVIOUS
<1>2. front \in Seq(S) /\ Len(front) = i - 1 /\ \A j \in 1..(i - 1) : front[j] = l[j]
  BY <1>1
<1>3. back \in Seq(S) /\ Len(back) = Len(l) - i
      /\ \A j \in 1..(Len(l) - i) : back[j] = l[i + j]
  <2>1. /\ back \in Seq(S)
        /\ Len(back) = IF i + 1 <= Len(l) THEN Len(l) - (i + 1) + 1 ELSE 0
        /\ \A j \in 1..(Len(l) - (i + 1) + 1) : back[j] = l[(i + 1) + j - 1]
    <3>1. (i + 1) \in 1..(Len(l) + 1) /\ Len(l) \in i..Len(l)
      BY <1>1
    <3>2. QED  BY <1>1, <3>1, SubSeqProperties
  <2> HIDE DEF back
  <2>2. Len(back) = Len(l) - i
    <3>1. CASE i + 1 <= Len(l)
      <4>1. Len(back) = Len(l) - (i + 1) + 1
        BY <2>1, <3>1
      <4>2. QED  BY <1>1, <4>1
    <3>2. CASE ~(i + 1 <= Len(l))
      <4>1. Len(back) = 0
        BY <2>1, <3>2
      <4>2. \A m, n \in Nat : m <= n /\ ~(m + 1 <= n) => m = n
        OBVIOUS
      <4>3. i = Len(l)
        BY <1>1, <3>2, <4>2
      <4>4. QED  BY <1>1, <4>1, <4>3
    <3>3. QED  BY <3>1, <3>2
  <2>3. ASSUME NEW j \in 1..(Len(l) - i)  PROVE back[j] = l[i + j]
    <3>1. j \in 1..(Len(l) - (i + 1) + 1) /\ (i + 1) + j - 1 = i + j
      BY <1>1
    <3>2. QED  BY <2>1, <3>1
  <2>4. QED  BY <2>1, <2>2, <2>3
<1> HIDE DEF front, back
<1>4. /\ RemoveAt(l, i) \in Seq(S)
      /\ ToSet(front) \subseteq ToSet(RemoveAt(l, i))
      /\ ToSet(back) \subseteq ToSet(RemoveAt(l, i))
  BY <1>2, <1>3, ElementsOfConcat DEF RemoveAt, front, back
<1>5. ASSUME NEW j \in 1..Len(l), l[j] # l[i]  PROVE l[j] \in ToSet(RemoveAt(l, i))
  <2>1. CASE j < i
    <3>1. j \in DOMAIN front /\ front[j] = l[j]
      BY <1>1, <1>2, <2>1
    <3>2. QED  BY <3>1, <1>4 DEF ToSet
  <2>2. CASE j > i
    <3>1. (j - i) \in 1..(Len(l) - i) /\ i + (j - i) = j
      BY <1>1, <2>2
    <3>2. (j - i) \in DOMAIN back /\ back[j - i] = l[j]
      BY <1>3, <3>1
    <3>3. QED  BY <3>2, <1>4 DEF ToSet
  <2>3. QED  BY <1>1, <1>5, <2>1, <2>2
<1>6. QED  BY <1>1, <1>4, <1>5 DEF ToSet

(* One iteration of the pruning loop removes only an entry its key          *)
(* obsoletes (status.go:157-178).                                           *)
LEMMA WithoutKeepsOthers ==
  ASSUME NEW S, NEW l \in Seq(S), NEW k
  PROVE  /\ Without(l, k) \in Seq(S)
         /\ \A e \in ToSet(l) : Obsoletes(k, e) \/ e \in ToSet(Without(l, k))
<1>1. CASE \A i \in DOMAIN l : ~Obsoletes(k, l[i])
  BY <1>1 DEF Without
<1>2. CASE \E i \in DOMAIN l : Obsoletes(k, l[i])
  <2> DEFINE I == {i \in DOMAIN l : Obsoletes(k, l[i])}
             First(i) == /\ Obsoletes(k, l[i])
                         /\ \A j \in 1..(i - 1) : ~Obsoletes(k, l[j])
  <2>1. DOMAIN l = 1..Len(l) /\ Len(l) \in Nat
    OBVIOUS
  <2>2. I \subseteq Nat /\ I # {}
    BY <1>2, <2>1
  <2>3. PICK i \in I : \A j \in I : ~(<<j, i>> \in OpToRel(<, Nat))
    <3> HIDE DEF I
    <3>1. QED  BY <2>2, WFMin, NatLessThanWellFounded
  <2>4. i \in DOMAIN l /\ First(i)
    <3>1. ASSUME NEW j \in 1..(i - 1), Obsoletes(k, l[j])  PROVE FALSE
      <4> i \in 1..Len(l)
        BY <2>1, <2>3
      <4>1. j \in I /\ j < i /\ j \in Nat /\ i \in Nat
        BY <2>1, <3>1
      <4>2. <<j, i>> \in OpToRel(<, Nat)
        BY <4>1 DEF OpToRel
      <4>3. QED  BY <2>3, <4>1, <4>2
    <3>2. QED  BY <2>3, <3>1
  <2>5. FirstObsolete(l, k) \in DOMAIN l /\ Obsoletes(k, l[FirstObsolete(l, k)])
    BY <2>4 DEF FirstObsolete
  <2>6. Without(l, k) = RemoveAt(l, FirstObsolete(l, k))
    BY <1>2 DEF Without
  <2>7. QED  BY <2>1, <2>5, <2>6, ElementsOfRemoveAt
<1>3. QED  BY <1>1, <1>2

-----------------------------------------------------------------------------
(* Types.                                                                   *)

LEMMA EntryType ==
  ASSUME NEW k \in Keys, NEW s \in StatusTypes
  PROVE  EntryOf(k, s) \in ImmediateStatus
<1>1. k \in GoalStateKey
  BY ObserverAssumption
<1>2. QED  BY <1>1 DEF EntryOf, ImmediateStatus, GoalStateKey

LEMMA NotifiableType ==
  ASSUME NEW k \in Keys, NEW s \in Notifiable(k)
  PROVE  s \in StatusTypes
BY ObserverAssumption DEF Notifiable, StatusTypes

LEMMA ToSetType ==
  ASSUME NEW l \in Seq(ImmediateStatus)
  PROVE  ToSet(l) \subseteq ImmediateStatus
BY DEF ToSet

(* Every variable keeps its type through every step.                        *)
LEMMA TypeStep == TypeOK /\ [Next]_vars => TypeOK'
<1> SUFFICES ASSUME TypeOK, [Next]_vars  PROVE TypeOK'
  OBVIOUS
<1> USE DEF Goto
<1>0. /\ Poller \in Callers
      /\ Empty \in StatusTypes /\ TerminalTypes \subseteq StatusTypes
  BY ObserverAssumption DEF StatusTypes
<1>1. ASSUME NEW t \in Callers, NEW k \in Keys, NEW s \in Notifiable(k), OnNotify(t, k, s)
      PROVE  TypeOK'
  <2>1. goalStateEventMap' \in [Keys -> StatusTypes \cup {Absent}]
    BY <1>1, NotifiableType DEF TypeOK, OnNotify
  <2>2. final' \in [Keys -> TerminalTypes \cup {Absent}]
    BY <1>1 DEF TypeOK, OnNotify, IsTerminal
  <2>3. losses' \in SUBSET Losses
    BY <1>1 DEF TypeOK, OnNotify, Losses
  <2>4. /\ pc' \in [Callers -> Steps] /\ mode' \in [Callers -> {"report", "remove"}]
        /\ calls' \in Nat /\ seen' \in SUBSET Keys
    BY <1>1 DEF TypeOK, OnNotify, Steps
  <2>5. moved' \in SUBSET Callers
    BY <1>1 DEF TypeOK, OnNotify, MovesOthers
  <2>6. UNCHANGED <<file, hgap, scratch, stale>>
    BY <1>1 DEF OnNotify
  <2>7. QED  BY <2>1, <2>2, <2>3, <2>4, <2>5, <2>6 DEF TypeOK, scratch
<1>2. ASSUME NEW keys \in SUBSET Keys, RemoveProcessedGoalStates(keys)  PROVE TypeOK'
  BY <1>0, <1>2 DEF TypeOK, RemoveProcessedGoalStates, shared, ghosts, Steps
<1>3. ASSUME NEW t \in Callers, StartRange(t)  PROVE TypeOK'
  BY <1>3 DEF TypeOK, StartRange, shared, ghosts, Stored, Steps
<1>4. ASSUME NEW t \in Callers, NEW k \in Keys, Visit(t, k)  PROVE TypeOK'
  <2> DEFINE v == goalStateEventMap[k]
  <2>1. v # Absent => v \in StatusTypes /\ EntryOf(k, v) \in ImmediateStatus
    BY EntryType DEF TypeOK
  <2>2. /\ Reports(t, k, v) => v # Absent
        /\ Collects(t, k, v) => v # Absent
    BY DEF Reports, Collects
  <2>3. live' \in [Callers -> SUBSET ImmediateStatus]
    BY <1>4, <2>1, <2>2 DEF TypeOK, Visit
  <2>4. fresh' \in [Callers -> Seq(ImmediateStatus)]
    BY <1>4, <2>1, <2>2, ElementsOfAppend DEF TypeOK, Visit
  <2>5. QED  BY <1>4, <2>3, <2>4 DEF TypeOK, Visit, shared, ghosts
<1>5. ASSUME NEW t \in Callers, NEW k \in Keys, Delete(t, k)  PROVE TypeOK'
  BY <1>5 DEF TypeOK, Delete, MovesOthers, Losses
<1>6. ASSUME NEW t \in Callers, EndRange(t)  PROVE TypeOK'
  BY <1>6 DEF TypeOK, EndRange, shared, scratch, ghosts, Steps
<1>7. ASSUME NEW t \in Callers, PruneGet(t)  PROVE TypeOK'
  <2>1. list' \in [Callers -> Seq(ImmediateStatus)] /\ stale' \in SUBSET Callers
    BY <1>7 DEF TypeOK, PruneGet
  <2>2. pc' \in [Callers -> Steps]
    BY <1>7 DEF TypeOK, PruneGet, Steps
  <2>3. UNCHANGED <<shared, mode, listed, todo, doomed, live, fresh, prune, calls,
                    seen, final, moved, losses>>
    BY <1>7 DEF PruneGet
  <2>4. QED  BY <2>1, <2>2, <2>3 DEF TypeOK, shared
<1>8. ASSUME NEW t \in Callers, NEW k \in Keys, PruneKey(t, k)  PROVE TypeOK'
  <2>1. Without(list[t], k) \in Seq(ImmediateStatus)
    BY WithoutKeepsOthers DEF TypeOK
  <2>2. list' \in [Callers -> Seq(ImmediateStatus)] /\ prune' \in [Callers -> SUBSET Keys]
    <3>1. CASE k.state \in {"enabled", "disabled"}
      <4>1. /\ list' = [list EXCEPT ![t] = Without(list[t], k)]
            /\ prune' = [prune EXCEPT ![t] = prune[t] \ {k}]
        BY <1>8, <3>1 DEF PruneKey
      <4>2. QED  BY <2>1, <4>1 DEF TypeOK
    <3>2. CASE k.state \notin {"enabled", "disabled"}
      <4>1. UNCHANGED <<list, prune>>
        BY <1>8, <3>2 DEF PruneKey
      <4>2. QED  BY <4>1 DEF TypeOK
    <3>3. QED  BY <3>1, <3>2
  <2>3. pc' \in [Callers -> Steps]
    BY <1>8 DEF TypeOK, PruneKey, Steps
  <2>4. UNCHANGED <<shared, mode, listed, todo, doomed, live, fresh, calls, ghosts>>
    BY <1>8 DEF PruneKey
  <2>5. QED  BY <2>2, <2>3, <2>4 DEF TypeOK, shared, ghosts
<1>9. ASSUME NEW t \in Callers, PruneSave(t)  PROVE TypeOK'
  <2>1. file' \in Seq(ImmediateStatus) /\ stale' \in SUBSET Callers
    BY <1>9 DEF TypeOK, PruneSave, Write
  <2>2. losses' \in SUBSET Losses
    BY <1>9 DEF TypeOK, PruneSave, Write, Losses
  <2>3. pc' \in [Callers -> Steps]
    BY <1>9 DEF TypeOK, PruneSave, Steps
  <2>4. UNCHANGED <<goalStateEventMap, hgap, mode, scratch, calls, seen, final,
                    moved>>
    BY <1>9 DEF PruneSave
  <2>5. QED  BY <2>1, <2>2, <2>3, <2>4 DEF TypeOK, scratch
<1>10. ASSUME NEW t \in Callers, Get(t)  PROVE TypeOK'
  <2>1. PICK ok \in BOOLEAN :
          /\ list' = [list EXCEPT ![t] = (IF ok THEN file ELSE <<>>) \o fresh[t]]
          /\ losses' = IF ~ok /\ Saves(t) THEN losses \cup {"unreadable"} ELSE losses
    BY <1>10 DEF Get
  <2>2. (IF ok THEN file ELSE <<>>) \o fresh[t] \in Seq(ImmediateStatus)
    BY ElementsOfConcat DEF TypeOK
  <2>3. list' \in [Callers -> Seq(ImmediateStatus)]
    BY <2>1, <2>2 DEF TypeOK
  <2>4. losses' \in SUBSET Losses
    BY <2>1 DEF TypeOK, Losses
  <2>5. QED  BY <1>10, <2>3, <2>4 DEF TypeOK, Get, shared, Steps
<1>11. ASSUME NEW t \in Callers, Save(t)  PROVE TypeOK'
  <2>1. file' \in Seq(ImmediateStatus) /\ stale' \in SUBSET Callers
    BY <1>11 DEF TypeOK, Save, Write
  <2>2. losses' \in SUBSET Losses
    BY <1>11 DEF TypeOK, Save, Write, Losses
  <2>3. fresh' \in [Callers -> Seq(ImmediateStatus)]
    BY <1>11 DEF TypeOK, Save
  <2>4. pc' \in [Callers -> Steps] /\ mode' \in [Callers -> {"report", "remove"}]
    BY <1>11 DEF TypeOK, Save, Steps
  <2>5. UNCHANGED <<goalStateEventMap, hgap, listed, todo, doomed, live, prune,
                    list, calls, seen, final, moved>>
    BY <1>11 DEF Save
  <2>6. QED  BY <2>1, <2>2, <2>3, <2>4, <2>5 DEF TypeOK
<1>12. ASSUME NEW t \in Callers, Put(t)  PROVE TypeOK'
  <2>1. Payload(t) \in SUBSET ImmediateStatus
    BY ToSetType DEF TypeOK, Payload
  <2>2. QED  BY <1>12, <2>1 DEF TypeOK, Put, ghosts, Steps
<1>13. ASSUME Restart  PROVE TypeOK'
  <2>1. stale' \in SUBSET Callers /\ moved' \in SUBSET Callers
    BY <1>13 DEF Restart
  <2>2. losses' \in SUBSET Losses
    BY <1>13 DEF TypeOK, Restart, Losses
  <2>3. fresh' \in [Callers -> Seq(ImmediateStatus)] /\ list' \in [Callers -> Seq(ImmediateStatus)]
    BY <1>13 DEF Restart
  <2>4. goalStateEventMap' \in [Keys -> StatusTypes \cup {Absent}]
    BY <1>13 DEF Restart
  <2>5. pc' \in [Callers -> Steps] /\ mode' \in [Callers -> {"report", "remove"}]
    BY <1>13 DEF Restart, Steps
  <2>6. /\ listed' \in [Callers -> SUBSET Keys] /\ todo' \in [Callers -> SUBSET Keys]
        /\ doomed' \in [Callers -> SUBSET Keys] /\ prune' \in [Callers -> SUBSET Keys]
        /\ live' \in [Callers -> SUBSET ImmediateStatus]
    BY <1>13 DEF Restart
  <2>7. UNCHANGED <<file, hgap, calls, seen, final>>
    BY <1>13 DEF Restart
  <2>8. QED  BY <2>1, <2>2, <2>3, <2>4, <2>5, <2>6, <2>7 DEF TypeOK
<1>14. ASSUME UNCHANGED vars  PROVE TypeOK'
  BY <1>14 DEF TypeOK, vars, shared, scratch, ghosts
<1>15. QED
  BY <1>1, <1>2, <1>3, <1>4, <1>5, <1>6, <1>7, <1>8, <1>9, <1>10, <1>11,
     <1>12, <1>13, <1>14
  DEF Next, LocalStep, Step, PutPanics, Crash

(* Every state the observer reaches is well typed.                          *)
THEOREM TypeCorrect == Spec => []TypeOK
<1>1. Init => TypeOK
  BY ObserverAssumption DEF Init, TypeOK, Steps, Losses
<1>2. QED  BY <1>1, TypeStep, PTL DEF Spec

-----------------------------------------------------------------------------
(* Custody of the terminal statuses.                                        *)

LEMMA InitCustody == Init => IInv
<1> SUFFICES ASSUME Init  PROVE IInv
  OBVIOUS
<1>1. TypeOK
  BY ObserverAssumption DEF Init, TypeOK, Steps, Losses
<1>2. FreshUntilSaved /\ SaveCoversFresh /\ ListCoversFile
  BY DEF Init, FreshUntilSaved, SaveCoversFresh, ListCoversFile, Held
<1>3. KeysSeen
  BY DEF Init, KeysSeen, Stored
<1>4. Finals = {}
  BY DEF Init, Finals, IsTerminal, TerminalTypes, Absent
<1>5. QED  BY <1>1, <1>2, <1>3, <1>4 DEF IInv, Custody, TerminalKept

(* A step that leaves the map, the file, the hands and the ghosts alone     *)
(* keeps every status where it was.                                         *)
LEMMA KeptUnchanged ==
  ASSUME TerminalKept,
         UNCHANGED <<goalStateEventMap, file, fresh, seen, final, losses>>
  PROVE  TerminalKept'
BY DEF TerminalKept, Finals, InMap, InHand, InFile, Superseded

LEMMA OnNotifyCustody ==
  ASSUME IInv, NEW t \in Callers, NEW k \in Keys, NEW s \in Notifiable(k),
         OnNotify(t, k, s)
  PROVE  Custody' /\ TerminalKept'
<1> USE DEF IInv, Custody
<1>1. /\ goalStateEventMap' = [goalStateEventMap EXCEPT ![k] = s]
      /\ pc[t] = "idle" /\ pc' = [pc EXCEPT ![t] = "collect"]
      /\ seen' = seen \cup {k}
      /\ UNCHANGED <<file, fresh, prune, list, stale>>
  BY DEF OnNotify, scratch, Goto
<1>2. losses' = {} => /\ losses = {}
                      /\ IsTerminal(goalStateEventMap[k]) => goalStateEventMap[k] = s
  BY DEF OnNotify
<1>3. \A e : Superseded(e) => Superseded(e)'
  BY <1>1 DEF Superseded
<1>4. FreshUntilSaved'
  BY <1>1 DEF FreshUntilSaved, TypeOK
<1>5. SaveCoversFresh'
  BY <1>1 DEF SaveCoversFresh, TypeOK
<1>6. ListCoversFile'
  <2> SUFFICES ASSUME NEW u \in Callers, Held(u)', u \notin stale',
                      NEW e \in ToSet(file)'
               PROVE  e \in ToSet(list[u])' \/ Superseded(e)'
    BY DEF ListCoversFile
  <2>1. u # t /\ Held(u)
    BY <1>1 DEF Held, TypeOK
  <2>2. QED  BY <1>1, <1>2, <1>3, <2>1 DEF ListCoversFile
<1>7. KeysSeen'
  BY <1>1 DEF KeysSeen, Stored, TypeOK
<1>8. TerminalKept'
  <2> SUFFICES ASSUME losses' = {}, NEW e \in Finals'
               PROVE  (InMap(e) \/ InHand(e) \/ InFile(e) \/ Superseded(e))'
    BY DEF TerminalKept
  <2>1. PICK j \in Keys : IsTerminal(final'[j]) /\ e = EntryOf(j, final'[j])
    BY DEF Finals
  <2>2. CASE j = k /\ IsTerminal(s)
    <3>1. final'[j] = s /\ goalStateEventMap'[k] = s
      BY <1>1, <2>2 DEF OnNotify, TypeOK
    <3>2. QED  BY <2>1, <2>2, <3>1 DEF InMap
  <2>3. CASE ~(j = k /\ IsTerminal(s))
    <3>1. final'[j] = final[j]
      BY <2>3 DEF OnNotify, TypeOK
    <3>2. e \in Finals
      BY <2>1, <3>1 DEF Finals
    <3>3. InMap(e) => InMap(e)'
      BY <1>1, <1>2 DEF InMap, TypeOK
    <3>4. (InHand(e) => InHand(e)') /\ (InFile(e) => InFile(e)')
      BY <1>1 DEF InHand, InFile
    <3>5. QED  BY <1>2, <1>3, <3>2, <3>3, <3>4 DEF TerminalKept
  <2>4. QED  BY <2>2, <2>3
<1>9. QED  BY <1>4, <1>5, <1>6, <1>7, <1>8

LEMMA RemoveProcessedCustody ==
  ASSUME IInv, NEW keys \in SUBSET Keys, RemoveProcessedGoalStates(keys)
  PROVE  Custody' /\ TerminalKept'
<1> USE DEF IInv, Custody
<1>1. /\ pc[Poller] = "idle" /\ pc' = [pc EXCEPT ![Poller] = "collect"]
      /\ UNCHANGED <<goalStateEventMap, file, fresh, prune, list, seen, final, stale, losses>>
  BY DEF RemoveProcessedGoalStates, shared, ghosts, Goto
<1>2. FreshUntilSaved' /\ SaveCoversFresh'
  BY <1>1 DEF FreshUntilSaved, SaveCoversFresh, TypeOK
<1>3. ListCoversFile'
  BY <1>1 DEF ListCoversFile, Held, Superseded, TypeOK
<1>4. KeysSeen'
  BY <1>1 DEF KeysSeen, Stored
<1>5. QED  BY <1>1, <1>2, <1>3, <1>4, KeptUnchanged

LEMMA StartRangeCustody ==
  ASSUME IInv, NEW t \in Callers, StartRange(t)
  PROVE  Custody' /\ TerminalKept'
<1> USE DEF IInv, Custody
<1>1. /\ pc[t] = "collect" /\ pc' = [pc EXCEPT ![t] = "range"]
      /\ fresh' = [fresh EXCEPT ![t] = <<>>]
      /\ prune' = [prune EXCEPT ![t] = {}]
      /\ list' = [list EXCEPT ![t] = <<>>]
      /\ UNCHANGED <<goalStateEventMap, file, seen, final, stale, losses>>
  BY DEF StartRange, shared, ghosts, Goto
<1>2. fresh[t] = <<>>
  BY <1>1 DEF FreshUntilSaved
<1>3. fresh' = fresh
  BY <1>1, <1>2 DEF TypeOK
<1>4. FreshUntilSaved' /\ SaveCoversFresh'
  BY <1>1, <1>3 DEF FreshUntilSaved, SaveCoversFresh, TypeOK
<1>5. ListCoversFile'
  BY <1>1 DEF ListCoversFile, Held, Superseded, TypeOK
<1>6. KeysSeen'
  BY <1>1 DEF KeysSeen, Stored, TypeOK
<1>7. QED  BY <1>1, <1>3, <1>4, <1>5, <1>6, KeptUnchanged

LEMMA VisitCustody ==
  ASSUME IInv, NEW t \in Callers, NEW k \in Keys, Visit(t, k)
  PROVE  Custody' /\ TerminalKept'
<1> USE DEF IInv, Custody
<1> DEFINE v == goalStateEventMap[k]
<1>1. /\ pc[t] = "range"
      /\ UNCHANGED <<goalStateEventMap, file, pc, list, seen, final, stale, losses>>
  BY DEF Visit, shared, ghosts
<1>2. \/ fresh' = fresh
      \/ (v # Absent /\ fresh' = [fresh EXCEPT ![t] = Append(fresh[t], EntryOf(k, v))])
  BY DEF Visit, Collects, Reports
<1>3. \/ prune' = prune
      \/ (v # Absent /\ prune' = [prune EXCEPT ![t] = prune[t] \cup {k}])
  BY DEF Visit, PrunesWith, Collects, Reports
<1>4. \A u \in Callers : u # t => fresh'[u] = fresh[u]
  BY <1>2 DEF TypeOK
<1>5. ToSet(fresh[t]) \subseteq ToSet(fresh'[t])
  <2>1. CASE fresh' = fresh
    BY <2>1
  <2>2. CASE v # Absent /\ fresh' = [fresh EXCEPT ![t] = Append(fresh[t], EntryOf(k, v))]
    <3>1. EntryOf(k, v) \in ImmediateStatus /\ fresh[t] \in Seq(ImmediateStatus)
      BY <2>2, EntryType DEF TypeOK
    <3>2. fresh'[t] = Append(fresh[t], EntryOf(k, v))
      BY <2>2 DEF TypeOK
    <3>3. QED  BY <3>1, <3>2, ElementsOfAppend
  <2>3. QED  BY <1>2, <2>1, <2>2
<1>6. FreshUntilSaved' /\ SaveCoversFresh'
  BY <1>1, <1>4 DEF FreshUntilSaved, SaveCoversFresh
<1>7. ListCoversFile'
  BY <1>1 DEF ListCoversFile, Held, Superseded
<1>8. KeysSeen'
  <2>1. v # Absent => k \in seen
    BY DEF KeysSeen, Stored
  <2>2. \A u \in Callers : prune[u] \subseteq seen
    BY DEF KeysSeen
  <2>3. CASE prune' = prune
    BY <1>1, <2>3 DEF KeysSeen, Stored
  <2>4. CASE v # Absent /\ prune' = [prune EXCEPT ![t] = prune[t] \cup {k}]
    <3>1. prune \in [Callers -> SUBSET Keys]
      BY DEF TypeOK
    <3>2. ASSUME NEW u \in Callers  PROVE prune'[u] \subseteq seen
      BY <2>1, <2>2, <2>4, <3>1
    <3>3. Stored' = Stored
      BY <1>1 DEF Stored
    <3>4. QED  BY <1>1, <3>2, <3>3 DEF KeysSeen
  <2>5. QED  BY <1>3, <2>3, <2>4
<1>9. TerminalKept'
  <2>1. \A e : InHand(e) => InHand(e)'
    BY <1>4, <1>5 DEF InHand
  <2>2. QED  BY <1>1, <2>1 DEF TerminalKept, Finals, InMap, InFile, Superseded
<1>10. QED  BY <1>6, <1>7, <1>8, <1>9

LEMMA DeleteCustody ==
  ASSUME IInv, NEW t \in Callers, NEW k \in Keys, Delete(t, k)
  PROVE  Custody' /\ TerminalKept'
<1> USE DEF IInv, Custody
<1>1. /\ goalStateEventMap' = [goalStateEventMap EXCEPT ![k] = Absent]
      /\ UNCHANGED <<file, pc, fresh, prune, list, seen, final, stale>>
  BY DEF Delete
<1>2. losses' = {} =>
        /\ losses = {}
        /\ IsTerminal(goalStateEventMap[k]) =>
             EntryOf(k, goalStateEventMap[k]) \in ToSet(fresh[t])
  BY DEF Delete
<1>3. FreshUntilSaved' /\ SaveCoversFresh'
  BY <1>1 DEF FreshUntilSaved, SaveCoversFresh
<1>4. ListCoversFile'
  BY <1>1, <1>2 DEF ListCoversFile, Held, Superseded
<1>5. KeysSeen'
  BY <1>1 DEF KeysSeen, Stored, TypeOK
<1>6. TerminalKept'
  <2> SUFFICES ASSUME losses' = {}, NEW e \in Finals
               PROVE  (InMap(e) \/ InHand(e) \/ InFile(e) \/ Superseded(e))'
    BY <1>1 DEF TerminalKept, Finals
  <2>1. InMap(e) => InMap(e)' \/ InHand(e)
    BY <1>1, <1>2 DEF InMap, InHand, TypeOK
  <2>2. /\ InHand(e) => InHand(e)'
        /\ InFile(e) => InFile(e)'
        /\ Superseded(e) => Superseded(e)'
    BY <1>1 DEF InHand, InFile, Superseded
  <2>3. QED  BY <1>2, <2>1, <2>2 DEF TerminalKept
<1>7. QED  BY <1>3, <1>4, <1>5, <1>6

LEMMA EndRangeCustody ==
  ASSUME IInv, NEW t \in Callers, EndRange(t)
  PROVE  Custody' /\ TerminalKept'
<1> USE DEF IInv, Custody
<1>1. /\ pc[t] = "range"
      /\ \/ pc' = [pc EXCEPT ![t] = "get"]
         \/ pc' = [pc EXCEPT ![t] = "pruneGet"]
      /\ UNCHANGED <<goalStateEventMap, file, fresh, prune, list, seen, final, stale, losses>>
  BY DEF EndRange, shared, scratch, ghosts, Goto
<1>2. FreshUntilSaved' /\ SaveCoversFresh'
  BY <1>1 DEF FreshUntilSaved, SaveCoversFresh, TypeOK
<1>3. ListCoversFile'
  BY <1>1 DEF ListCoversFile, Held, Superseded, TypeOK
<1>4. KeysSeen'
  BY <1>1 DEF KeysSeen, Stored
<1>5. QED  BY <1>1, <1>2, <1>3, <1>4, KeptUnchanged

LEMMA PruneGetCustody ==
  ASSUME IInv, NEW t \in Callers, PruneGet(t)
  PROVE  Custody' /\ TerminalKept'
<1> USE DEF IInv, Custody
<1>1. /\ pc[t] = "pruneGet"
      /\ \/ /\ pc' = [pc EXCEPT ![t] = "prune"]
            /\ list' = [list EXCEPT ![t] = file]
            /\ stale' = stale \ {t}
         \/ /\ pc' = [pc EXCEPT ![t] = "get"]
            /\ UNCHANGED <<list, stale>>
      /\ UNCHANGED <<goalStateEventMap, file, fresh, prune, seen, final, losses>>
  BY DEF PruneGet, shared, Goto
<1>2. FreshUntilSaved' /\ SaveCoversFresh'
  BY <1>1 DEF FreshUntilSaved, SaveCoversFresh, TypeOK
<1>3. ListCoversFile'
  <2> SUFFICES ASSUME NEW u \in Callers, Held(u)', u \notin stale',
                      NEW e \in ToSet(file)
               PROVE  e \in ToSet(list'[u]) \/ Superseded(e)
    BY <1>1 DEF ListCoversFile, Superseded
  <2>1. CASE u = t
    BY <1>1, <2>1 DEF Held, TypeOK
  <2>2. CASE u # t
    <3>1. Held(u) /\ u \notin stale /\ list'[u] = list[u]
      BY <1>1, <2>2 DEF Held, TypeOK
    <3>2. QED  BY <3>1 DEF ListCoversFile
  <2>3. QED  BY <2>1, <2>2
<1>4. KeysSeen'
  BY <1>1 DEF KeysSeen, Stored
<1>5. QED  BY <1>1, <1>2, <1>3, <1>4, KeptUnchanged

LEMMA PruneKeyCustody ==
  ASSUME IInv, NEW t \in Callers, NEW k \in Keys, PruneKey(t, k)
  PROVE  Custody' /\ TerminalKept'
<1> USE DEF IInv, Custody
<1>1. /\ pc[t] = "prune" /\ k \in prune[t]
      /\ UNCHANGED <<goalStateEventMap, file, fresh, seen, final, stale, losses>>
  BY DEF PruneKey, shared, ghosts
<1>2. \/ /\ pc' = [pc EXCEPT ![t] = "pruneSave"] \/ pc' = [pc EXCEPT ![t] = "prune"]
         /\ list' = [list EXCEPT ![t] = Without(list[t], k)]
         /\ prune' = [prune EXCEPT ![t] = prune[t] \ {k}]
      \/ /\ pc' = [pc EXCEPT ![t] = "get"]
         /\ UNCHANGED <<list, prune>>
  BY DEF PruneKey, Goto
<1>3. FreshUntilSaved' /\ SaveCoversFresh'
  BY <1>1, <1>2 DEF FreshUntilSaved, SaveCoversFresh, TypeOK
<1>4. ListCoversFile'
  <2> SUFFICES ASSUME NEW u \in Callers, Held(u)', u \notin stale,
                      NEW e \in ToSet(file)
               PROVE  e \in ToSet(list'[u]) \/ Superseded(e)
    BY <1>1 DEF ListCoversFile, Superseded
  <2>1. CASE u = t
    <3>1. Held(t) /\ list'[t] = Without(list[t], k)
      BY <1>1, <1>2, <2>1 DEF Held, TypeOK
    <3>2. e \in ToSet(list[t]) \/ Superseded(e)
      BY <2>1, <3>1 DEF ListCoversFile
    <3>3. list[t] \in Seq(ImmediateStatus)
      BY DEF TypeOK
    <3>4. e \in ToSet(list[t]) => Obsoletes(k, e) \/ e \in ToSet(list'[t])
      BY <3>1, <3>3, WithoutKeepsOthers
    <3>5. Obsoletes(k, e) => Superseded(e)
      BY <1>1 DEF KeysSeen, Superseded
    <3>6. QED  BY <2>1, <3>2, <3>4, <3>5
  <2>2. CASE u # t
    <3>1. Held(u) /\ list'[u] = list[u]
      BY <1>2, <2>2 DEF Held, TypeOK
    <3>2. QED  BY <3>1 DEF ListCoversFile
  <2>3. QED  BY <2>1, <2>2
<1>5. KeysSeen'
  <2>1. prune \in [Callers -> SUBSET Keys]
    BY DEF TypeOK
  <2>2. ASSUME NEW u \in Callers  PROVE prune'[u] \subseteq prune[u]
    BY <1>2, <2>1
  <2>3. Stored' = Stored
    BY <1>1 DEF Stored
  <2>4. QED  BY <1>1, <2>2, <2>3 DEF KeysSeen
<1>6. QED  BY <1>1, <1>3, <1>4, <1>5, KeptUnchanged

(* A write of a list that is not stale keeps the file's entries, and makes  *)
(* every list that was read before it stale.                                *)
LEMMA WriteKeeps ==
  ASSUME IInv, NEW t \in Callers, Held(t), Write(t)
  PROVE  /\ losses \subseteq losses'
         /\ "stale write" \notin losses' =>
              \A e \in ToSet(file) : e \in ToSet(file') \/ Superseded(e)
         /\ \A u \in Callers \ {t} :
              Held(u) /\ u \notin stale' => u \notin stale /\ file' = file
<1>1. losses \subseteq losses'
  BY DEF Write
<1>2. "stale write" \notin losses' =>
        \A e \in ToSet(file) : e \in ToSet(file') \/ Superseded(e)
  BY DEF IInv, Custody, ListCoversFile, Write
<1>3. \A u \in Callers \ {t} :
        Held(u) /\ u \notin stale' => u \notin stale /\ file' = file
  BY DEF Write
<1>4. QED  BY <1>1, <1>2, <1>3

LEMMA PruneSaveCustody ==
  ASSUME IInv, NEW t \in Callers, PruneSave(t)
  PROVE  Custody' /\ TerminalKept'
<1> USE DEF IInv, Custody
<1>1. /\ pc[t] = "pruneSave" /\ pc' = [pc EXCEPT ![t] = "get"]
      /\ UNCHANGED <<goalStateEventMap, fresh, prune, list, seen, final>>
      /\ Held(t)
      /\ Write(t) \/ UNCHANGED <<file, stale, losses>>
  BY DEF PruneSave, scratch, Goto, Held
<1>2. FreshUntilSaved' /\ SaveCoversFresh'
  BY <1>1 DEF FreshUntilSaved, SaveCoversFresh, TypeOK
<1>3. KeysSeen'
  BY <1>1 DEF KeysSeen, Stored
<1>4. ASSUME NEW u \in Callers, Held(u)'  PROVE u # t /\ Held(u)
  BY <1>1, <1>4 DEF Held, TypeOK
<1>5. CASE Write(t)
  <2>1. ListCoversFile'
    <3> SUFFICES ASSUME NEW u \in Callers, Held(u)', u \notin stale',
                        NEW e \in ToSet(file')
                 PROVE  e \in ToSet(list'[u]) \/ Superseded(e)'
      BY DEF ListCoversFile
    <3>1. Held(u) /\ u \notin stale /\ file' = file
      BY <1>1, <1>4, <1>5, WriteKeeps
    <3>2. QED  BY <1>1, <3>1 DEF ListCoversFile, Superseded
  <2>2. TerminalKept'
    <3> SUFFICES ASSUME losses' = {}, NEW e \in Finals
                 PROVE  (InMap(e) \/ InHand(e) \/ InFile(e) \/ Superseded(e))'
      BY <1>1 DEF TerminalKept, Finals
    <3>1. losses = {} /\ (InFile(e) => InFile(e)' \/ Superseded(e))
      BY <1>1, <1>5, WriteKeeps DEF InFile
    <3>2. /\ InMap(e) => InMap(e)'
          /\ InHand(e) => InHand(e)'
          /\ Superseded(e) => Superseded(e)'
      BY <1>1 DEF InMap, InHand, Superseded
    <3>3. QED  BY <3>1, <3>2 DEF TerminalKept
  <2>3. QED  BY <1>2, <1>3, <2>1, <2>2
<1>6. CASE UNCHANGED <<file, stale, losses>>
  <2>1. ListCoversFile'
    BY <1>1, <1>4, <1>6 DEF ListCoversFile, Superseded
  <2>2. QED  BY <1>1, <1>2, <1>3, <1>6, <2>1, KeptUnchanged
<1>7. QED  BY <1>1, <1>5, <1>6

LEMMA GetCustody ==
  ASSUME IInv, NEW t \in Callers, Get(t)
  PROVE  Custody' /\ TerminalKept'
<1> USE DEF IInv, Custody
<1>1. PICK ok \in BOOLEAN :
        /\ list' = [list EXCEPT ![t] = (IF ok THEN file ELSE <<>>) \o fresh[t]]
        /\ stale' = IF ok THEN stale \ {t} ELSE stale \cup {t}
        /\ losses' = IF ~ok /\ Saves(t) THEN losses \cup {"unreadable"} ELSE losses
  BY DEF Get
<1>2. /\ pc[t] = "get"
      /\ pc' = [pc EXCEPT ![t] = IF Saves(t) THEN "save" ELSE "put"]
      /\ UNCHANGED <<goalStateEventMap, file, fresh, prune, seen, final>>
  BY DEF Get, shared, Goto
<1>3. losses' = {} => losses = {} /\ (ok \/ ~Saves(t))
  BY <1>1
<1>4. /\ ToSet(fresh[t]) \subseteq ToSet(list'[t])
      /\ ok => ToSet(file) \subseteq ToSet(list'[t])
  <2>1. fresh[t] \in Seq(ImmediateStatus) /\ (IF ok THEN file ELSE <<>>) \in Seq(ImmediateStatus)
    BY DEF TypeOK
  <2>2. list'[t] = (IF ok THEN file ELSE <<>>) \o fresh[t]
    BY <1>1 DEF TypeOK
  <2>3. QED  BY <2>1, <2>2, ElementsOfConcat
<1>5. \A u \in Callers : u # t => list'[u] = list[u]
  BY <1>1 DEF TypeOK
<1>6. FreshUntilSaved'
  <2>1. fresh[t] # <<>> => pc'[t] = "save"
    BY <1>2 DEF Saves, TypeOK
  <2>2. QED  BY <1>2, <2>1 DEF FreshUntilSaved, TypeOK
<1>7. SaveCoversFresh'
  BY <1>2, <1>4, <1>5 DEF SaveCoversFresh, TypeOK
<1>8. ListCoversFile'
  <2> SUFFICES ASSUME NEW u \in Callers, Held(u)', u \notin stale',
                      NEW e \in ToSet(file)
               PROVE  e \in ToSet(list'[u]) \/ Superseded(e)
    BY <1>2 DEF ListCoversFile, Superseded
  <2>1. CASE u = t
    <3>1. ok
      BY <1>1, <2>1
    <3>2. QED  BY <1>4, <2>1, <3>1
  <2>2. CASE u # t
    <3>1. Held(u) /\ u \notin stale /\ list'[u] = list[u]
      BY <1>1, <1>2, <1>5, <2>2 DEF Held, TypeOK
    <3>2. QED  BY <3>1 DEF ListCoversFile
  <2>3. QED  BY <2>1, <2>2
<1>9. KeysSeen'
  BY <1>2 DEF KeysSeen, Stored
<1>10. TerminalKept'
  BY <1>2, <1>3 DEF TerminalKept, Finals, InMap, InHand, InFile, Superseded
<1>11. QED  BY <1>6, <1>7, <1>8, <1>9, <1>10

LEMMA SaveCustody ==
  ASSUME IInv, NEW t \in Callers, Save(t)
  PROVE  Custody' /\ TerminalKept'
<1> USE DEF IInv, Custody
<1>1. /\ pc[t] = "save"
      /\ pc' = [pc EXCEPT ![t] = IF mode[t] = "remove" THEN "collect" ELSE "put"]
      /\ fresh' = [fresh EXCEPT ![t] = <<>>]
      /\ UNCHANGED <<goalStateEventMap, prune, list, seen, final>>
      /\ Held(t)
  BY DEF Save, Goto, Held
<1>2. \/ Write(t)
      \/ "unwritable" \in losses' /\ stale' = stale \cup {t} /\ file' = file
  BY DEF Save
<1>3. FreshUntilSaved' /\ SaveCoversFresh'
  BY <1>1 DEF FreshUntilSaved, SaveCoversFresh, TypeOK
<1>4. KeysSeen'
  BY <1>1 DEF KeysSeen, Stored
<1>5. ListCoversFile'
  <2> SUFFICES ASSUME NEW u \in Callers, Held(u)', u \notin stale',
                      NEW e \in ToSet(file')
               PROVE  e \in ToSet(list'[u]) \/ Superseded(e)'
    BY DEF ListCoversFile
  <2>1. CASE u = t
    <3>1. file' = list[t]
      BY <1>2, <2>1 DEF Write
    <3>2. QED  BY <1>1, <2>1, <3>1
  <2>2. CASE u # t
    <3>1. Held(u)
      BY <1>1, <2>2 DEF Held, TypeOK
    <3>2. u \notin stale /\ file' = file
      BY <1>1, <1>2, <2>2, <3>1, WriteKeeps
    <3>3. QED  BY <1>1, <3>1, <3>2 DEF ListCoversFile, Superseded
  <2>3. QED  BY <2>1, <2>2
<1>6. TerminalKept'
  <2> SUFFICES ASSUME losses' = {}, NEW e \in Finals
               PROVE  (InMap(e) \/ InHand(e) \/ InFile(e) \/ Superseded(e))'
    BY <1>1 DEF TerminalKept, Finals
  <2>0. Write(t)
    BY <1>2
  <2>1. losses = {} /\ (InFile(e) => InFile(e)' \/ Superseded(e))
    BY <1>1, <2>0, WriteKeeps DEF InFile
  <2>2. InHand(e) => InHand(e)' \/ InFile(e)'
    <3>1. ASSUME NEW u \in Callers, e \in ToSet(fresh[u])  PROVE InHand(e)' \/ InFile(e)'
      <4>1. CASE u = t
        <5>1. e \in ToSet(list[t])
          BY <1>1, <3>1, <4>1 DEF SaveCoversFresh
        <5>2. file' = list[t]
          BY <2>0 DEF Write
        <5>3. QED  BY <5>1, <5>2 DEF InFile
      <4>2. CASE u # t
        BY <1>1, <3>1, <4>2 DEF InHand, TypeOK
      <4>3. QED  BY <4>1, <4>2
    <3>2. QED  BY <3>1 DEF InHand
  <2>3. (InMap(e) => InMap(e)') /\ (Superseded(e) => Superseded(e)')
    BY <1>1 DEF InMap, Superseded
  <2>4. QED  BY <2>1, <2>2, <2>3 DEF TerminalKept
<1>7. QED  BY <1>3, <1>4, <1>5, <1>6

LEMMA PutCustody ==
  ASSUME IInv, NEW t \in Callers, Put(t)
  PROVE  Custody' /\ TerminalKept'
<1> USE DEF IInv, Custody
<1>1. /\ pc[t] = "put" /\ pc' = [pc EXCEPT ![t] = "idle"]
      /\ prune' = [prune EXCEPT ![t] = {}]
      /\ list' = [list EXCEPT ![t] = <<>>]
      /\ stale' = stale \ {t}
      /\ UNCHANGED <<goalStateEventMap, file, fresh, seen, final, losses>>
  BY DEF Put, Goto
<1>2. FreshUntilSaved' /\ SaveCoversFresh'
  BY <1>1 DEF FreshUntilSaved, SaveCoversFresh, TypeOK
<1>3. ListCoversFile'
  BY <1>1 DEF ListCoversFile, Held, Superseded, TypeOK
<1>4. KeysSeen'
  BY <1>1 DEF KeysSeen, Stored, TypeOK
<1>5. QED  BY <1>1, <1>2, <1>3, <1>4, KeptUnchanged

LEMMA RestartCustody ==
  ASSUME IInv, Restart
  PROVE  Custody' /\ TerminalKept'
<1> USE DEF IInv, Custody
<1>1. /\ goalStateEventMap' = [k \in Keys |-> Absent]
      /\ pc' = [t \in Callers |-> "idle"]
      /\ fresh' = [t \in Callers |-> <<>>]
      /\ prune' = [t \in Callers |-> {}]
      /\ UNCHANGED <<file, seen, final>>
  BY DEF Restart
<1>2. losses' = {} => /\ losses = {}
                      /\ \A k \in Keys : ~IsTerminal(goalStateEventMap[k])
                      /\ \A t \in Callers : fresh[t] = <<>>
  BY DEF Restart
<1>3. FreshUntilSaved' /\ SaveCoversFresh' /\ ListCoversFile'
  BY <1>1 DEF FreshUntilSaved, SaveCoversFresh, ListCoversFile, Held
<1>4. KeysSeen'
  BY <1>1 DEF KeysSeen, Stored
<1>5. TerminalKept'
  <2> SUFFICES ASSUME losses' = {}, NEW e \in Finals
               PROVE  InFile(e) \/ Superseded(e)
    BY <1>1 DEF TerminalKept, Finals, InFile, Superseded
  <2>1. ~InMap(e) /\ ~InHand(e)
    BY <1>2 DEF InMap, InHand, ToSet
  <2>2. QED  BY <1>2, <2>1 DEF TerminalKept
<1>6. QED  BY <1>3, <1>4, <1>5

LEMMA CustodyStep == IInv /\ [Next]_vars => IInv'
<1> SUFFICES ASSUME IInv, [Next]_vars  PROVE IInv'
  OBVIOUS
<1>1. TypeOK'
  BY TypeStep DEF IInv
<1>2. ASSUME UNCHANGED vars  PROVE Custody' /\ TerminalKept'
  <2>1. UNCHANGED <<goalStateEventMap, file, pc, fresh, prune, list, seen, final, stale, losses>>
    BY <1>2 DEF vars, shared, scratch, ghosts
  <2>2. Custody'
    BY <2>1 DEF IInv, Custody, FreshUntilSaved, SaveCoversFresh, ListCoversFile,
                KeysSeen, Stored, Held, Superseded
  <2>3. QED  BY <2>1, <2>2, KeptUnchanged DEF IInv
<1>3. Custody' /\ TerminalKept'
  BY <1>2, OnNotifyCustody, RemoveProcessedCustody, StartRangeCustody,
     VisitCustody, DeleteCustody, EndRangeCustody, PruneGetCustody,
     PruneKeyCustody, PruneSaveCustody, GetCustody, SaveCustody, PutCustody,
     RestartCustody
  DEF Next, LocalStep, Step, PutPanics, Crash
<1>4. QED  BY <1>1, <1>3 DEF IInv

(* Whatever the goroutines do in whatever order, a terminal status is lost  *)
(* only through one of the named events (immediatestatus.go:54-215).        *)
THEOREM TerminalStatusesKept == Spec => []TerminalKept
<1>1. IInv => TerminalKept
  BY DEF IInv
<1>2. QED  BY <1>1, InitCustody, CustodyStep, PTL DEF Spec
-----------------------------------------------------------------------------
(* What is sent, and what HGAP was told.                                    *)

AfterRange == {"pruneGet", "prune", "pruneSave", "get", "save", "put"}

RunningIn(S) == {EntryOf(k, goalStateEventMap[k]) :
                   k \in {j \in S : /\ j.state # "disabled"
                                    /\ goalStateEventMap[j] = Transitioning}}

(* While it ranges over a map that nobody else changes, a caller holds the  *)
(* running goal states it has visited, and deletes none of them; afterwards *)
(* it holds all of them. Whatever it holds is running.                      *)
Gathered(t) ==
  /\ pc[t] # "range" => doomed[t] = {}
  /\ mode[t] = "report" /\ t \notin moved =>
       /\ pc[t] = "range" =>
            /\ live[t] = RunningIn(Keys \ todo[t])
            /\ \A k \in doomed[t] : goalStateEventMap[k] # Transitioning
       /\ pc[t] \in AfterRange => live[t] = RunningIn(Keys)
LiveRuns(t) == \A e \in live[t] : ~IsTerminal(e.status)

(* A caller sends in the mode "report", and what the file holds unless it   *)
(* is stale.                                                                *)
Ready(t) ==
  pc[t] = "put" => mode[t] = "report" /\ (t \notin stale => list[t] = file)

(* As long as no write has lost entries of the file, it keeps every status  *)
(* that is about to be sent and every terminal one that HGAP was told.      *)
Undamaged == losses \cap FileDamage = {}
SentIsKept ==
  Undamaged => \A t \in Callers : pc[t] = "put" =>
    \A e \in ToSet(list[t]) : InFile(e) \/ Superseded(e)
ToldIsKept ==
  Undamaged => \A e \in hgap : IsTerminal(e.status) => InFile(e) \/ Superseded(e)

Flow ==
  /\ \A t \in Callers : Gathered(t) /\ LiveRuns(t) /\ Ready(t)
  /\ SentIsKept
  /\ ToldIsKept

FlowInv == IInv /\ Flow

LEMMA CompletePayload ==
  ASSUME FlowInv, NEW t \in Callers, pc[t] = "put", t \notin stale \cup moved
  PROVE  Payload(t) = Running \cup ToSet(file)
<1>1. Gathered(t) /\ Ready(t)
  BY DEF FlowInv, Flow
<1>2. live[t] = RunningIn(Keys) /\ list[t] = file
  BY <1>1 DEF Gathered, Ready, AfterRange
<1>3. RunningIn(Keys) = Running
  BY DEF RunningIn, Running
<1>4. QED  BY <1>2, <1>3 DEF Payload

(* A caller that does not act keeps its part, when a change of the map or   *)
(* of the file under it is recorded.                                        *)
Bystander(u) ==
  /\ pc'[u] = pc[u] /\ mode'[u] = mode[u] /\ todo'[u] = todo[u]
  /\ doomed'[u] = doomed[u] /\ live'[u] = live[u] /\ list'[u] = list[u]

LEMMA BystanderKeeps ==
  ASSUME FlowInv, NEW u \in Callers, Bystander(u),
         u \notin moved' => /\ u \notin moved
                            /\ \/ goalStateEventMap' = goalStateEventMap
                               \/ pc[u] \in {"idle", "collect"},
         pc[u] = "put" /\ u \notin stale' => u \notin stale /\ file' = file
  PROVE  Gathered(u)' /\ LiveRuns(u)' /\ Ready(u)'
<1>1. Gathered(u) /\ LiveRuns(u) /\ Ready(u)
  BY DEF FlowInv, Flow
<1>2. LiveRuns(u)'
  BY <1>1 DEF LiveRuns, Bystander
<1>3. Ready(u)'
  BY <1>1 DEF Ready, Bystander
<1>4. Gathered(u)'
  <2>1. CASE goalStateEventMap' = goalStateEventMap
    <3>1. \A S : RunningIn(S)' = RunningIn(S)
      BY <2>1 DEF RunningIn
    <3>2. RunningIn(Keys)' = RunningIn(Keys)
      BY <2>1 DEF RunningIn
    <3>3. RunningIn(Keys \ todo[u])' = RunningIn(Keys \ todo[u])
      BY <2>1 DEF Bystander, RunningIn
    <3>4. QED  BY <1>1, <2>1, <3>2, <3>3 DEF Gathered, Bystander
  <2>2. CASE pc[u] \in {"idle", "collect"}
    BY <1>1, <2>2 DEF Gathered, Bystander, AfterRange
  <2>3. CASE u \in moved'
    BY <1>1, <2>3 DEF Gathered, Bystander
  <2>4. QED  BY <2>1, <2>2, <2>3
<1>5. QED  BY <1>2, <1>3, <1>4

(* The actor of a step that leaves the map alone after its range.           *)
LEMMA StillGathered ==
  ASSUME NEW t \in Callers, Gathered(t), LiveRuns(t),
         pc[t] \in AfterRange, pc'[t] \in AfterRange, mode'[t] = mode[t],
         goalStateEventMap' = goalStateEventMap, moved' = moved,
         doomed'[t] = doomed[t], live'[t] = live[t]
  PROVE  Gathered(t)' /\ LiveRuns(t)'
<1>1. RunningIn(Keys)' = RunningIn(Keys)
  BY DEF RunningIn
<1>2. pc[t] # "range" /\ pc'[t] # "range"
  BY DEF AfterRange
<1>3. QED  BY <1>1, <1>2 DEF Gathered, LiveRuns

(* What a step must leave alone, or may only extend.                        *)
LEMMA KeptStays ==
  ASSUME SentIsKept, ToldIsKept, seen \subseteq seen',
         Undamaged' => /\ Undamaged
                       /\ \A e \in ToSet(file) : e \in ToSet(file') \/ Superseded(e),
         \A u \in Callers : pc'[u] = "put" =>
           \/ pc[u] = "put" /\ list'[u] = list[u]
           \/ Undamaged' => ToSet(list'[u]) \subseteq ToSet(file'),
         \/ hgap' = hgap
         \/ Undamaged => \A e \in hgap' : IsTerminal(e.status) => InFile(e) \/ Superseded(e)
  PROVE  SentIsKept' /\ ToldIsKept'
<1>1. \A e : Superseded(e) => Superseded(e)'
  BY DEF Superseded
<1>2. ASSUME Undamaged', NEW e, InFile(e) \/ Superseded(e)  PROVE InFile(e)' \/ Superseded(e)'
  BY <1>1, <1>2 DEF InFile
<1>3. SentIsKept'
  <2> SUFFICES ASSUME Undamaged', NEW u \in Callers, pc'[u] = "put",
                      NEW e \in ToSet(list'[u])
               PROVE  InFile(e)' \/ Superseded(e)'
    BY DEF SentIsKept
  <2>1. CASE pc[u] = "put" /\ list'[u] = list[u]
    <3>1. InFile(e) \/ Superseded(e)
      BY <2>1 DEF SentIsKept
    <3>2. QED  BY <1>2, <3>1
  <2>2. CASE ToSet(list'[u]) \subseteq ToSet(file')
    BY <2>2 DEF InFile
  <2>3. QED  BY <2>1, <2>2
<1>4. ToldIsKept'
  <2> SUFFICES ASSUME Undamaged', NEW e \in hgap', IsTerminal(e.status)
               PROVE  InFile(e)' \/ Superseded(e)'
    BY DEF ToldIsKept
  <2>1. InFile(e) \/ Superseded(e)
    BY DEF ToldIsKept
  <2>2. QED  BY <1>2, <2>1
<1>5. QED  BY <1>3, <1>4

(* Such a step keeps the whole of Flow.                                     *)
LEMMA FileUntouched ==
  ASSUME FlowInv, seen \subseteq seen', losses \subseteq losses',
         UNCHANGED <<file, hgap>>,
         \A u \in Callers : pc'[u] = "put" => pc[u] = "put" /\ list'[u] = list[u]
  PROVE  SentIsKept' /\ ToldIsKept'
<1>1. Undamaged' => Undamaged
  BY DEF Undamaged
<1>2. QED  BY <1>1, KeptStays DEF FlowInv, Flow

LEMMA OnNotifyFlow ==
  ASSUME FlowInv, NEW t \in Callers, NEW k \in Keys, NEW s, OnNotify(t, k, s)
  PROVE  Flow'
<1> USE DEF FlowInv, Flow
<1>1. /\ pc[t] = "idle" /\ pc'[t] = "collect"
      /\ seen \subseteq seen' /\ losses \subseteq losses'
      /\ UNCHANGED <<file, hgap, doomed, live, list, stale>>
      /\ \A u \in Callers \ {t} : Bystander(u)
  BY DEF OnNotify, scratch, Goto, Bystander, IInv, TypeOK
<1>2. \A u \in Callers \ {t} : /\ u \in moved => u \in moved'
                               /\ pc[u] \notin {"idle", "collect"} => u \in moved'
  BY DEF OnNotify, MovesOthers
<1>3. ASSUME NEW u \in Callers, u # t  PROVE Gathered(u)' /\ LiveRuns(u)' /\ Ready(u)'
  BY <1>1, <1>2, <1>3, BystanderKeeps
<1>4. Gathered(t)' /\ LiveRuns(t)' /\ Ready(t)'
  BY <1>1 DEF Gathered, LiveRuns, Ready, AfterRange
<1>5. SentIsKept' /\ ToldIsKept'
  BY <1>1, FileUntouched DEF Bystander
<1>6. QED  BY <1>3, <1>4, <1>5

LEMMA RemoveProcessedFlow ==
  ASSUME FlowInv, NEW keys \in SUBSET Keys, RemoveProcessedGoalStates(keys)
  PROVE  Flow'
<1> USE DEF FlowInv, Flow
<1>0. Poller \in Callers
  BY ObserverAssumption
<1>1. /\ pc[Poller] = "idle" /\ pc'[Poller] = "collect"
      /\ UNCHANGED <<goalStateEventMap, file, hgap, doomed, live, list, seen, stale,
                     moved, losses>>
      /\ \A u \in Callers \ {Poller} : Bystander(u)
  BY <1>0 DEF RemoveProcessedGoalStates, shared, ghosts, Goto, Bystander, IInv, TypeOK
<1>2. ASSUME NEW u \in Callers, u # Poller  PROVE Gathered(u)' /\ LiveRuns(u)' /\ Ready(u)'
  BY <1>1, <1>2, BystanderKeeps
<1>3. Gathered(Poller)' /\ LiveRuns(Poller)' /\ Ready(Poller)'
  BY <1>0, <1>1 DEF Gathered, LiveRuns, Ready, AfterRange
<1>4. SentIsKept' /\ ToldIsKept'
  BY <1>1, FileUntouched DEF Bystander
<1>5. QED  BY <1>2, <1>3, <1>4

LEMMA StartRangeFlow ==
  ASSUME FlowInv, NEW t \in Callers, StartRange(t)
  PROVE  Flow'
<1> USE DEF FlowInv, Flow
<1>1. /\ pc[t] = "collect" /\ pc'[t] = "range"
      /\ todo'[t] = Stored /\ live'[t] = {}
      /\ UNCHANGED <<goalStateEventMap, file, hgap, doomed, seen, mode, stale, losses>>
      /\ moved' = moved \ {t}
      /\ \A u \in Callers \ {t} : Bystander(u)
  BY DEF StartRange, shared, Goto, Bystander, IInv, TypeOK
<1>2. ASSUME NEW u \in Callers, u # t  PROVE Gathered(u)' /\ LiveRuns(u)' /\ Ready(u)'
  BY <1>1, <1>2, BystanderKeeps
<1>3. Gathered(t)'
  <2>1. doomed[t] = {}
    BY <1>1 DEF Gathered
  <2>2. RunningIn(Keys \ Stored) = {}
    BY DEF RunningIn, Stored, Transitioning, Absent
  <2>3. RunningIn(Keys \ todo[t])' = RunningIn(Keys \ Stored)
    BY <1>1 DEF RunningIn
  <2>4. QED  BY <1>1, <2>1, <2>2, <2>3 DEF Gathered, AfterRange
<1>4. LiveRuns(t)' /\ Ready(t)'
  BY <1>1 DEF LiveRuns, Ready
<1>5. SentIsKept' /\ ToldIsKept'
  BY <1>1, FileUntouched DEF Bystander
<1>6. QED  BY <1>2, <1>3, <1>4, <1>5

LEMMA VisitFlow ==
  ASSUME FlowInv, NEW t \in Callers, NEW k \in Keys, Visit(t, k)
  PROVE  Flow'
<1> USE DEF FlowInv, Flow
<1> DEFINE v == goalStateEventMap[k]
<1>1. /\ pc[t] = "range" /\ k \in todo[t] /\ doomed[t] = {}
      /\ todo'[t] = todo[t] \ {k}
      /\ UNCHANGED <<goalStateEventMap, file, hgap, pc, mode, list, seen, stale, moved,
                     losses>>
  BY DEF Visit, shared, ghosts, IInv, TypeOK
<1>2. live'[t] = IF Reports(t, k, v) /\ ~IsTerminal(v)
                   THEN live[t] \cup {EntryOf(k, v)} ELSE live[t]
  BY DEF Visit, IInv, TypeOK
<1>3. doomed'[t] = IF Collects(t, k, v) THEN {k} ELSE {}
  BY <1>1 DEF Visit, IInv, TypeOK
<1>4. \A u \in Callers \ {t} : Bystander(u)
  <2> SUFFICES ASSUME NEW u \in Callers \ {t}
               PROVE  /\ todo'[u] = todo[u] /\ doomed'[u] = doomed[u]
                      /\ live'[u] = live[u]
    BY <1>1 DEF Bystander
  <2>1. QED  BY DEF Visit, IInv, TypeOK
<1>5. ASSUME NEW u \in Callers, u # t  PROVE Gathered(u)' /\ LiveRuns(u)' /\ Ready(u)'
  BY <1>1, <1>4, <1>5, BystanderKeeps
<1>6. Gathered(t)'
  <2> SUFFICES ASSUME mode[t] = "report", t \notin moved
               PROVE  /\ live'[t] = RunningIn(Keys \ todo'[t])
                      /\ \A j \in doomed'[t] : goalStateEventMap[j] # Transitioning
    BY <1>1 DEF Gathered, AfterRange, RunningIn
  <2>1. v \in StatusTypes \cup {Absent}
    BY DEF IInv, TypeOK
  <2>2. Reports(t, k, v) /\ ~IsTerminal(v) <=>
          k.state # "disabled" /\ v = Transitioning
    BY <2>1 DEF Reports, IsTerminal, StatusTypes, TerminalTypes, Transitioning,
                Empty, Absent
  <2>3. live[t] = RunningIn(Keys \ todo[t])
    BY <1>1 DEF Gathered
  <2>4. CASE k.state # "disabled" /\ v = Transitioning
    <3>1. RunningIn(Keys \ todo'[t]) = RunningIn(Keys \ todo[t]) \cup {EntryOf(k, v)}
      BY <1>1, <2>4 DEF RunningIn
    <3>2. QED  BY <1>2, <1>3, <2>2, <2>3, <2>4, <3>1 DEF Collects
  <2>5. CASE ~(k.state # "disabled" /\ v = Transitioning)
    <3>1. RunningIn(Keys \ todo'[t]) = RunningIn(Keys \ todo[t])
      BY <1>1, <2>5 DEF RunningIn
    <3>2. Collects(t, k, v) => v # Transitioning
      BY DEF Collects, IsTerminal, TerminalTypes, Transitioning
    <3>3. QED  BY <1>2, <1>3, <2>2, <2>3, <2>5, <3>1, <3>2
  <2>6. QED  BY <2>4, <2>5
<1>7. LiveRuns(t)' /\ Ready(t)'
  <2>1. EntryOf(k, v).status = v
    BY DEF EntryOf
  <2>2. QED  BY <1>1, <1>2, <2>1 DEF LiveRuns, Ready
<1>8. SentIsKept' /\ ToldIsKept'
  BY <1>1, FileUntouched
<1>9. QED  BY <1>5, <1>6, <1>7, <1>8

(* A key that is deleted was not running, so the running ones stay gathered.*)
LEMMA DeleteFlow ==
  ASSUME FlowInv, NEW t \in Callers, NEW k \in Keys, Delete(t, k)
  PROVE  Flow'
<1> USE DEF FlowInv, Flow
<1>1. /\ pc[t] = "range" /\ k \in doomed[t]
      /\ goalStateEventMap' = [goalStateEventMap EXCEPT ![k] = Absent]
      /\ doomed'[t] = {}
      /\ losses \subseteq losses'
      /\ UNCHANGED <<file, hgap, pc, mode, todo, live, list, seen, stale>>
      /\ \A u \in Callers \ {t} : Bystander(u)
  BY DEF Delete, Bystander, IInv, TypeOK
<1>2. /\ moved \subseteq moved' /\ (t \in moved' => t \in moved)
      /\ \A u \in Callers \ {t} : pc[u] \notin {"idle", "collect"} => u \in moved'
  BY DEF Delete, MovesOthers
<1>3. ASSUME NEW u \in Callers, u # t  PROVE Gathered(u)' /\ LiveRuns(u)' /\ Ready(u)'
  BY <1>1, <1>2, <1>3, BystanderKeeps
<1>4. Gathered(t)'
  <2> SUFFICES ASSUME mode[t] = "report", t \notin moved
               PROVE  live[t] = RunningIn(Keys \ todo[t])'
    BY <1>1, <1>2 DEF Gathered, AfterRange
  <2>1. live[t] = RunningIn(Keys \ todo[t]) /\ goalStateEventMap[k] # Transitioning
    BY <1>1 DEF Gathered
  <2>2. \A j \in Keys : /\ goalStateEventMap'[j] = Transitioning
                             <=> goalStateEventMap[j] = Transitioning
                        /\ goalStateEventMap[j] = Transitioning =>
                             goalStateEventMap'[j] = goalStateEventMap[j]
    BY <1>1, <2>1 DEF IInv, TypeOK, Transitioning, Absent
  <2>3. RunningIn(Keys \ todo[t])' = RunningIn(Keys \ todo[t])
    BY <1>1, <2>2 DEF RunningIn
  <2>4. QED  BY <2>1, <2>3
<1>5. LiveRuns(t)' /\ Ready(t)'
  BY <1>1 DEF LiveRuns, Ready
<1>6. SentIsKept' /\ ToldIsKept'
  BY <1>1, FileUntouched
<1>7. QED  BY <1>3, <1>4, <1>5, <1>6

LEMMA EndRangeFlow ==
  ASSUME FlowInv, NEW t \in Callers, EndRange(t)
  PROVE  Flow'
<1> USE DEF FlowInv, Flow
<1>1. /\ pc[t] = "range" /\ pc'[t] \in {"get", "pruneGet"}
      /\ doomed[t] = {} /\ todo[t] = {}
      /\ UNCHANGED <<goalStateEventMap, file, hgap, mode, doomed, live, list, seen,
                     stale, moved, losses>>
      /\ \A u \in Callers \ {t} : Bystander(u)
  BY DEF EndRange, shared, scratch, ghosts, Goto, Bystander, IInv, TypeOK
<1>2. ASSUME NEW u \in Callers, u # t  PROVE Gathered(u)' /\ LiveRuns(u)' /\ Ready(u)'
  BY <1>1, <1>2, BystanderKeeps
<1>3. Gathered(t)'
  <2>1. RunningIn(Keys)' = RunningIn(Keys)
    BY <1>1 DEF RunningIn
  <2>2. mode[t] = "report" /\ t \notin moved => live[t] = RunningIn(Keys)
    BY <1>1 DEF Gathered, RunningIn
  <2>3. QED  BY <1>1, <2>1, <2>2 DEF Gathered, AfterRange
<1>4. LiveRuns(t)' /\ Ready(t)'
  BY <1>1 DEF LiveRuns, Ready
<1>5. SentIsKept' /\ ToldIsKept'
  BY <1>1, FileUntouched DEF Bystander
<1>6. QED  BY <1>2, <1>3, <1>4, <1>5

LEMMA PruneGetFlow ==
  ASSUME FlowInv, NEW t \in Callers, PruneGet(t)
  PROVE  Flow'
<1> USE DEF FlowInv, Flow
<1>1. /\ pc[t] = "pruneGet" /\ pc'[t] \in {"prune", "get"}
      /\ UNCHANGED <<goalStateEventMap, file, hgap, mode, doomed, live, seen, moved, losses>>
      /\ stale' \ {t} = stale \ {t}
      /\ \A u \in Callers \ {t} : Bystander(u)
  BY DEF PruneGet, shared, Goto, Bystander, IInv, TypeOK
<1>2. ASSUME NEW u \in Callers, u # t  PROVE Gathered(u)' /\ LiveRuns(u)' /\ Ready(u)'
  BY <1>1, <1>2, BystanderKeeps
<1>3. Gathered(t)' /\ LiveRuns(t)'
  BY <1>1, StillGathered DEF AfterRange
<1>4. Ready(t)'
  BY <1>1 DEF Ready
<1>5. SentIsKept' /\ ToldIsKept'
  BY <1>1, FileUntouched DEF Bystander
<1>6. QED  BY <1>2, <1>3, <1>4, <1>5

LEMMA PruneKeyFlow ==
  ASSUME FlowInv, NEW t \in Callers, NEW k \in Keys, PruneKey(t, k)
  PROVE  Flow'
<1> USE DEF FlowInv, Flow
<1>1. /\ pc[t] = "prune" /\ pc'[t] \in {"prune", "pruneSave", "get"}
      /\ UNCHANGED <<goalStateEventMap, file, hgap, mode, todo, doomed, live, seen,
                     stale, moved, losses>>
      /\ \A u \in Callers \ {t} : pc'[u] = pc[u] /\ list'[u] = list[u]
  BY DEF PruneKey, shared, ghosts, Goto, IInv, TypeOK
<1>2. ASSUME NEW u \in Callers, u # t  PROVE Gathered(u)' /\ LiveRuns(u)' /\ Ready(u)'
  BY <1>1, <1>2, BystanderKeeps DEF Bystander
<1>3. Gathered(t)' /\ LiveRuns(t)'
  BY <1>1, StillGathered DEF AfterRange
<1>4. Ready(t)'
  BY <1>1 DEF Ready
<1>5. SentIsKept' /\ ToldIsKept'
  BY <1>1, FileUntouched
<1>6. QED  BY <1>2, <1>3, <1>4, <1>5

LEMMA PruneSaveFlow ==
  ASSUME FlowInv, NEW t \in Callers, PruneSave(t)
  PROVE  Flow'
<1> USE DEF FlowInv, Flow
<1>1. /\ pc[t] = "pruneSave" /\ pc'[t] = "get" /\ Held(t)
      /\ UNCHANGED <<goalStateEventMap, hgap, mode, todo, doomed, live, list, seen, moved>>
      /\ Write(t) \/ UNCHANGED <<file, stale, losses>>
      /\ \A u \in Callers \ {t} : Bystander(u)
  BY DEF PruneSave, scratch, Goto, Held, Bystander, IInv, TypeOK
<1>2. /\ losses \subseteq losses'
      /\ "stale write" \notin losses' =>
           \A e \in ToSet(file) : e \in ToSet(file') \/ Superseded(e)
      /\ \A u \in Callers \ {t} : Held(u) /\ u \notin stale' => u \notin stale /\ file' = file
  BY <1>1, WriteKeeps
<1>3. ASSUME NEW u \in Callers, u # t  PROVE Gathered(u)' /\ LiveRuns(u)' /\ Ready(u)'
  <2>1. pc[u] = "put" /\ u \notin stale' => u \notin stale /\ file' = file
    BY <1>2, <1>3 DEF Held
  <2>2. QED  BY <1>1, <1>3, <2>1, BystanderKeeps
<1>4. Gathered(t)' /\ LiveRuns(t)'
  BY <1>1, StillGathered DEF AfterRange
<1>5. Ready(t)'
  BY <1>1 DEF Ready
<1>6. SentIsKept' /\ ToldIsKept'
  <2>1. Undamaged' => /\ Undamaged
                      /\ \A e \in ToSet(file) : e \in ToSet(file') \/ Superseded(e)
    BY <1>2 DEF Undamaged, FileDamage
  <2>2. \A u \in Callers : pc'[u] = "put" => pc[u] = "put" /\ list'[u] = list[u]
    BY <1>1 DEF Bystander
  <2>3. QED  BY <1>1, <2>1, <2>2, KeptStays
<1>7. QED  BY <1>3, <1>4, <1>5, <1>6

LEMMA GetFlow ==
  ASSUME FlowInv, NEW t \in Callers, Get(t)
  PROVE  Flow'
<1> USE DEF FlowInv, Flow
<1>1. /\ pc[t] = "get"
      /\ pc'[t] = IF Saves(t) THEN "save" ELSE "put"
      /\ UNCHANGED <<goalStateEventMap, file, hgap, mode, todo, doomed, live, seen, moved>>
      /\ stale' \ {t} = stale \ {t}
      /\ losses \subseteq losses'
      /\ \A u \in Callers \ {t} : Bystander(u)
  BY DEF Get, shared, Goto, Bystander, IInv, TypeOK
<1>2. \/ list'[t] = file \o fresh[t]
      \/ list'[t] = <<>> \o fresh[t] /\ t \in stale'
  BY DEF Get, IInv, TypeOK
<1>3. ASSUME NEW u \in Callers, u # t  PROVE Gathered(u)' /\ LiveRuns(u)' /\ Ready(u)'
  BY <1>1, <1>3, BystanderKeeps
<1>4. Gathered(t)' /\ LiveRuns(t)'
  BY <1>1, StillGathered DEF AfterRange
<1>5. file \in Seq(ImmediateStatus) /\ fresh[t] \in Seq(ImmediateStatus)
  BY DEF IInv, TypeOK
<1>6. pc'[t] = "put" => mode[t] = "report" /\ (list'[t] = file \/ (list'[t] = <<>> /\ t \in stale'))
  <2> SUFFICES ASSUME ~Saves(t)
               PROVE  mode[t] = "report" /\ (list'[t] = file \/ (list'[t] = <<>> /\ t \in stale'))
    BY <1>1
  <2>1. mode[t] = "report" /\ fresh[t] = <<>>
    BY DEF Saves, IInv, TypeOK
  <2>2. QED  BY <1>2, <1>5, <2>1
<1>7. Ready(t)'
  <2>1. pc'[t] = "put" /\ t \notin stale' => list'[t] = file
    BY <1>6
  <2>2. QED  BY <1>1, <1>6, <2>1 DEF Ready
<1>8. SentIsKept' /\ ToldIsKept'
  <2>1. Undamaged' => Undamaged
    BY <1>1 DEF Undamaged
  <2>2. pc'[t] = "put" => ToSet(list'[t]) \subseteq ToSet(file')
    BY <1>1, <1>6 DEF ToSet
  <2>3. \A u \in Callers : pc'[u] = "put" =>
          \/ pc[u] = "put" /\ list'[u] = list[u]
          \/ ToSet(list'[u]) \subseteq ToSet(file')
    BY <1>1, <2>2 DEF Bystander
  <2>4. QED  BY <1>1, <2>1, <2>3, KeptStays
<1>9. QED  BY <1>3, <1>4, <1>7, <1>8

LEMMA SaveFlow ==
  ASSUME FlowInv, NEW t \in Callers, Save(t)
  PROVE  Flow'
<1> USE DEF FlowInv, Flow
<1>1. /\ pc[t] = "save" /\ Held(t)
      /\ pc'[t] = IF mode[t] = "remove" THEN "collect" ELSE "put"
      /\ mode'[t] = "report"
      /\ UNCHANGED <<goalStateEventMap, hgap, todo, doomed, live, list, seen, moved>>
      /\ \A u \in Callers \ {t} : Bystander(u)
  BY DEF Save, Goto, Held, Bystander, IInv, TypeOK
<1>2. \/ Write(t)
      \/ losses' = losses \cup {"unwritable"} /\ stale' = stale \cup {t} /\ file' = file
  BY DEF Save
<1>3. /\ losses \subseteq losses'
      /\ "stale write" \notin losses' =>
           \A e \in ToSet(file) : e \in ToSet(file') \/ Superseded(e)
      /\ \A u \in Callers \ {t} : Held(u) /\ u \notin stale' => u \notin stale /\ file' = file
      /\ file' = list[t] \/ (t \in stale' /\ "unwritable" \in losses')
  <2>1. CASE Write(t)
    <3>1. file' = list[t]
      BY <2>1 DEF Write
    <3>2. QED  BY <1>1, <2>1, <3>1, WriteKeeps
  <2>2. CASE losses' = losses \cup {"unwritable"} /\ stale' = stale \cup {t} /\ file' = file
    BY <2>2
  <2>3. QED  BY <1>2, <2>1, <2>2
<1>4. ASSUME NEW u \in Callers, u # t  PROVE Gathered(u)' /\ LiveRuns(u)' /\ Ready(u)'
  <2>1. pc[u] = "put" /\ u \notin stale' => u \notin stale /\ file' = file
    BY <1>3, <1>4 DEF Held
  <2>2. QED  BY <1>1, <1>4, <2>1, BystanderKeeps
<1>5. Gathered(t)' /\ LiveRuns(t)'
  <2>1. CASE mode[t] = "remove"
    BY <1>1, <2>1 DEF Gathered, LiveRuns, AfterRange
  <2>2. CASE mode[t] # "remove"
    <3>1. mode[t] = "report" /\ pc'[t] = "put"
      BY <1>1, <2>2 DEF IInv, TypeOK
    <3>2. RunningIn(Keys)' = RunningIn(Keys)
      BY <1>1 DEF RunningIn
    <3>3. QED  BY <1>1, <3>1, <3>2 DEF Gathered, LiveRuns, AfterRange
  <2>3. QED  BY <2>1, <2>2
<1>6. Ready(t)'
  BY <1>1, <1>3 DEF Ready
<1>7. SentIsKept' /\ ToldIsKept'
  <2>1. Undamaged' => /\ Undamaged
                      /\ \A e \in ToSet(file) : e \in ToSet(file') \/ Superseded(e)
                      /\ file' = list[t]
    BY <1>3 DEF Undamaged, FileDamage
  <2>2. \A u \in Callers : pc'[u] = "put" =>
          \/ pc[u] = "put" /\ list'[u] = list[u]
          \/ Undamaged' => ToSet(list'[u]) \subseteq ToSet(file')
    BY <1>1, <2>1 DEF Bystander
  <2>3. QED  BY <1>1, <2>1, <2>2, KeptStays
<1>8. QED  BY <1>4, <1>5, <1>6, <1>7

(* A PUT tells HGAP nothing terminal that the file does not keep.           *)
LEMMA PutFlow ==
  ASSUME FlowInv, NEW t \in Callers, Put(t)
  PROVE  Flow'
<1> USE DEF FlowInv, Flow
<1>1. /\ pc[t] = "put" /\ pc'[t] = "idle"
      /\ hgap' = Payload(t) \/ hgap' = hgap
      /\ live'[t] = {}
      /\ stale' = stale \ {t} /\ moved' = moved \ {t}
      /\ UNCHANGED <<goalStateEventMap, file, doomed, seen, losses>>
      /\ \A u \in Callers \ {t} : Bystander(u)
  BY DEF Put, Goto, Bystander, IInv, TypeOK
<1>2. ASSUME NEW u \in Callers, u # t  PROVE Gathered(u)' /\ LiveRuns(u)' /\ Ready(u)'
  BY <1>1, <1>2, BystanderKeeps
<1>3. Gathered(t)' /\ LiveRuns(t)' /\ Ready(t)'
  BY <1>1 DEF Gathered, LiveRuns, Ready, AfterRange
<1>4. SentIsKept' /\ ToldIsKept'
  <2>1. Undamaged' => Undamaged
    BY <1>1 DEF Undamaged
  <2>2. \A u \in Callers : pc'[u] = "put" => pc[u] = "put" /\ list'[u] = list[u]
    BY <1>1 DEF Bystander
  <2>3. ASSUME Undamaged, NEW e \in Payload(t), IsTerminal(e.status)
        PROVE  InFile(e) \/ Superseded(e)
    <3>1. e \in ToSet(list[t])
      BY <2>3 DEF Payload, LiveRuns
    <3>2. QED  BY <1>1, <2>3, <3>1 DEF SentIsKept
  <2>4. hgap' = hgap \/ (Undamaged => \A e \in hgap' : IsTerminal(e.status) =>
                                                        InFile(e) \/ Superseded(e))
    BY <1>1, <2>3
  <2>5. QED  BY <1>1, <2>1, <2>2, <2>4, KeptStays
<1>5. QED  BY <1>2, <1>3, <1>4

LEMMA RestartFlow ==
  ASSUME FlowInv, Restart
  PROVE  Flow'
<1> USE DEF FlowInv, Flow
<1>1. /\ \A t \in Callers : pc'[t] = "idle" /\ doomed'[t] = {} /\ live'[t] = {}
      /\ losses \subseteq losses'
      /\ UNCHANGED <<file, hgap, seen>>
  BY DEF Restart
<1>2. \A t \in Callers : Gathered(t)' /\ LiveRuns(t)' /\ Ready(t)'
  BY <1>1 DEF Gathered, LiveRuns, Ready, AfterRange
<1>3. SentIsKept' /\ ToldIsKept'
  BY <1>1, FileUntouched
<1>4. QED  BY <1>2, <1>3

LEMMA InitFlow == Init => FlowInv
<1> SUFFICES ASSUME Init  PROVE FlowInv
  OBVIOUS
<1>1. \A t \in Callers : pc[t] = "idle" /\ doomed[t] = {} /\ live[t] = {}
  BY DEF Init
<1>2. hgap = {}
  BY DEF Init
<1>3. Flow
  BY <1>1, <1>2 DEF Flow, Gathered, LiveRuns, Ready, AfterRange, SentIsKept, ToldIsKept
<1>4. QED  BY <1>3, InitCustody DEF FlowInv

LEMMA FlowStep == FlowInv /\ [Next]_vars => FlowInv'
<1> SUFFICES ASSUME FlowInv, [Next]_vars  PROVE FlowInv'
  OBVIOUS
<1>1. ASSUME UNCHANGED vars  PROVE Flow'
  <2>1. UNCHANGED <<goalStateEventMap, file, hgap, pc, mode, todo, doomed, live, list,
                    seen, stale, moved, losses>>
    BY <1>1 DEF vars, shared, scratch, ghosts
  <2>2. \A t \in Callers : Gathered(t)' /\ LiveRuns(t)' /\ Ready(t)'
    BY <2>1, BystanderKeeps DEF Bystander
  <2>3. SentIsKept' /\ ToldIsKept'
    BY <2>1, FileUntouched
  <2>4. QED  BY <2>2, <2>3 DEF Flow
<1>2. Flow'
  BY <1>1, OnNotifyFlow, RemoveProcessedFlow, StartRangeFlow, VisitFlow, DeleteFlow,
     EndRangeFlow, PruneGetFlow, PruneKeyFlow, PruneSaveFlow, GetFlow, SaveFlow,
     PutFlow, RestartFlow
  DEF Next, LocalStep, Step, PutPanics, Crash
<1>3. QED  BY <1>2, CustodyStep DEF FlowInv

(* Whatever calls come from however many callers in whatever order, and     *)
(* whatever fails: a caller sends exactly the running goal states of the    *)
(* map and the terminal ones of the file, unless another caller changed one *)
(* of the two while it was at work or its own read or save of the file      *)
(* failed (immediatestatus.go:64-139).                                      *)
THEOREM AggregatesComplete == Spec => []AggregateComplete
<1>1. FlowInv => AggregateComplete
  BY CompletePayload DEF AggregateComplete
<1>2. QED  BY <1>1, InitFlow, FlowStep, PTL DEF Spec

(* HGAP keeps every terminal status it was told until the goal state is     *)
(* superseded: no step of any caller replaces its aggregate by one without  *)
(* it, but for the PUT of a caller whose list is not what the file holds,   *)
(* and after a write that lost entries of the file                          *)
(* (immediatestatus.go:64-139, status.go:131-215).                          *)
THEOREM HgapRemembers == Spec => HgapNeverForgets
<1> DEFINE Remembers == \A e \in hgap : IsTerminal(e.status) =>
                          \/ e \in hgap'
                          \/ Superseded(e)
                          \/ \E t \in stale : Put(t)
                          \/ losses \cap FileDamage # {}
<1>1. FlowInv /\ [Next]_vars => [Remembers]_vars
  <2> SUFFICES ASSUME FlowInv, Next, NEW e \in hgap, IsTerminal(e.status),
                      Undamaged, ~\E t \in stale : Put(t)
               PROVE  e \in hgap' \/ Superseded(e)
    BY DEF Undamaged
  <2>1. ASSUME NEW t \in Callers, Put(t)  PROVE e \in hgap' \/ Superseded(e)
    <3>1. t \notin stale /\ pc[t] = "put" /\ (hgap' = Payload(t) \/ hgap' = hgap)
      BY <2>1 DEF Put
    <3>2. InFile(e) \/ Superseded(e)
      BY DEF FlowInv, Flow, ToldIsKept
    <3>3. list[t] = file
      BY <3>1 DEF FlowInv, Flow, Ready
    <3>4. QED  BY <3>1, <3>2, <3>3 DEF Payload, InFile
  <2>2. ASSUME NEW t \in Callers, LocalStep(t)  PROVE hgap' = hgap
    <3>1. ASSUME NEW k \in Keys, Visit(t, k) \/ Delete(t, k) \/ PruneKey(t, k)
          PROVE  hgap' = hgap
      BY <3>1 DEF Visit, Delete, PruneKey, shared
    <3>2. StartRange(t) \/ EndRange(t) \/ PruneGet(t) \/ Get(t) => hgap' = hgap
      BY DEF StartRange, EndRange, PruneGet, Get, shared
    <3>3. PruneSave(t) \/ Save(t) => hgap' = hgap
      BY DEF PruneSave, Save
    <3>4. QED  BY <2>2, <3>1, <3>2, <3>3 DEF LocalStep
  <2>3. ASSUME NEW t \in Callers, NEW k \in Keys, NEW s, OnNotify(t, k, s)
        PROVE  hgap' = hgap
    BY <2>3 DEF OnNotify
  <2>4. ASSUME NEW keys, RemoveProcessedGoalStates(keys)  PROVE hgap' = hgap
    BY <2>4 DEF RemoveProcessedGoalStates, shared
  <2>5. Restart => hgap' = hgap
    BY DEF Restart
  <2>6. QED  BY <2>1, <2>2, <2>3, <2>4, <2>5 DEF Next, Step, PutPanics, Crash
<1>2. Spec => [][Remembers]_vars
  <2> HIDE DEF Remembers
  <2>1. QED  BY <1>1, InitFlow, FlowStep, PTL DEF Spec
<1>3. QED  BY <1>2 DEF HgapNeverForgets
=============================================================================
