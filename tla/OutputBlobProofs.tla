-------------------------- MODULE OutputBlobProofs --------------------------
(***************************************************************************)
(* What OutputBlob implies for the reader of the blob: however the script, *)
(* the appends and the lost answers fall, the pieces arrive in order.      *)
(* InOrder is inductive once the variables have their types.               *)
(***************************************************************************)
EXTENDS OutputBlob, SequenceTheorems, TLAPS

TypeInv ==
  /\ printed \in Nat /\ acked \in Nat
  /\ shipped \in Seq(Nat) /\ over \in BOOLEAN

IInv == TypeInv /\ InOrder

LEMMA FollowingIsSeq ==
  ASSUME acked \in Nat, NEW m \in Nat
  PROVE  /\ Following(m) \in Seq(Nat) /\ Len(Following(m)) = m
         /\ \A i \in 1..m : Following(m)[i] = acked + i
<1>1. Following(m) \in [1..m -> Nat]
  BY DEF Following
<1>2. Following(m) \in Seq(Nat)
  BY <1>1, SeqDef
<1>3. DOMAIN Following(m) = 1..Len(Following(m)) /\ Len(Following(m)) \in Nat
  BY <1>2, LenProperties
<1> QED
  BY <1>1, <1>2, <1>3 DEF Following

LEMMA InitHolds == Init => IInv
<1>1. <<>> \in Seq(Nat) /\ Len(<<>>) = 0
  BY EmptySeq
<1> SUFFICES ASSUME Init PROVE IInv
  OBVIOUS
<1>2. 1..Len(shipped) = {} /\ 1..acked = {}
  BY <1>1 DEF Init
<1>3. TypeInv
  BY <1>1 DEF Init, TypeInv
<1> QED
  BY <1>2, <1>3, Zenon DEF IInv, InOrder

(* A shipment starts after the last piece that is acknowledged, which is in *)
(* the blob already; so each of its pieces has its predecessor before it.   *)
LEMMA ShipKeepsOrder ==
  ASSUME IInv, NEW m \in 1..(printed - acked), Ship(m)
  PROVE  IInv'
<1> DEFINE F == Following(m)
<1>1. m \in Nat /\ m >= 1 /\ acked \in Nat /\ printed \in Nat /\ shipped \in Seq(Nat)
  BY DEF IInv, TypeInv
<1>2. F \in Seq(Nat) /\ Len(F) = m /\ \A i \in 1..m : F[i] = acked + i
  BY <1>1, FollowingIsSeq
<1> HIDE DEF F
<1>3. shipped' = shipped \o F
  BY DEF Ship, F
<1>4. /\ shipped' \in Seq(Nat)
      /\ Len(shipped') = Len(shipped) + m
      /\ \A i \in 1..(Len(shipped) + m) :
           shipped'[i] = IF i <= Len(shipped) THEN shipped[i] ELSE F[i - Len(shipped)]
      /\ Len(shipped) \in Nat
  BY <1>1, <1>2, <1>3, ConcatProperties, LenProperties
<1>5. \A i \in 1..Len(shipped) : shipped'[i] = shipped[i]
  BY <1>1, <1>4
<1>6. \A i \in 1..m : shipped'[Len(shipped) + i] = acked + i
  <2> TAKE i \in 1..m
  <2>1. Len(shipped) + i \in 1..(Len(shipped) + m) /\ ~(Len(shipped) + i <= Len(shipped))
    BY <1>1, <1>4
  <2>2. (Len(shipped) + i) - Len(shipped) = i
    BY <1>1, <1>4
  <2> QED
    BY <1>2, <1>4, <2>1, <2>2
<1>7. acked' \in {acked, acked + m} /\ UNCHANGED <<printed, over>>
  BY DEF Ship
<1>8. TypeInv'
  BY <1>1, <1>4, <1>7 DEF IInv, TypeInv
<1>9. ASSUME NEW i \in 1..Len(shipped')
      PROVE  shipped'[i] = 1 \/ \E j \in 1..(i - 1) : shipped'[j] = shipped'[i] - 1
  <2>1. CASE i <= Len(shipped)
    <3>1. i \in 1..Len(shipped)
      BY <2>1, <1>4
    <3>2. shipped[i] = 1 \/ \E j \in 1..(i - 1) : shipped[j] = shipped[i] - 1
      BY <3>1 DEF IInv, InOrder
    <3> QED
      BY <3>1, <3>2, <1>4, <1>5
  <2>2. CASE i = Len(shipped) + 1
    <3>1. shipped'[i] = acked + 1
      BY <2>2, <1>1, <1>6
    <3>2. CASE acked = 0
      BY <3>1, <3>2
    <3>3. CASE acked # 0
      <4>1. PICK j \in 1..Len(shipped) : shipped[j] = acked
        BY <3>3, <1>1 DEF IInv, InOrder
      <4> QED
        BY <4>1, <3>1, <2>2, <1>1, <1>4, <1>5
    <3> QED
      BY <3>2, <3>3
  <2>3. CASE i > Len(shipped) + 1
    <3>1. /\ i - Len(shipped) \in 1..m /\ i - Len(shipped) - 1 \in 1..m
          /\ Len(shipped) + (i - Len(shipped)) = i
          /\ Len(shipped) + (i - Len(shipped) - 1) = i - 1
          /\ i - 1 \in 1..(i - 1)
      BY <2>3, <1>1, <1>4
    <3>2. /\ shipped'[i] = acked + (i - Len(shipped))
          /\ shipped'[i - 1] = acked + (i - Len(shipped) - 1)
      BY <3>1, <1>6
    <3> QED
      BY <3>1, <3>2, <1>1, <1>4
  <2> QED
    BY <2>1, <2>2, <2>3, <1>4
<1>10. ASSUME NEW k \in 1..acked'
       PROVE  \E i \in 1..Len(shipped') : shipped'[i] = k
  <2>1. CASE k <= acked
    <3>1. PICK i \in 1..Len(shipped) : shipped[i] = k
      BY <2>1, <1>1 DEF IInv, InOrder
    <3> QED
      BY <3>1, <1>1, <1>4, <1>5
  <2>2. CASE k > acked
    <3>1. /\ k - acked \in 1..m
          /\ Len(shipped) + (k - acked) \in 1..Len(shipped')
          /\ acked + (k - acked) = k
      BY <2>2, <1>1, <1>4, <1>7
    <3> QED
      BY <3>1, <1>6
  <2> QED
    BY <2>1, <2>2, <1>1, <1>7
<1> QED
  BY <1>8, <1>9, <1>10 DEF IInv, InOrder

LEMMA NextHolds == IInv /\ [Next]_vars => IInv'
<1> SUFFICES ASSUME IInv, [Next]_vars PROVE IInv'
  OBVIOUS
<1>1. CASE Emit
  BY <1>1 DEF Emit, IInv, TypeInv, InOrder
<1>2. CASE Finish
  BY <1>2 DEF Finish, IInv, TypeInv, InOrder
<1>3. ASSUME NEW m \in 1..(printed - acked), Ship(m)
      PROVE  IInv'
  BY <1>3, ShipKeepsOrder
<1>4. CASE UNCHANGED vars
  BY <1>4 DEF vars, IInv, TypeInv, InOrder
<1> QED
  BY <1>1, <1>2, <1>3, <1>4 DEF Next

(* What the blob of a stream has received is in order and complete up to    *)
(* the position the command has noted, for any output and any lost answers  *)
(* (appendToBlob, cmds.go:354-383).                                         *)
THEOREM PiecesInOrder == Spec => []InOrder
<1>1. Init => IInv
  BY InitHolds
<1>2. IInv /\ [Next]_vars => IInv'
  BY NextHolds
<1>3. IInv => InOrder
  BY DEF IInv
<1> QED
  BY <1>1, <1>2, <1>3, PTL DEF Spec
=============================================================================
