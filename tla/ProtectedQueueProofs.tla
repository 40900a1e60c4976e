------------------------ MODULE ProtectedQueueProofs ------------------------
(***************************************************************************)
(* Theorems about ProtectedQueue, for every set of threads and items and   *)
(* every maximum count of the semaphore.                                   *)
(***************************************************************************)
EXTENDS ProtectedQueue, ProofLemmas, FiniteSetTheorems

(***************************************************************************)
(* A queue of distinct items is no longer than the number of items.        *)
(***************************************************************************)
LEMMA InjectiveLength ==
  ASSUME NEW s \in Seq(Items), IsInjective(s)
  PROVE  Len(s) <= MaxCount
<1>1. s \in Injection(1..Len(s), Items) /\ Len(s) \in Nat
  BY LenProperties DEF Injection, IsInjective
<1>2. Cardinality(1..Len(s)) <= Cardinality(Items)
  BY <1>1, FS_Injection, ItemsAssumption
<1>3. Cardinality(1..Len(s)) = Len(s)
  <2>1. \A n \in Nat : Cardinality(1..n) = IF 1 > n THEN 0 ELSE n - 1 + 1
    BY FS_Interval
  <2>2. QED
    BY <1>1, <2>1
<1>4. Cardinality(Items) \in Nat
  BY FS_CardinalityType, ItemsAssumption
<1>5. QED
  BY <1>1, <1>2, <1>3, <1>4, ItemsAssumption

(***************************************************************************)
(* The number of threads at one of the labels L, after one thread moves.   *)
(***************************************************************************)
At(f, L) == {u \in Threads : f[u] \in L}

LEMMA AtFinite ==
  ASSUME NEW f, NEW L
  PROVE  IsFiniteSet(At(f, L)) /\ Cardinality(At(f, L)) \in Nat
<1>1. At(f, L) \in SUBSET Threads
  BY DEF At
<1>2. IsFiniteSet(At(f, L))
  BY <1>1, FS_Subset, ThreadsAssumption
<1>3. QED
  BY <1>2, FS_CardinalityType

LEMMA AtMove ==
  ASSUME NEW f \in [Threads -> Label], NEW L, NEW t \in Threads, NEW x \in Label
  PROVE  LET c == Cardinality(At(f, L))
             d == Cardinality(At([f EXCEPT ![t] = x], L))
         IN  /\ c \in Nat /\ d \in Nat
             /\ x \in L /\ f[t] \notin L => d = c + 1
             /\ x \notin L /\ f[t] \in L => d = c - 1
             /\ (x \in L <=> f[t] \in L) => d = c
<1> DEFINE A == At(f, L)
           B == At([f EXCEPT ![t] = x], L)
<1>1. /\ IsFiniteSet(A) /\ Cardinality(A) \in Nat
      /\ IsFiniteSet(B) /\ Cardinality(B) \in Nat
  BY AtFinite
<1>2. /\ Cardinality(A \cup {t}) = IF t \in A THEN Cardinality(A) ELSE Cardinality(A) + 1
      /\ Cardinality(A \ {t}) = IF t \in A THEN Cardinality(A) - 1 ELSE Cardinality(A)
  BY <1>1, FS_AddElement, FS_RemoveElement
<1>3. t \in A <=> f[t] \in L
  BY DEF At
<1>4. x \in L => B = A \cup {t}
  BY DEF At
<1>5. x \notin L => B = A \ {t}
  BY DEF At
<1> HIDE DEF A, B
<1>6. /\ x \in L /\ f[t] \notin L => Cardinality(B) = Cardinality(A) + 1
      /\ x \notin L /\ f[t] \in L => Cardinality(B) = Cardinality(A) - 1
      /\ (x \in L <=> f[t] \in L) => Cardinality(B) = Cardinality(A)
  BY <1>1, <1>2, <1>3, <1>4, <1>5
<1>7. QED
  BY <1>1, <1>6 DEF A, B
-----------------------------------------------------------------------------
(***************************************************************************)
(* Type correctness and ownership.                                         *)
(***************************************************************************)
OwnInv == TypeOK /\ ExactlyOnce

LEMMA OwnInit == Init => OwnInv
<1> SUFFICES ASSUME Init PROVE OwnInv
  OBVIOUS
<1>1. PICK owner \in [Items -> Threads] :
         held = [t \in Threads |-> {i \in Items : owner[i] = t}]
  BY DEF Init
<1>2. TypeOK
  BY <1>1, EmptyItems, ItemsAssumption DEF Init, TypeOK, Label
<1>3. ExactlyOnce
  BY <1>1, EmptyItems DEF Init, ExactlyOnce
<1>4. QED
  BY <1>2, <1>3 DEF OwnInv

LEMMA ReleasedType ==
  ASSUME m_theSignal \in 0..MaxCount
  PROVE  Released(m_theSignal) \in 0..MaxCount
BY ItemsAssumption DEF Released

LEMMA PushOwn ==
  ASSUME OwnInv, NEW t \in Threads, NEW i \in Items, InsertPush(t, i)
  PROVE  OwnInv'
<1> USE DEF OwnInv
<1>1. /\ m_theQueue' \in Seq(Items)
      /\ ToSet(m_theQueue') = ToSet(m_theQueue) \cup {i}
      /\ IsInjective(m_theQueue')
  BY AppendItem DEF InsertPush, TypeOK, ExactlyOnce
<1>2. TypeOK'
  BY <1>1 DEF InsertPush, Goto, TypeOK, Label
<1>3. ExactlyOnce'
  BY <1>1 DEF InsertPush, ExactlyOnce, TypeOK
<1>4. QED
  BY <1>2, <1>3

LEMMA PopOwn ==
  ASSUME OwnInv, NEW t \in Threads, PopFront(t), freed' = freed,
         m_theSignal' = m_theSignal, pc' \in [Threads -> Label]
  PROVE  OwnInv'
<1> USE DEF OwnInv
<1>1. CASE m_theQueue = <<>>
  BY <1>1 DEF PopFront, TypeOK, ExactlyOnce
<1>2. CASE m_theQueue # <<>>
  <2> DEFINE h == Head(m_theQueue)
  <2> m_theQueue' = Tail(m_theQueue) /\ m_theQueue \in Seq(Items) /\ IsInjective(m_theQueue)
    BY <1>2 DEF PopFront, TypeOK, ExactlyOnce
  <2>1. /\ h \in Items
        /\ h \in ToSet(m_theQueue)
        /\ m_theQueue' \in Seq(Items)
        /\ ToSet(m_theQueue') \cup {h} = ToSet(m_theQueue)
        /\ IsInjective(m_theQueue')
        /\ h \notin ToSet(m_theQueue')
    BY <1>2, TailItem
  <2>2. held' = [held EXCEPT ![t] = @ \cup {h}]
    BY <1>2 DEF PopFront
  <2> HIDE DEF h
  <2>3. TypeOK'
    BY <2>1, <2>2 DEF TypeOK
  <2>4. ExactlyOnce'
    BY <2>1, <2>2 DEF TypeOK, ExactlyOnce
  <2>5. QED
    BY <2>3, <2>4
<1>3. QED
  BY <1>1, <1>2

LEMMA OwnNext == OwnInv /\ [Next]_vars => OwnInv'
<1> SUFFICES ASSUME OwnInv, [Next]_vars PROVE OwnInv'
  OBVIOUS
<1> USE DEF OwnInv
<1>1. ASSUME NEW t \in Threads, NEW i \in Items, InsertPush(t, i) PROVE OwnInv'
  BY <1>1, PushOwn
<1>2. ASSUME NEW t \in Threads, InsertRelease(t) \/ StrayRelease(t) PROVE OwnInv'
  BY <1>2, ReleasedType
     DEF InsertRelease, StrayRelease, Goto, TypeOK, Label, ExactlyOnce
<1>3. ASSUME NEW t \in Threads, WaitCall(t) \/ WaitTimeout(t) \/ ClearDone(t)
      PROVE  OwnInv'
  BY <1>3 DEF WaitCall, WaitTimeout, ClearDone, Goto, TypeOK, Label, ExactlyOnce
<1>4. ASSUME NEW t \in Threads, WaitSignalled(t) \/ TakeToken(t) \/ ClearDrain(t)
      PROVE  OwnInv'
  BY <1>4, ItemsAssumption
     DEF WaitSignalled, TakeToken, ClearDrain, Goto, TypeOK, Label, ExactlyOnce
<1>5. ASSUME NEW t \in Threads, WaitPop(t) \/ GetItemNoDec(t) PROVE OwnInv'
  <2>1. /\ PopFront(t) /\ freed' = freed /\ m_theSignal' = m_theSignal
        /\ pc' \in [Threads -> Label]
    BY <1>5 DEF WaitPop, GetItemNoDec, Goto, TypeOK, Label
  <2>2. QED
    BY <2>1, PopOwn
<1>6. ASSUME NEW t \in Threads, ClearItems(t) PROVE OwnInv'
  <2>1. m_theQueue' = <<>> /\ ToSet(m_theQueue) \subseteq Items
    BY <1>6, LenProperties DEF ClearItems, TypeOK, ToSet
  <2>2. TypeOK'
    BY <1>6, <2>1, EmptyItems DEF ClearItems, Goto, TypeOK, Label
  <2>3. ExactlyOnce'
    BY <1>6, <2>1, EmptyItems DEF ClearItems, ExactlyOnce
  <2>4. QED
    BY <2>2, <2>3
<1>7. CASE UNCHANGED vars
  BY <1>7 DEF vars, TypeOK, ExactlyOnce
<1>8. QED
  BY <1>1, <1>2, <1>3, <1>4, <1>5, <1>6, <1>7 DEF Next

LEMMA OwnCorrect == Spec => []OwnInv
BY OwnInit, OwnNext, PTL DEF Spec

(* Every variable of the queue keeps its type; the count of the semaphore  *)
(* stays within 0..LONG_MAX (ProtectedQueue.h:143).                        *)
THEOREM TypeCorrect == Spec => []TypeOK
BY OwnCorrect, PTL DEF OwnInv

(* Whatever the interleaving of insertItem, waitItem, getItem,             *)
(* getItemNoDec and clear, each item is in exactly one place: no item is   *)
(* received twice, freed while a caller owns it, or lost.                  *)
THEOREM ItemsExactlyOnce == Spec => []ExactlyOnce
BY OwnCorrect, PTL DEF OwnInv
-----------------------------------------------------------------------------
(***************************************************************************)
(* No lost wake-up.  NoLostSignal alone is not inductive: the drain of a   *)
(* clear lowers the count, which is harmless only because the list is      *)
(* empty, and stays empty, until the drain is over.                        *)
(***************************************************************************)
DrainEmpty == ClearRunning => m_theQueue = <<>>

SignalInv == OwnInv /\ DrainEmpty /\ NoLostSignal

Transit == {"release", "woken", "token"}

LEMMA TransitAt == InTransit = At(pc, Transit) /\ InTransit' = At(pc', Transit)
BY DEF InTransit, At, Transit

LEMMA TransitMove ==
  ASSUME TypeOK, NEW t \in Threads, NEW x \in Label, pc' = [pc EXCEPT ![t] = x]
  PROVE  /\ Cardinality(InTransit) \in Nat
         /\ Cardinality(InTransit') \in Nat
         /\ x \in Transit /\ pc[t] \notin Transit =>
              Cardinality(InTransit') = Cardinality(InTransit) + 1
         /\ x \notin Transit /\ pc[t] \in Transit =>
              Cardinality(InTransit') = Cardinality(InTransit) - 1
         /\ x \notin Transit /\ pc[t] \notin Transit =>
              Cardinality(InTransit') = Cardinality(InTransit)
BY AtMove, TransitAt DEF TypeOK

LEMMA DrainNext ==
  ASSUME ClearExclusive, TypeOK, DrainEmpty, [Next]_vars
  PROVE  DrainEmpty'
<1> USE DEF DrainEmpty, ClearRunning
<1>1. ASSUME NEW t \in Threads, NEW i \in Items, InsertPush(t, i) PROVE DrainEmpty'
  BY <1>1 DEF InsertPush, Goto, TypeOK, Label
<1>2. ASSUME NEW t \in Threads, InsertRelease(t) \/ StrayRelease(t) PROVE DrainEmpty'
  BY <1>2 DEF InsertRelease, StrayRelease, Goto, TypeOK, Label
<1>3. ASSUME NEW t \in Threads, WaitCall(t) \/ WaitTimeout(t) \/ ClearDone(t)
      PROVE  DrainEmpty'
  BY <1>3 DEF WaitCall, WaitTimeout, ClearDone, Goto, TypeOK, Label
<1>4. ASSUME NEW t \in Threads, WaitSignalled(t) \/ TakeToken(t) \/ ClearDrain(t)
      PROVE  DrainEmpty'
  BY <1>4 DEF WaitSignalled, TakeToken, ClearDrain, Goto, TypeOK, Label
<1>5. ASSUME NEW t \in Threads, WaitPop(t) \/ GetItemNoDec(t) PROVE DrainEmpty'
  BY <1>5 DEF WaitPop, GetItemNoDec, PopFront, Goto, TypeOK, Label
<1>6. ASSUME NEW t \in Threads, ClearItems(t) PROVE DrainEmpty'
  BY <1>6 DEF ClearItems
<1>7. CASE UNCHANGED vars
  BY <1>7 DEF vars
<1>8. QED
  BY <1>1, <1>2, <1>3, <1>4, <1>5, <1>6, <1>7 DEF Next

LEMMA SignalNext ==
  ASSUME ClearExclusive, SignalInv, [Next]_vars
  PROVE  SignalInv'
<1> DEFINE n == Len(m_theQueue)
           c == Cardinality(InTransit)
<1> USE DEF Transit
<1>1. OwnInv' /\ DrainEmpty'
  BY OwnNext, DrainNext DEF SignalInv, OwnInv
<1>2. /\ TypeOK /\ TypeOK' /\ NoLostSignal
      /\ IsInjective(m_theQueue)
      /\ n \in Nat /\ n <= MaxCount /\ MaxCount \in Nat
      /\ m_theSignal \in Nat /\ m_theSignal' \in Nat
  BY <1>1, InjectiveLength, LenProperties, ItemsAssumption
     DEF SignalInv, OwnInv, TypeOK, ExactlyOnce
<1>3. c \in Nat
  BY TransitAt, AtFinite
<1> HIDE DEF n, c
<1>4. n <= m_theSignal + c
  BY <1>2 DEF NoLostSignal, n, c
<1>5. SUFFICES NoLostSignal'
  BY <1>1 DEF SignalInv
<1>6. ASSUME NEW t \in Threads, NEW i \in Items, InsertPush(t, i) PROVE NoLostSignal'
  <2>1. Len(m_theQueue') = n + 1
    BY <1>2, <1>6, AppendProperties DEF InsertPush, TypeOK, n
  <2>2. Cardinality(InTransit') = c + 1
    <3>1. pc[t] \notin Transit /\ "release" \in Transit \cap Label
          /\ pc' = [pc EXCEPT ![t] = "release"]
      BY <1>6 DEF InsertPush, Goto, Label
    <3>2. QED
      BY <1>2, <3>1, TransitMove DEF c
  <2>3. QED
    BY <1>2, <1>3, <1>4, <1>6, <2>1, <2>2 DEF InsertPush, NoLostSignal
<1>7. ASSUME NEW t \in Threads, InsertRelease(t) PROVE NoLostSignal'
  <2>1. Cardinality(InTransit') = c - 1 /\ c - 1 \in Nat
    <3>1. pc[t] \in Transit /\ "idle" \in Label \ Transit
          /\ pc' = [pc EXCEPT ![t] = "idle"]
      BY <1>7 DEF InsertRelease, Goto, Label
    <3>2. Cardinality(InTransit') = c - 1 /\ Cardinality(InTransit') \in Nat
      BY <1>2, <3>1, TransitMove DEF c
    <3>3. QED
      BY <3>2
  <2>2. m_theQueue' = m_theQueue /\ m_theSignal' = Released(m_theSignal)
    BY <1>7 DEF InsertRelease
  <2>3. CASE m_theSignal < MaxCount
    BY <1>2, <1>3, <1>4, <2>1, <2>2, <2>3 DEF NoLostSignal, Released, n
  <2>4. CASE ~(m_theSignal < MaxCount)
    <3>1. n <= m_theSignal' /\ n <= m_theSignal' + (c - 1)
      BY <1>2, <1>3, <2>1, <2>2, <2>4 DEF Released
    <3>2. QED
      BY <2>1, <2>2, <3>1 DEF NoLostSignal, n
  <2>5. QED
    BY <2>3, <2>4
<1>8. ASSUME NEW t \in Threads, StrayRelease(t) PROVE NoLostSignal'
  <2>1. InTransit' = InTransit /\ m_theQueue' = m_theQueue /\ m_theSignal' >= m_theSignal
    BY <1>2, <1>8 DEF StrayRelease, InTransit, Released
  <2>2. QED
    BY <1>2, <1>3, <1>4, <2>1 DEF NoLostSignal, n, c
<1>9. ASSUME NEW t \in Threads, WaitCall(t) \/ WaitTimeout(t) PROVE NoLostSignal'
  <2>1. PICK x \in {"wait", "forever", "idle"} :
           pc[t] \notin Transit /\ pc' = [pc EXCEPT ![t] = x]
    BY <1>9 DEF WaitCall, WaitTimeout, Goto
  <2>2. Cardinality(InTransit') = c
    <3>1. x \in Label \ Transit
      BY <2>1 DEF Label
    <3>2. QED
      BY <1>2, <2>1, <3>1, TransitMove DEF c
  <2>3. QED
    BY <1>4, <1>9, <2>2 DEF WaitCall, WaitTimeout, NoLostSignal, n
<1>10. ASSUME NEW t \in Threads, WaitSignalled(t) \/ TakeToken(t) PROVE NoLostSignal'
  <2>1. PICK x \in {"woken", "token"} :
           pc[t] \notin Transit /\ pc' = [pc EXCEPT ![t] = x]
    BY <1>10 DEF WaitSignalled, TakeToken, Goto
  <2>2. Cardinality(InTransit') = c + 1
    <3>1. x \in Label \cap Transit
      BY <2>1 DEF Label
    <3>2. QED
      BY <1>2, <2>1, <3>1, TransitMove DEF c
  <2>3. m_theQueue' = m_theQueue /\ m_theSignal' = m_theSignal - 1
    BY <1>10 DEF WaitSignalled, TakeToken
  <2>4. QED
    BY <1>2, <1>3, <1>4, <2>2, <2>3 DEF NoLostSignal, n
<1>11. ASSUME NEW t \in Threads, WaitPop(t) \/ GetItemNoDec(t) PROVE NoLostSignal'
  <2>1. /\ pc' = [pc EXCEPT ![t] = "idle"]
        /\ PopFront(t) /\ m_theSignal' = m_theSignal
    BY <1>11 DEF WaitPop, GetItemNoDec, Goto
  <2>2. Cardinality(InTransit') >= c - 1 /\ Cardinality(InTransit') \in Nat
    <3>1. "idle" \in Label \ Transit
      BY DEF Label
    <3>2. /\ Cardinality(InTransit') \in Nat
          /\ Cardinality(InTransit') = c - 1 \/ Cardinality(InTransit') = c
      BY <1>2, <2>1, <3>1, TransitMove DEF c
    <3>3. QED
      BY <1>3, <3>2
  <2>3. CASE m_theQueue = <<>>
    <3>1. m_theQueue' = <<>>
      BY <2>1, <2>3 DEF PopFront
    <3>2. QED
      BY <1>2, <2>2, <3>1, EmptyItems DEF NoLostSignal
  <2>4. CASE m_theQueue # <<>>
    <3>1. Len(m_theQueue') = n - 1
      BY <1>2, <2>1, <2>4, TailItem DEF PopFront, TypeOK, n
    <3>2. QED
      BY <1>2, <1>3, <1>4, <2>1, <2>2, <3>1 DEF NoLostSignal
  <2>5. QED
    BY <2>3, <2>4
<1>12. ASSUME NEW t \in Threads, ClearItems(t) PROVE NoLostSignal'
  <2>1. m_theQueue' = <<>> /\ m_theSignal' \in Nat /\ Cardinality(InTransit') \in Nat
    BY <1>2, <1>12, TransitAt, AtFinite DEF ClearItems
  <2>2. QED
    BY <2>1, EmptyItems DEF NoLostSignal
<1>13. ASSUME NEW t \in Threads, ClearDrain(t) \/ ClearDone(t) PROVE NoLostSignal'
  <2>1. m_theQueue' = <<>>
    BY <1>13 DEF ClearDrain, ClearDone, Goto, SignalInv, DrainEmpty, ClearRunning
  <2>2. Cardinality(InTransit') \in Nat
    BY TransitAt, AtFinite
  <2>3. QED
    BY <1>2, <2>1, <2>2, EmptyItems DEF NoLostSignal
<1>14. CASE UNCHANGED vars
  BY <1>4, <1>14 DEF vars, NoLostSignal, InTransit, n, c
<1>15. QED
  BY <1>6, <1>7, <1>8, <1>9, <1>10, <1>11, <1>12, <1>13, <1>14 DEF Next

(* If no insertItem overlaps a clear, no item is ever left in the list     *)
(* with every consumer asleep: the count, the releases under way and the   *)
(* threads already woken cover every queued item.                          *)
THEOREM SignalNeverLost == ClearExclusive => (Spec => []NoLostSignal)
<1> SUFFICES ASSUME ClearExclusive PROVE Spec => []NoLostSignal
  OBVIOUS
<1>1. Init => SignalInv
  <2> SUFFICES ASSUME Init PROVE SignalInv
    OBVIOUS
  <2>1. DrainEmpty
    BY DEF Init, DrainEmpty
  <2>2. NoLostSignal
    BY EmptyItems, TransitAt, AtFinite DEF Init, NoLostSignal
  <2>3. QED
    BY OwnInit, <2>1, <2>2 DEF SignalInv
<1>2. SignalInv /\ [Next]_vars => SignalInv'
  BY SignalNext
<1>3. SignalInv => NoLostSignal
  BY DEF SignalInv
<1>4. QED
  BY <1>1, <1>2, <1>3, PTL DEF Spec
-----------------------------------------------------------------------------
(***************************************************************************)
(* No spurious wake-up: what the semaphore promises never exceeds what the *)
(* list holds, as long as only insertItem releases it and only waitItem    *)
(* removes items.                                                          *)
(***************************************************************************)
PromiseInv == /\ OwnInv
              /\ m_theSignal + Cardinality(InTransit) <= Len(m_theQueue)

LEMMA PromiseNext ==
  ASSUME Signallers = {}, Clearers = {}, PromiseInv, [Next]_vars,
         \A t \in Threads : pc[t] \notin {"token", "drain"}
  PROVE  PromiseInv'
<1> DEFINE n == Len(m_theQueue)
           c == Cardinality(InTransit)
           Promise == m_theSignal + Cardinality(InTransit) <= Len(m_theQueue)
<1> USE DEF Transit
<1>1. OwnInv' /\ TypeOK
  BY OwnNext DEF PromiseInv, OwnInv
<1>2. /\ n \in Nat /\ c \in Nat /\ m_theSignal \in Nat /\ m_theSignal + c <= n
      /\ MaxCount \in Nat
  BY <1>1, LenProperties, TransitAt, AtFinite, ItemsAssumption
     DEF PromiseInv, TypeOK
<1>3. SUFFICES Promise'
  BY <1>1 DEF PromiseInv
<1> HIDE DEF n, c
<1>4. ASSUME NEW t \in Threads, NEW i \in Items, InsertPush(t, i) PROVE Promise'
  <2>1. Len(m_theQueue') = n + 1
    BY <1>1, <1>4, AppendProperties DEF InsertPush, TypeOK, n
  <2>2. pc[t] \notin Transit /\ "release" \in Transit \cap Label
        /\ pc' = [pc EXCEPT ![t] = "release"]
    BY <1>4 DEF InsertPush, Goto, Label
  <2>3. Cardinality(InTransit') = c + 1
    BY <1>1, <2>2, TransitMove DEF c
  <2>4. QED
    BY <1>2, <1>4, <2>1, <2>3 DEF InsertPush
<1>5. ASSUME NEW t \in Threads, InsertRelease(t) PROVE Promise'
  <2>1. pc[t] \in Transit /\ "idle" \in Label \ Transit
        /\ pc' = [pc EXCEPT ![t] = "idle"]
    BY <1>5 DEF InsertRelease, Goto, Label
  <2>2. Cardinality(InTransit') = c - 1
    BY <1>1, <2>1, TransitMove DEF c
  <2>3. m_theSignal' \in Nat /\ m_theSignal' <= m_theSignal + 1
    BY <1>2, <1>5 DEF InsertRelease, Released
  <2>4. m_theQueue' = m_theQueue
    BY <1>5 DEF InsertRelease
  <2>5. QED
    BY <1>2, <2>2, <2>3, <2>4 DEF n
<1>6. ASSUME NEW t \in Threads, WaitCall(t) \/ WaitTimeout(t) PROVE Promise'
  <2>1. PICK x \in {"wait", "forever", "idle"} :
           pc[t] \notin Transit /\ pc' = [pc EXCEPT ![t] = x]
    BY <1>6 DEF WaitCall, WaitTimeout, Goto
  <2>2. x \in Label \ Transit
    BY <2>1 DEF Label
  <2>3. Cardinality(InTransit') = c
    BY <1>1, <2>1, <2>2, TransitMove DEF c
  <2>4. QED
    BY <1>2, <1>6, <2>3 DEF WaitCall, WaitTimeout, n
<1>7. ASSUME NEW t \in Threads, WaitSignalled(t) PROVE Promise'
  <2>1. pc[t] \notin Transit /\ "woken" \in Label \cap Transit
        /\ pc' = [pc EXCEPT ![t] = "woken"]
    BY <1>7 DEF WaitSignalled, Goto, Label
  <2>2. Cardinality(InTransit') = c + 1
    BY <1>1, <2>1, TransitMove DEF c
  <2>3. QED
    BY <1>2, <1>7, <2>2 DEF WaitSignalled, n
<1>8. ASSUME NEW t \in Threads, WaitPop(t) PROVE Promise'
  <2>1. pc[t] \in Transit /\ "idle" \in Label \ Transit
        /\ pc' = [pc EXCEPT ![t] = "idle"]
    BY <1>8 DEF WaitPop, Goto, Label
  <2>2. Cardinality(InTransit') = c - 1 /\ c - 1 \in Nat
    BY <1>1, <2>1, TransitMove DEF c
  <2>3. m_theQueue # <<>>
    BY <1>2, <2>2, EmptyItems DEF n
  <2>4. Len(m_theQueue') = n - 1
    BY <1>1, <1>8, <2>3, TailItem DEF WaitPop, PopFront, TypeOK, n
  <2>5. QED
    BY <1>2, <1>8, <2>2, <2>4 DEF WaitPop
<1>9. ASSUME NEW t \in Threads,
             TakeToken(t) \/ GetItemNoDec(t) \/ StrayRelease(t) \/ ClearItems(t)
      PROVE  FALSE
  BY <1>9 DEF TakeToken, GetItemNoDec, StrayRelease, ClearItems
<1>10. ASSUME NEW t \in Threads, ClearDrain(t) \/ ClearDone(t) PROVE FALSE
  BY <1>10 DEF ClearDrain, ClearDone, Goto
<1>11. CASE UNCHANGED vars
  BY <1>2, <1>11 DEF vars, InTransit, n, c
<1>12. QED
  BY <1>4, <1>5, <1>6, <1>7, <1>8, <1>9, <1>10, <1>11 DEF Next

LEMMA NoStrayNext ==
  ASSUME Signallers = {}, Clearers = {}, TypeOK, [Next]_vars,
         \A t \in Threads : pc[t] \notin {"token", "drain"}
  PROVE  \A t \in Threads : pc'[t] \notin {"token", "drain"}
BY DEF Next, vars, InsertPush, InsertRelease, WaitCall, WaitSignalled,
       WaitTimeout, WaitPop, TakeToken, GetItemNoDec, StrayRelease,
       ClearItems, ClearDrain, ClearDone, Goto, TypeOK, Label

(* If the semaphore is left to insertItem and waitItem, a waitItem whose   *)
(* wait was satisfied finds an item: it does not return NULL.              *)
THEOREM SatisfiedWaitsFindItems ==
  Signallers = {} /\ Clearers = {} => (Spec => []NoSpuriousWakeup)
<1> SUFFICES ASSUME Signallers = {}, Clearers = {}
             PROVE  Spec => []NoSpuriousWakeup
  OBVIOUS
<1> DEFINE Inv == PromiseInv /\ \A t \in Threads : pc[t] \notin {"token", "drain"}
<1>1. Init => Inv
  <2> SUFFICES ASSUME Init PROVE Inv
    OBVIOUS
  <2>1. InTransit = {}
    BY DEF Init, InTransit
  <2>2. m_theSignal + Cardinality(InTransit) <= Len(m_theQueue)
    BY <2>1, EmptyItems, FS_EmptySet DEF Init
  <2>3. QED
    BY <2>2, OwnInit DEF Init, PromiseInv
<1>2. Inv /\ [Next]_vars => Inv'
  BY PromiseNext, NoStrayNext DEF PromiseInv, OwnInv
<1>3. Inv => NoSpuriousWakeup
  <2> SUFFICES ASSUME Inv PROVE NoSpuriousWakeup
    OBVIOUS
  <2>1. Woken \in SUBSET InTransit
    BY DEF Woken, InTransit
  <2>2. IsFiniteSet(InTransit) /\ Cardinality(InTransit) \in Nat
    BY TransitAt, AtFinite
  <2>3. IsFiniteSet(Woken) /\ Cardinality(Woken) <= Cardinality(InTransit)
    BY <2>1, <2>2, FS_Subset
  <2>4. Cardinality(Woken) \in Nat
    BY <2>3, FS_CardinalityType
  <2>5. m_theSignal \in Nat /\ Len(m_theQueue) \in Nat
    BY LenProperties, ItemsAssumption DEF PromiseInv, OwnInv, TypeOK
  <2>6. QED
    BY <2>2, <2>3, <2>4, <2>5 DEF PromiseInv, NoSpuriousWakeup
<1>4. QED
  BY <1>1, <1>2, <1>3, PTL DEF Spec
-----------------------------------------------------------------------------
(***************************************************************************)
(* The refinement of Fifo.                                                 *)
(***************************************************************************)
LEMMA FifoNext == OwnInv /\ [Next]_vars => [Abstract!Next]_(Abstract!vars)
<1> SUFFICES ASSUME OwnInv, [Next]_vars PROVE [Abstract!Next]_(Abstract!vars)
  OBVIOUS
<1> USE DEF OwnInv, Abstract!Next, Abstract!vars
<1>1. ASSUME NEW t \in Threads, NEW i \in Items, InsertPush(t, i)
      PROVE  Abstract!Put(t, i)
  BY <1>1 DEF InsertPush, Goto, TypeOK, Label, Abstract!Put
<1>2. ASSUME NEW t \in Threads, InsertRelease(t) \/ StrayRelease(t)
      PROVE  UNCHANGED Abstract!vars
  BY <1>2 DEF InsertRelease, StrayRelease, Goto, TypeOK, Label
<1>3. ASSUME NEW t \in Threads, WaitCall(t) \/ WaitSignalled(t)
      PROVE  Abstract!Commit(t) \/ UNCHANGED Abstract!vars
  BY <1>3 DEF WaitCall, WaitSignalled, Goto, TypeOK, Label, Abstract!Commit
<1>4. ASSUME NEW t \in Threads,
             WaitTimeout(t) \/ TakeToken(t) \/ ClearDrain(t) \/ ClearDone(t)
      PROVE  UNCHANGED Abstract!vars
  BY <1>4 DEF WaitTimeout, TakeToken, ClearDrain, ClearDone, Goto, TypeOK, Label
<1>5. ASSUME NEW t \in Threads, WaitPop(t) \/ GetItemNoDec(t)
      PROVE  Abstract!Take(t) \/ Abstract!Leave(t)
  BY <1>5 DEF WaitPop, GetItemNoDec, PopFront, Goto, TypeOK, Label,
              Abstract!Take, Abstract!Leave
<1>6. ASSUME NEW t \in Threads, ClearItems(t)
      PROVE  Abstract!Discard
  BY <1>6 DEF ClearItems, Goto, TypeOK, Label, ToSet, Abstract!ToSet, Abstract!Discard
<1>7. CASE UNCHANGED vars
  BY <1>7 DEF vars
<1>8. QED
  BY <1>1, <1>2, <1>3, <1>4, <1>5, <1>6, <1>7 DEF Next

(* The list, the critical section and the semaphore together are a FIFO    *)
(* queue: items are received in the order of the insertItem calls'         *)
(* critical sections, and NULL is returned after a satisfied wait only     *)
(* when the queue is empty.                                                *)
THEOREM QueueRefinesFifo == Spec => ImplementsFifo
<1>1. Init => Abstract!Init
  BY DEF Init, Abstract!Init
<1>2. QED
  BY <1>1, FifoNext, OwnCorrect, PTL DEF Spec, ImplementsFifo, Abstract!Spec
=============================================================================
