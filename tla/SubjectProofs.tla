--------------------------- MODULE SubjectProofs ----------------------------
(***************************************************************************)
(* What CSubject promises the owners of its observers, for any clients,    *)
(* notifiers and observers, and whether or not observers throw.            *)
(***************************************************************************)
EXTENDS Subject, ProofLemmas

\* Taking an observer out of a list of distinct ones leaves the others.
LEMMA WithoutItem ==
  ASSUME NEW S, NEW list \in Seq(S), NEW o, IsInjective(list)
  PROVE  /\ Without(list, o) \in Seq(S)
         /\ ToSet(Without(list, o)) = ToSet(list) \ {o}
         /\ IsInjective(Without(list, o))
<1>1. CASE o \notin ToSet(list)
  BY <1>1 DEF Without
<1>2. CASE o \in ToSet(list)
  <2> DEFINE at == CHOOSE i \in DOMAIN list : list[i] = o
             rest == Without(list, o)
  <2>1. DOMAIN list = 1..Len(list) /\ Len(list) \in Nat
    BY LenProperties
  <2>2. at \in 1..Len(list) /\ list[at] = o
    <3>1. \E i \in DOMAIN list : list[i] = o
      BY <1>2 DEF ToSet
    <3>2. QED
      BY <3>1, <2>1
  <2> HIDE DEF at
  <2>3. rest = SubSeq(list, 1, at - 1) \o SubSeq(list, at + 1, Len(list))
    BY <1>2 DEF Without, RemoveAt, at
  <2>4. /\ SubSeq(list, 1, at - 1) \in Seq(S)
        /\ Len(SubSeq(list, 1, at - 1)) = at - 1
        /\ \A i \in 1..(at - 1) : SubSeq(list, 1, at - 1)[i] = list[i]
    <3>1. 1 \in Int /\ at - 1 \in Int /\ \A i \in 1..(at - 1) : list[i] \in S
      BY <2>1, <2>2
    <3>2. QED
      BY ONLY <3>1, <2>1, <2>2, SubSeqProperties
  <2>5. /\ SubSeq(list, at + 1, Len(list)) \in Seq(S)
        /\ Len(SubSeq(list, at + 1, Len(list))) = Len(list) - at
        /\ \A i \in 1..(Len(list) - at) : SubSeq(list, at + 1, Len(list))[i] = list[at + i]
    <3>1. /\ at + 1 \in Int /\ Len(list) \in Int
          /\ \A i \in (at + 1)..Len(list) : list[i] \in S
      BY <2>1, <2>2
    <3>2. /\ SubSeq(list, at + 1, Len(list)) \in Seq(S)
          /\ Len(SubSeq(list, at + 1, Len(list))) =
               IF at + 1 <= Len(list) THEN Len(list) - (at + 1) + 1 ELSE 0
          /\ \A i \in 1..(Len(list) - (at + 1) + 1) :
                SubSeq(list, at + 1, Len(list))[i] = list[at + 1 + i - 1]
      BY ONLY <3>1, SubSeqProperties
    <3> HIDE DEF rest
    <3>3. /\ Len(list) - (at + 1) + 1 = Len(list) - at
          /\ (IF at + 1 <= Len(list) THEN Len(list) - at ELSE 0) = Len(list) - at
          /\ \A i \in 1..(Len(list) - at) : at + 1 + i - 1 = at + i
      <4>1. \A n \in Nat : \A k \in 1..n :
               /\ n - (k + 1) + 1 = n - k
               /\ (IF k + 1 <= n THEN n - k ELSE 0) = n - k
               /\ \A i \in 1..(n - k) : k + 1 + i - 1 = k + i
        OBVIOUS
      <4>2. QED
        BY ONLY <4>1, <2>1, <2>2
    <3>4. QED
      BY ONLY <3>2, <3>3
  <2> HIDE DEF rest
  <2>6. /\ rest \in Seq(S)
        /\ Len(rest) = Len(list) - 1
        /\ DOMAIN rest = 1..(Len(list) - 1)
        /\ \A i \in 1..(Len(list) - 1) : rest[i] = IF i < at THEN list[i] ELSE list[i + 1]
    <3> DEFINE front == SubSeq(list, 1, at - 1)
               back == SubSeq(list, at + 1, Len(list))
    <3>1. /\ front \in Seq(S) /\ Len(front) = at - 1
          /\ back \in Seq(S) /\ Len(back) = Len(list) - at
          /\ rest = front \o back
          /\ \A i \in 1..(at - 1) : front[i] = list[i]
          /\ \A i \in 1..(Len(list) - at) : back[i] = list[at + i]
      BY <2>3, <2>4, <2>5
    <3> HIDE DEF front, back
    <3>2. /\ rest \in Seq(S)
          /\ Len(rest) = Len(front) + Len(back)
          /\ \A i \in 1..(Len(front) + Len(back)) :
                rest[i] = IF i <= Len(front) THEN front[i] ELSE back[i - Len(front)]
      BY ONLY <3>1, ConcatProperties
    <3>3. Len(rest) = Len(list) - 1 /\ Len(front) + Len(back) = Len(list) - 1
      BY <3>1, <3>2, <2>1, <2>2
    <3>4. ASSUME NEW i \in 1..(Len(list) - 1)
          PROVE  rest[i] = IF i < at THEN list[i] ELSE list[i + 1]
      <4>1. CASE i < at
        <5>1. rest[i] = front[i] /\ i \in 1..(at - 1)
          BY <4>1, <3>1, <3>2, <3>3, <2>1, <2>2
        <5>2. QED
          BY <5>1, <4>1, <3>1
      <4>2. CASE ~ (i < at)
        <5>1. /\ rest[i] = back[i - (at - 1)]
              /\ i - (at - 1) \in 1..(Len(list) - at)
              /\ at + (i - (at - 1)) = i + 1
          BY <4>2, <3>1, <3>2, <3>3, <2>1, <2>2
        <5>2. QED
          BY <5>1, <4>2, <3>1
      <4>3. QED
        BY <4>1, <4>2
    <3>5. QED
      BY <3>2, <3>3, <3>4, LenProperties
  <2>7. IsInjective(rest)
    <3> SUFFICES ASSUME NEW i \in 1..(Len(list) - 1), NEW j \in 1..(Len(list) - 1),
                        rest[i] = rest[j]
                 PROVE  i = j
      BY <2>6 DEF IsInjective
    <3> DEFINE from(n) == IF n < at THEN n ELSE n + 1
    <3>1. \A n \in 1..(Len(list) - 1) : from(n) \in 1..Len(list) /\ rest[n] = list[from(n)]
      BY <2>1, <2>2, <2>6
    <3>2. from(i) = from(j)
      BY <3>1, <2>1 DEF IsInjective
    <3>3. QED
      BY <3>2, <2>1, <2>2
  <2>8. ASSUME NEW i \in 1..(Len(list) - 1) PROVE rest[i] \in ToSet(list) \ {o}
    <3> DEFINE from == IF i < at THEN i ELSE i + 1
    <3>1. from \in 1..Len(list) /\ from # at /\ rest[i] = list[from]
      BY <2>1, <2>2, <2>6
    <3>2. list[from] # list[at]
      BY <3>1, <2>1, <2>2 DEF IsInjective
    <3>3. QED
      BY <3>1, <3>2, <2>1, <2>2 DEF ToSet
  <2>9. ASSUME NEW x \in ToSet(list) \ {o} PROVE x \in ToSet(rest)
    <3>1. PICK i \in 1..Len(list) : list[i] = x /\ i # at
      BY <2>1, <2>2, <2>9 DEF ToSet
    <3>2. CASE i < at
      BY <3>1, <3>2, <2>1, <2>2, <2>6, SMTT(20) DEF ToSet
    <3>3. CASE i > at
      <4>1. i - 1 \in 1..(Len(list) - 1) /\ rest[i - 1] = x
        BY <3>1, <3>3, <2>1, <2>2, <2>6
      <4>2. QED
        BY <4>1, <2>6 DEF ToSet
    <3>4. QED
      BY <3>1, <3>2, <3>3, <2>1, <2>2
  <2>10. ToSet(rest) \subseteq ToSet(list) \ {o}
    BY <2>6, <2>8 DEF ToSet
  <2>11. QED
    BY <2>6, <2>7, <2>9, <2>10 DEF rest
<1>3. QED
  BY <1>1, <1>2
-----------------------------------------------------------------------------
(***************************************************************************)
(* The inductive invariant: a loop runs inside the critical section, whose *)
(* holder is a notifier (it keeps it when an observer throws), so that the *)
(* list stays as the loop found it; a client passes an observer of its     *)
(* own, and one that detach has returned for is not in the list.           *)
(***************************************************************************)

\* Where the threads are, and who is in the critical section.
Section ==
  /\ \A t \in Clients : pc[t] \in {"idle", "attach", "detach", "detached"}
  /\ \A t \in Notifiers : /\ pc[t] \in {"idle", "loop", "calling"}
                          /\ pc[t] # "idle" => holder = t
  /\ holder \in Notifiers \cup {NULL}

\* The observers that clients pass.
Passed ==
  \A t \in Clients :
     /\ pc[t] # "idle" => /\ arg[t] \in Observers \ deleted
                          /\ ClientOf[arg[t]] = t
     /\ pc[t] = "detached" => arg[t] \notin ToSet(m_theObserverList)

\* The list.
Listed == /\ IsInjective(m_theObserverList)
          /\ ToSet(m_theObserverList) \cap deleted = {}

\* How far a loop is.
Looping ==
  \A t \in Notifiers :
     /\ pc[t] # "calling" => calling[t] = NULL
     /\ pc[t] # "idle" =>
          /\ theIterator[t] \in 1 .. Len(m_theObserverList) + 1
          /\ Len(told[t]) = theIterator[t] - 1
          /\ \A i \in 1 .. Len(told[t]) : told[t][i] = m_theObserverList[i]
     /\ pc[t] = "calling" =>
          /\ theIterator[t] \in DOMAIN m_theObserverList
          /\ calling[t] = m_theObserverList[theIterator[t]]

IInv == TypeOK /\ Section /\ Passed /\ Listed /\ Looping

LEMMA InitInv == Init => IInv
<1>1. SUFFICES ASSUME Init PROVE IInv
  OBVIOUS
<1>2. TypeOK /\ Listed
  BY <1>1, EmptyItems, SubjectAssumption DEF Init, TypeOK, Listed, Threads
<1>3. Section /\ Passed /\ Looping
  BY <1>1, SubjectAssumption DEF Init, Section, Passed, Looping, Threads
<1>4. QED
  BY <1>2, <1>3 DEF IInv

\* A thread that has entered may enter again; one that has left leaves the
\* section free once it has left as often.
LEMMA DepthType ==
  ASSUME TypeOK, Section, NEW t \in Notifiers
  PROVE  /\ Enter(t) => holder' = t /\ depth' \in 1 .. MaxDepth
         /\ Leave /\ holder = t =>
              /\ depth' \in 0 .. MaxDepth
              /\ holder' \in {t, NULL} /\ (holder' = NULL <=> depth' = 0)
<1>1. t # NULL
  BY SubjectAssumption
<1>2. QED
  BY <1>1, SubjectAssumption DEF TypeOK, Section, Enter, Leave

\* Clients change no loop and are not where notifiers are; they find nobody
\* in a loop when they change the list.
LEMMA NextInv == IInv /\ [Next]_vars => IInv'
<1> SUFFICES ASSUME IInv, [Next]_vars PROVE IInv'
  OBVIOUS
<1> USE SubjectAssumption DEF IInv
<1>1. ASSUME NEW t \in Clients, NEW o \in Observers, AttachCall(t, o) \/ DetachCall(t, o)
      PROVE  IInv'
  <2>1. PICK to \in {"attach", "detach"} : pc[t] = "idle" /\ pc' = [pc EXCEPT ![t] = to]
    BY <1>1 DEF AttachCall, DetachCall, Goto
  <2>2. /\ ClientOf[o] = t /\ o \notin deleted
        /\ arg' = [arg EXCEPT ![t] = o]
        /\ UNCHANGED <<m_theObserverList, holder, depth, theIterator, calling, told, deleted>>
    BY <1>1 DEF AttachCall, DetachCall, loopVars
  <2>3. TypeOK'
    BY <2>1, <2>2 DEF TypeOK, Threads
  <2>4. Section'
    BY <2>1, <2>2 DEF TypeOK, Section, Threads
  <2>5. Passed'
    BY <2>1, <2>2 DEF TypeOK, Section, Passed, Threads
  <2>6. Listed'
    BY <2>2 DEF Listed
  <2>7. Looping'
    <3>1. \A n \in Notifiers : pc'[n] = pc[n]
      BY <2>1 DEF TypeOK, Threads
    <3>2. QED
      BY <3>1, <2>2 DEF Looping
  <2>8. QED
    BY <2>3, <2>4, <2>5, <2>6, <2>7
<1>2. ASSUME NEW t \in Clients, Attach(t) PROVE IInv'
  <2>1. /\ holder = NULL /\ arg[t] \in Observers \ deleted
        /\ \A n \in Notifiers : pc[n] = "idle" /\ pc'[n] = "idle"
    BY <1>2 DEF TypeOK, Section, Passed, Attach, Goto, MayEnter, Threads
  <2>2. /\ m_theObserverList' \in Seq(Observers)
        /\ IsInjective(m_theObserverList')
        /\ ToSet(m_theObserverList') = ToSet(m_theObserverList) \cup {arg[t]}
    BY <1>2, <2>1, AppendItem DEF TypeOK, Listed, Attach
  <2>3. TypeOK'
    BY <1>2, <2>2 DEF TypeOK, Attach, Goto, loopVars, Threads
  <2>4. Section'
    BY <1>2, <2>1 DEF TypeOK, Section, Attach, Goto, loopVars, Threads
  <2>5. Passed'
    <3> SUFFICES ASSUME NEW u \in Clients
                 PROVE  /\ pc'[u] # "idle" => /\ arg'[u] \in Observers \ deleted'
                                              /\ ClientOf[arg'[u]] = u
                        /\ pc'[u] = "detached" => arg'[u] \notin ToSet(m_theObserverList')
      BY DEF Passed
    <3>1. CASE u = t
      BY <1>2, <3>1 DEF TypeOK, Attach, Goto, Threads
    <3>2. CASE u # t
      <4>1. pc'[u] = pc[u] /\ arg'[u] = arg[u] /\ deleted' = deleted
        BY <1>2, <3>2 DEF TypeOK, Attach, Goto, Threads
      <4>2. pc[u] = "detached" => arg[u] # arg[t]
        BY <1>2, <3>2 DEF Passed, Attach, Goto
      <4>3. QED
        BY <4>1, <4>2, <2>2 DEF Passed
    <3>3. QED
      BY <3>1, <3>2
  <2>6. Listed'
    BY <1>2, <2>1, <2>2 DEF Listed, Attach
  <2>7. Looping'
    BY <1>2, <2>1 DEF Looping, Attach, loopVars
  <2>8. QED
    BY <2>3, <2>4, <2>5, <2>6, <2>7
<1>3. ASSUME NEW t \in Clients, Detach(t) PROVE IInv'
  <2>1. /\ holder = NULL /\ arg[t] \in Observers \ deleted
        /\ \A n \in Notifiers : pc[n] = "idle" /\ pc'[n] = "idle"
    BY <1>3 DEF TypeOK, Section, Passed, Detach, Goto, MayEnter, Threads
  <2>2. /\ m_theObserverList' \in Seq(Observers)
        /\ IsInjective(m_theObserverList')
        /\ ToSet(m_theObserverList') = ToSet(m_theObserverList) \ {arg[t]}
    BY <1>3, WithoutItem DEF TypeOK, Listed, Detach
  <2>3. TypeOK'
    BY <1>3, <2>2 DEF TypeOK, Detach, Goto, loopVars, Threads
  <2>4. Section'
    BY <1>3, <2>1 DEF TypeOK, Section, Detach, Goto, loopVars, Threads
  <2>5. Passed'
    BY <1>3, <2>2 DEF TypeOK, Passed, Detach, Goto, Threads
  <2>6. Listed'
    BY <1>3, <2>2 DEF Listed, Detach
  <2>7. Looping'
    BY <1>3, <2>1 DEF Looping, Detach, loopVars
  <2>8. QED
    BY <2>3, <2>4, <2>5, <2>6, <2>7
<1>4. ASSUME NEW t \in Clients, RemoveObservers(t) PROVE IInv'
  <2>1. holder = NULL /\ \A n \in Notifiers : pc[n] = "idle" /\ pc'[n] = "idle"
    BY <1>4 DEF TypeOK, Section, RemoveObservers, Goto, MayEnter, Threads
  <2>2. m_theObserverList' = <<>> /\ pc' = pc /\ arg' = arg /\ deleted' = deleted
    BY <1>4 DEF TypeOK, RemoveObservers, Goto, Threads
  <2>3. TypeOK'
    BY <1>4, <2>2, EmptyItems DEF TypeOK, RemoveObservers, loopVars
  <2>4. Section' /\ Passed' /\ Listed'
    BY <1>4, <2>2, EmptyItems DEF Section, Passed, Listed, RemoveObservers
  <2>5. Looping'
    BY <1>4, <2>1 DEF Looping, RemoveObservers, loopVars
  <2>6. QED
    BY <2>3, <2>4, <2>5
<1>5. ASSUME NEW t \in Clients, DetachReturns(t) PROVE IInv'
  <2>1. /\ pc[t] = "detached" /\ arg[t] \in Observers /\ ClientOf[arg[t]] = t
        /\ arg[t] \notin ToSet(m_theObserverList)
    BY <1>5 DEF Passed, DetachReturns, Goto
  <2>2. TypeOK'
    BY <1>5, <2>1 DEF TypeOK, DetachReturns, Goto, loopVars, Threads
  <2>3. Section'
    BY <1>5 DEF TypeOK, Section, DetachReturns, Goto, Threads
  <2>4. Passed'
    <3> SUFFICES ASSUME NEW u \in Clients, u # t, pc[u] # "idle"
                 PROVE  arg[u] \notin deleted'
      BY <1>5 DEF TypeOK, Passed, DetachReturns, Goto, Threads
    <3>1. QED
      BY <1>5, <2>1 DEF Passed, DetachReturns
  <2>5. Listed'
    BY <1>5, <2>1 DEF Listed, DetachReturns
  <2>6. Looping'
    BY <1>5 DEF TypeOK, Section, Looping, DetachReturns, Goto, loopVars, Threads
  <2>7. QED
    BY <2>2, <2>3, <2>4, <2>5, <2>6
<1>6. ASSUME NEW t \in Notifiers, NotifyEnter(t) PROVE IInv'
  <2>1. holder' = t /\ depth' \in 1 .. MaxDepth /\ holder \in {NULL, t}
    BY <1>6, DepthType DEF NotifyEnter, Enter, MayEnter
  <2>2. pc' = [pc EXCEPT ![t] = "loop"] /\ pc[t] = "idle"
    BY <1>6 DEF NotifyEnter, Goto
  <2>3. TypeOK'
    BY <1>6, <2>1, <2>2, EmptyItems DEF TypeOK, NotifyEnter, Threads
  <2>4. Section'
    BY <2>1, <2>2 DEF TypeOK, Section, Threads
  <2>5. Passed' /\ Listed'
    BY <1>6, <2>2 DEF TypeOK, Passed, Listed, NotifyEnter, Threads
  <2>6. Looping'
    <3>1. Len(m_theObserverList) \in Nat /\ Len(told'[t]) = 0 /\ theIterator'[t] = 1
      BY <1>6, EmptyItems DEF TypeOK, NotifyEnter
    <3>2. \A n \in Notifiers : n # t => told'[n] = told[n] /\ theIterator'[n] = theIterator[n]
      BY <1>6 DEF TypeOK, NotifyEnter
    <3>3. QED
      BY <1>6, <2>2, <3>1, <3>2 DEF TypeOK, Looping, NotifyEnter, Threads
  <2>7. QED
    BY <2>3, <2>4, <2>5, <2>6
<1>7. ASSUME NEW t \in Notifiers, NotifyCall(t) PROVE IInv'
  <2>1. pc' = [pc EXCEPT ![t] = "calling"] /\ pc[t] = "loop"
    BY <1>7 DEF NotifyCall, Goto
  <2>2. m_theObserverList[theIterator[t]] \in Observers
    BY <1>7, LenProperties DEF TypeOK, NotifyCall
  <2>3. TypeOK'
    BY <1>7, <2>1, <2>2 DEF TypeOK, NotifyCall, Threads
  <2>4. Section' /\ Passed' /\ Listed'
    BY <1>7, <2>1 DEF TypeOK, Section, Passed, Listed, NotifyCall, Threads
  <2>5. Looping'
    BY <1>7, <2>1 DEF TypeOK, Looping, NotifyCall, Threads
  <2>6. QED
    BY <2>3, <2>4, <2>5
<1>8. ASSUME NEW t \in Notifiers, NotifyReturn(t) PROVE IInv'
  <2>1. pc' = [pc EXCEPT ![t] = "loop"] /\ pc[t] = "calling"
    BY <1>8 DEF NotifyReturn, Goto
  <2>2. /\ theIterator[t] \in 1 .. Len(m_theObserverList)
        /\ Len(m_theObserverList) \in Nat
        /\ calling[t] = m_theObserverList[theIterator[t]] /\ calling[t] \in Observers
    BY <2>1, LenProperties DEF TypeOK, Looping
  <2>3. /\ told'[t] = Append(told[t], calling[t])
        /\ theIterator'[t] = theIterator[t] + 1
        /\ calling'[t] = NULL
        /\ \A n \in Notifiers : n # t => /\ told'[n] = told[n]
                                         /\ theIterator'[n] = theIterator[n]
                                         /\ calling'[n] = calling[n]
    BY <1>8 DEF TypeOK, NotifyReturn
  <2>4. /\ told'[t] \in Seq(Observers)
        /\ Len(told'[t]) = Len(told[t]) + 1
        /\ \A i \in 1..Len(told[t]) : told'[t][i] = told[t][i]
        /\ told'[t][Len(told[t]) + 1] = calling[t]
    BY <2>2, <2>3, AppendProperties DEF TypeOK
  <2>5. TypeOK'
    BY <1>8, <2>1, <2>2, <2>4 DEF TypeOK, NotifyReturn, Threads
  <2>6. Section' /\ Passed' /\ Listed'
    BY <1>8, <2>1 DEF TypeOK, Section, Passed, Listed, NotifyReturn, Threads
  <2>7. Looping'
    <3>1. Len(told[t]) = theIterator[t] - 1
      BY <2>1 DEF Looping
    <3> DEFINE n == Len(told[t])
    <3>2. /\ n = theIterator[t] - 1 /\ Len(told'[t]) = n + 1
          /\ theIterator'[t] = theIterator[t] + 1
          /\ theIterator[t] \in 1 .. Len(m_theObserverList)
          /\ Len(m_theObserverList) \in Nat
      BY <3>1, <2>2, <2>3, <2>4
    <3> HIDE DEF n
    <3>3. /\ theIterator'[t] \in 1 .. Len(m_theObserverList) + 1
          /\ Len(told'[t]) = theIterator'[t] - 1
          /\ n \in Nat
      BY ONLY <3>2
    <3>4. ASSUME NEW i \in 1 .. Len(told'[t]) PROVE told'[t][i] = m_theObserverList[i]
      <4>1. CASE i = n + 1
        <5>1. told'[t][i] = calling[t] /\ i = theIterator[t]
          BY <4>1, <3>2, <2>4 DEF n
        <5>2. QED
          BY <5>1, <2>2
      <4>2. CASE i # n + 1
        <5>1. i \in 1 .. n
          BY <4>2, <3>2, <3>3
        <5>2. told'[t][i] = told[t][i]
          BY <5>1, <2>4 DEF n
        <5>3. QED
          BY <5>1, <5>2, <2>1 DEF Looping, n
      <4>3. QED
        BY <4>1, <4>2
    <3>5. m_theObserverList' = m_theObserverList
      BY <1>8 DEF NotifyReturn
    <3>6. /\ pc'[t] = "loop"
          /\ \A m \in Notifiers : m # t => pc'[m] = pc[m]
      BY <2>1 DEF TypeOK, Threads
    <3>7. QED
      BY <2>3, <3>3, <3>4, <3>5, <3>6, SMTT(20) DEF Looping
  <2>8. QED
    BY <2>5, <2>6, <2>7
<1>9. ASSUME NEW t \in Notifiers, NotifyLeave(t) PROVE IInv'
  <2>1. pc' = [pc EXCEPT ![t] = "idle"] /\ pc[t] = "loop"
    BY <1>9 DEF NotifyLeave, Goto
  <2>2. /\ depth' \in 0 .. MaxDepth
        /\ holder' \in {t, NULL} /\ (holder' = NULL <=> depth' = 0)
    BY <1>9, <2>1, DepthType DEF NotifyLeave, Section
  <2>3. TypeOK'
    BY <1>9, <2>1, <2>2 DEF TypeOK, NotifyLeave, loopVars, Threads
  <2>4. Section'
    BY <2>1, <2>2 DEF TypeOK, Section, Threads
  <2>5. Passed' /\ Listed'
    BY <1>9, <2>1 DEF TypeOK, Passed, Listed, NotifyLeave, Threads
  <2>6. Looping'
    BY <1>9, <2>1 DEF TypeOK, Looping, NotifyLeave, loopVars, Threads
  <2>7. QED
    BY <2>3, <2>4, <2>5, <2>6
<1>10. ASSUME NEW t \in Notifiers, NotifyThrow(t) PROVE IInv'
  <2>1. pc' = [pc EXCEPT ![t] = "idle"] /\ pc[t] = "calling"
    BY <1>10 DEF NotifyThrow, Goto
  <2>2. TypeOK'
    BY <1>10, <2>1 DEF TypeOK, NotifyThrow, Threads
  <2>3. Section' /\ Passed' /\ Listed'
    BY <1>10, <2>1 DEF TypeOK, Section, Passed, Listed, NotifyThrow, Threads
  <2>4. Looping'
    BY <1>10, <2>1 DEF TypeOK, Looping, NotifyThrow, Threads
  <2>5. QED
    BY <2>2, <2>3, <2>4
<1>11. CASE UNCHANGED vars
  BY <1>11 DEF vars, TypeOK, Section, Passed, Listed, Looping
<1>12. QED
  BY <1>1, <1>2, <1>3, <1>4, <1>5, <1>6, <1>7, <1>8, <1>9, <1>10, <1>11 DEF Next

\* The types of the list, the critical section and the threads.
THEOREM TypeCorrect == Spec => []TypeOK
<1>1. IInv => TypeOK
  BY DEF IInv
<1>2. QED
  BY InitInv, NextInv, <1>1, PTL DEF Spec

\* Once detach has returned the observer is in no list and no call, however
\* many threads notify and whatever the observers throw: its client may delete it.
THEOREM DeletedQuiet == Spec => []DeletedIsQuiet
<1>1. IInv => DeletedIsQuiet
  <2>1. SUFFICES ASSUME IInv, NEW t \in Notifiers PROVE calling[t] \notin deleted
    BY DEF IInv, Listed, DeletedIsQuiet
  <2>2. CASE pc[t] = "calling"
    BY <2>1, <2>2, LenProperties DEF IInv, TypeOK, Listed, Looping, ToSet
  <2>3. CASE pc[t] # "calling"
    BY <2>1, <2>3, SubjectAssumption DEF IInv, TypeOK, Looping
  <2>4. QED
    BY <2>2, <2>3
<1>2. QED
  BY InitInv, NextInv, <1>1, PTL DEF Spec

\* A notification that ends has called every observer of the list once, in
\* the order of attachment: no attach or detach comes between its calls.
THEOREM NotifiedOnce == Spec => []ToldOnce
<1>1. IInv => ToldOnce
  <2>1. SUFFICES ASSUME IInv, NEW t \in Notifiers, pc[t] = "loop",
                        theIterator[t] > Len(m_theObserverList)
                 PROVE  told[t] = m_theObserverList
    BY DEF IInv, Listed, ToldOnce
  <2>2. /\ m_theObserverList \in Seq(Observers) /\ told[t] \in Seq(Observers)
        /\ Len(m_theObserverList) \in Nat
        /\ theIterator[t] \in 1 .. Len(m_theObserverList) + 1
        /\ Len(told[t]) = theIterator[t] - 1
        /\ \A i \in 1 .. Len(told[t]) : told[t][i] = m_theObserverList[i]
    BY <2>1, LenProperties DEF IInv, TypeOK, Looping
  <2>3. Len(told[t]) = Len(m_theObserverList)
    BY <2>1, <2>2
  <2>4. QED
    BY <2>2, <2>3, SeqEqual
<1>2. QED
  BY InitInv, NextInv, <1>1, PTL DEF Spec
=============================================================================
