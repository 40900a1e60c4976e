------------------------ MODULE SafeInterfaceProofs -------------------------
(***************************************************************************)
(* Theorems about SafeInterface, for any instances, requests and observers *)
(* of which those that may be let go send to each other in no cycle.       *)
(***************************************************************************)
EXTENDS SafeInterface, ProofLemmas

\* The instances that i may send a message to: the sources of the requests
\* and of the notes it answers, and the targets of its observers.
SendsTo(i) ==
  {j \in Instances :
     \/ \E call \in Calls : <<j, i, call>> \in Requests
     \/ \E x \in Observers[i] : x.target = j
     \/ \E k \in Instances : \E x \in Observers[k] : x.target = i /\ x.source = j}

\* Whichever instances one takes that may be let go, one of them sends to none
\* of the others.  This is what the program has to see to: two instances that
\* let go of each other last would each wait for the other's thread.
NoCycle ==
  \A S \in SUBSET (Instances \ Kept) : S # {} => \E i \in S : SendsTo(i) \cap S = {}

MessagesTo(i) == {m \in Message : m.source # NULL => m.source \in SendsTo(i)}

LettersOf(t) ==
  {l \in [to : Instances \cup {NULL}, message : Message, call : Calls] :
     l.to # NULL => /\ l.message \in MessagesTo(l.to)
                    /\ t # Main => l.to \in SendsTo(t)}

(***************************************************************************)
(* The inductive invariant.                                                *)
(***************************************************************************)
Places == {"wait", "method", "clean", "locked", "sent", "join", "thrown", "ended"}

RefInv ==
  /\ Kept \subseteq owned /\ owned \subseteq Instances /\ gone \subseteq Instances
  /\ pointer \in [Threads -> Instances \cup {NULL}]
  /\ joins \in [Threads -> Instances \cup {NULL}]
  /\ at \in [Threads -> Places]

\* Every letter is on its way to an instance that its sender sends to, or is
\* a reply to nobody.
SendsInv ==
  /\ sends = [t \in Threads |-> sends[t]]
  /\ \A t \in Threads : sends[t] \in Seq(LettersOf(t))

QueueInv ==
  /\ queue = [i \in Instances |-> queue[i]]
  /\ \A i \in Instances : queue[i] \in Seq(MessagesTo(i))

ListInv ==
  /\ m_theObserverList = [i \in Instances |-> m_theObserverList[i]]
  /\ \A i \in Instances : m_theObserverList[i] \in Seq(Observers[i])

MailInv == SendsInv /\ QueueInv /\ ListInv

\* A thread has a shared pointer while it sends, to the target of its letter.
Held(t) ==
  /\ pointer[t] # NULL <=> at[t] \in {"locked", "sent"}
  /\ at[t] = "locked" => sends[t] # <<>> /\ Head(sends[t]).to = pointer[t]
  /\ t # Main /\ pointer[t] # NULL => pointer[t] \in SendsTo(t)

Holding == \A t \in Threads : Held(t)

\* A thread that runs a destructor is the only one, and nobody holds a
\* pointer to the instance any more.
Destroying(t) ==
  /\ joins[t] # NULL <=> at[t] = "join"
  /\ t # Main /\ joins[t] # NULL => joins[t] \in SendsTo(t)
  /\ joins[t] # NULL => joins[t] \notin Alive /\ joins[t] \notin gone

Joining ==
  /\ \A t \in Threads : Destroying(t)
  /\ \A t, u \in Threads : joins[t] # NULL /\ joins[u] = joins[t] => u = t

\* The destroyed instances.
Ended == gone \cap Alive = {} /\ \A i \in gone : at[i] = "ended"

IInv == RefInv /\ MailInv /\ Holding /\ Joining /\ Ended
-----------------------------------------------------------------------------
(***************************************************************************)
(* The notifier's list.                                                    *)
(***************************************************************************)
LEMMA DetachedIsPart ==
  ASSUME NEW S, NEW list \in Seq(S), NEW x
  PROVE  Detached(list, x) \in Seq(S)
<1> DEFINE N == Len(list)
           D == Seq(S)
           Step == [nv \in (1 .. N) \X D |->
                      IF Equal(list[nv[1]], x) THEN nv[2] ELSE Append(nv[2], list[nv[1]])]
           Part(g) == [n \in 0 .. N |-> IF n = 0 THEN <<>>
                         ELSE IF Equal(list[n], x) THEN g[n - 1] ELSE Append(g[n - 1], list[n])]
           kept == CHOOSE g : g = Part(g)
<1>1. N \in Nat /\ <<>> \in D
  BY EmptySeq
<1>2. ASSUME NEW n \in 1 .. N, NEW v \in D
      PROVE  /\ Step[<<n, v>>] = IF Equal(list[n], x) THEN v ELSE Append(v, list[n])
             /\ Step[<<n, v>>] \in D
  <2>1. list[n] \in S
    BY ElementOfSeq
  <2>2. Append(v, list[n]) \in D
    BY <2>1, AppendProperties
  <2>3. Step[<<n, v>>] = IF Equal(list[n], x) THEN v ELSE Append(v, list[n])
    OBVIOUS
  <2>4. QED
    BY <2>2, <2>3
<1> HIDE DEF Step
<1>3. StepsIn(D, <<>>, Step, N)
  BY <1>1, <1>2 DEF StepsIn
<1>4. PICK f : Recurs(f, D, <<>>, Step, N)
  BY <1>3, Recursion, Zenon
<1>5. f \in [0 .. N -> D] /\ f[0] = <<>>
  BY <1>4, Zenon DEF Recurs
<1>6. f = Part(f)
  <2>1. ASSUME NEW n \in 0 .. N
        PROVE  f[n] = Part(f)[n]
    <3>1. CASE n = 0
      BY <1>5, <3>1
    <3>2. CASE n # 0
      <4>1. n \in 1 .. N /\ n - 1 \in 0 .. N
        BY <1>1, <3>2
      <4>2. f[n] = Step[<<n, f[n - 1]>>]
        BY <1>4, <4>1, Zenon DEF Recurs
      <4>3. f[n - 1] \in D
        BY <1>5, <4>1
      <4>4. f[n] = IF Equal(list[n], x) THEN f[n - 1] ELSE Append(f[n - 1], list[n])
        BY <1>2, <4>1, <4>2, <4>3
      <4>5. QED
        BY <3>2, <4>4
    <3>3. QED
      BY <3>1, <3>2
  <2> DEFINE g == Part(f)
  <2>2. g = [n \in 0 .. N |-> g[n]] /\ f = [n \in 0 .. N |-> f[n]]
    BY <1>5
  <2>3. \A n \in 0 .. N : f[n] = g[n]
    BY <2>1
  <2> HIDE DEF g
  <2>4. f = g
    BY <2>2, <2>3
  <2>5. QED
    BY <2>4 DEF g
<1> HIDE DEF D
<1>7. kept = Part(kept)
  <2> HIDE DEF Part
  <2> QED
    BY <1>6, Zenon
<1> HIDE DEF kept
<1> DEFINE T == {n \in Nat : n <= N => kept[n] \in D}
<1>8. 0 \in T
  BY <1>1, <1>7
<1>9. ASSUME NEW n \in Nat, n \in T
      PROVE  n + 1 \in T
  <2>1. SUFFICES ASSUME n + 1 <= N PROVE kept[n + 1] \in D
    OBVIOUS
  <2>2. kept[n] \in D /\ n + 1 \in 1 .. N /\ (n + 1) - 1 = n
    BY <1>1, <1>9, <2>1
  <2>3. kept[n + 1] = IF Equal(list[n + 1], x) THEN kept[n] ELSE Append(kept[n], list[n + 1])
    <3>1. n + 1 \in 0 .. N /\ n + 1 # 0
      BY <1>1, <2>2
    <3>2. Part(kept)[n + 1] = IF Equal(list[n + 1], x) THEN kept[(n + 1) - 1]
                              ELSE Append(kept[(n + 1) - 1], list[n + 1])
      BY <3>1
    <3>3. kept[n + 1] = Part(kept)[n + 1]
      <4> HIDE DEF Part
      <4> QED
        BY <1>7, Zenon
    <3>4. QED
      BY <2>2, <3>2, <3>3
  <2>4. list[n + 1] \in S
    BY <2>2, ElementOfSeq
  <2>5. Append(kept[n], list[n + 1]) \in D
    BY <2>2, <2>4, AppendProperties DEF D
  <2>6. QED
    BY <2>2, <2>3, <2>5
<1>10. Nat \subseteq T
  <2> HIDE DEF T
  <2> QED
    BY <1>8, <1>9, Induction
<1>11. kept[N] \in D
  BY <1>1, <1>10
<1>12. Detached(list, x) = kept[N]
  BY DEF Detached, kept
<1>13. QED
  BY <1>11, <1>12 DEF D
-----------------------------------------------------------------------------
LEMMA LetterTyped ==
  ASSUME NEW t \in Threads, NEW j \in Instances \cup {NULL},
         NEW k \in {"request", "note", "reply"},
         NEW s \in Instances \cup {NULL}, NEW call \in Calls,
         j # NULL /\ s # NULL => s \in SendsTo(j),
         j # NULL /\ t # Main => j \in SendsTo(t)
  PROVE  Letter(j, k, s, call) \in LettersOf(t)
BY DEF Letter, LettersOf, MessagesTo, Message

LEMMA InitInv == Init => IInv
<1> SUFFICES ASSUME Init PROVE IInv
  OBVIOUS
<1> USE DEF Init
<1>1. RefInv
  BY InterfaceAssumption DEF RefInv, Places
<1>2. MailInv
  <2>1. /\ \A t \in Threads : sends[t] = <<>>
        /\ \A i \in Instances : queue[i] = <<>> /\ m_theObserverList[i] = <<>>
    OBVIOUS
  <2>2. \A S : <<>> \in Seq(S)
    BY EmptySeq
  <2>3. QED
    BY <2>1, <2>2, Zenon DEF MailInv, SendsInv, QueueInv, ListInv
<1>3. Holding /\ Joining /\ Ended
  BY DEF Holding, Held, Joining, Destroying, Ended
<1>4. QED
  BY <1>1, <1>2, <1>3 DEF IInv
-----------------------------------------------------------------------------
(***************************************************************************)
(* The steps.  Who is alive stays or dies: no step makes an instance alive *)
(* again, for a thread locks a pointer only to one that is.                *)
(***************************************************************************)
\* What a thread sends next, and to whom.
LEMMA NextLetter ==
  ASSUME MailInv, NEW t \in Threads, sends[t] # <<>>
  PROVE  /\ Head(sends[t]).to \in Instances \cup {NULL}
         /\ Head(sends[t]).to # NULL =>
              /\ Delivered(Head(sends[t])) \in MessagesTo(Head(sends[t]).to)
              /\ t # Main => Head(sends[t]).to \in SendsTo(t)
         /\ Tail(sends[t]) \in Seq(LettersOf(t))
<1>1. sends[t] \in Seq(LettersOf(t))
  BY DEF MailInv, SendsInv, QueueInv, ListInv
<1>2. Head(sends[t]) \in LettersOf(t) /\ Tail(sends[t]) \in Seq(LettersOf(t))
  BY <1>1, HeadTailProperties
<1>3. QED
  BY <1>2 DEF LettersOf, Delivered, MessagesTo, Message

LEMMA RefNext == IInv /\ Next => RefInv'
<1> SUFFICES ASSUME IInv, Next PROVE RefInv'
  OBVIOUS
<1> USE InterfaceAssumption DEF IInv, RefInv, Threads, Places
<1>1. ASSUME NEW t \in Threads, Lock(t) PROVE RefInv'
  <2>1. Head(sends[t]).to \in Instances \cup {NULL}
    BY <1>1, NextLetter DEF Lock
  <2>2. QED
    BY <1>1, <2>1 DEF Lock
<1>2. ASSUME NEW t \in Threads, Send(t) PROVE RefInv'
  BY <1>2 DEF Send, Goto, refVars
<1>3. ASSUME NEW t \in Threads, NEW i \in Instances, NEW next \in {"wait", "method"},
             LetGo(t, i, next), owned' \subseteq owned, Kept \subseteq owned', gone' = gone,
             pointer' \in {pointer, [pointer EXCEPT ![t] = NULL]}
      PROVE  RefInv'
  BY <1>3 DEF LetGo
<1>4. ASSUME NEW t \in Threads, Release(t) PROVE RefInv'
  <2>1. pointer[t] \in Instances
    BY <1>4 DEF Release, Holding, Held
  <2>2. QED
    BY <1>3, <1>4, <2>1 DEF Release
<1>5. ASSUME NEW t \in Threads, Join(t) PROVE RefInv'
  <2>1. joins[t] \in Instances
    BY <1>5 DEF Join, Goto, Joining, Destroying
  <2>2. QED
    BY <1>5, <2>1 DEF Join, Goto
<1>6. ASSUME NEW i \in Instances, Take(i) \/ End(i) \/ StubCatches(i) \/ CleanExpired(i)
                                   \/ CleanCall(i)
      PROVE  RefInv'
  BY <1>6 DEF Take, End, StubCatches, CleanExpired, CleanCall, Goto, refVars
<1>7. ASSUME NEW t \in Threads, Return(t) PROVE RefInv'
  BY <1>7 DEF Return, Goto, refVars
<1>8. ASSUME NEW i \in Instances, NEW x, Attach(i, x) \/ Detach(i, x) PROVE RefInv'
  BY <1>8 DEF Attach, Detach, refVars
<1>9. ASSUME NEW i \in Instances, Drop(i) PROVE RefInv'
  BY <1>3, <1>9 DEF Drop
<1>10. ASSUME NEW r \in Requests, Request(r[1], r[2], r[3]) PROVE RefInv'
  BY <1>10 DEF Request, Goto, refVars
<1>11. QED
  BY <1>1, <1>2, <1>4, <1>5, <1>6, <1>7, <1>8, <1>9, <1>10 DEF Next, Progress

\* One thread's letters change.
LEMMA SendsChange ==
  ASSUME SendsInv, NEW t \in Threads, NEW s \in Seq(LettersOf(t)),
         sends' = [sends EXCEPT ![t] = s]
  PROVE  SendsInv'
<1>1. sends = [u \in Threads |-> sends[u]] /\ \A u \in Threads : sends[u] \in Seq(LettersOf(u))
  BY DEF MailInv, SendsInv, QueueInv, ListInv
<1>2. sends' = [u \in Threads |-> sends'[u]]
  BY <1>1
<1>3. \A u \in Threads : sends'[u] = IF u = t THEN s ELSE sends[u]
  BY <1>1
<1>4. QED
  BY <1>1, <1>2, <1>3, Zenon DEF SendsInv, QueueInv, ListInv

\* The queue of one instance changes.
LEMMA QueueChange ==
  ASSUME QueueInv, NEW i \in Instances, NEW s \in Seq(MessagesTo(i)),
         queue' = [queue EXCEPT ![i] = s]
  PROVE  QueueInv'
<1>1. queue = [j \in Instances |-> queue[j]] /\ \A j \in Instances : queue[j] \in Seq(MessagesTo(j))
  BY DEF MailInv, SendsInv, QueueInv, ListInv
<1>2. queue' = [j \in Instances |-> queue'[j]]
  BY <1>1
<1>3. \A j \in Instances : queue'[j] = IF j = i THEN s ELSE queue[j]
  BY <1>1
<1>4. QED
  BY <1>1, <1>2, <1>3, Zenon DEF SendsInv, QueueInv, ListInv

\* The observers of one instance change.
LEMMA ObserversChange ==
  ASSUME ListInv, NEW i \in Instances, NEW s \in Seq(Observers[i]),
         m_theObserverList' = [m_theObserverList EXCEPT ![i] = s]
  PROVE  ListInv'
<1>1. /\ m_theObserverList = [j \in Instances |-> m_theObserverList[j]]
      /\ \A j \in Instances : m_theObserverList[j] \in Seq(Observers[j])
  BY DEF MailInv, SendsInv, QueueInv, ListInv
<1>2. m_theObserverList' = [j \in Instances |-> m_theObserverList'[j]]
  BY <1>1
<1>3. \A j \in Instances : m_theObserverList'[j] = IF j = i THEN s ELSE m_theObserverList[j]
  BY <1>1
<1>4. QED
  BY <1>1, <1>2, <1>3, Zenon DEF SendsInv, QueueInv, ListInv

\* The method of a message sends to the instances its thread may send to.
LEMMA TakenLetters ==
  ASSUME MailInv, NEW i \in Instances, queue[i] # <<>>
  PROVE  /\ Tail(queue[i]) \in Seq(MessagesTo(i))
         /\ Notes(i) \in Seq(LettersOf(i))
         /\ Answer(Head(queue[i])) \in Seq(LettersOf(i))
<1> USE InterfaceAssumption
<1>1. /\ queue[i] \in Seq(MessagesTo(i)) /\ m_theObserverList[i] \in Seq(Observers[i])
      /\ i \in Threads /\ i # Main
  BY DEF MailInv, SendsInv, QueueInv, ListInv, Threads
<1>2. Head(queue[i]) \in MessagesTo(i) /\ Tail(queue[i]) \in Seq(MessagesTo(i))
  BY <1>1, HeadTailProperties
<1>3. Head(queue[i]).source # NULL => Head(queue[i]).source \in SendsTo(i)
  BY <1>2 DEF MessagesTo
<1>4. Answer(Head(queue[i])) \in Seq(LettersOf(i))
  <2> DEFINE m == Head(queue[i])
  <2>1. m.source \in Instances \cup {NULL}
    BY <1>2 DEF MessagesTo, Message
  <2>2. "sendTo" \in Calls
    BY DEF Calls
  <2>3. ASSUME NEW k \in {"note", "reply"} PROVE Letter(m.source, k, NULL, "sendTo") \in LettersOf(i)
    BY <1>1, <1>3, <2>1, <2>2, LetterTyped
  <2>4. <<>> \in Seq(LettersOf(i))
    BY EmptySeq
  <2> HIDE DEF m
  <2>5. Answer(m) \in Seq(LettersOf(i))
    BY <2>3, <2>4 DEF Answer
  <2>6. QED
    BY <2>5 DEF m
<1>5. ASSUME NEW x \in Observers[i]
      PROVE  Letter(x.target, "note", x.source, "sendTo") \in LettersOf(i)
  <2>1. x \in Observer
    BY DEF Observer
  <2>2. x.target \in Instances /\ x.source \in Instances \cup {NULL}
    BY <2>1 DEF Observer
  <2>3. x.target \in SendsTo(i)
    BY <2>2 DEF SendsTo
  <2>4. x.source # NULL => x.source \in SendsTo(x.target)
    BY <2>2 DEF SendsTo
  <2>5. QED
    BY <1>1, <2>2, <2>3, <2>4, LetterTyped DEF Calls
<1> DEFINE list == m_theObserverList[i]
<1>6. \A j \in 1 .. Len(list) : list[j] \in Observers[i]
  BY <1>1
<1>7. Len(list) \in Nat /\ DOMAIN list = 1 .. Len(list)
  BY <1>1
<1>8. Notes(i) = [j \in 1 .. Len(list) |-> Letter(list[j].target, "note", list[j].source, "sendTo")]
  BY <1>7 DEF Notes
<1> HIDE DEF list
<1>9. \A j \in 1 .. Len(list) : Letter(list[j].target, "note", list[j].source, "sendTo") \in LettersOf(i)
  BY <1>5, <1>6
<1>10. Notes(i) \in Seq(LettersOf(i))
  <2> DEFINE note(j) == Letter(list[j].target, "note", list[j].source, "sendTo")
  <2>1. Notes(i) \in [1 .. Len(list) -> LettersOf(i)]
    BY <1>8, <1>9
  <2>2. QED
    BY <1>7, <2>1, SeqDef
<1>11. QED
  BY <1>2, <1>4, <1>10

LEMMA MailNext == IInv /\ Next => MailInv'
<1> SUFFICES ASSUME IInv, Next PROVE MailInv'
  OBVIOUS
<1> USE InterfaceAssumption DEF IInv, MailInv, Threads
<1>1. /\ UNCHANGED sends => SendsInv'
      /\ UNCHANGED queue => QueueInv'
      /\ UNCHANGED m_theObserverList => ListInv'
  BY Zenon DEF SendsInv, QueueInv, ListInv
<1>2. ASSUME NEW t \in Threads, Lock(t) PROVE MailInv'
  <2>1. sends[t] # <<>> /\ UNCHANGED <<queue, m_theObserverList>>
    BY <1>2 DEF Lock
  <2>2. \/ UNCHANGED sends
        \/ sends' = [sends EXCEPT ![t] = Tail(sends[t])]
        \/ sends' = [sends EXCEPT ![t] = <<>>]
    BY <1>2 DEF Lock
  <2>3. <<>> \in Seq(LettersOf(t))
    BY EmptySeq
  <2>4. QED
    BY <1>1, <2>1, <2>2, <2>3, NextLetter, SendsChange
<1>3. ASSUME NEW t \in Threads, Send(t) PROVE MailInv'
  <2> DEFINE j == Head(sends[t]).to
             m == Delivered(Head(sends[t]))
  <2>1. sends[t] # <<>> /\ j # NULL
    BY <1>3 DEF Send, Goto, Holding, Held
  <2>2. j \in Instances /\ m \in MessagesTo(j) /\ Tail(sends[t]) \in Seq(LettersOf(t))
    BY <2>1, NextLetter
  <2>3. /\ queue' = [queue EXCEPT ![j] = Append(queue[j], m)]
        /\ sends' = [sends EXCEPT ![t] = Tail(sends[t])]
        /\ UNCHANGED m_theObserverList
    BY <1>3 DEF Send
  <2> HIDE DEF j, m
  <2>4. Append(queue[j], m) \in Seq(MessagesTo(j))
    BY <2>2, AppendProperties DEF QueueInv
  <2>5. QED
    BY <1>1, <2>2, <2>3, <2>4, SendsChange, QueueChange
<1>4. ASSUME NEW t \in Threads, Join(t) PROVE MailInv'
  <2>1. joins[t] \in Instances
    BY <1>4 DEF Join, Goto, Joining, Destroying, RefInv
  <2>2. /\ queue' = [queue EXCEPT ![joins[t]] = <<>>]
        /\ UNCHANGED <<sends, m_theObserverList>>
    BY <1>4 DEF Join
  <2>3. <<>> \in Seq(MessagesTo(joins[t]))
    BY EmptySeq
  <2>4. QED
    BY <1>1, <2>1, <2>2, <2>3, QueueChange
<1>5. ASSUME NEW i \in Instances, Take(i) PROVE MailInv'
  <2>1. /\ queue[i] # <<>> /\ queue' = [queue EXCEPT ![i] = Tail(queue[i])]
        /\ UNCHANGED m_theObserverList
    BY <1>5 DEF Take
  <2> DEFINE answer == Answer(Head(queue[i]))
  <2>2. PICK notes \in {<<>>, Notes(i)} : sends' = [sends EXCEPT ![i] = notes \o answer]
    BY <1>5 DEF Take
  <2>3. /\ Tail(queue[i]) \in Seq(MessagesTo(i)) /\ Notes(i) \in Seq(LettersOf(i))
        /\ answer \in Seq(LettersOf(i))
    BY <2>1, TakenLetters
  <2>4. <<>> \in Seq(LettersOf(i))
    BY EmptySeq
  <2> HIDE DEF answer
  <2>6. notes \o answer \in Seq(LettersOf(i))
    BY <2>2, <2>3, <2>4, ConcatProperties
  <2>7. i \in Threads
    OBVIOUS
  <2>8. QED
    BY <1>1, <2>1, <2>2, <2>3, <2>6, <2>7, SendsChange, QueueChange
<1>6. ASSUME NEW t, Release(t) \/ End(t) \/ StubCatches(t) \/ Return(t) \/ CleanCall(t)
                           \/ Drop(t)
      PROVE  MailInv'
  BY <1>1, <1>6 DEF Release, End, StubCatches, Return, CleanCall, Drop
<1>7. ASSUME NEW i \in Instances, NEW x \in Observers[i], Attach(i, x) PROVE MailInv'
  <2> DEFINE list == m_theObserverList[i]
  <2>1. /\ m_theObserverList' = [m_theObserverList EXCEPT ![i] = Attached(list, x)]
        /\ UNCHANGED <<sends, queue>>
    BY <1>7 DEF Attach
  <2>2. list \in Seq(Observers[i])
    BY DEF ListInv
  <2> HIDE DEF list
  <2>3. Attached(list, x) \in Seq(Observers[i])
    BY <2>2, AppendProperties DEF Attached
  <2>4. QED
    BY <1>1, <2>1, <2>3, ObserversChange
<1>8. ASSUME NEW i \in Instances, NEW x,
             m_theObserverList' = [m_theObserverList EXCEPT ![i] = Detached(m_theObserverList[i], x)],
             UNCHANGED <<sends, queue>>
      PROVE  MailInv'
  <2>1. m_theObserverList[i] \in Seq(Observers[i])
    BY DEF ListInv
  <2>2. Detached(m_theObserverList[i], x) \in Seq(Observers[i])
    BY <2>1, DetachedIsPart
  <2>3. QED
    BY <1>1, <1>8, <2>2, ObserversChange
<1>9. ASSUME NEW i \in Instances, NEW x, Detach(i, x) PROVE MailInv'
  BY <1>8, <1>9 DEF Detach
<1>10. ASSUME NEW i \in Instances, CleanExpired(i) PROVE MailInv'
  <2>1. UNCHANGED <<sends, queue>>
    BY <1>10 DEF CleanExpired
  <2>2. \/ UNCHANGED m_theObserverList
        \/ \E x : m_theObserverList' =
                    [m_theObserverList EXCEPT ![i] = Detached(m_theObserverList[i], x)]
    BY <1>10 DEF CleanExpired
  <2>3. QED
    BY <1>1, <1>8, <2>1, <2>2
<1>11. ASSUME NEW r \in Requests, Request(r[1], r[2], r[3]) PROVE MailInv'
  <2>1. /\ sends' = [sends EXCEPT ![Main] = <<Letter(r[2], "request", r[1], r[3])>>]
        /\ UNCHANGED <<queue, m_theObserverList>>
    BY <1>11 DEF Request
  <2>2. /\ r = <<r[1], r[2], r[3]>> /\ r[1] \in Instances /\ r[2] \in Instances
        /\ r[3] \in Calls /\ r[1] \in SendsTo(r[2])
    BY DEF SendsTo
  <2>3. Letter(r[2], "request", r[1], r[3]) \in LettersOf(Main)
    BY <2>2, LetterTyped
  <2>4. <<Letter(r[2], "request", r[1], r[3])>> \in Seq(LettersOf(Main))
    BY <2>3
  <2>5. QED
    BY <1>1, <2>1, <2>4, SendsChange
<1>12. QED
  BY <1>2, <1>3, <1>4, <1>5, <1>6, <1>7, <1>9, <1>10, <1>11 DEF Next, Progress
-----------------------------------------------------------------------------
\* Each step is one thread's, and leaves the others where they are.
Step(t) ==
  \/ Progress(t)
  \/ t \in Instances /\ (CleanCall(t) \/ \E x \in Observers[t] : Attach(t, x) \/ Detach(t, x))
  \/ t = Main /\ ((\E i \in Instances : Drop(i)) \/ \E r \in Requests : Request(r[1], r[2], r[3]))

LEMMA NextIsStep == Next => \E t \in Threads : Step(t)
BY DEF Next, Step, Threads

Frame(t) ==
  \A u \in Threads : u # t =>
    at'[u] = at[u] /\ pointer'[u] = pointer[u] /\ joins'[u] = joins[u] /\ sends'[u] = sends[u]

LEMMA StepFrame == ASSUME IInv, NEW t \in Threads, Step(t) PROVE Frame(t)
<1> USE DEF IInv, RefInv, MailInv, SendsInv, Frame
<1>1. ASSUME NEW i, NEW next, LetGo(t, i, next)
      PROVE  \A u \in Threads : u # t => at'[u] = at[u] /\ joins'[u] = joins[u]
  BY <1>1 DEF LetGo
<1>2. CASE Lock(t) \/ Send(t) \/ Join(t) \/ Return(t)
  BY <1>2 DEF Lock, Send, Join, Return, Goto, refVars
<1>3. CASE Release(t)
  BY <1>1, <1>3 DEF Release
<1>4. CASE Take(t) \/ End(t) \/ StubCatches(t) \/ CleanExpired(t) \/ CleanCall(t)
  BY <1>4 DEF Take, End, StubCatches, CleanExpired, CleanCall, Goto, refVars
<1>5. ASSUME NEW x, Attach(t, x) \/ Detach(t, x) PROVE Frame(t)
  BY <1>5 DEF Attach, Detach, refVars
<1>6. ASSUME t = Main, NEW i, Drop(i) PROVE Frame(t)
  BY <1>1, <1>6 DEF Drop
<1>7. ASSUME t = Main, NEW s, NEW w, NEW c, Request(s, w, c) PROVE Frame(t)
  BY <1>7 DEF Request, Goto, refVars
<1>8. QED
  BY <1>2, <1>3, <1>4, <1>5, <1>6, <1>7 DEF Step, Progress

LEMMA HoldNext == IInv /\ Next => Holding'
<1> SUFFICES ASSUME IInv, Next PROVE Holding'
  OBVIOUS
<1> USE InterfaceAssumption
<1>1. PICK t \in Threads : Step(t)
  BY NextIsStep
<1>2. Frame(t)
  BY <1>1, StepFrame
<1>3. ASSUME NEW u \in Threads, u # t PROVE Held(u)'
  <2>1. Held(u)
    BY DEF IInv, Holding, Held
  <2>2. at'[u] = at[u] /\ pointer'[u] = pointer[u] /\ sends'[u] = sends[u]
    BY <1>2, <1>3 DEF Frame
  <2>3. QED
    BY <2>1, <2>2 DEF Held
<1>4. Held(t)'
  <2> USE DEF IInv, RefInv
  <2>1. Held(t)
    BY DEF Holding, Held
  <2>2. CASE Lock(t)
    <3>1. /\ Head(sends[t]).to \in Instances \cup {NULL}
          /\ Head(sends[t]).to # NULL /\ t # Main => Head(sends[t]).to \in SendsTo(t)
      BY <2>2, NextLetter DEF Lock
    <3>2. CASE Head(sends[t]).to \notin Alive
      <4>1. at[t] = "method" /\ at'[t] \in {"method", "thrown"} /\ UNCHANGED pointer
        BY <2>2, <3>2 DEF Lock
      <4>2. QED
        BY <2>1, <4>1 DEF Held
    <3>3. CASE Head(sends[t]).to \in Alive
      <4>1. Head(sends[t]).to \in Instances /\ Head(sends[t]).to # NULL
        BY <3>1, <3>3 DEF Alive, Threads
      <4>2. pointer'[t] = Head(sends[t]).to /\ at'[t] = "locked" /\ UNCHANGED sends
        BY <2>2, <3>1, <3>3, <4>1 DEF Lock
      <4>3. QED
        BY <2>2, <3>1, <4>1, <4>2 DEF Held, Lock
    <3>4. QED
      BY <3>2, <3>3
  <2>3. CASE Send(t)
    BY <2>1, <2>3 DEF Held, Send, Goto, refVars
  <2>4. CASE Release(t)
    BY <2>1, <2>4 DEF Held, Release, LetGo
  <2>5. CASE Join(t)
    BY <2>1, <2>5 DEF Held, Join, Goto
  <2>6. CASE Return(t)
    BY <2>1, <2>6 DEF Held, Return, Goto, refVars
  <2>7. CASE Take(t) \/ End(t) \/ StubCatches(t) \/ CleanExpired(t) \/ CleanCall(t)
    BY <2>1, <2>7 DEF Held, Take, End, StubCatches, CleanExpired, CleanCall, NotifierCall, Goto, refVars
  <2>8. ASSUME NEW x, Attach(t, x) \/ Detach(t, x) PROVE Held(t)'
    BY <2>1, <2>8 DEF Held, Attach, Detach, refVars
  <2>9. ASSUME t = Main, NEW i, Drop(i) PROVE Held(t)'
    BY <2>1, <2>9 DEF Held, Drop, LetGo
  <2>10. ASSUME t = Main, NEW v, NEW w, NEW c, Request(v, w, c) PROVE Held(t)'
    BY <2>1, <2>10 DEF Held, Request, Goto, refVars
  <2>11. QED
    BY <1>1, <2>2, <2>3, <2>4, <2>5, <2>6, <2>7, <2>8, <2>9, <2>10 DEF Step, Progress
<1>5. \A u \in Threads : Held(u)'
  BY <1>3, <1>4
<1>6. QED
  BY <1>5 DEF Holding, Held

\* No step brings an instance back to life: a thread locks a pointer only to
\* one that is alive.
LEMMA AliveNext == ASSUME IInv, NEW t \in Threads, Step(t) PROVE Alive' \subseteq Alive
<1> USE InterfaceAssumption DEF IInv, RefInv
<1>1. CASE Lock(t)
  <2>1. owned' = owned /\ pointer' \in {pointer, [pointer EXCEPT ![t] = Head(sends[t]).to]}
    BY <1>1 DEF Lock
  <2>2. pointer' = pointer \/ Head(sends[t]).to \in Alive
    BY <1>1 DEF Lock
  <2>3. QED
    BY <2>1, <2>2 DEF Alive
<1>2. ASSUME owned' \subseteq owned, pointer' \in {pointer, [pointer EXCEPT ![t] = NULL]}
      PROVE  Alive' \subseteq Alive
  BY <1>2 DEF Alive
<1>3. CASE Send(t) \/ Release(t) \/ Join(t) \/ Return(t)
  BY <1>2, <1>3 DEF Send, Release, Join, Return, refVars
<1>4. CASE Take(t) \/ End(t) \/ StubCatches(t) \/ CleanExpired(t) \/ CleanCall(t)
  BY <1>2, <1>4 DEF Take, End, StubCatches, CleanExpired, CleanCall, refVars
<1>5. ASSUME NEW x, Attach(t, x) \/ Detach(t, x) PROVE Alive' \subseteq Alive
  BY <1>2, <1>5 DEF Attach, Detach, refVars
<1>6. ASSUME NEW i, Drop(i) PROVE Alive' \subseteq Alive
  BY <1>2, <1>6 DEF Drop
<1>7. ASSUME NEW v, NEW w, NEW c, Request(v, w, c) PROVE Alive' \subseteq Alive
  BY <1>2, <1>7 DEF Request, refVars
<1>8. QED
  BY <1>1, <1>3, <1>4, <1>5, <1>6, <1>7 DEF Step, Progress

\* Who lets go of an instance last waits for its thread, and nobody else does.
LEMMA JoinNext == IInv /\ Next => Joining'
<1> SUFFICES ASSUME IInv, Next PROVE Joining'
  OBVIOUS
<1> USE InterfaceAssumption DEF IInv, RefInv
<1>1. PICK t \in Threads : Step(t)
  BY NextIsStep
<1>2. Frame(t) /\ Alive' \subseteq Alive
  BY <1>1, StepFrame, AliveNext
<1>3. Destroying(t) /\ gone \cap Alive = {}
  BY DEF Joining, Ended
<1>4. ASSUME joins'[t] # NULL <=> at'[t] = "join", joins'[t] \in {joins[t], NULL}, gone' = gone
      PROVE  Joining'
  <2>1. ASSUME NEW u \in Threads PROVE Destroying(u)'
    <3>1. Destroying(u)
      BY DEF Joining
    <3>2. CASE u = t
      BY <1>2, <1>4, <3>1, <3>2 DEF Destroying
    <3>3. CASE u # t
      BY <1>2, <1>4, <3>1, <3>3 DEF Destroying, Frame
    <3>4. QED
      BY <3>2, <3>3
  <2>2. ASSUME NEW u \in Threads, NEW v \in Threads, joins'[u] # NULL, joins'[v] = joins'[u]
        PROVE  u = v
    <3>1. joins'[u] = joins[u] /\ joins'[v] = joins[v]
      BY <1>2, <1>4, <2>2 DEF Frame
    <3>2. QED
      BY <2>2, <3>1 DEF Joining
  <2>3. QED
    BY <2>1, <2>2 DEF Joining
<1>5. ASSUME NEW i \in Instances, NEW next \in {"wait", "method"}, LetGo(t, i, next),
             i \in Alive, joins[t] = NULL, gone' = gone, t # Main => i \in SendsTo(t)
      PROVE  Joining'
  <2>1. CASE i \in Alive'
    BY <1>4, <1>5, <2>1 DEF LetGo
  <2>2. CASE i \notin Alive'
    <3>1. joins'[t] = i /\ at'[t] = "join" /\ i # NULL
      BY <1>5, <2>2 DEF LetGo, Threads
    <3>2. Destroying(t)'
      BY <1>3, <1>5, <2>2, <3>1 DEF Destroying
    <3>3. ASSUME NEW u \in Threads, u # t PROVE Destroying(u)' /\ joins'[u] # i
      <4>1. Destroying(u) /\ joins'[u] = joins[u] /\ at'[u] = at[u]
        BY <1>2, <3>3 DEF Joining, Frame
      <4>2. joins[u] # i
        BY <1>5, <4>1, <3>1 DEF Destroying
      <4>3. QED
        BY <1>2, <1>5, <4>1, <4>2 DEF Destroying
    <3>4. ASSUME NEW u \in Threads, NEW v \in Threads, joins'[u] # NULL, joins'[v] = joins'[u]
          PROVE  u = v
      <4>1. CASE u = t \/ v = t
        BY <3>1, <3>3, <3>4, <4>1
      <4>2. CASE u # t /\ v # t
        BY <1>2, <3>4, <4>2 DEF Joining, Frame
      <4>3. QED
        BY <4>1, <4>2
    <3>5. QED
      BY <3>2, <3>3, <3>4 DEF Joining
  <2>3. QED
    BY <2>1, <2>2
<1>6. CASE Release(t)
  <2>1. Held(t) /\ at[t] = "sent"
    BY <1>6 DEF Release, Holding
  <2>2. pointer[t] \in Instances /\ pointer[t] \in Alive /\ (t # Main => pointer[t] \in SendsTo(t))
    BY <2>1 DEF Held, Alive
  <2>3. joins[t] = NULL
    BY <1>3, <2>1 DEF Destroying
  <2>4. gone' = gone /\ LetGo(t, pointer[t], "method")
    BY <1>6 DEF Release
  <2>5. QED
    BY <1>5, <2>2, <2>3, <2>4
<1>7. CASE Join(t)
  <2>1. /\ joins'[t] = NULL /\ at'[t] # "join" /\ gone' = gone \cup {joins[t]}
        /\ joins[t] # NULL
    BY <1>3, <1>7 DEF Join, Goto, Destroying
  <2>2. ASSUME NEW u \in Threads PROVE Destroying(u)'
    <3>1. Destroying(u)
      BY DEF Joining
    <3>2. CASE u = t
      BY <2>1, <3>2 DEF Destroying
    <3>3. CASE u # t
      <4>1. joins[u] # joins[t] /\ joins'[u] = joins[u] /\ at'[u] = at[u]
        BY <1>2, <2>1, <3>3 DEF Joining, Frame
      <4>2. QED
        BY <1>2, <2>1, <3>1, <4>1 DEF Destroying
    <3>4. QED
      BY <3>2, <3>3
  <2>3. ASSUME NEW u \in Threads, NEW v \in Threads, joins'[u] # NULL, joins'[v] = joins'[u]
        PROVE  u = v
    <3>1. joins'[u] = joins[u] /\ joins'[v] = joins[v]
      BY <1>2, <2>1, <2>3 DEF Frame
    <3>2. QED
      BY <2>3, <3>1 DEF Joining
  <2>4. QED
    BY <2>2, <2>3 DEF Joining
<1>8. CASE Lock(t) \/ Send(t) \/ Return(t)
  BY <1>3, <1>4, <1>8 DEF Destroying, Lock, Send, Return, Goto, refVars
<1>9. CASE Take(t) \/ End(t) \/ StubCatches(t) \/ CleanExpired(t) \/ CleanCall(t)
  BY <1>3, <1>4, <1>9 DEF Destroying, Take, End, StubCatches, CleanExpired, CleanCall, Goto, refVars
<1>10. ASSUME NEW x, Attach(t, x) \/ Detach(t, x) PROVE Joining'
  BY <1>3, <1>4, <1>10 DEF Destroying, Attach, Detach, refVars
<1>11. ASSUME t = Main, NEW i, Drop(i) PROVE Joining'
  <2>1. i \in Instances /\ i \in Alive /\ at[t] = "wait" /\ gone' = gone /\ LetGo(t, i, "wait")
    BY <1>11 DEF Drop, Alive
  <2>2. joins[t] = NULL
    BY <1>3, <2>1 DEF Destroying
  <2>3. QED
    BY <1>5, <1>11, <2>1, <2>2
<1>12. ASSUME t = Main, NEW v, NEW w, NEW c, Request(v, w, c) PROVE Joining'
  BY <1>3, <1>4, <1>12 DEF Destroying, Request, Goto, refVars
<1>13. QED
  BY <1>1, <1>6, <1>7, <1>8, <1>9, <1>10, <1>11, <1>12 DEF Step, Progress

\* Without a cycle of senders the threads never all wait for each other: who
\* waits for an instance's thread is a thread that sends to the instance.
LEMMA NobodyDeadlocked ==
  ASSUME NoCycle, RefInv, Joining, NEW t \in Threads
  PROVE  ~Deadlocked(t)
<1> USE InterfaceAssumption DEF Threads, RefInv
<1> SUFFICES ASSUME NEW S \in SUBSET Threads, t \in S,
                    \A u \in S : at[u] = "join" /\ joins[u] \in S
             PROVE  FALSE
  BY DEF Deadlocked
<1>1. ASSUME NEW u \in S
      PROVE  joins[u] \in S \cap (Instances \ Kept) /\ (u # Main => joins[u] \in SendsTo(u))
  BY <1>1 DEF Joining, Destroying, Alive
<1> DEFINE I == S \cap (Instances \ Kept)
<1>2. I # {} /\ I \in SUBSET (Instances \ Kept)
  BY <1>1
<1>3. PICK i \in I : SendsTo(i) \cap I = {}
  BY <1>2 DEF NoCycle
<1>4. joins[i] \in SendsTo(i) \cap I
  BY <1>1
<1>5. QED
  BY <1>3, <1>4

\* The thread of a destroyed instance has ended, and stays so.
LEMMA EndedNext == NoCycle /\ IInv /\ Next => Ended'
<1> SUFFICES ASSUME NoCycle, IInv, Next PROVE Ended'
  OBVIOUS
<1> USE InterfaceAssumption DEF IInv, RefInv, Threads
<1>1. PICK t \in Threads : Step(t)
  BY NextIsStep
<1>2. Frame(t) /\ Alive' \subseteq Alive
  BY <1>1, StepFrame, AliveNext
<1>3. at[t] # "ended"
  BY <1>1 DEF Step, Progress, Lock, Send, Release, Join, Take, End, StubCatches, CleanExpired,
              Return, Goto,
              CleanCall, Attach, Detach, NotifierCall, Drop, Request
<1>4. ASSUME NEW i \in Instances, at[i] = "ended" PROVE at'[i] = "ended"
  BY <1>2, <1>3, <1>4 DEF Frame
<1>5. CASE Join(t)
  <2>1. /\ at[t] = "join" /\ at[joins[t]] = "ended" /\ gone' = gone \cup {joins[t]}
    BY <1>5, NobodyDeadlocked DEF Join, Goto
  <2>2. joins[t] \in Instances /\ joins[t] \notin Alive
    BY <2>1 DEF Joining, Destroying
  <2>3. QED
    BY <1>2, <1>4, <2>1, <2>2 DEF Ended
<1>6. CASE gone' = gone
  BY <1>2, <1>4, <1>6 DEF Ended
<1>7. gone' = gone \/ Join(t)
  BY <1>1 DEF Step, Progress, Lock, Send, Release, Take, End, StubCatches, CleanExpired, Return,
              CleanCall, Attach, Detach, Drop, Request, refVars
<1>8. QED
  BY <1>5, <1>6, <1>7

LEMMA NextInv == NoCycle /\ IInv /\ [Next]_vars => IInv'
<1>1. IInv /\ UNCHANGED vars => IInv'
  <2> SUFFICES ASSUME IInv, UNCHANGED vars PROVE IInv'
    OBVIOUS
  <2>1. /\ owned' = owned /\ pointer' = pointer /\ joins' = joins /\ gone' = gone /\ at' = at
        /\ sends' = sends /\ queue' = queue /\ m_theObserverList' = m_theObserverList
    BY DEF vars, refVars
  <2>2. RefInv' /\ SendsInv' /\ QueueInv' /\ ListInv'
    BY <2>1, Zenon DEF IInv, RefInv, MailInv, SendsInv, QueueInv, ListInv
  <2>3. Holding'
    BY <2>1, Zenon DEF IInv, Holding, Held
  <2>4. Alive' = Alive
    BY <2>1, Zenon DEF Alive
  <2>5. Joining' /\ Ended'
    BY <2>1, <2>4, Zenon DEF IInv, Joining, Destroying, Ended
  <2>6. QED
    BY <2>2, <2>3, <2>5 DEF IInv, MailInv
<1>2. NoCycle /\ IInv /\ Next => IInv'
  BY RefNext, MailNext, HoldNext, JoinNext, EndedNext, Zenon DEF IInv
<1>3. QED
  BY <1>1, <1>2
-----------------------------------------------------------------------------
\* Every instance outlives its thread, whichever thread lets go of it last,
\* unless instances that may be let go send to each other in a cycle.
THEOREM ThreadsEndFirst == NoCycle => (Spec => []OutlivesThread)
<1> SUFFICES ASSUME NoCycle PROVE Spec => []OutlivesThread
  OBVIOUS
<1>1. IInv /\ [Next]_vars => IInv'
  BY NextInv
<1>2. IInv => OutlivesThread
  BY DEF IInv, Ended, OutlivesThread
<1>3. QED
  BY InitInv, <1>1, <1>2, PTL DEF Spec

\* A step of the program is a step of each of its active objects, or none.
LEMMA ObjectStep ==
  ASSUME NoCycle, IInv, Next, NEW i \in Instances
  PROVE  Object(i)!Next \/ UNCHANGED Object(i)!vars
<1> USE InterfaceAssumption DEF IInv, RefInv, Threads
<1>1. PICK t \in Threads : Step(t)
  BY NextIsStep
<1>2. Frame(t)
  BY <1>1, StepFrame
<1> DEFINE busy == at[i] \notin {"wait", "thrown", "ended"}
           ended == at[i] = "ended"
<1>3. ASSUME UNCHANGED queue, gone' = gone, busy' = busy, ended' = ended
      PROVE  UNCHANGED Object(i)!vars
  BY <1>3 DEF Object!vars
<1>4. ASSUME i # t, UNCHANGED queue, gone' = gone PROVE UNCHANGED Object(i)!vars
  BY <1>2, <1>3, <1>4 DEF Frame
<1>5. CASE Send(t)
  <2> DEFINE j == Head(sends[t]).to
             m == Delivered(Head(sends[t]))
  <2>1. /\ sends[t] # <<>> /\ j = pointer[t] /\ j # NULL /\ at[t] = "locked"
    BY <1>5 DEF Send, Goto, Holding, Held
  <2>2. j \in Instances /\ m \in MessagesTo(j)
    BY <2>1, NextLetter
  <2>3. m \in Message /\ j \notin gone
    BY <2>1, <2>2 DEF MessagesTo, Ended, Alive
  <2>4. /\ queue' = [queue EXCEPT ![j] = Append(queue[j], m)]
        /\ gone' = gone /\ at' = [at EXCEPT ![t] = "sent"]
    BY <1>5 DEF Send, Goto, refVars
  <2> HIDE DEF j, m
  <2>5. busy' = busy /\ ended' = ended
    BY <1>2, <2>1, <2>4 DEF Frame
  <2> HIDE DEF busy, ended
  <2>6. CASE i = j
    <3>1. queue'[i] = Append(queue[i], m)
      BY <2>4, <2>6 DEF MailInv, QueueInv
    <3>2. Object(i)!Submit(m)
      BY <2>3, <2>4, <2>5, <2>6, <3>1 DEF Object!Submit, busy, ended
    <3>3. QED
      BY <2>3, <3>2 DEF Object!Next
  <2>7. CASE i # j
    <3>1. queue'[i] = queue[i]
      BY <2>4, <2>7 DEF MailInv, QueueInv
    <3>2. QED
      BY <2>4, <2>5, <3>1 DEF Object!vars, busy, ended
  <2>8. QED
    BY <2>6, <2>7
<1>6. CASE Join(t)
  <2>1. /\ at[t] = "join" /\ at[joins[t]] = "ended" /\ gone' = gone \cup {joins[t]}
        /\ queue' = [queue EXCEPT ![joins[t]] = <<>>]
        /\ at' = [at EXCEPT ![t] = IF t = Main THEN "wait" ELSE "method"]
    BY <1>6, NobodyDeadlocked DEF Join, Goto
  <2>2. joins[t] \in Instances /\ joins[t] \notin gone
    BY <2>1 DEF Joining, Destroying
  <2>3. busy' = busy /\ ended' = ended
    BY <1>2, <2>1 DEF Frame
  <2> HIDE DEF busy, ended
  <2>4. CASE i = joins[t]
    <3>1. queue'[i] = <<>> /\ i \in gone' /\ i \notin gone /\ ended
      BY <2>1, <2>2, <2>4 DEF MailInv, QueueInv, ended
    <3>2. Object(i)!Destroy
      BY <2>3, <3>1 DEF Object!Destroy, busy, ended
    <3>3. QED
      BY <3>2 DEF Object!Next
  <2>5. CASE i # joins[t]
    <3>1. queue'[i] = queue[i] /\ (i \in gone' <=> i \in gone)
      BY <2>1, <2>5 DEF MailInv, QueueInv
    <3>2. QED
      BY <2>3, <3>1 DEF Object!vars, busy, ended
  <2>6. QED
    BY <2>4, <2>5
<1>7. CASE Take(t)
  <2>1. /\ at[t] = "wait" /\ at' = [at EXCEPT ![t] = "method"] /\ gone' = gone
        /\ queue[t] # <<>> /\ queue' = [queue EXCEPT ![t] = Tail(queue[t])]
    BY <1>7 DEF Take, Goto, refVars
  <2>2. CASE i = t
    <3>1. queue'[i] = Tail(queue[i])
      BY <2>1, <2>2 DEF MailInv, QueueInv
    <3>2. Object(i)!Take
      BY <2>1, <2>2, <3>1 DEF Object!Take
    <3>3. QED
      BY <3>2 DEF Object!Next
  <2>3. CASE i # t
    <3>1. queue'[i] = queue[i] /\ at'[i] = at[i]
      BY <1>2, <2>1, <2>3 DEF MailInv, QueueInv, Frame
    <3>2. QED
      BY <2>1, <3>1 DEF Object!vars
  <2>4. QED
    BY <2>2, <2>3
<1>8. CASE Return(t)
  <2>1. /\ at[t] = "method" /\ at' = [at EXCEPT ![t] = "wait"] /\ gone' = gone /\ UNCHANGED queue
    BY <1>8 DEF Return, Goto, refVars
  <2>2. CASE i = t
    <3>1. Object(i)!Finish
      BY <2>1, <2>2 DEF Object!Finish
    <3>2. QED
      BY <3>1 DEF Object!Next
  <2>3. QED
    BY <1>4, <2>1, <2>2
<1>9. CASE End(t) \/ StubCatches(t)
  <2>1. /\ at[t] \in {"wait", "thrown"} /\ at' = [at EXCEPT ![t] = "ended"]
        /\ gone' = gone /\ UNCHANGED queue
    BY <1>9 DEF End, StubCatches, Goto, refVars
  <2>2. CASE i = t
    <3>1. Object(i)!End
      BY <2>1, <2>2 DEF Object!End
    <3>2. QED
      BY <3>1 DEF Object!Next
  <2>3. QED
    BY <1>4, <2>1, <2>2
<1>10. CASE Lock(t)
  <2>1. /\ at[t] = "method" /\ at'[t] \in {"method", "locked", "thrown"}
        /\ gone' = gone /\ UNCHANGED queue
    BY <1>10 DEF Lock
  <2>2. CASE i = t /\ at'[t] = "thrown"
    <3>1. Object(i)!Finish
      BY <2>1, <2>2 DEF Object!Finish
    <3>2. QED
      BY <3>1 DEF Object!Next
  <2>3. CASE i # t \/ at'[t] # "thrown"
    BY <1>3, <1>4, <2>1, <2>3
  <2>4. QED
    BY <2>2, <2>3
<1>11. CASE Release(t)
  <2>1. /\ at[t] = "sent" /\ at'[t] \in {"method", "join"} /\ gone' = gone /\ UNCHANGED queue
    BY <1>11 DEF Release, LetGo
  <2>2. QED
    BY <1>3, <1>4, <2>1
<1>12. CASE CleanExpired(t) \/ CleanCall(t)
  <2>1. /\ at[t] \in {"method", "clean"} /\ at'[t] \in {"method", "clean"}
        /\ gone' = gone /\ UNCHANGED queue
    BY <1>12 DEF CleanExpired, CleanCall, NotifierCall, Goto, refVars
  <2>2. QED
    BY <1>3, <1>4, <2>1
<1>13. ASSUME NEW x, Attach(t, x) \/ Detach(t, x) PROVE UNCHANGED Object(i)!vars
  BY <1>3, <1>13 DEF Attach, Detach, refVars
<1>14. ASSUME t = Main, NEW j, Drop(j) PROVE UNCHANGED Object(i)!vars
  BY <1>4, <1>14 DEF Drop
<1>15. ASSUME t = Main, NEW v, NEW w, NEW c, Request(v, w, c) PROVE UNCHANGED Object(i)!vars
  BY <1>4, <1>15 DEF Request, refVars
<1>16. QED
  BY <1>1, <1>5, <1>6, <1>7, <1>8, <1>9, <1>10, <1>11, <1>12, <1>13, <1>14, <1>15 DEF Step, Progress

\* Every instance is used as an active object may be: nobody hands a message
\* to one that is destroyed, and none is destroyed while its thread runs,
\* unless instances that may be let go send to each other in a cycle.
THEOREM InstancesAreActiveObjects == NoCycle => (Spec => UsesActiveObjects)
<1> SUFFICES ASSUME NoCycle PROVE Spec => UsesActiveObjects
  OBVIOUS
<1> DEFINE Uses == \A i \in Instances : Object(i)!Next \/ UNCHANGED Object(i)!vars
<1>1. Init => \A i \in Instances : Object(i)!Init
  BY InterfaceAssumption DEF Init, Threads, Object!Init
<1>2. IInv /\ [Next]_vars => [Uses]_vars
  BY ObjectStep
<1>3. IInv /\ [Next]_vars => IInv'
  BY NextInv
<1> HIDE DEF Uses
<1>4. Spec => (\A i \in Instances : Object(i)!Init) /\ [][Uses]_vars
  BY InitInv, <1>1, <1>2, <1>3, PTL DEF Spec
<1>5. QED
  BY <1>4 DEF UsesActiveObjects, Uses
=============================================================================
