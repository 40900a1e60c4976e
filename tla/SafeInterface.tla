--------------------------- MODULE SafeInterface ----------------------------
(***************************************************************************)
(* How instances of CThreadIt that are held by std::shared_ptr send each   *)
(* other messages: CISafeThreadItInterface and CThreadItObserver keep a    *)
(* weak pointer to the target, lock it for the time of CThreadItMessage's  *)
(* startWork, and release it; CThreadItNotifier does so for a list of      *)
(* observers.  Whoever releases the last shared pointer runs the           *)
(* destructor of the derived class, which stops the thread of the instance *)
(* and waits for it (CActive::waitForThreadToStop).                        *)
(*                                                                         *)
(* Module ThreadIt has the inside of an instance; here it is a queue and a *)
(* thread, and UsesActiveObjects says that it is used as ThreadIt allows.  *)
(* The thread of instance i is named i.  The program's own thread is Main. *)
(***************************************************************************)
EXTENDS SequencesExt, Integers

CONSTANTS Instances,   \* the instances of CThreadIt
          Main,        \* the thread that owns them
          Kept,        \* the instances Main never lets go
          Requests,    \* <<s, w, c>>: Main asks w by the call c, with s as the source
          MaxRequests, \* a bound on these requests
          Observers,   \* Observers[i]: the CThreadItObservers i may attach
          Cleans,      \* the instances that call cleanExpiredObservers
          NULL

Threads == Instances \cup {Main}
Calls == {"sendTo", "sendMessage"}
Observer == [target : Instances, source : Instances \cup {NULL}]
Message == [kind : {"request", "note", "reply"}, source : Instances \cup {NULL}]

ASSUME InterfaceAssumption ==
  /\ Kept \cup Cleans \subseteq Instances
  /\ Requests \subseteq Instances \X Instances \X Calls
  /\ MaxRequests \in Nat
  /\ Observers \in [Instances -> SUBSET Observer]
  /\ Main \notin Instances /\ NULL \notin Threads

VARIABLES owned,     \* the instances whose owner still holds its shared_ptr
          pointer,   \* pointer[t]: the shared_ptr that thread t holds
          joins,     \* joins[t]: the instance whose destructor t is running
          gone,      \* the instances that have been destroyed
          at,        \* at[t]: where thread t is
          sends,     \* sends[t]: what its current method has still to send
          queue,     \* queue[i]: m_WorkQ of instance i
          m_theObserverList, \* of each instance, as a CThreadItNotifier
          requested  \* the requests that Main has sent

refVars == <<owned, pointer, joins, gone>>
vars == <<refVars, at, sends, queue, m_theObserverList, requested>>

Init ==
  /\ owned = Instances
  /\ pointer = [t \in Threads |-> NULL]
  /\ joins = [t \in Threads |-> NULL]
  /\ gone = {}
  /\ at = [t \in Threads |-> "wait"]
  /\ sends = [t \in Threads |-> <<>>]
  /\ queue = [i \in Instances |-> <<>>]
  /\ m_theObserverList = [i \in Instances |-> <<>>]
  /\ requested = <<>>

Goto(t, from, to) == at[t] = from /\ at' = [at EXCEPT ![t] = to]

\* The instances whose shared count is not zero: weak_ptr.lock succeeds.
Alive == owned \cup ({pointer[t] : t \in Threads} \ {NULL})
Letter(to, kind, source, call) ==
  [to |-> to, message |-> [kind |-> kind, source |-> source], call |-> call]
-----------------------------------------------------------------------------
(***************************************************************************)
(* CThreadItNotifier.  It has no lock, so its methods are called by the    *)
(* thread of the instance only.                                            *)
(***************************************************************************)
\* CThreadItObserver: operator == locks both targets.  It and isValid let go
\* of them in the same step here, so they are never the last to do so.
Equal(x, y) == {x.target, y.target} \subseteq Alive /\ x.target = y.target

Attached(list, x) == IF \E j \in DOMAIN list : Equal(list[j], x) THEN list ELSE Append(list, x)
Detached(list, x) ==
  LET kept[n \in 0 .. Len(list)] ==
        IF n = 0 THEN <<>>
        ELSE IF Equal(list[n], x) THEN kept[n - 1] ELSE Append(kept[n - 1], list[n])
  IN kept[Len(list)]

NotifierCall(i) == at[i] = "method" /\ sends[i] = <<>>

\* The observer is made from a shared_ptr to its target.
Attach(i, x) ==
  /\ NotifierCall(i) /\ x.target \in Alive
  /\ m_theObserverList' = [m_theObserverList EXCEPT ![i] = Attached(@, x)]
  /\ UNCHANGED <<refVars, at, sends, queue, requested>>

Detach(i, x) ==
  /\ NotifierCall(i)
  /\ m_theObserverList' = [m_theObserverList EXCEPT ![i] = Detached(@, x)]
  /\ UNCHANGED <<refVars, at, sends, queue, requested>>

CleanCall(i) ==
  /\ i \in Cleans
  /\ NotifierCall(i) /\ Goto(i, "method", "clean")
  /\ UNCHANGED <<refVars, sends, queue, m_theObserverList, requested>>

\* cleanExpiredObservers: detach the first expired observer, until there is
\* none.
CleanExpired(i) ==
  LET list == m_theObserverList[i]
      expired == {j \in DOMAIN list : list[j].target \notin Alive} IN
  /\ at[i] = "clean"
  /\ IF expired = {}
     THEN at' = [at EXCEPT ![i] = "method"] /\ UNCHANGED m_theObserverList
     ELSE /\ UNCHANGED at
          /\ \E j \in expired :
                /\ \A k \in expired : j <= k
                /\ m_theObserverList' = [m_theObserverList EXCEPT ![i] = Detached(@, list[j])]
  /\ UNCHANGED <<refVars, sends, queue, requested>>

\* notify: one message to each observer's target, with the observer's source.
Notes(i) == [j \in DOMAIN m_theObserverList[i] |->
               Letter(m_theObserverList[i][j].target, "note",
                      m_theObserverList[i][j].source, "sendTo")]
-----------------------------------------------------------------------------
(***************************************************************************)
(* Sending a message.                                                      *)
(***************************************************************************)
\* Lock the weak pointer.  A message to an expired target is dropped; but the
\* sender of a reply makes its shared_ptr from the source of the request, which
\* throws bad_weak_ptr when that has expired or was never set, and nothing
\* under the method catches it.
Lock(t) ==
  /\ at[t] = "method" /\ sends[t] # <<>>
  /\ LET target == Head(sends[t]).to IN
     IF target \in Alive
     THEN /\ pointer' = [pointer EXCEPT ![t] = target]
          /\ at' = [at EXCEPT ![t] = "locked"]
          /\ UNCHANGED sends
     ELSE /\ UNCHANGED pointer
          /\ IF Head(sends[t]).message.kind = "reply"
             THEN at' = [at EXCEPT ![t] = "thrown"] /\ sends' = [sends EXCEPT ![t] = <<>>]
             ELSE sends' = [sends EXCEPT ![t] = Tail(@)] /\ UNCHANGED at
  /\ UNCHANGED <<owned, joins, gone, queue, m_theObserverList, requested>>

\* Mutant: sendTo loses the source too.
Delivered_Anonymous(l) == [l.message EXCEPT !.source = NULL]

\* sendTo and sendWithNoReplyTo put the message's own source into the work
\* pack.  sendMessage has put its source there before, which is thereby lost.
Delivered(l) ==
  IF l.call = "sendMessage" THEN [l.message EXCEPT !.source = NULL] ELSE l.message

\* The message is handed to startWork.
Send(t) ==
  /\ Goto(t, "locked", "sent")
  /\ queue' = [queue EXCEPT ![Head(sends[t]).to] = Append(@, Delivered(Head(sends[t])))]
  /\ sends' = [sends EXCEPT ![t] = Tail(@)]
  /\ UNCHANGED <<refVars, m_theObserverList, requested>>

\* Thread t has let go of instance i.  If that was the last shared pointer, t
\* runs the destructor: stopThread, and then the wait.
LetGo(t, i, next) ==
  IF i \in Alive'
  THEN at' = [at EXCEPT ![t] = next] /\ UNCHANGED joins
  ELSE at' = [at EXCEPT ![t] = "join"] /\ joins' = [joins EXCEPT ![t] = i]

Release(t) ==
  /\ at[t] = "sent"
  /\ pointer' = [pointer EXCEPT ![t] = NULL]
  /\ UNCHANGED <<owned, gone, sends, queue, m_theObserverList, requested>>
  /\ LetGo(t, pointer[t], "method")

\* The threads that wait for each other's end: such a wait can only time out.
Deadlocked(t) ==
  \E S \in SUBSET Threads :
     t \in S /\ \A u \in S : at[u] = "join" /\ joins[u] \in S

\* Mutant: no wait for the thread.
Join_Early(t) ==
  /\ Goto(t, "join", IF t = Main THEN "wait" ELSE "method")
  /\ gone' = gone \cup {joins[t]}
  /\ queue' = [queue EXCEPT ![joins[t]] = <<>>]
  /\ joins' = [joins EXCEPT ![t] = NULL]
  /\ UNCHANGED <<owned, pointer, sends, m_theObserverList, requested>>

\* waitForThreadToStop has returned, and the rest of the destructor runs.  A
\* wait that can end does so before its time out.
Join(t) ==
  /\ Goto(t, "join", IF t = Main THEN "wait" ELSE "method")
  /\ at[joins[t]] = "ended" \/ Deadlocked(t)
  /\ gone' = gone \cup {joins[t]}
  /\ queue' = [queue EXCEPT ![joins[t]] = <<>>]
  /\ joins' = [joins EXCEPT ![t] = NULL]
  /\ UNCHANGED <<owned, pointer, sends, m_theObserverList, requested>>
-----------------------------------------------------------------------------
(***************************************************************************)
(* The threads.                                                            *)
(***************************************************************************)
\* stopThread has been called: the destructor does so before it waits.
Stopped(i) == i \notin Alive

\* What the method of a message sends back.  That of a request replies to the
\* source whether there is one or not.  That of a note answers a source
\* defensively, by a note of its own.
Answer(m) ==
  CASE m.kind = "request" -> <<Letter(m.source, "reply", NULL, "sendTo")>>
    [] m.kind = "note" /\ m.source # NULL -> <<Letter(m.source, "note", NULL, "sendTo")>>
    [] OTHER -> <<>>

\* The thread of i takes a message and runs a worker method.  The method of
\* a request may notify i's observers.
Take(i) ==
  /\ ~Stopped(i)
  /\ Goto(i, "wait", "method")
  /\ queue[i] # <<>>
  /\ queue' = [queue EXCEPT ![i] = Tail(@)]
  /\ LET m == Head(queue[i]) IN
     \E notes \in {<<>>} \cup (IF m.kind = "request" THEN {Notes(i)} ELSE {}) :
        sends' = [sends EXCEPT ![i] = notes \o Answer(m)]
  /\ UNCHANGED <<refVars, m_theObserverList, requested>>

\* The method returns.
Return(i) ==
  /\ sends[i] = <<>>
  /\ Goto(i, "method", "wait")
  /\ UNCHANGED <<refVars, sends, queue, m_theObserverList, requested>>

\* Mutant: m_isExitThread is looked at only when the queue is empty.
End_WhenEmpty(i) ==
  /\ Stopped(i) /\ queue[i] = <<>>
  /\ Goto(i, "wait", "ended")
  /\ UNCHANGED <<refVars, sends, queue, m_theObserverList, requested>>

\* m_isExitThread is looked at before the queue is.
End(i) ==
  /\ Stopped(i)
  /\ Goto(i, "wait", "ended")
  /\ UNCHANGED <<refVars, sends, queue, m_theObserverList, requested>>

\* What a method has thrown is caught by the thread's stub, and the thread ends.
StubCatches(i) ==
  /\ Goto(i, "thrown", "ended")
  /\ UNCHANGED <<refVars, sends, queue, m_theObserverList, requested>>

\* Main asks w for something by the call c, and for a reply to s.
Request(s, w, c) ==
  /\ Len(requested) < MaxRequests /\ s \in owned
  /\ Goto(Main, "wait", "method")
  /\ sends' = [sends EXCEPT ![Main] = <<Letter(w, "request", s, c)>>]
  /\ requested' = Append(requested, <<s, w, c>>)
  /\ UNCHANGED <<refVars, queue, m_theObserverList>>

\* Main resets its shared_ptr.
Drop(i) ==
  /\ at[Main] = "wait" /\ i \in owned \ Kept
  /\ owned' = owned \ {i}
  /\ UNCHANGED <<pointer, gone, sends, queue, m_theObserverList, requested>>
  /\ LetGo(Main, i, "wait")

Progress(t) ==
  \/ Lock(t) \/ Send(t) \/ Release(t) \/ Join(t)
  \/ t \in Instances /\ (Take(t) \/ End(t) \/ StubCatches(t) \/ CleanExpired(t))
  \/ Return(t)

Next ==
  \/ \E t \in Threads : Progress(t)
  \/ \E i \in Instances :
        \/ \E x \in Observers[i] : Attach(i, x) \/ Detach(i, x)
        \/ CleanCall(i)
        \/ Drop(i)
  \/ \E r \in Requests : Request(r[1], r[2], r[3])

Spec == Init /\ [][Next]_vars

\* A method ends its calls of the notifier.
FairSpec == Spec /\ \A t \in Threads : WF_vars(Progress(t)) /\ SF_vars(Return(t))
-----------------------------------------------------------------------------
\* An instance is destroyed only after its thread has ended, although any
\* thread may be the one that lets go of it last.
OutlivesThread == \A i \in gone : at[i] = "ended"

\* What the users see of an instance.
Object(i) == INSTANCE ActiveObject WITH
  Requests <- Message,
  todo <- queue[i],
  busy <- at[i] \notin {"wait", "thrown", "ended"},
  ended <- at[i] = "ended",
  gone <- i \in gone

\* Each instance is used as an active object may be: no message to one that
\* has been destroyed, and none is destroyed while its thread runs.
UsesActiveObjects ==
  /\ \A i \in Instances : Object(i)!Init
  /\ [][\A i \in Instances : Object(i)!Next \/ UNCHANGED Object(i)!vars]_vars

\* A destructor does not wait for ever.
DestructorReturns == \A t \in Threads : (at[t] = "join") ~> (at[t] # "join")

\* The source of a request gets a reply, unless one of the two is let go, or
\* somebody asks w by sendMessage: w cannot reply to that, and its thread ends.
RequestAnswered ==
  \A r \in Requests : LET s == r[1]  w == r[2] IN
     r[3] = "sendTo" =>
       (Letter(w, "request", s, "sendTo") \in Range(sends[Main])) ~>
          \/ \E j \in DOMAIN queue[s] : queue[s][j].kind = "reply"
          \/ {s, w} \ owned # {}
          \/ \E q \in Range(requested) : q[2] = w /\ q[3] = "sendMessage"

\* cleanExpiredObservers returns.
CleanEnds == \A i \in Instances : (at[i] = "clean") ~> (at[i] # "clean")
=============================================================================
