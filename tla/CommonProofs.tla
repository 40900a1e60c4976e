---------------------------- MODULE CommonProofs ----------------------------
(***************************************************************************)
(* Proofs about what the other parts use, one after the other: the queue   *)
(* CMtQueue (MtQueue); and of log4cpp who follows a pointer to an appender *)
(* and who hears an event (Category), the lines that are written           *)
(* (PatternLayout) and the property files that are read (PropertyFile).    *)
(* They share no variable.                                                 *)
(***************************************************************************)
EXTENDS MtQueue, Category, PatternLayout, PropertyFile, ProofLemmas

(***************************************************************************)
(* Type correctness and ownership: together they are inductive.            *)
(***************************************************************************)
OwnInv == TypeOK /\ ExactlyOnce

LEMMA OwnInit == Init => OwnInv
<1> SUFFICES ASSUME Init PROVE OwnInv
  OBVIOUS
<1>1. PICK owner \in [Items -> Threads] :
         held = [t \in Threads |-> {i \in Items : owner[i] = t}]
  BY DEF Init
<1>2. TypeOK
  BY <1>1, EmptyItems DEF Init, TypeOK, Label
<1>3. ExactlyOnce
  BY <1>1, EmptyItems DEF Init, ExactlyOnce
<1>4. QED
  BY <1>2, <1>3 DEF OwnInv

LEMMA PushOwn ==
  ASSUME OwnInv, NEW t \in Threads, NEW i \in Items, InsertPush(t, i)
  PROVE  OwnInv'
<1> USE DEF OwnInv
<1>1. /\ m_theQueue' \in Seq(Items)
      /\ ToSet(m_theQueue') = ToSet(m_theQueue) \cup {i}
      /\ IsInjective(m_theQueue')
  BY AppendItem DEF InsertPush, TypeOK, ExactlyOnce
<1>2. TypeOK'
  BY <1>1 DEF InsertPush, Goto, TypeOK, Label
<1>3. ExactlyOnce'
  BY <1>1 DEF InsertPush, ExactlyOnce, TypeOK
<1>4. QED
  BY <1>2, <1>3

LEMMA PopOwn ==
  ASSUME OwnInv, NEW t \in Threads, PopFront(t), freed' = freed,
         pc' \in [Threads -> Label]
  PROVE  OwnInv'
<1> USE DEF OwnInv
<1>1. m_theEvent' \in BOOLEAN
  BY DEF PopFront, TypeOK
<1>2. CASE m_theQueue = <<>>
  BY <1>1, <1>2 DEF PopFront, TypeOK, ExactlyOnce
<1>3. CASE m_theQueue # <<>>
  <2> DEFINE h == Head(m_theQueue)
  <2>1. /\ m_theQueue' = Tail(m_theQueue)
        /\ held' = [held EXCEPT ![t] = @ \cup {h}]
        /\ m_theQueue \in Seq(Items) /\ IsInjective(m_theQueue)
    BY <1>3 DEF PopFront, TypeOK, ExactlyOnce
  <2>2. /\ h \in Items /\ h \in ToSet(m_theQueue)
        /\ m_theQueue' \in Seq(Items)
        /\ ToSet(m_theQueue') \cup {h} = ToSet(m_theQueue)
        /\ IsInjective(m_theQueue')
        /\ h \notin ToSet(m_theQueue')
    BY <1>3, <2>1, TailItem
  <2> HIDE DEF h
  <2>3. TypeOK'
    BY <1>1, <2>1, <2>2 DEF TypeOK
  <2>4. ExactlyOnce'
    BY <2>1, <2>2 DEF ExactlyOnce, TypeOK
  <2>5. QED
    BY <2>3, <2>4
<1>4. QED
  BY <1>2, <1>3

LEMMA OwnNext == OwnInv /\ [Next]_vars => OwnInv'
<1> SUFFICES ASSUME OwnInv, [Next]_vars PROVE OwnInv'
  OBVIOUS
<1>1. ASSUME NEW t \in Threads, NEW i \in Items, InsertPush(t, i) PROVE OwnInv'
  BY <1>1, PushOwn
<1>2. ASSUME NEW t \in Threads,
             InsertSet(t) \/ WaitCall(t) \/ WaitSignalled(t) \/ WaitTimeout(t)
      PROVE  OwnInv'
  BY <1>2 DEF InsertSet, WaitCall, WaitSignalled, WaitTimeout, Goto,
              OwnInv, TypeOK, ExactlyOnce, Label
<1>3. ASSUME NEW t \in Threads, WaitPop(t) \/ GetItemNoDec(t) PROVE OwnInv'
  <2>1. PopFront(t) /\ freed' = freed /\ pc' \in [Threads -> Label]
    BY <1>3 DEF WaitPop, GetItemNoDec, Goto, OwnInv, TypeOK, Label
  <2>2. QED
    BY <2>1, PopOwn
<1>4. ASSUME NEW t \in Threads, Clear(t) PROVE OwnInv'
  <2>1. m_theQueue' = <<>> /\ ToSet(m_theQueue) \subseteq Items
    BY <1>4, LenProperties DEF Clear, OwnInv, TypeOK, ToSet
  <2>2. TypeOK'
    BY <1>4, <2>1, EmptyItems DEF Clear, Goto, OwnInv, TypeOK, Label
  <2>3. ExactlyOnce'
    BY <1>4, <2>1, EmptyItems DEF Clear, OwnInv, ExactlyOnce
  <2>4. QED
    BY <2>2, <2>3 DEF OwnInv
<1>5. CASE UNCHANGED vars
  BY <1>5 DEF vars, OwnInv, TypeOK, ExactlyOnce
<1>6. QED
  BY <1>1, <1>2, <1>3, <1>4, <1>5 DEF Next

LEMMA OwnCorrect == Spec => []OwnInv
BY OwnInit, OwnNext, PTL DEF Spec

(* Every variable of the queue and of its threads keeps its type.          *)
THEOREM TypeCorrect == Spec => []TypeOK
BY OwnCorrect, PTL DEF OwnInv

(* Whatever the interleaving of insertItem, waitItem, getItem,             *)
(* getItemNoDec and clear, each value is in exactly one place: no value is *)
(* received twice or lost, although one event wakes every waiting thread.  *)
THEOREM ItemsExactlyOnce == Spec => []ExactlyOnce
BY OwnCorrect, PTL DEF OwnInv
-----------------------------------------------------------------------------
(***************************************************************************)
(* The event.  EventCovers needs no more than the types: the two places    *)
(* that reset the event do it in the critical section that emptied the     *)
(* list, so a later item always has its SetEvent still to come.            *)
(***************************************************************************)
LEMMA CoversNext ==
  ASSUME TypeOK, EventCovers, [Next]_vars
  PROVE  EventCovers'
<1>1. ASSUME NEW t \in Threads, NEW i \in Items, InsertPush(t, i) PROVE EventCovers'
  <2>1. pc'[t] = "set"
    BY <1>1 DEF InsertPush, Goto, TypeOK
  <2>2. QED
    BY <2>1 DEF EventCovers
<1>2. ASSUME NEW t \in Threads, InsertSet(t) PROVE EventCovers'
  BY <1>2 DEF InsertSet, EventCovers
<1>3. ASSUME NEW t \in Threads, WaitCall(t) \/ WaitSignalled(t) \/ WaitTimeout(t)
      PROVE  EventCovers'
  BY <1>3 DEF WaitCall, WaitSignalled, WaitTimeout, Goto, EventCovers, TypeOK
<1>4. ASSUME NEW t \in Threads, WaitPop(t) \/ GetItemNoDec(t) PROVE EventCovers'
  <2>1. PopFront(t) /\ \A u \in Threads : pc[u] = "set" => pc'[u] = "set"
    BY <1>4 DEF WaitPop, GetItemNoDec, Goto, TypeOK
  <2>2. CASE m_theQueue = <<>>
    BY <2>1, <2>2 DEF PopFront, EventCovers
  <2>3. CASE m_theQueue # <<>>
    <3>1. /\ m_theQueue' = Tail(m_theQueue)
          /\ m_theQueue' \in Seq(Items)
          /\ Len(m_theQueue') = Len(m_theQueue) - 1
          /\ Len(m_theQueue) \in Nat
      BY <2>1, <2>3, TailItem, LenProperties DEF PopFront, TypeOK
    <3>2. m_theQueue' # <<>> => Len(m_theQueue) > 1
      <4>1. m_theQueue' # <<>> => Len(m_theQueue') # 0
        BY <3>1, EmptySeq
      <4>2. QED
        BY <3>1, <4>1
    <3>3. QED
      BY <2>1, <2>3, <3>2 DEF PopFront, EventCovers
  <2>4. QED
    BY <2>2, <2>3
<1>5. ASSUME NEW t \in Threads, Clear(t) PROVE EventCovers'
  BY <1>5 DEF Clear, EventCovers
<1>6. CASE UNCHANGED vars
  BY <1>6 DEF vars, EventCovers
<1>7. QED
  BY <1>1, <1>2, <1>3, <1>4, <1>5, <1>6 DEF Next

(* No wake-up is lost: while the list has an item the event is signalled,  *)
(* or the thread that put an item is about to signal it.                   *)
THEOREM NoWakeupLost == Spec => []EventCovers
<1>1. Init => EventCovers
  BY DEF Init, EventCovers
<1>2. QED
  BY <1>1, CoversNext, TypeCorrect, PTL DEF Spec
-----------------------------------------------------------------------------
(***************************************************************************)
(* The refinement of Fifo.                                                 *)
(***************************************************************************)
LEMMA FifoNext == TypeOK /\ [Next]_vars => [Abstract!Next]_(Abstract!vars)
<1> SUFFICES ASSUME TypeOK, [Next]_vars PROVE [Abstract!Next]_(Abstract!vars)
  OBVIOUS
<1> USE DEF Abstract!Next, Abstract!vars
<1>1. ASSUME NEW t \in Threads, NEW i \in Items, InsertPush(t, i)
      PROVE  Abstract!Put(t, i)
  BY <1>1 DEF InsertPush, Goto, TypeOK, Abstract!Put
<1>2. ASSUME NEW t \in Threads, InsertSet(t) \/ WaitTimeout(t)
      PROVE  UNCHANGED Abstract!vars
  BY <1>2 DEF InsertSet, WaitTimeout, Goto, TypeOK
<1>3. ASSUME NEW t \in Threads, WaitCall(t) \/ WaitSignalled(t)
      PROVE  Abstract!Commit(t) \/ UNCHANGED Abstract!vars
  BY <1>3 DEF WaitCall, WaitSignalled, Goto, TypeOK, Abstract!Commit
<1>4. ASSUME NEW t \in Threads, WaitPop(t) \/ GetItemNoDec(t)
      PROVE  Abstract!Take(t) \/ Abstract!Leave(t)
  BY <1>4 DEF WaitPop, GetItemNoDec, PopFront, Goto, TypeOK,
              Abstract!Take, Abstract!Leave
<1>5. ASSUME NEW t \in Threads, Clear(t)
      PROVE  Abstract!Discard
  BY <1>5 DEF Clear, Goto, TypeOK, ToSet, Abstract!ToSet, Abstract!Discard
<1>6. CASE UNCHANGED vars
  BY <1>6 DEF vars
<1>7. QED
  BY <1>1, <1>2, <1>3, <1>4, <1>5, <1>6 DEF Next

(* The list, the critical section and the manual-reset event together are  *)
(* a FIFO queue: a satisfied wait returns empty-handed only when the list  *)
(* is empty at that moment.                                                *)
THEOREM QueueRefinesFifo == Spec => ImplementsFifo
<1>1. Init => Abstract!Init
  BY DEF Init, Abstract!Init
<1>2. QED
  BY <1>1, FifoNext, TypeCorrect, PTL DEF Spec, ImplementsFifo, Abstract!Spec

-----------------------------------------------------------------------------
\* What the configurer may be doing.
Jobs ==
  {Idle, [at |-> "release"], [at |-> "off"]}
  \cup [at : {"insert"}, cat : Names, obj : Appenders]
  \cup [at : {"appenders", "priority", "additivity", "clear"},
        todo : Seq(AppenderEntry), cats : Seq(CategoryEntry)]
  \cup [at : {"attach"}, todo : Seq(AppenderNames), cats : Seq(CategoryEntry)]
  \cup [at : {"shutdown"}, todo : SUBSET Names, forced : BOOLEAN]

CategoryTypeOK ==
  /\ known \subseteq Names
  /\ attached \in [Names -> SUBSET Appenders]
  /\ owned \in [Names -> SUBSET Appenders]
  /\ lock \in [Names -> Loggers \cup {Nobody}]
  /\ life \in [Appenders -> {"unborn", "alive", "deleted", "twice"}]
  /\ registry \in [AppenderNames -> Appenders \cup {NoAppender}]
  /\ configured \in [AppenderNames -> Appenders \cup {NoAppender}]
  /\ call = [t \in Loggers |-> call[t]]
  /\ job \in Jobs

\* An appender that a category owns is attached to that category alone, and
\* the property configurator does not know it.
OwnedAlone ==
  \A n \in Names : \A a \in owned[n] :
     /\ a \in attached[n]
     /\ \A m \in Names : a \in attached[m] => m = n
     /\ \A x \in AppenderNames : configured[x] # a

\* What is attached, registered or known to the property configurator lives;
\* its map is not looked at any more once everything has been released.
Referred ==
  /\ \A n \in Names : \A a \in attached[n] : life[a] = "alive"
  /\ \A x \in AppenderNames :
       registry[x] # NoAppender => life[registry[x]] = "alive" /\ NameOf[registry[x]] = x
  /\ \A x \in AppenderNames :
       configured[x] # NoAppender /\ job.at # "off" => life[configured[x]] = "alive"
  /\ \A a \in Appenders : life[a] # "twice"

\* Only a category that shutdown will find has appenders.
KnownHaveAll == \A n \in Names : attached[n] # {} => n \in known

\* A thread in the loop over the appenders of a category holds its lock, and
\* what it has not called yet is still attached.
Calling ==
  \A t \in Loggers :
     /\ "at" \in DOMAIN call[t]
     /\ call[t].at # "idle" =>
          /\ {"cat", "todo", "using"} \subseteq DOMAIN call[t]
          /\ call[t].cat \in Names
     /\ call[t].at \in {"loop", "append"} =>
          lock[call[t].cat] = t /\ call[t].todo \subseteq attached[call[t].cat]
     /\ call[t].at = "append" => call[t].using \in call[t].todo

\* What the configurer has in hand.
Working ==
  /\ job.at = "insert" =>
       /\ job.cat \in known /\ life[job.obj] = "alive"
       /\ \A n \in Names : job.obj \notin attached[n]
       /\ \A x \in AppenderNames : configured[x] # job.obj
  /\ job.at \in {"priority", "additivity", "clear", "attach"} =>
       job.cats # <<>> /\ Head(job.cats).name \in known
  /\ job.at = "shutdown" => \A n \in Names : attached[n] # {} => n \in job.todo
  /\ job.at \in {"release", "off"} => \A n \in Names : attached[n] = {}

CategoryInv ==
  CategoryTypeOK /\ OwnedAlone /\ Referred /\ KnownHaveAll /\ Calling /\ Working

LEMMA JobForms ==
  ASSUME job \in Jobs
  PROVE  /\ job.at = "insert" => job.cat \in Names /\ job.obj \in Appenders
         /\ job.at \in {"appenders", "priority", "additivity", "clear"} =>
              /\ job.todo \in Seq(AppenderEntry) /\ job.cats \in Seq(CategoryEntry)
              /\ job = [at |-> job.at, todo |-> job.todo, cats |-> job.cats]
         /\ job.at = "attach" =>
              /\ job.todo \in Seq(AppenderNames) /\ job.cats \in Seq(CategoryEntry)
              /\ job = [at |-> "attach", todo |-> job.todo, cats |-> job.cats]
         /\ job.at = "shutdown" =>
              /\ job.todo \in SUBSET Names /\ job.forced \in BOOLEAN
              /\ job = [at |-> "shutdown", todo |-> job.todo, forced |-> job.forced]
<1>1. CASE job \in {Idle, [at |-> "release"], [at |-> "off"]}
  BY <1>1 DEF Idle
<1>2. CASE job \in [at : {"insert"}, cat : Names, obj : Appenders]
  BY <1>2
<1>3. CASE job \in [at : {"appenders", "priority", "additivity", "clear"},
                    todo : Seq(AppenderEntry), cats : Seq(CategoryEntry)]
  BY <1>3
<1>4. CASE job \in [at : {"attach"}, todo : Seq(AppenderNames), cats : Seq(CategoryEntry)]
  BY <1>4
<1>5. CASE job \in [at : {"shutdown"}, todo : SUBSET Names, forced : BOOLEAN]
  BY <1>5
<1>6. QED
  BY <1>1, <1>2, <1>3, <1>4, <1>5 DEF Jobs

LEMMA InitInv == CategoryInit => CategoryInv
<1>1. SUFFICES ASSUME CategoryInit PROVE CategoryInv
  OBVIOUS
<1>2. /\ attached = [n \in Names |-> {}] /\ owned = [n \in Names |-> {}]
      /\ registry = [x \in AppenderNames |-> NoAppender]
      /\ configured = [x \in AppenderNames |-> NoAppender]
      /\ life = [a \in Appenders |-> "unborn"] /\ lock = [n \in Names |-> Nobody]
      /\ call = [t \in Loggers |-> Idle] /\ job = Idle /\ known = {Root}
  BY <1>1 DEF CategoryInit
<1>3. CategoryTypeOK
  BY <1>2, CategoryAssumption DEF CategoryTypeOK, Jobs
<1>4. OwnedAlone /\ Referred /\ KnownHaveAll
  BY <1>2 DEF OwnedAlone, Referred, KnownHaveAll
<1>5. Calling /\ Working
  BY <1>2 DEF Calling, Working, Idle
<1>6. QED
  BY <1>3, <1>4, <1>5 DEF CategoryInv
-----------------------------------------------------------------------------
(***************************************************************************)
(* What a step need not touch.                                             *)
(***************************************************************************)

\* A step of the configurer takes no lock: where it finds one taken it leaves
\* the appenders of that category.
LEMMA CallsGoOn ==
  ASSUME CategoryTypeOK, Calling, Disturb \/ UNCHANGED call, UNCHANGED lock,
         \A n \in Names : lock[n] = Nobody \/ attached[n] \subseteq attached'[n]
  PROVE  Calling' /\ call' = [t \in Loggers |-> call'[t]]
<1>1. call' = [t \in Loggers |-> call'[t]]
  BY DEF CategoryTypeOK, Disturb
<1>2. ASSUME NEW t \in Loggers
      PROVE  /\ DOMAIN call'[t] = DOMAIN call[t]
             /\ call'[t].at = call[t].at
             /\ call[t].at # "idle" =>
                  /\ call'[t].cat = call[t].cat /\ call'[t].todo = call[t].todo
                  /\ call'[t].using = call[t].using
  <2>1. CASE UNCHANGED call
    BY <2>1
  <2>2. CASE Disturb
    BY <2>2 DEF Disturb, Calling
  <2>3. QED
    BY <2>1, <2>2
<1>3. \A n \in Names : lock[n] # Nobody => attached[n] \subseteq attached'[n]
  OBVIOUS
<1>4. \A t \in Loggers : t # Nobody
  BY CategoryAssumption DEF Nobody
<1>5. QED
  BY <1>1, <1>2, <1>3, <1>4 DEF Calling

\* The appenders, where they are attached and what is known of them.
Appending == <<attached, owned, life, registry, configured>>

LEMMA ObjectsStay ==
  ASSUME CategoryTypeOK, OwnedAlone, Referred, KnownHaveAll, UNCHANGED Appending,
         known \subseteq known', job.at = "off" => job'.at = "off"
  PROVE  OwnedAlone' /\ Referred' /\ KnownHaveAll'
BY DEF OwnedAlone, Referred, KnownHaveAll, Appending

\* A step of a thread that logs, with what it does to its call.
LEMMA LoggerStep ==
  ASSUME CategoryInv, UNCHANGED <<Appending, job>>,
         known \subseteq known', known' \subseteq Names,
         lock' \in [Names -> Loggers \cup {Nobody}],
         call' = [t \in Loggers |-> call'[t]], Calling'
  PROVE  CategoryInv'
<1>1. CategoryTypeOK'
  BY DEF CategoryInv, CategoryTypeOK, Appending
<1>2. OwnedAlone' /\ Referred' /\ KnownHaveAll'
  BY ObjectsStay DEF CategoryInv
<1>3. Working'
  BY DEF CategoryInv, Working, Appending
<1>4. QED
  BY <1>1, <1>2, <1>3 DEF CategoryInv
-----------------------------------------------------------------------------
(***************************************************************************)
(* The threads that log.                                                   *)
(***************************************************************************)

\* One thread's call changes, nobody takes a lock from another.
LEMMA OneCall ==
  ASSUME CategoryTypeOK, Calling, UNCHANGED attached, NEW t \in Loggers,
         call' = [call EXCEPT ![t] = call'[t]],
         \A n \in Names : lock[n] \in Loggers \ {t} => lock'[n] = lock[n],
         "at" \in DOMAIN call'[t],
         call'[t].at # "idle" => /\ {"cat", "todo", "using"} \subseteq DOMAIN call'[t]
                                 /\ call'[t].cat \in Names,
         call'[t].at \in {"loop", "append"} =>
           lock'[call'[t].cat] = t /\ call'[t].todo \subseteq attached[call'[t].cat],
         call'[t].at = "append" => call'[t].using \in call'[t].todo
  PROVE  Calling' /\ call' = [u \in Loggers |-> call'[u]]
<1>1. DOMAIN call = Loggers
  BY DEF CategoryTypeOK
<1>2. call' = [u \in Loggers |-> call'[u]]
  BY <1>1
<1>3. \A u \in Loggers \ {t} : call'[u] = call[u]
  BY <1>1
<1>4. \A u \in Loggers \ {t} : call[u].at \in {"loop", "append"} => lock'[call[u].cat] = u
  BY DEF Calling
<1>5. QED
  BY <1>2, <1>3, <1>4 DEF Calling

\* A call that begins has no lock and no appender yet.
LEMMA BeginKept ==
  ASSUME CategoryInv, NEW t \in Loggers, NEW n \in Names, NEW p,
         BeginCall(t, n, p) \/ UNCHANGED call, UNCHANGED <<Appending, known, lock, job>>
  PROVE  CategoryInv'
<1>1. CASE UNCHANGED call
  <2>1. Calling' /\ call' = [u \in Loggers |-> call'[u]] /\ lock' \in [Names -> Loggers \cup {Nobody}]
    BY <1>1 DEF CategoryInv, CategoryTypeOK, Calling, Appending
  <2>2. QED
    BY <2>1, LoggerStep DEF CategoryInv, CategoryTypeOK
<1>2. CASE BeginCall(t, n, p)
  <2>1. DOMAIN call = Loggers
    BY DEF CategoryInv, CategoryTypeOK
  <2>2. /\ call' = [call EXCEPT ![t] = call'[t]]
        /\ call'[t].at = "enter" /\ call'[t].cat = n
        /\ {"at", "cat", "todo", "using"} \subseteq DOMAIN call'[t]
    BY <1>2, <2>1 DEF BeginCall
  <2>3. Calling' /\ call' = [u \in Loggers |-> call'[u]]
    BY <2>2, OneCall DEF CategoryInv, Appending
  <2>4. QED
    BY <2>3, LoggerStep DEF CategoryInv, CategoryTypeOK
<1>3. QED
  BY <1>1, <1>2

\* Taking a lock and looking at the set happen in one step; while the lock is
\* held the set only shrinks from what is still to be called.
LEMMA LogStepInv ==
  ASSUME CategoryInv, NEW t \in Loggers, LogStep(t)
  PROVE  CategoryInv'
<1> DEFINE c == call[t]
<1>1. /\ DOMAIN call = Loggers /\ t # Nobody
      /\ lock \in [Names -> Loggers \cup {Nobody}]
      /\ {"at", "cat", "todo", "using"} \subseteq DOMAIN c \/ c.at = "idle"
      /\ c.at # "idle" => c.cat \in Names
  BY CategoryAssumption DEF CategoryInv, CategoryTypeOK, Calling, Nobody
<1>2. UNCHANGED <<Appending, known, job>>
  BY DEF LogStep, EnterCategory, AppendBegin, AppendEnd, GoUp, Leave, hierarchy, objects, Appending
<1>3. CASE EnterCategory(t)
  <2>1. /\ c.at = "enter" /\ lock[c.cat] = Nobody
        /\ lock' = [lock EXCEPT ![c.cat] = t]
        /\ call' = [call EXCEPT ![t] = call'[t]]
        /\ call'[t].at = "loop" /\ call'[t].cat = c.cat
        /\ call'[t].todo = attached[c.cat]
        /\ DOMAIN call'[t] = DOMAIN c
    BY <1>1, <1>3 DEF EnterCategory
  <2>2. Calling' /\ call' = [u \in Loggers |-> call'[u]]
    <3>1. \A n \in Names : lock[n] \in Loggers \ {t} => lock'[n] = lock[n]
      BY <1>1, <2>1, CategoryAssumption DEF Nobody
    <3>2. /\ {"at", "cat", "todo", "using"} \subseteq DOMAIN call'[t]
          /\ lock'[call'[t].cat] = t /\ call'[t].todo \subseteq attached[call'[t].cat]
      BY <1>1, <2>1
    <3>3. QED
      BY <1>1, <1>2, <2>1, <3>1, <3>2, OneCall DEF CategoryInv, Appending
  <2>3. QED
    BY <1>1, <1>2, <2>1, <2>2, LoggerStep DEF CategoryInv, CategoryTypeOK
<1>4. CASE AppendBegin(t) \/ AppendEnd(t)
  <2>1. UNCHANGED lock /\ c.at \in {"loop", "append"}
    BY <1>4 DEF AppendBegin, AppendEnd
  <2>2. /\ call' = [call EXCEPT ![t] = call'[t]]
        /\ DOMAIN call'[t] = DOMAIN c /\ call'[t].cat = c.cat
        /\ \/ call'[t].at = "append" /\ call'[t].todo = c.todo /\ call'[t].using \in c.todo
           \/ call'[t].at = "loop" /\ call'[t].todo = c.todo \ {c.using}
    <3>1. CASE AppendBegin(t)
      BY <1>1, <3>1 DEF AppendBegin
    <3>2. CASE AppendEnd(t)
      BY <1>1, <3>2 DEF AppendEnd
    <3>3. QED
      BY <1>4, <3>1, <3>2
  <2>3. lock[c.cat] = t /\ c.todo \subseteq attached[c.cat]
    BY <2>1 DEF CategoryInv, Calling
  <2>4. Calling' /\ call' = [u \in Loggers |-> call'[u]]
    BY <1>1, <1>2, <2>1, <2>2, <2>3, OneCall DEF CategoryInv, Appending
  <2>5. QED
    BY <1>1, <1>2, <2>1, <2>4, LoggerStep DEF CategoryInv, CategoryTypeOK
<1>5. CASE GoUp(t)
  <2>1. /\ UNCHANGED lock
        /\ call' = [call EXCEPT ![t] = call'[t]]
        /\ DOMAIN call'[t] = DOMAIN c
        /\ call'[t].at \in {"enter", "leave"} /\ call'[t].cat \in Names
    <3>1. c.at = "loop" /\ ParentOf[c.cat] \in Names \cup {NoName}
      BY <1>1, <1>5, CategoryAssumption DEF GoUp
    <3>2. QED
      BY <1>1, <1>5, <3>1 DEF GoUp
  <2>2. Calling' /\ call' = [u \in Loggers |-> call'[u]]
    BY <1>1, <1>2, <2>1, OneCall, <1>5 DEF CategoryInv, Appending, GoUp
  <2>3. QED
    BY <1>1, <1>2, <2>1, <2>2, LoggerStep DEF CategoryInv, CategoryTypeOK
<1>6. CASE Leave(t)
  <2>1. /\ lock' = [n \in Names |-> IF lock[n] = t THEN Nobody ELSE lock[n]]
        /\ call' = [call EXCEPT ![t] = call'[t]] /\ call'[t] = Idle
    BY <1>1, <1>6 DEF Leave
  <2>2. Calling' /\ call' = [u \in Loggers |-> call'[u]]
    BY <1>1, <1>2, <2>1, OneCall DEF CategoryInv, Appending, Idle
  <2>3. lock' \in [Names -> Loggers \cup {Nobody}]
    BY <1>1, <2>1
  <2>4. QED
    BY <1>2, <2>2, <2>3, LoggerStep DEF CategoryInv, CategoryTypeOK
<1>7. QED
  BY <1>3, <1>4, <1>5, <1>6 DEF LogStep

LEMMA LoggerInv ==
  ASSUME CategoryInv, NEW t \in Loggers, LoggerNext(t)
  PROVE  CategoryInv'
<1>1. ASSUME NEW n \in Names, NewCategory(t, n) PROVE CategoryInv'
  <2>1. known' = known \cup Path(n) /\ Path(n) \subseteq Names /\ UNCHANGED <<Appending, lock, call, job>>
    BY <1>1 DEF NewCategory, GetInstance, Path, objects, Appending
  <2>2. Calling' /\ call' = [u \in Loggers |-> call'[u]] /\ lock' \in [Names -> Loggers \cup {Nobody}]
    BY <2>1 DEF CategoryInv, CategoryTypeOK, Calling, Appending
  <2>3. known \subseteq known' /\ known' \subseteq Names
    BY <2>1 DEF CategoryInv, CategoryTypeOK
  <2>4. QED
    BY <2>1, <2>2, <2>3, LoggerStep
<1>2. ASSUME NEW n \in Names, NEW p \in EventLevels, NEW own \in Levels \cup {NOTSET},
             Log(t, n, p) \/ LogFixed(t, own, n, p)
      PROVE  CategoryInv'
  <2>1. BeginCall(t, n, p) \/ UNCHANGED call
    BY <1>2 DEF Log, LogFixed
  <2>2. UNCHANGED <<Appending, known, lock, job>>
    BY <1>2 DEF Log, LogFixed, hierarchy, objects, Appending
  <2>3. QED
    BY <2>1, <2>2, BeginKept
<1>3. NOTSET \in Levels \cup {NOTSET}
  OBVIOUS
<1>4. QED
  BY <1>1, <1>2, <1>3, LogStepInv DEF LoggerNext
-----------------------------------------------------------------------------
(***************************************************************************)
(* What the steps of the configurer are made of.                           *)
(***************************************************************************)

LEMMA QuietStep ==
  ASSUME CategoryInv, UNCHANGED <<Appending, lock>>, Disturb \/ UNCHANGED call,
         known \subseteq known', known' \subseteq Names,
         job' \in Jobs, job.at # "off", Working'
  PROVE  CategoryInv'
<1>1. Calling' /\ call' = [t \in Loggers |-> call'[t]]
  BY CallsGoOn DEF CategoryInv, Appending
<1>2. OwnedAlone' /\ Referred' /\ KnownHaveAll'
  BY ObjectsStay DEF CategoryInv
<1>3. CategoryTypeOK'
  BY <1>1 DEF CategoryInv, CategoryTypeOK, Appending
<1>4. QED
  BY <1>1, <1>2, <1>3 DEF CategoryInv

\* An appender is attached to a category: for good if it belongs to it, which
\* only one that nobody else refers to may.
LEMMA InsertStep ==
  ASSUME CategoryInv, NEW n \in known, NEW a \in Appenders, NEW own \in BOOLEAN,
         Insert(n, a, own), UNCHANGED <<known, lock, life, registry, configured>>,
         life[a] = "alive",
         \A m \in Names : a \notin owned[m],
         own => /\ \A m \in Names : a \notin attached[m]
                /\ \A x \in AppenderNames : configured[x] # a,
         job' \in Jobs, job.at # "off", Working'
  PROVE  CategoryInv'
<1>1. /\ n \in Names /\ attached \in [Names -> SUBSET Appenders] /\ owned \in [Names -> SUBSET Appenders]
      /\ attached' = [attached EXCEPT ![n] = @ \cup {a}]
      /\ owned' = [owned EXCEPT ![n] = IF own /\ a \notin attached[n] THEN @ \cup {a} ELSE @]
  BY DEF CategoryInv, CategoryTypeOK, Insert
<1>2. attached' \in [Names -> SUBSET Appenders] /\ owned' \in [Names -> SUBSET Appenders]
  BY <1>1
<1>3. Calling' /\ call' = [t \in Loggers |-> call'[t]]
  <2>1. \A m \in Names : attached[m] \subseteq attached'[m]
    BY <1>1
  <2>2. QED
    BY <2>1, CallsGoOn DEF CategoryInv, Insert
<1>4. CategoryTypeOK'
  BY <1>2, <1>3 DEF CategoryInv, CategoryTypeOK
<1>5. OwnedAlone'
  <2> SUFFICES ASSUME NEW m \in Names, NEW b \in owned'[m]
               PROVE  /\ b \in attached'[m]
                      /\ \A k \in Names : b \in attached'[k] => k = m
                      /\ \A x \in AppenderNames : configured[x] # b
    BY DEF OwnedAlone
  <2>1. CASE b \in owned[m]
    <3>1. b # a
      BY <2>1
    <3>2. b \in attached[m] /\ \A k \in Names : b \in attached[k] => k = m
      BY <2>1 DEF CategoryInv, OwnedAlone
    <3>3. QED
      BY <1>1, <2>1, <3>1, <3>2 DEF CategoryInv, OwnedAlone
  <2>2. CASE b \notin owned[m]
    <3>1. m = n /\ b = a /\ own
      BY <1>1, <2>2
    <3>2. QED
      BY <1>1, <3>1
  <2>3. QED
    BY <2>1, <2>2
<1>6. Referred' /\ KnownHaveAll'
  <2>1. \A m \in Names : attached'[m] \subseteq attached[m] \cup {a}
    BY <1>1
  <2>2. \A m \in Names : m # n => attached'[m] = attached[m]
    BY <1>1
  <2>3. QED
    BY <2>1, <2>2 DEF CategoryInv, Referred, KnownHaveAll
<1>7. QED
  BY <1>3, <1>4, <1>5, <1>6 DEF CategoryInv

\* Deleting live objects leaves no name that leads to one of them.
LEMMA DeleteObjects ==
  ASSUME CategoryTypeOK, Referred, NEW S \in SUBSET Appenders, Delete(S),
         \A a \in S : life[a] = "alive"
  PROVE  /\ life' \in [Appenders -> {"unborn", "alive", "deleted", "twice"}]
         /\ registry' \in [AppenderNames -> Appenders \cup {NoAppender}]
         /\ \A a \in Appenders \ S : life'[a] = life[a]
         /\ \A a \in Appenders : life'[a] # "twice"
         /\ \A x \in AppenderNames :
              registry'[x] # NoAppender => life'[registry'[x]] = "alive" /\ NameOf[registry'[x]] = x
<1>1. /\ life' = [a \in Appenders |-> IF a \notin S THEN life[a]
                    ELSE IF life[a] = "alive" THEN "deleted" ELSE "twice"]
      /\ registry' = [x \in AppenderNames |->
                        IF x \in {NameOf[a] : a \in S} THEN NoAppender ELSE registry[x]]
  BY DEF Delete
<1>2. /\ life \in [Appenders -> {"unborn", "alive", "deleted", "twice"}]
      /\ registry \in [AppenderNames -> Appenders \cup {NoAppender}]
  BY DEF CategoryTypeOK
<1>3. /\ life' \in [Appenders -> {"unborn", "alive", "deleted", "twice"}]
      /\ registry' \in [AppenderNames -> Appenders \cup {NoAppender}]
      /\ \A a \in Appenders \ S : life'[a] = life[a]
  BY <1>1, <1>2
<1>4. \A a \in Appenders : life'[a] # "twice"
  BY <1>1 DEF Referred
<1>5. ASSUME NEW x \in AppenderNames, registry'[x] # NoAppender
      PROVE  life'[registry'[x]] = "alive" /\ NameOf[registry'[x]] = x
  <2>1. registry'[x] = registry[x] /\ x \notin {NameOf[a] : a \in S}
    BY <1>1, <1>5
  <2>2. NameOf[registry[x]] = x /\ life[registry[x]] = "alive" /\ registry[x] \in Appenders
    BY <1>2, <1>5, <2>1 DEF Referred
  <2>3. registry[x] \notin S
    BY <2>1, <2>2
  <2>4. QED
    BY <1>3, <2>1, <2>2, <2>3
<1>6. QED
  BY <1>3, <1>4, <1>5

\* Some appenders of a category are taken away from it while its lock is free,
\* the owned ones among them deleted.
LEMMA TakeAway ==
  ASSUME CategoryInv, NEW n \in Names, NEW gone \in SUBSET attached[n],
         lock[n] = Nobody, Disturb,
         attached' = [attached EXCEPT ![n] = @ \ gone],
         owned' = [owned EXCEPT ![n] = @ \ gone],
         Delete(gone \cap owned[n]) \/ (UNCHANGED <<life, registry>> /\ gone \cap owned[n] = {}),
         UNCHANGED <<known, lock, configured>>,
         job' \in Jobs, job.at # "off", Working'
  PROVE  CategoryInv'
<1> DEFINE S == gone \cap owned[n]
<1>1. /\ attached \in [Names -> SUBSET Appenders] /\ owned \in [Names -> SUBSET Appenders]
      /\ attached' \in [Names -> SUBSET Appenders] /\ owned' \in [Names -> SUBSET Appenders]
      /\ \A m \in Names : attached'[m] = IF m = n THEN attached[n] \ gone ELSE attached[m]
      /\ \A m \in Names : owned'[m] = IF m = n THEN owned[n] \ gone ELSE owned[m]
  BY DEF CategoryInv, CategoryTypeOK
<1>2. S \in SUBSET Appenders /\ \A a \in S : life[a] = "alive"
  BY <1>1 DEF CategoryInv, Referred
<1>3. /\ life' \in [Appenders -> {"unborn", "alive", "deleted", "twice"}]
      /\ registry' \in [AppenderNames -> Appenders \cup {NoAppender}]
      /\ \A a \in Appenders \ S : life'[a] = life[a]
      /\ \A a \in Appenders : life'[a] # "twice"
      /\ \A x \in AppenderNames :
           registry'[x] # NoAppender => life'[registry'[x]] = "alive" /\ NameOf[registry'[x]] = x
  <2>1. CASE Delete(S)
    BY <1>2, <2>1, DeleteObjects DEF CategoryInv
  <2>2. CASE UNCHANGED <<life, registry>>
    BY <2>2 DEF CategoryInv, CategoryTypeOK, Referred
  <2>3. QED
    BY <2>1, <2>2
<1>4. Calling' /\ call' = [t \in Loggers |-> call'[t]]
  <2>1. \A m \in Names : lock[m] = Nobody \/ attached[m] \subseteq attached'[m]
    BY <1>1
  <2>2. QED
    BY <2>1, CallsGoOn DEF CategoryInv
<1>5. CategoryTypeOK'
  BY <1>1, <1>3, <1>4 DEF CategoryInv, CategoryTypeOK
<1>6. OwnedAlone'
  BY <1>1 DEF CategoryInv, OwnedAlone
<1>7. Referred'
  <2>1. ASSUME NEW m \in Names, NEW a \in attached'[m] PROVE life'[a] = "alive"
    <3>1. a \in attached[m] /\ a \in Appenders /\ (m = n => a \notin gone)
      BY <1>1
    <3>2. a \notin S
      BY <3>1 DEF CategoryInv, OwnedAlone
    <3>3. QED
      BY <1>3, <3>1, <3>2 DEF CategoryInv, Referred
  <2>2. ASSUME NEW x \in AppenderNames, configured[x] # NoAppender
        PROVE  life'[configured[x]] = "alive"
    <3>1. configured[x] \in Appenders /\ configured[x] \notin S /\ life[configured[x]] = "alive"
      BY <2>2 DEF CategoryInv, CategoryTypeOK, OwnedAlone, Referred
    <3>2. QED
      BY <1>3, <3>1
  <2>3. QED
    BY <1>3, <2>1, <2>2 DEF Referred
<1>8. KnownHaveAll'
  BY <1>1 DEF CategoryInv, KnownHaveAll
<1>9. QED
  BY <1>4, <1>5, <1>6, <1>7, <1>8 DEF CategoryInv

LEMMA RemoveAllStep ==
  ASSUME CategoryInv, NEW n \in Names, RemoveAll(n), UNCHANGED <<known, lock, configured>>,
         job' \in Jobs, job.at # "off", Working'
  PROVE  CategoryInv'
<1>1. attached[n] \ attached[n] = {} /\ owned[n] \ attached[n] = {} /\ attached[n] \cap owned[n] = owned[n]
  BY DEF CategoryInv, OwnedAlone
<1>2. /\ lock[n] = Nobody /\ Disturb /\ Delete(owned[n])
      /\ attached' = [attached EXCEPT ![n] = {}] /\ owned' = [owned EXCEPT ![n] = {}]
  BY DEF RemoveAll
<1>3. /\ attached' = [attached EXCEPT ![n] = @ \ attached[n]]
      /\ owned' = [owned EXCEPT ![n] = @ \ attached[n]]
      /\ Delete(attached[n] \cap owned[n])
  BY <1>1, <1>2
<1>4. attached[n] \in SUBSET attached[n]
  OBVIOUS
<1>5. ASSUME NEW gone \in SUBSET attached[n], gone = attached[n] PROVE CategoryInv'
  <2>1. /\ attached' = [attached EXCEPT ![n] = @ \ gone]
        /\ owned' = [owned EXCEPT ![n] = @ \ gone]
        /\ Delete(gone \cap owned[n])
    BY <1>3, <1>5
  <2>2. QED
    BY <1>2, <2>1, TakeAway
<1>6. QED
  BY <1>4, <1>5

\* A new object: nobody refers to one that was not born.
LEMMA ConstructStep ==
  ASSUME CategoryInv, NEW a \in Appenders, Construct(a),
         UNCHANGED configured \/ configured' = [configured EXCEPT ![NameOf[a]] = a],
         UNCHANGED <<known, attached, owned, lock, call>>,
         job' \in Jobs, job.at # "off", Working'
  PROVE  CategoryInv'
<1>1. /\ life[a] = "unborn"
      /\ life' = [life EXCEPT ![a] = "alive"] /\ registry' = [registry EXCEPT ![NameOf[a]] = a]
  BY DEF Construct
<1>2. /\ NameOf[a] \in AppenderNames
      /\ life \in [Appenders -> {"unborn", "alive", "deleted", "twice"}]
      /\ registry \in [AppenderNames -> Appenders \cup {NoAppender}]
      /\ configured \in [AppenderNames -> Appenders \cup {NoAppender}]
      /\ attached \in [Names -> SUBSET Appenders] /\ owned \in [Names -> SUBSET Appenders]
  BY DEF CategoryInv, CategoryTypeOK, AppenderNames
<1>3. /\ life' \in [Appenders -> {"unborn", "alive", "deleted", "twice"}]
      /\ registry' \in [AppenderNames -> Appenders \cup {NoAppender}]
      /\ configured' \in [AppenderNames -> Appenders \cup {NoAppender}]
      /\ \A b \in Appenders : life'[b] = IF b = a THEN "alive" ELSE life[b]
      /\ \A x \in AppenderNames : registry'[x] = IF x = NameOf[a] THEN a ELSE registry[x]
      /\ \A x \in AppenderNames : configured'[x] \in {a, configured[x]}
  BY <1>1, <1>2
<1>4. Calling' /\ call' = [t \in Loggers |-> call'[t]]
  BY CallsGoOn DEF CategoryInv
<1>5. CategoryTypeOK'
  BY <1>3, <1>4 DEF CategoryInv, CategoryTypeOK
<1>6. OwnedAlone'
  <2>1. \A n \in Names : a \notin owned[n]
    BY <1>1 DEF CategoryInv, OwnedAlone, Referred
  <2>2. QED
    BY <1>3, <2>1 DEF CategoryInv, OwnedAlone
<1>7. Referred'
  <2>1. \A n \in Names : \A b \in attached[n] : life'[b] = "alive"
    BY <1>2, <1>3 DEF CategoryInv, Referred
  <2>2. ASSUME NEW x \in AppenderNames, registry'[x] # NoAppender
        PROVE  life'[registry'[x]] = "alive" /\ NameOf[registry'[x]] = x
    BY <1>2, <1>3, <2>2 DEF CategoryInv, Referred
  <2>3. ASSUME NEW x \in AppenderNames, configured'[x] # NoAppender
        PROVE  life'[configured'[x]] = "alive"
    BY <1>2, <1>3, <2>3 DEF CategoryInv, Referred
  <2>4. \A b \in Appenders : life'[b] # "twice"
    BY <1>3 DEF CategoryInv, Referred
  <2>5. QED
    BY <2>1, <2>2, <2>3, <2>4 DEF Referred
<1>8. KnownHaveAll'
  BY DEF CategoryInv, KnownHaveAll
<1>9. QED
  BY <1>4, <1>5, <1>6, <1>7, <1>8 DEF CategoryInv
-----------------------------------------------------------------------------
(***************************************************************************)
(* The configurer.                                                         *)
(***************************************************************************)

LEMMA IdleJob == Idle \in Jobs /\ Idle.at = "idle"
BY DEF Jobs, Idle

\* What it does between its jobs.
LEMMA SettingInv ==
  ASSUME CategoryInv, NEW n \in Names,
         \/ \E p \in Levels \cup {NOTSET} : SetPriority(n, p)
         \/ \E b \in BOOLEAN : SetAdditivity(n, b)
  PROVE  CategoryInv'
<1>1. /\ UNCHANGED <<Appending, known, lock, job>> /\ (Disturb \/ UNCHANGED call)
      /\ job.at = "idle"
  BY DEF SetPriority, SetAdditivity, Begin, objects, Appending
<1>2. job' \in Jobs /\ Working' /\ known \subseteq known' /\ known' \subseteq Names
  BY <1>1 DEF CategoryInv, CategoryTypeOK, Working
<1>3. QED
  BY <1>1, <1>2, QuietStep

LEMMA AppenderInv ==
  ASSUME CategoryInv, NEW n \in Names, NEW a \in Appenders,
         NewAppender(n, a) \/ AddReference(n, a) \/ RemoveAppender(n, a)
  PROVE  CategoryInv'
<1>1. CASE NewAppender(n, a)
  <2>1. /\ job' = [at |-> "insert", cat |-> n, obj |-> a] /\ job.at = "idle" /\ n \in known
        /\ Construct(a) /\ UNCHANGED <<known, attached, owned, lock, configured, call>>
    BY <1>1 DEF NewAppender, Begin, hierarchy
  <2>2. job' \in Jobs
    BY <2>1 DEF Jobs
  <2>3. life[a] = "unborn" /\ life'[a] = "alive"
    BY <2>1 DEF Construct, CategoryInv, CategoryTypeOK
  <2>4. /\ \A m \in Names : a \notin attached[m]
        /\ \A x \in AppenderNames : configured[x] # a
    BY <2>1, <2>3, CategoryAssumption DEF CategoryInv, Referred
  <2>5. Working'
    BY <2>1, <2>3, <2>4 DEF Working
  <2>6. QED
    BY <2>1, <2>2, <2>5, ConstructStep
<1>2. CASE AddReference(n, a)
  <2>1. /\ n \in known /\ Insert(n, a, FALSE) /\ life[a] = "alive" /\ job.at = "idle"
        /\ \A m \in Names : a \notin owned[m]
        /\ UNCHANGED <<known, lock, life, registry, configured, job>>
    BY <1>2 DEF AddReference, Begin, objects
  <2>2. job' \in Jobs /\ Working'
    BY <2>1 DEF CategoryInv, CategoryTypeOK, Working
  <2>3. FALSE \in BOOLEAN
    OBVIOUS
  <2>4. QED
    BY <2>1, <2>2, <2>3, InsertStep
<1>3. CASE RemoveAppender(n, a)
  <2>1. /\ a \in attached[n] /\ lock[n] = Nobody /\ Disturb /\ job.at = "idle"
        /\ attached' = [attached EXCEPT ![n] = @ \ {a}] /\ owned' = [owned EXCEPT ![n] = @ \ {a}]
        /\ IF a \in owned[n] THEN Delete({a}) ELSE UNCHANGED <<life, registry>>
        /\ UNCHANGED <<known, lock, configured, job>>
    BY <1>3 DEF RemoveAppender, Begin
  <2>2. job' \in Jobs /\ Working'
    BY <2>1 DEF CategoryInv, CategoryTypeOK, Working
  <2>3. {a} \in SUBSET attached[n] /\ (a \in owned[n] => {a} \cap owned[n] = {a})
        /\ (a \notin owned[n] => {a} \cap owned[n] = {})
    BY <2>1
  <2>4. Delete({a} \cap owned[n]) \/ (UNCHANGED <<life, registry>> /\ {a} \cap owned[n] = {})
    BY <2>1, <2>3
  <2>5. QED
    BY <2>1, <2>2, <2>3, <2>4, TakeAway
<1>4. QED
  BY <1>1, <1>2, <1>3

LEMMA DeletingInv ==
  ASSUME CategoryInv,
         \/ \E n \in Names : RemoveAllAppenders(n)
         \/ \E a \in Appenders : DeleteReferenced(a)
  PROVE  CategoryInv'
<1>1. ASSUME NEW n \in Names, RemoveAllAppenders(n) PROVE CategoryInv'
  <2>1. RemoveAll(n) /\ job.at = "idle" /\ UNCHANGED <<known, lock, configured, job>>
    BY <1>1 DEF RemoveAllAppenders, Begin
  <2>2. job' \in Jobs /\ Working'
    BY <2>1 DEF CategoryInv, CategoryTypeOK, Working
  <2>3. QED
    BY <2>1, <2>2, RemoveAllStep
<1>2. ASSUME NEW a \in Appenders, DeleteReferenced(a) PROVE CategoryInv'
  <2>1. /\ life[a] = "alive" /\ a \notin Range(configured) /\ job.at = "idle"
        /\ \A m \in Names : a \notin attached[m]
        /\ Delete({a}) /\ UNCHANGED <<known, attached, owned, lock, configured, call, job>>
    BY <1>2 DEF DeleteReferenced, Begin, hierarchy
  <2>2. /\ life' \in [Appenders -> {"unborn", "alive", "deleted", "twice"}]
        /\ registry' \in [AppenderNames -> Appenders \cup {NoAppender}]
        /\ \A b \in Appenders \ {a} : life'[b] = life[b]
        /\ \A b \in Appenders : life'[b] # "twice"
        /\ \A x \in AppenderNames :
             registry'[x] # NoAppender => life'[registry'[x]] = "alive" /\ NameOf[registry'[x]] = x
    <3>1. {a} \in SUBSET Appenders /\ \A b \in {a} : life[b] = "alive"
      BY <2>1
    <3>2. QED
      BY <2>1, <3>1, DeleteObjects DEF CategoryInv
  <2>3. Calling' /\ call' = [t \in Loggers |-> call'[t]]
    BY <2>1, CallsGoOn DEF CategoryInv
  <2>4. CategoryTypeOK' /\ OwnedAlone' /\ KnownHaveAll' /\ Working'
    BY <2>1, <2>2, <2>3 DEF CategoryInv, CategoryTypeOK, OwnedAlone, KnownHaveAll, Working
  <2>5. Referred'
    <3>1. /\ \A x \in AppenderNames : configured[x] # a
          /\ \A x \in AppenderNames : configured[x] \in Appenders \cup {NoAppender}
          /\ attached \in [Names -> SUBSET Appenders]
      BY <2>1 DEF CategoryInv, CategoryTypeOK, Range
    <3>2. QED
      BY <2>1, <2>2, <3>1 DEF CategoryInv, Referred
  <2>6. QED
    BY <2>3, <2>4, <2>5 DEF CategoryInv
<1>3. QED
  BY <1>1, <1>2

\* The property configurator: up to the first category.
LEMMA FileInv ==
  ASSUME CategoryInv,
         \/ \E f \in Files : Configure(f)
         \/ InstantiateAppender \/ ConfigureCategory \/ Configured
  PROVE  CategoryInv'
<1>1. /\ job \in Jobs /\ known \subseteq Names /\ Idle \in Jobs /\ Idle.at = "idle"
      /\ life \in [Appenders -> {"unborn", "alive", "deleted", "twice"}]
      /\ registry \in [AppenderNames -> Appenders \cup {NoAppender}]
  BY IdleJob DEF CategoryInv, CategoryTypeOK
<1>2. ASSUME NEW f \in Files, Configure(f) PROVE CategoryInv'
  <2>1. /\ UNCHANGED <<Appending, known, lock, call>> /\ job.at = "idle"
        /\ job' = [at |-> "appenders", todo |-> f.appenders, cats |-> f.categories]
    BY <1>2 DEF Configure, Begin, hierarchy, objects, Appending
  <2>2. f.appenders \in Seq(AppenderEntry) /\ f.categories \in Seq(CategoryEntry)
    BY CategoryAssumption
  <2>3. job' \in Jobs
    BY <2>1, <2>2 DEF Jobs
  <2>4. Working'
    BY <2>1 DEF Working
  <2>5. QED
    BY <1>1, <2>1, <2>3, <2>4, QuietStep
<1>3. CASE InstantiateAppender
  <2> DEFINE d == Head(job.todo)
  <2>1. /\ job.at = "appenders" /\ job.todo # <<>> /\ job.todo \in Seq(AppenderEntry)
        /\ job = [at |-> job.at, todo |-> job.todo, cats |-> job.cats]
        /\ job.cats \in Seq(CategoryEntry)
    BY <1>1, <1>3, JobForms DEF InstantiateAppender
  <2>2. d \in AppenderEntry /\ Tail(job.todo) \in Seq(AppenderEntry)
    BY <2>1, HeadTailProperties
  <2>3. d.name \in AppenderNames
    BY <2>2 DEF AppenderEntry
  <2>4. job' = Idle \/ job' = [at |-> "appenders", todo |-> Tail(job.todo), cats |-> job.cats]
    BY <1>3, <2>1 DEF InstantiateAppender
  <2>5. job' \in Jobs /\ job'.at \in {"idle", "appenders"} /\ Working'
    <3>1. CASE job' = Idle
      BY <1>1, <3>1 DEF Working
    <3>2. CASE job' = [at |-> "appenders", todo |-> Tail(job.todo), cats |-> job.cats]
      <4>1. job' \in Jobs
        BY <2>1, <2>2, <3>2 DEF Jobs
      <4>2. job'.at = "appenders" /\ Working'
        BY <3>2 DEF Working
      <4>3. QED
        BY <4>1, <4>2
    <3>3. QED
      BY <2>4, <3>1, <3>2
  <2>6. UNCHANGED <<known, attached, owned, lock, call>>
    BY <1>3 DEF InstantiateAppender, hierarchy
  <2>7. CASE UNCHANGED objects
    <3>1. UNCHANGED <<Appending, lock>> /\ known \subseteq known' /\ known' \subseteq Names
      BY <1>1, <2>6, <2>7 DEF Appending, objects
    <3>2. QED
      BY <2>1, <2>5, <2>6, <3>1, QuietStep
  <2>8. ASSUME NEW a \in Appenders, NameOf[a] = d.name, Construct(a),
               UNCHANGED configured \/ configured' = [configured EXCEPT ![d.name] = a]
        PROVE  CategoryInv'
    BY <2>1, <2>5, <2>6, <2>8, ConstructStep
  <2>9. ASSUME NEW a \in Appenders, NameOf[a] = d.name, life[a] = "unborn",
               life' = [life EXCEPT ![a] = "deleted"],
               registry' = [registry EXCEPT ![d.name] = NoAppender], UNCHANGED configured
        PROVE  CategoryInv'
    <3>1. /\ life' \in [Appenders -> {"unborn", "alive", "deleted", "twice"}]
          /\ registry' \in [AppenderNames -> Appenders \cup {NoAppender}]
          /\ \A b \in Appenders : life'[b] = IF b = a THEN "deleted" ELSE life[b]
          /\ \A x \in AppenderNames : registry'[x] \in {NoAppender, registry[x]}
      BY <1>1, <2>3, <2>9
    <3>2. Calling' /\ call' = [t \in Loggers |-> call'[t]]
      BY <2>6, CallsGoOn DEF CategoryInv
    <3>3. CategoryTypeOK' /\ OwnedAlone' /\ KnownHaveAll'
      <4>1. CategoryTypeOK'
        BY <2>5, <2>6, <2>9, <3>1, <3>2 DEF CategoryInv, CategoryTypeOK
      <4>2. OwnedAlone' /\ KnownHaveAll'
        BY <2>6, <2>9 DEF CategoryInv, OwnedAlone, KnownHaveAll
      <4>3. QED
        BY <4>1, <4>2
    <3>4. Referred'
      <4>1. \A b \in Appenders : life[b] = "alive" => life'[b] = "alive"
        BY <2>9, <3>1
      <4>2. /\ \A n \in Names : attached[n] \subseteq Appenders
            /\ \A x \in AppenderNames : configured[x] \in Appenders \cup {NoAppender}
            /\ \A x \in AppenderNames : registry[x] \in Appenders \cup {NoAppender}
        BY DEF CategoryInv, CategoryTypeOK
      <4>3. \A b \in Appenders : life'[b] # "twice"
        BY <3>1 DEF CategoryInv, Referred
      <4>4. QED
        BY <2>1, <2>6, <2>9, <3>1, <4>1, <4>2, <4>3 DEF CategoryInv, Referred
    <3>5. QED
      BY <2>5, <3>2, <3>3, <3>4 DEF CategoryInv
  <2>10. \/ UNCHANGED objects
         \/ \E a \in Appenders :
              /\ NameOf[a] = d.name /\ Construct(a)
              /\ UNCHANGED configured \/ configured' = [configured EXCEPT ![d.name] = a]
         \/ \E a \in Appenders :
              /\ NameOf[a] = d.name /\ life[a] = "unborn"
              /\ life' = [life EXCEPT ![a] = "deleted"]
              /\ registry' = [registry EXCEPT ![d.name] = NoAppender] /\ UNCHANGED configured
    BY <1>3 DEF InstantiateAppender
  <2>11. QED
    BY <2>7, <2>8, <2>9, <2>10
<1>4. CASE ConfigureCategory
  <2> DEFINE n == Head(job.cats).name
  <2>1. /\ job.at = "appenders" /\ job.cats # <<>> /\ job.cats \in Seq(CategoryEntry)
        /\ job.todo \in Seq(AppenderEntry)
        /\ job = [at |-> job.at, todo |-> job.todo, cats |-> job.cats]
    BY <1>1, <1>4, JobForms DEF ConfigureCategory
  <2>2. n \in Names
    <3>1. Head(job.cats) \in CategoryEntry
      BY <2>1, HeadTailProperties
    <3>2. QED
      BY <3>1 DEF CategoryEntry
  <2>3. /\ job' = [at |-> "priority", todo |-> job.todo, cats |-> job.cats]
        /\ known' = known \cup Path(n) /\ UNCHANGED <<Appending, lock, call>>
    BY <1>4, <2>1 DEF ConfigureCategory, GetInstance, objects, Appending
  <2>4. n \in Path(n) /\ Path(n) \subseteq Names
    BY <2>2 DEF Path
  <2>5. job' \in Jobs
    BY <2>1, <2>3 DEF Jobs
  <2>6. Working'
    BY <2>1, <2>3, <2>4 DEF Working
  <2>7. QED
    BY <1>1, <2>1, <2>3, <2>4, <2>5, <2>6, QuietStep
<1>5. CASE Configured
  <2>1. /\ job' = Idle /\ job.at = "appenders" /\ UNCHANGED <<Appending, known, lock, call>>
    BY <1>5 DEF Configured, hierarchy, objects, Appending
  <2>2. job' \in Jobs /\ Working'
    BY <1>1, <2>1 DEF Working
  <2>3. QED
    BY <1>1, <2>1, <2>2, QuietStep
<1>6. QED
  BY <1>2, <1>3, <1>4, <1>5

\* One category of a file after the other.
LEMMA ConfigureInv ==
  ASSUME CategoryInv,
         ConfigurePriority \/ ConfigureAdditivity \/ ConfigureClear \/ ConfigureAttach \/ NextCategory
  PROVE  CategoryInv'
<1> DEFINE n == Head(job.cats).name
<1>1. /\ job \in Jobs /\ known \subseteq Names /\ Idle \in Jobs /\ Idle.at = "idle"
      /\ job.at \in {"priority", "additivity", "clear", "attach"}
  BY IdleJob DEF CategoryInv, CategoryTypeOK, ConfigurePriority, ConfigureAdditivity,
                 ConfigureClear, ConfigureAttach, NextCategory
<1>2. /\ job = [at |-> job.at, todo |-> job.todo, cats |-> job.cats]
      /\ job.cats \in Seq(CategoryEntry) /\ job.cats # <<>> /\ n \in known
      /\ job.at = "attach" => job.todo \in Seq(AppenderNames)
      /\ job.at # "attach" => job.todo \in Seq(AppenderEntry)
  BY <1>1, JobForms DEF CategoryInv, Working
<1>3. /\ Head(job.cats) \in CategoryEntry /\ Tail(job.cats) \in Seq(CategoryEntry)
      /\ Head(job.cats).refs \in Seq(AppenderNames)
  <2>1. Head(job.cats) \in CategoryEntry /\ Tail(job.cats) \in Seq(CategoryEntry)
    BY <1>2, HeadTailProperties
  <2>2. QED
    BY <2>1 DEF CategoryEntry
<1>4. CASE ConfigurePriority \/ ConfigureAdditivity
  <2>1. /\ UNCHANGED <<Appending, known, lock>> /\ (Disturb \/ UNCHANGED call)
        /\ \/ job' = Idle
           \/ \E next \in {"additivity", "clear"} : job' = [at |-> next, todo |-> job.todo, cats |-> job.cats]
    BY <1>2, <1>4 DEF ConfigurePriority, ConfigureAdditivity, objects, Appending
  <2>2. job.at # "attach"
    BY <1>4 DEF ConfigurePriority, ConfigureAdditivity
  <2>3. job' \in Jobs
    BY <1>1, <1>2, <2>1, <2>2 DEF Jobs
  <2>4. Working'
    BY <1>1, <1>2, <2>1 DEF Working
  <2>5. QED
    BY <1>1, <2>1, <2>3, <2>4, QuietStep
<1>5. CASE ConfigureClear
  <2>1. /\ RemoveAll(n) /\ UNCHANGED <<known, lock, configured>>
        /\ job' = [at |-> "attach", todo |-> Head(job.cats).refs, cats |-> job.cats]
    BY <1>5 DEF ConfigureClear
  <2>2. job' \in Jobs
    BY <1>2, <1>3, <2>1 DEF Jobs
  <2>3. Working'
    BY <1>2, <2>1 DEF Working
  <2>4. n \in Names /\ job.at # "off"
    BY <1>1, <1>2
  <2>5. QED
    BY <2>1, <2>2, <2>3, <2>4, RemoveAllStep
<1>6. CASE ConfigureAttach
  <2> DEFINE a == configured[Head(job.todo)]
  <2>1. /\ job.at = "attach" /\ job.todo # <<>> /\ UNCHANGED <<known, lock, life, registry, configured>>
    BY <1>6 DEF ConfigureAttach, objects
  <2>2. Head(job.todo) \in AppenderNames /\ Tail(job.todo) \in Seq(AppenderNames)
    BY <1>2, <2>1, HeadTailProperties
  <2>3. CASE a = NoAppender
    <3>1. job' = Idle /\ UNCHANGED <<Appending, call>>
      BY <1>6, <2>1, <2>3 DEF ConfigureAttach, Appending
    <3>2. job' \in Jobs /\ Working'
      BY <1>1, <3>1 DEF Working
    <3>3. QED
      BY <1>1, <2>1, <3>1, <3>2, QuietStep
  <2>4. CASE a # NoAppender
    <3>1. /\ Insert(n, a, FALSE)
          /\ job' = [at |-> "attach", todo |-> Tail(job.todo), cats |-> job.cats]
      BY <1>2, <1>6, <2>1, <2>4 DEF ConfigureAttach
    <3>2. /\ a \in Appenders /\ life[a] = "alive"
          /\ \A m \in Names : a \notin owned[m]
      BY <2>1, <2>2, <2>4 DEF CategoryInv, CategoryTypeOK, Referred, OwnedAlone
    <3>3. job' \in Jobs
      BY <1>2, <2>2, <3>1 DEF Jobs
    <3>4. Working'
      BY <1>2, <2>1, <3>1 DEF Working
    <3>5. FALSE \in BOOLEAN /\ job.at # "off"
      BY <2>1
    <3>6. QED
      BY <1>2, <2>1, <3>1, <3>2, <3>3, <3>4, <3>5, InsertStep
  <2>5. QED
    BY <2>3, <2>4
<1>7. CASE NextCategory
  <2>1. /\ UNCHANGED <<Appending, known, lock, call>>
        /\ job' = [at |-> "appenders", todo |-> <<>>, cats |-> Tail(job.cats)]
    BY <1>7 DEF NextCategory, hierarchy, objects, Appending
  <2>2. <<>> \in Seq(AppenderEntry)
    BY EmptySeq
  <2>3. job' \in Jobs
    BY <1>3, <2>1, <2>2 DEF Jobs
  <2>4. Working'
    BY <2>1 DEF Working
  <2>5. QED
    BY <1>1, <2>1, <2>3, <2>4, QuietStep
<1>8. QED
  BY <1>4, <1>5, <1>6, <1>7

\* shutdown goes through every category that has appenders; what is released
\* afterwards is attached nowhere.
LEMMA ShutdownInv ==
  ASSUME CategoryInv,
         \/ \E forced \in BOOLEAN : Shutdown(forced)
         \/ ShutdownCategory \/ ShutdownEnd \/ DeleteAllAppenders
  PROVE  CategoryInv'
<1>1. /\ job \in Jobs /\ known \subseteq Names /\ Idle \in Jobs /\ Idle.at = "idle"
      /\ registry \in [AppenderNames -> Appenders \cup {NoAppender}]
  BY IdleJob DEF CategoryInv, CategoryTypeOK
<1>2. ASSUME NEW forced \in BOOLEAN, Shutdown(forced) PROVE CategoryInv'
  <2>1. /\ UNCHANGED <<Appending, known, lock, call>> /\ job.at = "idle"
        /\ job' = [at |-> "shutdown", todo |-> known, forced |-> forced]
    BY <1>2 DEF Shutdown, Begin, hierarchy, objects, Appending
  <2>2. job' \in Jobs
    BY <1>1, <2>1 DEF Jobs
  <2>3. Working'
    BY <2>1 DEF CategoryInv, Working, KnownHaveAll, Appending
  <2>4. QED
    BY <1>1, <2>1, <2>2, <2>3, QuietStep
<1>3. CASE ShutdownCategory
  <2>1. PICK n \in job.todo : RemoveAll(n) /\ job' = [job EXCEPT !.todo = @ \ {n}]
    BY <1>3 DEF ShutdownCategory
  <2>2. /\ job.at = "shutdown" /\ job.todo \in SUBSET Names /\ job.forced \in BOOLEAN
        /\ job = [at |-> "shutdown", todo |-> job.todo, forced |-> job.forced]
        /\ UNCHANGED <<known, lock, configured>>
    BY <1>1, <1>3, JobForms DEF ShutdownCategory
  <2>3. job' = [at |-> "shutdown", todo |-> job.todo \ {n}, forced |-> job.forced]
    BY <2>1, <2>2
  <2>4. job' \in Jobs
    BY <2>2, <2>3 DEF Jobs
  <2>5. Working'
    <3>1. \A m \in Names : attached'[m] = IF m = n THEN {} ELSE attached[m]
      BY <2>1 DEF CategoryInv, CategoryTypeOK, RemoveAll
    <3>2. \A m \in Names : attached[m] # {} => m \in job.todo
      BY <2>2 DEF CategoryInv, Working
    <3>3. QED
      BY <2>3, <3>1, <3>2 DEF Working
  <2>6. n \in Names
    BY <2>1, <2>2
  <2>7. QED
    BY <2>1, <2>2, <2>4, <2>5, <2>6, RemoveAllStep
<1>4. CASE ShutdownEnd
  <2>1. /\ UNCHANGED <<Appending, known, lock, call>> /\ job.at = "shutdown" /\ job.todo = {}
        /\ job' = Idle \/ job' = [at |-> "release"]
    BY <1>4 DEF ShutdownEnd, hierarchy, objects, Appending
  <2>2. job' \in Jobs
    BY <1>1, <2>1 DEF Jobs
  <2>3. Working'
    BY <1>1, <2>1 DEF CategoryInv, Working, Appending
  <2>4. QED
    BY <1>1, <2>1, <2>2, <2>3, QuietStep
<1>5. CASE DeleteAllAppenders
  <2> DEFINE S == Range(registry) \ {NoAppender}
  <2>1. /\ job.at = "release" /\ job' = [at |-> "off"] /\ Delete(S)
        /\ UNCHANGED <<known, attached, owned, lock, configured, call>>
    BY <1>5 DEF DeleteAllAppenders, hierarchy
  <2>2. \A n \in Names : attached[n] = {} /\ owned[n] = {}
    BY <2>1 DEF CategoryInv, CategoryTypeOK, Working, OwnedAlone
  <2>3. S \in SUBSET Appenders /\ \A a \in S : life[a] = "alive"
    BY <1>1 DEF Range, CategoryInv, Referred
  <2>4. /\ life' \in [Appenders -> {"unborn", "alive", "deleted", "twice"}]
        /\ registry' \in [AppenderNames -> Appenders \cup {NoAppender}]
        /\ \A a \in Appenders : life'[a] # "twice"
        /\ \A x \in AppenderNames :
             registry'[x] # NoAppender => life'[registry'[x]] = "alive" /\ NameOf[registry'[x]] = x
    BY <2>1, <2>3, DeleteObjects DEF CategoryInv
  <2>5. Calling' /\ call' = [t \in Loggers |-> call'[t]]
    BY <2>1, CallsGoOn DEF CategoryInv
  <2>6. job' \in Jobs /\ job'.at = "off"
    BY <2>1 DEF Jobs
  <2>7. CategoryTypeOK'
    BY <2>1, <2>4, <2>5, <2>6 DEF CategoryInv, CategoryTypeOK
  <2>8. OwnedAlone' /\ KnownHaveAll' /\ Referred'
    BY <2>1, <2>2, <2>4, <2>6 DEF OwnedAlone, KnownHaveAll, Referred
  <2>9. Working'
    BY <2>1, <2>2, <2>6 DEF Working
  <2>10. QED
    BY <2>5, <2>7, <2>8, <2>9 DEF CategoryInv
<1>6. QED
  BY <1>2, <1>3, <1>4, <1>5

LEMMA AddInv ==
  ASSUME CategoryInv, AddAppender \/ RefuseLayout
  PROVE  CategoryInv'
<1>1. job.at = "insert" /\ job \in Jobs /\ job' = Idle
  BY DEF AddAppender, RefuseLayout, CategoryInv, CategoryTypeOK
<1>2. job' \in Jobs /\ Working'
  BY <1>1, IdleJob DEF Working
<1>3. CASE AddAppender
  <2>1. /\ Insert(job.cat, job.obj, TRUE)
        /\ UNCHANGED <<known, lock, life, registry, configured>>
    BY <1>3 DEF AddAppender, objects
  <2>2. /\ job.cat \in known /\ job.obj \in Appenders /\ life[job.obj] = "alive"
        /\ \A m \in Names : job.obj \notin attached[m] /\ job.obj \notin owned[m]
        /\ \A x \in AppenderNames : configured[x] # job.obj
    BY <1>1, JobForms DEF CategoryInv, Working, OwnedAlone
  <2>3. TRUE \in BOOLEAN
    OBVIOUS
  <2>4. QED
    BY <1>1, <1>2, <2>1, <2>2, <2>3, InsertStep
<1>4. CASE RefuseLayout
  <2>1. /\ UNCHANGED <<Appending, lock, call>>
        /\ known \subseteq known' /\ known' \subseteq Names
    BY <1>4 DEF RefuseLayout, hierarchy, objects, Appending, CategoryInv, CategoryTypeOK
  <2>2. QED
    BY <1>1, <1>2, <2>1, QuietStep
<1>5. QED
  BY <1>3, <1>4
-----------------------------------------------------------------------------
LEMMA NextInv == CategoryInv /\ [CategoryNext]_categoryVars => CategoryInv'
<1> SUFFICES ASSUME CategoryInv, [CategoryNext]_categoryVars PROVE CategoryInv'
  OBVIOUS
<1>1. CASE UNCHANGED categoryVars
  <2>1. UNCHANGED <<Appending, known, lock, call, job>>
    BY <1>1 DEF categoryVars, hierarchy, objects, Appending
  <2>2. QED
    BY <2>1 DEF CategoryInv, CategoryTypeOK, OwnedAlone, Referred, KnownHaveAll, Calling, Working, Appending
<1>2. CASE JobStep
  BY <1>2, AddInv, FileInv, ConfigureInv, ShutdownInv DEF JobStep
<1>3. CASE ConfigurerNext
  <2>1. ASSUME NEW n \in Names,
               \/ \E p \in Levels \cup {NOTSET} : SetPriority(n, p)
               \/ \E b \in BOOLEAN : SetAdditivity(n, b)
        PROVE  CategoryInv'
    BY <2>1, SettingInv
  <2>2. ASSUME NEW n \in Names, NEW a \in Appenders,
               NewAppender(n, a) \/ AddReference(n, a) \/ RemoveAppender(n, a)
        PROVE  CategoryInv'
    BY <2>2, AppenderInv
  <2>3. CASE (\E n \in Names : RemoveAllAppenders(n)) \/ \E a \in Appenders : DeleteReferenced(a)
    BY <2>3, DeletingInv
  <2>4. CASE (\E f \in Files : Configure(f)) \/ \E forced \in BOOLEAN : Shutdown(forced)
    BY <2>4, FileInv, ShutdownInv
  <2>5. QED
    BY <1>2, <1>3, <2>1, <2>2, <2>3, <2>4 DEF ConfigurerNext
<1>4. CASE \E t \in Loggers : LoggerNext(t)
  BY <1>4, LoggerInv
<1>5. QED
  BY <1>1, <1>3, <1>4 DEF CategoryNext

\* What the references are and whose they are: the shape of the state, and
\* the rule that whoever owns an appender is the only one that refers to it.
THEOREM CategoryInvariant == CategorySpec => []CategoryInv
<1>1. CategoryInit => CategoryInv
  BY InitInv
<1>2. CategoryInv /\ [CategoryNext]_categoryVars => CategoryInv'
  BY NextInv
<1>3. QED
  BY <1>1, <1>2, PTL DEF CategorySpec

\* Nobody follows a pointer to an appender that was deleted, neither the
\* threads inside callAppenders (Category.cpp:227) nor reopenAll and closeAll
\* (Appender.cpp:70-87), and no appender is deleted twice.
THEOREM LiveAppenders == CategorySpec => []OnlyLiveAppenders
<1>1. CategoryInv => OnlyLiveAppenders
  <2> SUFFICES ASSUME CategoryInv PROVE OnlyLiveAppenders
    OBVIOUS
  <2>1. ASSUME NEW t \in Loggers, call[t].at = "append" PROVE life[call[t].using] = "alive"
    <3>1. /\ call[t].cat \in Names /\ call[t].using \in call[t].todo
          /\ call[t].todo \subseteq attached[call[t].cat]
      BY <2>1 DEF CategoryInv, Calling
    <3>2. QED
      BY <3>1 DEF CategoryInv, Referred
  <2>2. QED
    BY <2>1 DEF OnlyLiveAppenders, CategoryInv, Referred
<1>2. QED
  BY <1>1, CategoryInvariant, PTL
-----------------------------------------------------------------------------
(***************************************************************************)
(* Who hears an event.  The categories that a call will still come to are   *)
(* those above the one it is in; each of them comes once.                   *)
(***************************************************************************)
UpFrom(n) == {c \in Names : \A S \in SUBSET Names :
                n \in S /\ (\A m \in S : additive[m] => ParentOf[m] \in S \cup {NoName}) => c \in S}

LEMMA UpFromParent ==
  ASSUME NEW n \in Names
  PROVE  UpFrom(n) = {n} \cup (IF additive[n] /\ ParentOf[n] # NoName THEN UpFrom(ParentOf[n]) ELSE {})
<1> DEFINE Closed(S) == \A m \in S : additive[m] => ParentOf[m] \in S \cup {NoName}
           p == ParentOf[n]
           above == IF additive[n] /\ p # NoName THEN UpFrom(p) ELSE {}
<1>1. \A m \in Names : \A c : c \in UpFrom(m) <=> c \in Names /\ \A S \in SUBSET Names : m \in S /\ Closed(S) => c \in S
  BY DEF UpFrom
<1>2. \A m \in Names : ParentOf[m] \in Names \cup {NoName}
  BY CategoryAssumption
<1>3. n \in UpFrom(n)
  BY <1>1
<1>4. ASSUME additive[n], p # NoName, NEW c \in UpFrom(p) PROVE c \in UpFrom(n)
  <2>1. p \in Names
    BY <1>2, <1>4
  <2>2. c \in Names /\ \A S \in SUBSET Names : p \in S /\ Closed(S) => c \in S
    BY <1>1, <1>4, <2>1
  <2>3. \A S \in SUBSET Names : n \in S /\ Closed(S) => p \in S
    BY <1>4
  <2>4. \A S \in SUBSET Names : n \in S /\ Closed(S) => c \in S
    BY <2>2, <2>3
  <2>5. QED
    BY <1>1, <2>2, <2>4
<1>5. {n} \cup above \in SUBSET Names /\ n \in {n} \cup above
  BY DEF UpFrom
<1>6. Closed({n} \cup above)
  <2> SUFFICES ASSUME NEW m \in {n} \cup above, additive[m], ParentOf[m] # NoName
               PROVE  ParentOf[m] \in {n} \cup above
    OBVIOUS
  <2>1. m \in Names /\ ParentOf[m] \in Names
    BY <1>2, <1>5
  <2>2. CASE m = n
    <3>1. above = UpFrom(p) /\ p \in Names
      BY <2>1, <2>2
    <3>2. p \in UpFrom(p)
      BY <1>1, <3>1
    <3>3. QED
      BY <2>2, <3>1, <3>2
  <2>3. CASE m # n
    <3>1. additive[n] /\ p # NoName /\ m \in UpFrom(p) /\ above = UpFrom(p) /\ p \in Names
      BY <1>2, <2>3
    <3>2. \A S \in SUBSET Names : p \in S /\ Closed(S) => m \in S
      BY <1>1, <3>1
    <3>3. \A S \in SUBSET Names : p \in S /\ Closed(S) => ParentOf[m] \in S
      BY <3>2
    <3>4. ParentOf[m] \in UpFrom(p)
      BY <1>1, <2>1, <3>1, <3>3
    <3>5. QED
      BY <3>1, <3>4
  <2>4. QED
    BY <2>2, <2>3
<1>7. UpFrom(n) \subseteq {n} \cup above
  <2> HIDE DEF above, Closed
  <2>1. PICK T \in SUBSET Names : T = {n} \cup above
    BY <1>5
  <2>2. n \in T /\ Closed(T)
    BY <1>5, <1>6, <2>1
  <2>3. \A c \in UpFrom(n) : c \in T
    BY <1>1, <2>2
  <2>4. QED
    BY <2>1, <2>3
<1>8. QED
  BY <1>3, <1>4, <1>7

\* The recursion has a value, and it is this set.
LEMMA ReachedIs ==
  /\ Reached[NoName] = {}
  /\ \A n \in Names : Reached[n] = {n} \cup (IF additive[n] THEN Reached[ParentOf[n]] ELSE {})
<1> DEFINE D == Names \cup {NoName}
           g == [n \in D |-> IF n = NoName THEN {} ELSE UpFrom(n)]
           R == CHOOSE h : h = [n \in D |-> IF n = NoName THEN {}
                                            ELSE {n} \cup (IF additive[n] THEN h[ParentOf[n]] ELSE {})]
<1>1. \A n \in Names : n # NoName /\ n \in D /\ ParentOf[n] \in D
  BY CategoryAssumption
<1>2. g = [n \in D |-> IF n = NoName THEN {} ELSE {n} \cup (IF additive[n] THEN g[ParentOf[n]] ELSE {})]
  <2>1. ASSUME NEW n \in Names
        PROVE  g[n] = {n} \cup (IF additive[n] THEN g[ParentOf[n]] ELSE {})
    <3>1. g[n] = {n} \cup (IF additive[n] /\ ParentOf[n] # NoName THEN UpFrom(ParentOf[n]) ELSE {})
      BY <1>1, UpFromParent
    <3>2. g[ParentOf[n]] = IF ParentOf[n] = NoName THEN {} ELSE UpFrom(ParentOf[n])
      BY <1>1
    <3>3. QED
      BY <3>1, <3>2
  <2>2. g[NoName] = {} /\ g = [n \in D |-> g[n]]
    OBVIOUS
  <2> HIDE DEF g
  <2>3. \A n \in D : n = NoName \/ (n \in Names /\ n # NoName)
    OBVIOUS
  <2>4. \A n \in D : g[n] = IF n = NoName THEN {} ELSE {n} \cup (IF additive[n] THEN g[ParentOf[n]] ELSE {})
    BY <2>1, <2>2, <2>3
  <2>5. QED
    BY <2>2, <2>4
<1> HIDE DEF g
<1>3. R = [n \in D |-> IF n = NoName THEN {} ELSE {n} \cup (IF additive[n] THEN R[ParentOf[n]] ELSE {})]
  BY <1>2
<1>4. Reached = R
  BY DEF Reached
<1> HIDE DEF R
<1>5. QED
  BY <1>1, <1>3, <1>4

\* What is above a category is finite and does not come back to it.
LEMMA ReachedOnce ==
  \A n \in Names : /\ Reached[n] \subseteq Names /\ IsFiniteSet(Reached[n])
                   /\ additive[n] => n \notin Reached[ParentOf[n]]
<1>1. \A n \in Names : ParentOf[n] \in Names \cup {NoName} /\ n # NoName
  BY CategoryAssumption
<1> DEFINE T == {n \in Names : Reached[n] \subseteq Names /\ IsFiniteSet(Reached[n])}
           U == {n \in Names : \A c \in Reached[n] : Reached[c] \subseteq Reached[n]}
           V == {n \in Names : additive[n] => n \notin Reached[ParentOf[n]]}
<1>2. T = Names
  <2>1. ASSUME NEW n \in Names, ParentOf[n] \in T \cup {NoName} PROVE n \in T
    <3>1. Reached[ParentOf[n]] \subseteq Names /\ IsFiniteSet(Reached[ParentOf[n]])
      BY <1>1, <2>1, ReachedIs, FS_EmptySet
    <3>2. IsFiniteSet({}) /\ IsFiniteSet({n}) /\ \A S : IsFiniteSet(S) => IsFiniteSet({n} \cup S)
      BY FS_EmptySet, FS_Singleton, FS_Union
    <3>3. Reached[n] = {n} \cup Reached[ParentOf[n]] \/ Reached[n] = {n}
      BY ReachedIs
    <3>4. QED
      BY <3>1, <3>2, <3>3
  <2>2. T \in SUBSET Names
    OBVIOUS
  <2> HIDE DEF T
  <2>3. QED
    BY <2>1, <2>2, HierarchyAssumption
<1>3. U = Names
  <2>1. ASSUME NEW n \in Names, ParentOf[n] \in U \cup {NoName} PROVE n \in U
    <3>1. \A c \in Reached[ParentOf[n]] : Reached[c] \subseteq Reached[ParentOf[n]]
      BY <2>1, ReachedIs
    <3>2. Reached[n] = {n} \cup Reached[ParentOf[n]] \/ Reached[n] = {n}
      BY ReachedIs
    <3>3. QED
      BY <3>1, <3>2
  <2>2. U \in SUBSET Names
    OBVIOUS
  <2> HIDE DEF U
  <2>3. QED
    BY <2>1, <2>2, HierarchyAssumption
<1>4. V = Names
  <2>1. ASSUME NEW n \in Names, ParentOf[n] \in V \cup {NoName}, additive[n], n \in Reached[ParentOf[n]]
        PROVE  FALSE
    <3> DEFINE p == ParentOf[n]
    <3>1. p \in Names /\ (additive[p] => p \notin Reached[ParentOf[p]])
      BY <1>1, <2>1, ReachedIs
    <3>2. n # p
      BY <2>1, <3>1
    <3>3. additive[p] /\ n \in Reached[ParentOf[p]]
      BY <2>1, <3>1, <3>2, ReachedIs
    <3>4. ParentOf[p] \in Names
      BY <1>1, <3>1, <3>3, ReachedIs
    <3>5. Reached[n] \subseteq Reached[ParentOf[p]]
      BY <1>3, <3>3, <3>4
    <3>6. p \in Reached[n]
      BY <2>1, <3>1, ReachedIs
    <3>7. QED
      BY <3>1, <3>3, <3>5, <3>6
  <2>2. V \in SUBSET Names
    OBVIOUS
  <2>3. \A n \in Names : ParentOf[n] \in V \cup {NoName} => n \in V
    BY <2>1
  <2> HIDE DEF V
  <2>4. QED
    BY <2>2, <2>3, HierarchyAssumption
<1>5. QED
  BY <1>2, <1>3, <1>4

LEMMA ReachedStays == UNCHANGED additive => Reached' = Reached
BY DEF Reached

Calls ==
  [at : {"enter", "loop", "append", "leave"}, cat : Names, level : EventLevels,
   held : Seq(Names), todo : SUBSET Appenders, using : Appenders \cup {NoAppender},
   disturbed : BOOLEAN, heard : [Appenders -> Nat], due : [Appenders -> Nat]]

\* The categories that are still to be entered.
StillToEnter(x) ==
  IF x.at = "enter" THEN Reached[x.cat]
  ELSE IF x.at # "leave" /\ additive[x.cat] THEN Reached[ParentOf[x.cat]] ELSE {}

\* In how many categories of S the appender a is.
Times(S, a) == Cardinality({c \in S : a \in attached[c]})

Once(b) == IF b THEN 1 ELSE 0

HeardSoFar(x) ==
  \A a \in Appenders :
     IF Passes(a, x.level)
     THEN x.due[a] = x.heard[a] + Times(StillToEnter(x), a) + Once(a \in x.todo)
     ELSE x.due[a] = 0 /\ x.heard[a] = 0

CallInv(x) ==
  x # Idle => /\ x \in Calls
              /\ x.at \in {"enter", "leave"} => x.todo = {}
              /\ x.at = "append" => x.using \in x.todo
              /\ ~x.disturbed => HeardSoFar(x)

HeardInv == CategoryInv /\ \A t \in Loggers : CallInv(call[t])

LEMMA TimesIs ==
  ASSUME NEW n \in Names, NEW a \in Appenders
  PROVE  /\ Times(Reached[n], a) \in Nat
         /\ Times(IF additive[n] THEN Reached[ParentOf[n]] ELSE {}, a) \in Nat
         /\ Times({}, a) = 0
         /\ Times(Reached[n], a) =
              Times(IF additive[n] THEN Reached[ParentOf[n]] ELSE {}, a) + Once(a \in attached[n])
<1> DEFINE rest == IF additive[n] THEN Reached[ParentOf[n]] ELSE {}
           C == {c \in rest : a \in attached[c]}
<1>1. Reached[n] = {n} \cup rest
  BY ReachedIs
<1>2. n \notin rest /\ IsFiniteSet(Reached[n]) /\ IsFiniteSet({})
  BY ReachedOnce, FS_EmptySet
<1> HIDE DEF rest
<1>3. IsFiniteSet(C) /\ n \notin C
  BY <1>1, <1>2, FS_Subset
<1>4. {c \in Reached[n] : a \in attached[c]} = IF a \in attached[n] THEN C \cup {n} ELSE C
  BY <1>1
<1>5. Cardinality(C \cup {n}) = Cardinality(C) + 1 /\ Cardinality(C) \in Nat
  BY <1>3, FS_AddElement, FS_CardinalityType
<1>6. {c \in {} : a \in attached[c]} = {}
  OBVIOUS
<1>7. Cardinality({}) = 0
  BY FS_EmptySet
<1> HIDE DEF C
<1>8. PICK k \in Nat : k = Cardinality(C)
  BY <1>5
<1>9. PICK X : X = {c \in Reached[n] : a \in attached[c]}
  OBVIOUS
<1>10. Cardinality(X) = k + Once(a \in attached[n])
  <2>1. CASE a \in attached[n]
    <3>1. X = C \cup {n} /\ Once(a \in attached[n]) = 1
      BY <1>4, <1>9, <2>1 DEF Once
    <3>2. QED
      BY <1>5, <1>8, <3>1
  <2>2. CASE a \notin attached[n]
    <3>1. X = C /\ Once(a \in attached[n]) = 0
      BY <1>4, <1>9, <2>2 DEF Once
    <3>2. Cardinality(X) = k /\ k + 0 = k
      BY <1>8, <3>1
    <3>3. QED
      BY <3>1, <3>2
  <2>3. QED
    BY <2>1, <2>2
<1>11. Once(a \in attached[n]) \in Nat
  BY DEF Once
<1>12. Times(Reached[n], a) = Times(rest, a) + Once(a \in attached[n]) /\ Times(rest, a) = k
  BY <1>8, <1>9, <1>10 DEF Times, C
<1>13. Times(Reached[n], a) \in Nat /\ Times(rest, a) \in Nat
  BY <1>11, <1>12
<1>14. QED
  BY <1>6, <1>7, <1>12, <1>13 DEF Times, rest

\* A step that leaves the hierarchy as it is.
LEMMA HeardStays ==
  ASSUME UNCHANGED <<additive, attached>>, NEW x
  PROVE  CallInv(x)' = CallInv(x)
<1>1. Reached' = Reached
  BY ReachedStays
<1>2. StillToEnter(x)' = StillToEnter(x)
  BY <1>1 DEF StillToEnter
<1>3. \A S, a : Times(S, a)' = Times(S, a)
  BY DEF Times
<1>4. HeardSoFar(x)' = HeardSoFar(x)
  BY <1>2, <1>3 DEF HeardSoFar
<1>5. QED
  BY <1>4 DEF CallInv

LEMMA CallFields ==
  ASSUME NEW x \in Calls
  PROVE  /\ x.at \in {"enter", "loop", "append", "leave"} /\ x.cat \in Names /\ x.level \in EventLevels
         /\ x.held \in Seq(Names) /\ x.todo \subseteq Appenders /\ x.using \in Appenders \cup {NoAppender}
         /\ x.disturbed \in BOOLEAN /\ x.heard \in [Appenders -> Nat] /\ x.due \in [Appenders -> Nat]
BY DEF Calls

\* A step of a call, from the record x to the record y.
LEMMA OneCallHeard ==
  ASSUME HeardInv, CategoryInv', UNCHANGED <<additive, attached>>, NEW t \in Loggers,
         NEW y, call' = [call EXCEPT ![t] = y], CallInv(y)
  PROVE  HeardInv'
<1>1. DOMAIN call = Loggers
  BY DEF HeardInv, CategoryInv, CategoryTypeOK
<1>2. \A u \in Loggers : call'[u] = y \/ call'[u] = call[u]
  BY <1>1
<1>3. ASSUME NEW u \in Loggers PROVE CallInv(call[u])'
  <2>1. PICK z : z = call'[u]
    OBVIOUS
  <2>2. CallInv(z)
    BY <1>2, <2>1 DEF HeardInv
  <2>3. CallInv(z)'
    BY <2>2, HeardStays
  <2>4. CallInv(call[u])' = CallInv(z)'
    BY <2>1 DEF CallInv
  <2>5. QED
    BY <2>3, <2>4
<1>4. QED
  BY <1>3 DEF HeardInv

\* The configurer either leaves the hierarchy alone, or every call is disturbed.
LEMMA DisturbedHeard ==
  ASSUME HeardInv, CategoryInv', (UNCHANGED <<additive, attached, call>>) \/ Disturb
  PROVE  HeardInv'
<1>1. CASE UNCHANGED <<additive, attached, call>>
  <2>1. ASSUME NEW u \in Loggers PROVE CallInv(call[u])'
    <3>1. PICK z : z = call[u] /\ z = call'[u]
      BY <1>1
    <3>2. CallInv(z)'
      BY <1>1, <3>1, HeardStays DEF HeardInv
    <3>3. QED
      BY <3>1, <3>2 DEF CallInv
  <2>2. QED
    BY <2>1 DEF HeardInv
<1>2. CASE Disturb
  <2>1. ASSUME NEW u \in Loggers PROVE CallInv(call[u])'
    <3>1. PICK x, z : x = call[u] /\ z = call'[u]
      OBVIOUS
    <3>2. z = IF x.at = "idle" THEN x ELSE [x EXCEPT !.disturbed = TRUE]
      BY <1>2, <3>1 DEF Disturb
    <3>3. CallInv(x)
      BY <3>1 DEF HeardInv
    <3>4. CASE x = Idle
      <4>1. z = Idle
        BY <3>2, <3>4 DEF Idle
      <4>2. QED
        BY <3>1, <4>1 DEF CallInv
    <3>5. CASE x # Idle
      <4>1. x \in Calls /\ x.at # "idle"
        BY <3>3, <3>5, CallFields DEF CallInv
      <4>2. z = [x EXCEPT !.disturbed = TRUE]
        BY <3>2, <4>1
      <4>3. z \in Calls /\ z.at = x.at /\ z.todo = x.todo /\ z.using = x.using /\ z.disturbed = TRUE
        BY <4>1, <4>2 DEF Calls
      <4>4. z # Idle => /\ z \in Calls
                        /\ z.at \in {"enter", "leave"} => z.todo = {}
                        /\ z.at = "append" => z.using \in z.todo
                        /\ z.disturbed
        BY <3>3, <3>5, <4>3 DEF CallInv
      <4>5. QED
        BY <3>1, <4>4 DEF CallInv
    <3>6. QED
      BY <3>4, <3>5
  <2>2. QED
    BY <2>1 DEF HeardInv
<1>3. QED
  BY <1>1, <1>2

LEMMA BeginHeard ==
  ASSUME HeardInv, CategoryInv', NEW t \in Loggers, NEW n \in Names, NEW p \in EventLevels,
         BeginCall(t, n, p), UNCHANGED <<additive, attached>>
  PROVE  HeardInv'
<1>1. PICK owing : owing = [a \in Appenders |-> IF Passes(a, p) THEN Times(Reached[n], a) ELSE 0]
  OBVIOUS
<1>2. PICK heard : heard = [a \in Appenders |-> 0]
  OBVIOUS
<1>3. PICK y : y = [at |-> "enter", cat |-> n, level |-> p, held |-> <<>>, todo |-> {},
                    using |-> NoAppender, disturbed |-> FALSE, heard |-> heard, due |-> owing]
  OBVIOUS
<1>4. call' = [call EXCEPT ![t] = y]
  BY <1>1, <1>2, <1>3 DEF BeginCall, Times
<1>5. /\ y.at = "enter" /\ y.cat = n /\ y.level = p /\ y.todo = {} /\ y.heard = heard /\ y.due = owing
  BY <1>3
<1>6. \A a \in Appenders : Times(Reached[n], a) \in Nat
  BY TimesIs
<1>7. owing \in [Appenders -> Nat] /\ heard \in [Appenders -> Nat] /\ <<>> \in Seq(Names)
  BY <1>1, <1>2, <1>6, EmptySeq
<1>8. y \in Calls
  BY <1>3, <1>7 DEF Calls
<1>9. StillToEnter(y) = Reached[n]
  BY <1>5 DEF StillToEnter
<1>10. HeardSoFar(y)
  <2>1. ASSUME NEW a \in Appenders
        PROVE  IF Passes(a, p) THEN owing[a] = heard[a] + Times(Reached[n], a) + Once(a \in {})
               ELSE owing[a] = 0 /\ heard[a] = 0
    <3>1. heard[a] = 0 /\ Once(a \in {}) = 0 /\ Times(Reached[n], a) \in Nat
      BY <1>2, <1>6 DEF Once
    <3>2. owing[a] = IF Passes(a, p) THEN Times(Reached[n], a) ELSE 0
      BY <1>1
    <3>3. QED
      BY <3>1, <3>2
  <2>2. QED
    BY <1>5, <1>9, <2>1 DEF HeardSoFar
<1>11. CallInv(y)
  BY <1>5, <1>8, <1>10 DEF CallInv
<1>12. QED
  BY <1>4, <1>11, OneCallHeard

LEMMA LogStepHeard ==
  ASSUME HeardInv, CategoryInv', NEW t \in Loggers, LogStep(t)
  PROVE  HeardInv'
<1>1. PICK x : x = call[t]
  OBVIOUS
<1>2. /\ CallInv(x) /\ UNCHANGED <<additive, attached>> /\ attached \in [Names -> SUBSET Appenders]
  BY <1>1 DEF HeardInv, CategoryInv, CategoryTypeOK, LogStep, EnterCategory, AppendBegin, AppendEnd, GoUp, Leave, hierarchy
<1>3. ASSUME x.at # "idle"
      PROVE  /\ x \in Calls
             /\ x.at \in {"enter", "leave"} => x.todo = {}
             /\ x.at = "append" => x.using \in x.todo
             /\ ~x.disturbed => HeardSoFar(x)
  <2>1. x # Idle
    BY <1>3 DEF Idle
  <2>2. QED
    BY <1>2, <2>1 DEF CallInv
<1>4. CASE EnterCategory(t)
  <2>1. x.at = "enter"
    BY <1>1, <1>4 DEF EnterCategory
  <2>2. x \in Calls /\ x.todo = {} /\ (~x.disturbed => HeardSoFar(x))
    BY <1>3, <2>1
  <2>3. PICK A : A = attached[x.cat]
    OBVIOUS
  <2>4. PICK y : y = [x EXCEPT !.at = "loop", !.todo = A, !.held = Append(@, x.cat)]
    OBVIOUS
  <2>5. call' = [call EXCEPT ![t] = y]
    BY <1>1, <1>4, <2>3, <2>4 DEF EnterCategory
  <2>6. x.cat \in Names /\ A \subseteq Appenders
    BY <1>2, <2>2, <2>3 DEF Calls
  <2>7. /\ y.at = "loop" /\ y.cat = x.cat /\ y.level = x.level /\ y.todo = A
        /\ y.heard = x.heard /\ y.due = x.due /\ y.disturbed = x.disturbed
    BY <2>2, <2>4 DEF Calls
  <2>8. y \in Calls
    <3>1. PICK h \in Seq(Names) : h = Append(x.held, x.cat)
      BY <2>2, <2>6, AppendProperties, CallFields
    <3>2. y = [x EXCEPT !.at = "loop", !.todo = A, !.held = h]
      BY <2>4, <3>1
    <3>3. QED
      BY <2>2, <2>6, <3>2 DEF Calls
  <2>9. ASSUME ~y.disturbed PROVE HeardSoFar(y)
    <3>1. HeardSoFar(x) /\ StillToEnter(x) = Reached[x.cat]
          /\ StillToEnter(y) = IF additive[x.cat] THEN Reached[ParentOf[x.cat]] ELSE {}
      BY <2>1, <2>2, <2>7, <2>9 DEF StillToEnter
    <3>2. \A a \in Appenders : Times(StillToEnter(x), a) = Times(StillToEnter(y), a) + Once(a \in A)
      BY <2>3, <2>6, <3>1, TimesIs
    <3>3. \A a \in Appenders : Once(a \in x.todo) = 0
      BY <2>2 DEF Once
    <3>4. \A a \in Appenders : x.heard[a] \in Nat /\ Times(StillToEnter(x), a) \in Nat
      BY <2>2, <2>6, <3>1, TimesIs DEF Calls
    <3>5. ASSUME NEW a \in Appenders, Passes(a, x.level)
          PROVE  x.due[a] = x.heard[a] + Times(StillToEnter(y), a) + Once(a \in A)
      <4>1. x.due[a] = x.heard[a] + Times(StillToEnter(x), a) + Once(a \in x.todo)
        BY <3>1, <3>5 DEF HeardSoFar
      <4>2. Once(a \in A) \in Nat
        BY DEF Once
      <4>3. Times(StillToEnter(y), a) \in Nat
        BY <2>6, <3>1, TimesIs
      <4>4. QED
        BY <3>2, <3>3, <3>4, <4>1, <4>2, <4>3
    <3>6. QED
      BY <2>7, <3>1, <3>5 DEF HeardSoFar
  <2>10. CallInv(y)
    BY <2>7, <2>8, <2>9 DEF CallInv
  <2>11. QED
    BY <1>2, <2>5, <2>10, OneCallHeard
<1>5. CASE AppendBegin(t)
  <2>1. x.at = "loop"
    BY <1>1, <1>5 DEF AppendBegin
  <2>2. x \in Calls /\ (~x.disturbed => HeardSoFar(x))
    BY <1>3, <2>1
  <2>3. PICK a \in x.todo : call' = [call EXCEPT ![t].at = "append", ![t].using = a]
    BY <1>1, <1>5 DEF AppendBegin
  <2>4. PICK y : y = [x EXCEPT !.at = "append", !.using = a]
    OBVIOUS
  <2>5. call' = [call EXCEPT ![t] = y]
    BY <1>1, <2>3, <2>4
  <2>6. /\ y.at = "append" /\ y.using = a /\ y.cat = x.cat /\ y.level = x.level /\ y.todo = x.todo
        /\ y.heard = x.heard /\ y.due = x.due /\ y.disturbed = x.disturbed
    BY <2>2, <2>4 DEF Calls
  <2>7. y \in Calls
    BY <2>2, <2>3, <2>4 DEF Calls
  <2>8. StillToEnter(y) = StillToEnter(x)
    BY <2>1, <2>6 DEF StillToEnter
  <2>9. CallInv(y)
    BY <2>2, <2>3, <2>6, <2>7, <2>8 DEF CallInv, HeardSoFar
  <2>10. QED
    BY <1>2, <2>5, <2>9, OneCallHeard
<1>6. CASE AppendEnd(t)
  <2>1. x.at = "append"
    BY <1>1, <1>6 DEF AppendEnd
  <2>2. x \in Calls /\ x.using \in x.todo /\ (~x.disturbed => HeardSoFar(x))
    BY <1>3, <2>1
  <2>3. PICK a \in Appenders : a = x.using
    BY <2>2, CallFields
  <2>4. PICK heard : heard = IF Passes(a, x.level) THEN [x.heard EXCEPT ![a] = @ + 1] ELSE x.heard
    OBVIOUS
  <2>5. PICK y : y = [x EXCEPT !.at = "loop", !.using = NoAppender, !.todo = @ \ {a}, !.heard = heard]
    OBVIOUS
  <2>6. call' = [call EXCEPT ![t] = y]
    <3>1. call' = [call EXCEPT ![t].at = "loop", ![t].using = NoAppender, ![t].todo = @ \ {a}, ![t].heard = heard]
      BY <1>1, <1>6, <2>3, <2>4 DEF AppendEnd
    <3>2. DOMAIN call = Loggers
      BY DEF HeardInv, CategoryInv, CategoryTypeOK
    <3>3. QED
      BY <1>1, <2>5, <3>1, <3>2
  <2>7. /\ y.at = "loop" /\ y.cat = x.cat /\ y.level = x.level /\ y.todo = x.todo \ {a}
        /\ y.heard = heard /\ y.due = x.due /\ y.disturbed = x.disturbed
    BY <2>2, <2>5 DEF Calls
  <2>8. x.heard \in [Appenders -> Nat] /\ x.due \in [Appenders -> Nat] /\ x.todo \subseteq Appenders /\ x.cat \in Names
    BY <2>2, CallFields
  <2>9. heard \in [Appenders -> Nat]
    BY <2>4, <2>8
  <2>10. y \in Calls
    BY <2>2, <2>5, <2>9 DEF Calls
  <2>11. StillToEnter(y) = StillToEnter(x)
    BY <2>1, <2>7 DEF StillToEnter
  <2>12. ASSUME ~y.disturbed, NEW b \in Appenders
         PROVE  IF Passes(b, x.level)
                THEN x.due[b] = heard[b] + Times(StillToEnter(y), b) + Once(b \in x.todo \ {a})
                ELSE x.due[b] = 0 /\ heard[b] = 0
    <3>1. IF Passes(b, x.level)
          THEN x.due[b] = x.heard[b] + Times(StillToEnter(y), b) + Once(b \in x.todo)
          ELSE x.due[b] = 0 /\ x.heard[b] = 0
      BY <2>2, <2>7, <2>11, <2>12 DEF HeardSoFar
    <3>2. Times(StillToEnter(y), b) \in Nat
      <4>1. StillToEnter(y) = IF additive[x.cat] THEN Reached[ParentOf[x.cat]] ELSE {}
        BY <2>7 DEF StillToEnter
      <4>2. QED
        BY <2>8, <4>1, TimesIs
    <3>3. CASE b = a
      <4>1. Once(b \in x.todo) = 1 /\ Once(b \in x.todo \ {a}) = 0
        BY <2>2, <2>3, <3>3 DEF Once
      <4>2. heard[b] = IF Passes(b, x.level) THEN x.heard[b] + 1 ELSE x.heard[b]
        BY <2>4, <2>8, <3>3
      <4>3. x.heard[b] \in Nat
        BY <2>8
      <4>4. QED
        BY <3>1, <3>2, <4>1, <4>2, <4>3
    <3>4. CASE b # a
      <4>1. Once(b \in x.todo) = Once(b \in x.todo \ {a})
        BY <3>4 DEF Once
      <4>2. heard[b] = x.heard[b]
        BY <2>4, <2>8, <3>4
      <4>3. QED
        BY <3>1, <4>1, <4>2
    <3>5. QED
      BY <3>3, <3>4
  <2>13. ~y.disturbed => HeardSoFar(y)
    BY <2>7, <2>12 DEF HeardSoFar
  <2>14. CallInv(y)
    BY <2>7, <2>10, <2>13 DEF CallInv
  <2>15. QED
    BY <1>2, <2>6, <2>14, OneCallHeard
<1>7. CASE GoUp(t)
  <2>1. x.at = "loop" /\ x.todo = {}
    BY <1>1, <1>7 DEF GoUp
  <2>2. x \in Calls /\ (~x.disturbed => HeardSoFar(x))
    BY <1>3, <2>1
  <2>3. PICK up : up = ParentOf[x.cat]
    OBVIOUS
  <2>4. PICK y : y = IF additive[x.cat] /\ up # NoName THEN [x EXCEPT !.at = "enter", !.cat = up]
                                                       ELSE [x EXCEPT !.at = "leave"]
    OBVIOUS
  <2>5. call' = [call EXCEPT ![t] = y]
    BY <1>1, <1>7, <2>3, <2>4 DEF GoUp
  <2>6. x.cat \in Names /\ up \in Names \cup {NoName}
    BY <2>2, <2>3, CallFields, CategoryAssumption
  <2>7. /\ y.level = x.level /\ y.todo = {} /\ y.heard = x.heard /\ y.due = x.due /\ y.disturbed = x.disturbed
        /\ y.at \in {"enter", "leave"}
    BY <2>1, <2>2, <2>4 DEF Calls
  <2>8. y \in Calls
    BY <2>2, <2>4, <2>6 DEF Calls
  <2>9. StillToEnter(y) = StillToEnter(x)
    <3>1. CASE additive[x.cat] /\ up # NoName
      <4>1. y.at = "enter" /\ y.cat = up
        BY <2>2, <2>4, <3>1 DEF Calls
      <4>2. QED
        BY <2>1, <2>3, <3>1, <4>1 DEF StillToEnter
    <3>2. CASE ~(additive[x.cat] /\ up # NoName)
      <4>1. y.at = "leave"
        BY <2>2, <2>4, <3>2 DEF Calls
      <4>2. QED
        BY <2>1, <2>3, <3>2, <4>1, ReachedIs DEF StillToEnter
    <3>3. QED
      BY <3>1, <3>2
  <2>10. CallInv(y)
    BY <2>1, <2>2, <2>7, <2>8, <2>9 DEF CallInv, HeardSoFar
  <2>11. QED
    BY <1>2, <2>5, <2>10, OneCallHeard
<1>8. CASE Leave(t)
  <2>1. call' = [call EXCEPT ![t] = Idle]
    BY <1>8 DEF Leave
  <2>2. CallInv(Idle)
    BY DEF CallInv
  <2>3. QED
    BY <1>2, <2>1, <2>2, OneCallHeard
<1>9. QED
  BY <1>4, <1>5, <1>6, <1>7, <1>8 DEF LogStep

LEMMA HeardStep == HeardInv /\ [CategoryNext]_categoryVars => HeardInv'
<1> SUFFICES ASSUME HeardInv, [CategoryNext]_categoryVars PROVE HeardInv'
  OBVIOUS
<1>1. CategoryInv'
  BY NextInv DEF HeardInv
<1>2. CASE ConfigurerNext \/ UNCHANGED categoryVars
  <2>1. (UNCHANGED <<additive, attached, call>>) \/ Disturb
    BY <1>2 DEF ConfigurerNext, JobStep, SetPriority, SetAdditivity, NewAppender, AddReference, RemoveAppender,
       RemoveAllAppenders, DeleteReferenced, Configure, Shutdown, AddAppender, RefuseLayout, InstantiateAppender,
       ConfigureCategory, ConfigurePriority, ConfigureAdditivity, ConfigureClear, ConfigureAttach, NextCategory,
       Configured, ShutdownCategory, ShutdownEnd, DeleteAllAppenders, Insert, RemoveAll,
       hierarchy, objects, categoryVars
  <2>2. QED
    BY <1>1, <2>1, DisturbedHeard
<1>3. ASSUME NEW t \in Loggers, LoggerNext(t) PROVE HeardInv'
  <2>1. ASSUME NEW n \in Names, NewCategory(t, n) PROVE HeardInv'
    <3>1. UNCHANGED <<additive, attached, call>>
      BY <2>1 DEF NewCategory
    <3>2. QED
      BY <1>1, <3>1, DisturbedHeard
  <2>2. ASSUME NEW n \in Names, NEW p \in EventLevels, NEW own, Log(t, n, p) \/ LogFixed(t, own, n, p)
        PROVE  HeardInv'
    <3>1. (BeginCall(t, n, p) \/ UNCHANGED call) /\ UNCHANGED <<additive, attached>>
      BY <2>2 DEF Log, LogFixed, hierarchy
    <3>2. CASE BeginCall(t, n, p)
      BY <1>1, <3>1, <3>2, BeginHeard
    <3>3. CASE UNCHANGED call
      BY <1>1, <3>1, <3>3, DisturbedHeard
    <3>4. QED
      BY <3>1, <3>2, <3>3
  <2>3. CASE LogStep(t)
    BY <1>1, <2>3, LogStepHeard
  <2>4. QED
    BY <1>3, <2>1, <2>2, <2>3 DEF LoggerNext
<1>4. QED
  BY <1>2, <1>3 DEF CategoryNext

\* A call of log that no change of the hierarchy overlaps is heard by every
\* appender as often as it is attached on the way up, whatever the other
\* threads do meanwhile (Category.cpp:224).
THEOREM CallsAreHeard == CategorySpec => []HeardAsAttached
<1>1. CategoryInit => HeardInv
  <2> SUFFICES ASSUME CategoryInit PROVE HeardInv
    OBVIOUS
  <2>1. \A t \in Loggers : call[t] = Idle
    BY DEF CategoryInit
  <2>2. QED
    BY <2>1, InitInv DEF HeardInv, CallInv
<1>2. HeardInv => HeardAsAttached
  <2> SUFFICES ASSUME HeardInv, NEW t \in Loggers, call[t].at = "leave", ~call[t].disturbed
               PROVE  call[t].heard = call[t].due
    BY DEF HeardAsAttached
  <2>1. PICK x : x = call[t]
    OBVIOUS
  <2>2. CallInv(x) /\ x # Idle
    BY <2>1 DEF HeardInv, Idle
  <2>3. x \in Calls /\ x.todo = {} /\ HeardSoFar(x) /\ StillToEnter(x) = {}
    BY <2>1, <2>2 DEF CallInv, StillToEnter
  <2>4. x.heard \in [Appenders -> Nat] /\ x.due \in [Appenders -> Nat] /\ x.cat \in Names
    BY <2>3, CallFields
  <2>5. ASSUME NEW a \in Appenders PROVE x.heard[a] = x.due[a]
    <3>1. Times({}, a) = 0 /\ Once(a \in {}) = 0
      BY <2>4, TimesIs DEF Once
    <3>2. x.heard[a] \in Nat
      BY <2>4
    <3>3. QED
      BY <2>3, <3>1, <3>2 DEF HeardSoFar
  <2>6. x.heard = x.due
    BY <2>4, <2>5
  <2>7. QED
    BY <2>1, <2>6
<1>3. QED
  BY <1>1, <1>2, HeardStep, PTL DEF CategorySpec
-----------------------------------------------------------------------------
(***************************************************************************)
(* The lines of log4cpp: texts and their widths.                           *)
(***************************************************************************)
LEMMA SymbolText == \A s \in Symbols : <<s>> \in Text
<1>1. ASSUME NEW s \in Symbols PROVE <<s>> \in Text
  <2>1. <<s>> \in Seq(Symbols)
    OBVIOUS
  <2>2. QED
    BY <2>1 DEF Text
<1>2. QED
  BY <1>1

LEMMA NoText == <<>> \in Text /\ Len(<<>>) = 0
BY EmptyItems DEF Text

LEMMA TextLength == \A t \in Text : Len(t) \in Nat /\ (Len(t) = 0 => t = <<>>)
BY EmptySeq DEF Text

LEMMA TextsJoined ==
  /\ \A s, t \in Text : s \o t \in Text
  /\ \A s, t, u \in Text : (s \o t) \o u = s \o (t \o u)
  /\ \A t \in Text : <<>> \o t = t /\ t \o <<>> = t
<1>1. ASSUME NEW s \in Seq(Symbols), NEW t \in Seq(Symbols)
      PROVE  s \o t \in Seq(Symbols)
  BY ConcatProperties
<1>2. ASSUME NEW s \in Seq(Symbols), NEW t \in Seq(Symbols), NEW u \in Seq(Symbols)
      PROVE  (s \o t) \o u = s \o (t \o u)
  BY ConcatAssociative
<1>3. ASSUME NEW t \in Seq(Symbols)
      PROVE  <<>> \o t = t /\ t \o <<>> = t
  BY ConcatEmptySeq
<1>4. QED
  BY <1>1, <1>2, <1>3, Zenon DEF Text

LEMMA SpacesText ==
  ASSUME NEW n \in Int
  PROVE  Spaces(n) \in Text /\ (n <= 0 => Spaces(n) = <<>>)
<1>1. CASE n <= 0
  <2>1. 1..n = {}
    BY <1>1
  <2>2. Spaces(n) = [i \in {} |-> " "]
    BY <2>1, Zenon DEF Spaces
  <2>4. [i \in {} |-> " "] = <<>>
    OBVIOUS
  <2>3. QED
    BY <2>2, <2>4, NoText, Zenon
<1>2. CASE n > 0
  <2>1. n \in Nat
    BY <1>2
  <2>2. " " \in Symbols
    BY PatternAssumption
  <2>3. Spaces(n) \in [1..n -> Symbols]
    BY <2>2, Zenon DEF Spaces
  <2>4. Spaces(n) \in Seq(Symbols)
    BY <2>1, <2>3, SeqDef
  <2>5. QED
    BY <1>2, <2>4 DEF Text
<1>3. QED
  BY <1>1, <1>2

\* A text cut at a width.
LEMMA CutText ==
  ASSUME NEW t \in Text, NEW n \in Nat, n <= Len(t)
  PROVE  SubSeq(t, 1, n) \in Text /\ (n = Len(t) => SubSeq(t, 1, n) = t)
<1>1. t \in Seq(Symbols) /\ Len(t) \in Nat
  BY TextLength DEF Text
<1>2. \A i \in 1..n : t[i] \in Symbols
  <2>1. ASSUME NEW i \in 1..n PROVE t[i] \in Symbols
    <3>1. i \in 1..Len(t)
      BY <1>1
    <3>2. QED
      BY <1>1, <3>1, ElementOfSeq
  <2>2. QED
    BY <2>1
<1>3. SubSeq(t, 1, n) \in Seq(Symbols)
  BY <1>1, <1>2, SubSeqProperties
<1>4. ASSUME n = Len(t) PROVE SubSeq(t, 1, n) = t
  BY <1>1, <1>4, SubSeqFull
<1>5. QED
  BY <1>3, <1>4 DEF Text

\* FormatModifierComponent writes what the widths of the element ask for.
LEMMA ModifiedIs ==
  ASSUME NEW t \in Text, NEW low \in Int, NEW high \in Nat
  PROVE  LET body == IF high \in 1..Len(t) THEN SubSeq(t, 1, high) ELSE t
         IN  /\ body \in Text
             /\ Modified(t, low, high) = IF low >= 0 THEN Spaces(low - Len(body)) \o body
                                         ELSE body \o Spaces(-low - Len(body))
             /\ Modified(t, low, high) \in Text
<1> DEFINE body == IF high \in 1..Len(t) THEN SubSeq(t, 1, high) ELSE t
           msg == IF high > 0 /\ high < Len(t) THEN SubSeq(t, 1, high) ELSE t
           width == IF low < 0 THEN -low ELSE low
           fill == IF width > Len(msg) THEN Spaces(width - Len(msg)) ELSE <<>>
<1>1. Len(t) \in Nat
  BY TextLength
<1>2. body \in Text
  BY <1>1, CutText
<1>3. msg = body
  <2>1. CASE high \in 1..Len(t) /\ high = Len(t)
    <3>1. SubSeq(t, 1, high) = t
      BY <2>1, CutText
    <3>2. QED
      BY <2>1, <3>1, <1>1
  <2>2. CASE ~(high \in 1..Len(t) /\ high = Len(t))
    <3>1. high \in 1..Len(t) <=> high > 0 /\ high < Len(t)
      BY <2>2, <1>1
    <3>2. QED
      BY <3>1
  <2>3. QED
    BY <2>1, <2>2
<1>4. Len(body) \in Nat
  BY <1>2, TextLength
<1>5. Modified(t, low, high) = IF low < 0 THEN msg \o fill ELSE fill \o msg
  BY DEF Modified
<1> HIDE DEF body, msg
<1>6. width \in Nat /\ width - Len(body) \in Int
  BY <1>4
<1>7. fill = Spaces(width - Len(body)) /\ Spaces(width - Len(body)) \in Text
  <2>1. Spaces(width - Len(body)) \in Text /\ (width - Len(body) <= 0 => Spaces(width - Len(body)) = <<>>)
    BY <1>6, SpacesText, Zenon
  <2>2. QED
    BY <1>3, <1>4, <1>6, <2>1
<1>8. Modified(t, low, high) \in Text
  BY <1>2, <1>3, <1>5, <1>7, TextsJoined
<1>9. Modified(t, low, high) = IF low >= 0 THEN Spaces(low - Len(body)) \o body
                               ELSE body \o Spaces(-low - Len(body))
  BY <1>3, <1>5, <1>7
<1>10. QED
  BY <1>2, <1>8, <1>9 DEF body
-----------------------------------------------------------------------------
\* The name of the category.  The loop of CategoryNameComponent goes from part
\* to part, from the end, and stops at the first.
\* rfind returns the last dot there is.
LEMMA RFindIs ==
  ASSUME NEW name \in Text, NEW from \in Int
  PROVE  LET dots == {i \in 1..Len(name) : name[i] = "." /\ i - 1 <= from}
         IN  /\ dots = {} => RFind(name, from) = -1
             /\ dots # {} => RFind(name, from) + 1 \in dots /\ \A j \in dots : j <= RFind(name, from) + 1
<1> DEFINE dots == {i \in 1..Len(name) : name[i] = "." /\ i - 1 <= from}
           T == {Len(name) - i : i \in dots}
<1>1. RFind(name, from) = IF dots = {} THEN -1 ELSE (CHOOSE i \in dots : \A j \in dots : j <= i) - 1
  BY DEF RFind
<1>2. PICK n \in Nat : n = Len(name)
  BY TextLength
<1>3. dots \subseteq 1..n
  BY <1>2
<1>4. T = {n - i : i \in dots}
  BY <1>2
<1> HIDE DEF dots, T
<1>5. ASSUME dots # {}
      PROVE  \E i \in dots : \A j \in dots : j <= i
  <2>1. T \in SUBSET Nat /\ T # {}
    <3>1. \A i \in dots : n - i \in Nat
      BY <1>3
    <3>2. PICK i \in dots : TRUE
      BY <1>5
    <3>3. QED
      BY <1>4, <3>1, <3>2
  <2>2. PICK k \in T : \A m \in T : k <= m
    BY <2>1, LeastNumber
  <2>3. PICK i \in dots : k = n - i
    BY <1>4, <2>2
  <2>4. ASSUME NEW j \in dots PROVE j <= i
    <3>1. n - j \in T
      BY <1>4
    <3>2. n - i <= n - j
      BY <2>2, <2>3, <3>1
    <3>3. i \in Nat /\ j \in Nat
      BY <1>3
    <3>4. QED
      BY <3>2, <3>3
  <2>5. QED
    BY <2>4
<1>6. ASSUME dots # {}
      PROVE  RFind(name, from) + 1 \in dots /\ \A j \in dots : j <= RFind(name, from) + 1
  <2>1. PICK c : c = CHOOSE i \in dots : \A j \in dots : j <= i
    OBVIOUS
  <2>2. c \in dots /\ \A j \in dots : j <= c
    BY <1>5, <1>6, <2>1, Zenon
  <2>3. RFind(name, from) = c - 1 /\ c \in Int
    <3>1. RFind(name, from) = c - 1
      BY <1>1, <1>6, <2>1, Zenon
    <3>2. c \in Int
      BY <1>3, <2>2
    <3>3. QED
      BY <3>1, <3>2
  <2>4. RFind(name, from) + 1 = c
    BY <2>3
  <2>5. QED
    BY <2>2, <2>4
<1>7. QED
  BY <1>1, <1>6 DEF dots

LEMMA PartsAre ==
  ASSUME NEW name \in Text
  PROVE  Parts(name) \subseteq 0..Len(name) /\ 0 \in Parts(name)
         /\ \A i \in 1..Len(name) : i \in Parts(name) <=> name[i] = "."
BY TextLength DEF Parts

\* The number of parts from the one that begins at b.
PartsFrom(name, b) == Cardinality(Parts(name) \cap b..Len(name))

LEMMA PartsCounted ==
  ASSUME NEW name \in Text, NEW b \in Parts(name)
  PROVE  /\ PartsFrom(name, b) \in Nat
         /\ PartsFrom(name, b) > 0
         /\ \A c \in Parts(name) : c < b => PartsFrom(name, c) > PartsFrom(name, b)
         /\ \A c \in Parts(name) : c < b /\ (\A j \in Parts(name) : j < b => j <= c)
                                   => PartsFrom(name, c) = PartsFrom(name, b) + 1
<1>1. PICK n \in Nat : n = Len(name)
  BY TextLength
<1> DEFINE From(c) == Parts(name) \cap c..n
<1>2. Parts(name) \subseteq 0..n
  BY <1>1, PartsAre
<1>3. \A c : PartsFrom(name, c) = Cardinality(From(c))
  BY <1>1 DEF PartsFrom
<1>4. ASSUME NEW c
      PROVE  IsFiniteSet(From(c)) /\ Cardinality(From(c)) \in Nat
  <2>1. IsFiniteSet(0..n)
    BY FS_Interval
  <2>2. From(c) \subseteq 0..n
    BY <1>2
  <2>3. IsFiniteSet(From(c))
    BY <2>1, <2>2, FS_Subset, Zenon
  <2>4. QED
    BY <2>3, FS_CardinalityType, Zenon
<1>5. \A c \in Parts(name) : c \in From(c) /\ c \in Nat /\ c <= n
  BY <1>2
<1>6. Cardinality(From(b)) > 0
  <2>1. From(b) # {}
    BY <1>5
  <2>2. Cardinality(From(b)) # 0
    <3> HIDE DEF From
    <3> QED
      BY <1>4, <2>1, FS_EmptySet
  <2>3. QED
    BY <1>4, <2>2
<1>7. ASSUME NEW c \in Parts(name), c < b
      PROVE  Cardinality(From(c)) >= Cardinality(From(b)) + 1
  <2>1. From(b) \cup {c} \subseteq From(c) /\ c \notin From(b)
    BY <1>2, <1>5, <1>7
  <2>2. Cardinality(From(b) \cup {c}) = Cardinality(From(b)) + 1
    BY <1>4, <2>1, FS_AddElement
  <2>3. Cardinality(From(b) \cup {c}) <= Cardinality(From(c))
    BY <1>4, <2>1, FS_Subset
  <2>4. QED
    BY <2>2, <2>3
<1>8. ASSUME NEW c \in Parts(name), c < b, \A j \in Parts(name) : j < b => j <= c
      PROVE  Cardinality(From(c)) = Cardinality(From(b)) + 1
  <2>1. From(c) = From(b) \cup {c} /\ c \notin From(b)
    BY <1>2, <1>5, <1>8
  <2>2. QED
    BY <1>4, <2>1, FS_AddElement
<1> HIDE DEF From
<1>9. ASSUME NEW c \in Parts(name), c < b
      PROVE  PartsFrom(name, c) > PartsFrom(name, b)
  BY <1>3, <1>4, <1>7, <1>9
<1>10. QED
  BY <1>3, <1>4, <1>6, <1>8, <1>9

\* One turn of the loop, from the beginning of a part to that of the part before.
NextBegin(name, begin) ==
  RFind(name, IF begin \in {-1, 1} THEN Len(name) ELSE begin - 2) + 1

NoFirstDot(name) == name = <<>> \/ name[1] # "."

LEMMA NextBeginIs ==
  ASSUME NEW name \in Text, NoFirstDot(name)
  PROVE  /\ NextBegin(name, -1) \in Parts(name)
         /\ PartsFrom(name, NextBegin(name, -1)) = 1
         /\ \A b \in Parts(name) \ {0} : /\ NextBegin(name, b) \in Parts(name)
                                         /\ PartsFrom(name, NextBegin(name, b)) = PartsFrom(name, b) + 1
<1>1. PICK n \in Nat : n = Len(name)
  BY TextLength
<1>2. /\ Parts(name) \subseteq 0..n /\ 0 \in Parts(name)
      /\ \A i \in 1..n : i \in Parts(name) <=> name[i] = "."
  BY <1>1, PartsAre
<1>3. ASSUME NEW from \in Int
      PROVE  /\ RFind(name, from) + 1 \in Parts(name)
             /\ RFind(name, from) + 1 = 0 \/ RFind(name, from) + 1 <= from + 1
             /\ \A j \in Parts(name) : j - 1 <= from => j <= RFind(name, from) + 1 \/ j = 0
  <2> DEFINE dots == {i \in 1..n : name[i] = "." /\ i - 1 <= from}
  <2>1. /\ dots = {} => RFind(name, from) = -1
        /\ dots # {} => RFind(name, from) + 1 \in dots /\ \A j \in dots : j <= RFind(name, from) + 1
    BY <1>1, RFindIs
  <2>2. \A j \in Parts(name) : j - 1 <= from => j \in dots \/ j = 0
    BY <1>2
  <2>3. \A j \in dots : j \in Parts(name) /\ j <= from + 1
    BY <1>2
  <2> HIDE DEF dots
  <2>4. CASE dots = {}
    BY <1>2, <2>1, <2>2, <2>4
  <2>5. CASE dots # {}
    BY <2>1, <2>2, <2>3, <2>5
  <2>6. QED
    BY <2>4, <2>5
<1>4. NextBegin(name, -1) \in Parts(name) /\ PartsFrom(name, NextBegin(name, -1)) = 1
  <2>1. PICK b : b = RFind(name, n) + 1
    OBVIOUS
  <2>2. NextBegin(name, -1) = b
    BY <1>1, <2>1 DEF NextBegin
  <2>3. b \in Parts(name) /\ \A j \in Parts(name) : j <= b \/ j = 0
    BY <1>2, <1>3, <2>1
  <2>4. Parts(name) \cap b..n = {b}
    BY <1>2, <2>3
  <2>5. PartsFrom(name, b) = 1
    BY <1>1, <2>4, FS_Singleton DEF PartsFrom
  <2>6. QED
    BY <2>2, <2>3, <2>5
<1>5. ASSUME NEW b \in Parts(name) \ {0}
      PROVE  NextBegin(name, b) \in Parts(name)
             /\ PartsFrom(name, NextBegin(name, b)) = PartsFrom(name, b) + 1
  <2>1. b \in Nat /\ b <= n /\ name[b] = "."
    BY <1>2
  <2>2. b # 1
    <3>1. name # <<>>
      BY <1>1, <2>1, NoText
    <3>2. QED
      BY <2>1, <3>1 DEF NoFirstDot
  <2>3. PICK c : c = RFind(name, b - 2) + 1
    OBVIOUS
  <2>4. NextBegin(name, b) = c
    BY <2>1, <2>2, <2>3 DEF NextBegin
  <2>5. /\ c \in Parts(name)
        /\ c = 0 \/ c <= (b - 2) + 1
        /\ \A j \in Parts(name) : j - 1 <= b - 2 => j <= c \/ j = 0
    BY <1>3, <2>1, <2>3
  <2>6. c < b
    BY <1>2, <2>1, <2>2, <2>5
  <2>7. \A j \in Parts(name) : j < b => j <= c
    BY <1>2, <2>1, <2>5
  <2>8. PartsFrom(name, c) = PartsFrom(name, b) + 1
    BY <2>5, <2>6, <2>7, PartsCounted
  <2>9. QED
    BY <2>4, <2>5, <2>8
<1>6. QED
  BY <1>4, <1>5

\* What the loop leaves in begin after k turns: the first symbol of the k-th
\* part from the end, or of the name when it has no more parts.
LEMMA CategoryNameIs ==
  ASSUME NEW name \in Text, NoFirstDot(name), NEW precision \in Int
  PROVE  CategoryName(name, precision) = LastParts(name, precision)
         /\ LastParts(name, precision) \in Text
<1> DEFINE turns == IF precision > 0 THEN precision ELSE 0
           Begins == Parts(name) \cup {-1}
           Step == [nv \in (1..turns) \X Begins |-> IF nv[2] = 0 THEN 0 ELSE NextBegin(name, nv[2])]
           begin == CHOOSE begin : begin =
             [i \in 0..turns |-> IF i = 0 THEN -1
                                 ELSE IF begin[i - 1] = 0 THEN 0
                                 ELSE RFind(name, IF begin[i - 1] \in {-1, 1} THEN Len(name)
                                                  ELSE begin[i - 1] - 2) + 1]
<1>1. CategoryName(name, precision) =
        IF begin[turns] = -1 THEN name ELSE SubSeq(name, begin[turns] + 1, Len(name))
  BY DEF CategoryName
<1>2. turns \in Nat
  OBVIOUS
<1>3. PICK n \in Nat : n = Len(name)
  BY TextLength
<1>4. /\ Parts(name) \subseteq 0..n /\ 0 \in Parts(name)
      /\ NextBegin(name, -1) \in Parts(name)
      /\ PartsFrom(name, NextBegin(name, -1)) = 1
      /\ \A b \in Parts(name) \ {0} : /\ NextBegin(name, b) \in Parts(name)
                                      /\ PartsFrom(name, NextBegin(name, b)) = PartsFrom(name, b) + 1
  BY <1>3, PartsAre, NextBeginIs
<1>5. ASSUME NEW i \in 1..turns, NEW v \in Begins
      PROVE  /\ Step[<<i, v>>] = IF v = 0 THEN 0 ELSE NextBegin(name, v)
             /\ Step[<<i, v>>] \in Parts(name)
  BY <1>4
<1>6. StepsIn(Begins, -1, Step, turns)
  <2> HIDE DEF turns, Step
  <2> QED
    BY <1>2, <1>5 DEF StepsIn
<1>7. PICK f : Recurs(f, Begins, -1, Step, turns)
  <2> HIDE DEF turns, Step, Begins
  <2> QED
    BY <1>6, Recursion, Zenon
<1>8. f \in [0..turns -> Begins] /\ f[0] = -1
  BY <1>7, Zenon DEF Recurs
<1>9. ASSUME NEW i \in 1..turns
      PROVE  /\ f[i] = IF f[i - 1] = 0 THEN 0 ELSE NextBegin(name, f[i - 1])
             /\ f[i] \in Parts(name)
  <2>1. f[i] = Step[<<i, f[i - 1]>>]
    BY <1>7, Zenon DEF Recurs
  <2>2. i - 1 \in 0..turns
    BY <1>2
  <2>3. f[i - 1] \in Begins
    BY <1>8, <2>2, Zenon
  <2> HIDE DEF turns, Step, Begins
  <2>4. QED
    BY <1>5, <2>1, <2>3, Zenon
<1> HIDE DEF turns, Step
<1>10. f = [i \in 0..turns |-> IF i = 0 THEN -1
                               ELSE IF f[i - 1] = 0 THEN 0
                               ELSE RFind(name, IF f[i - 1] \in {-1, 1} THEN Len(name)
                                                ELSE f[i - 1] - 2) + 1]
  <2>1. \A i \in 0..turns : f[i] = IF i = 0 THEN -1
                               ELSE IF f[i - 1] = 0 THEN 0
                               ELSE RFind(name, IF f[i - 1] \in {-1, 1} THEN Len(name)
                                                ELSE f[i - 1] - 2) + 1
    <3>1. ASSUME NEW i \in 0..turns, i # 0 PROVE i \in 1..turns
      BY <1>2, <3>1
    <3>2. QED
      BY <1>8, <1>9, <3>1, Zenon DEF NextBegin
  <2>2. QED
    BY <1>8, <2>1
<1>11. begin = [i \in 0..turns |-> IF i = 0 THEN -1
                               ELSE IF begin[i - 1] = 0 THEN 0
                               ELSE RFind(name, IF begin[i - 1] \in {-1, 1} THEN Len(name)
                                                ELSE begin[i - 1] - 2) + 1]
  BY <1>10, Zenon
<1> HIDE DEF begin
<1>12. /\ begin[0] = -1
       /\ \A i \in 1..turns : begin[i] = IF begin[i - 1] = 0 THEN 0 ELSE NextBegin(name, begin[i - 1])
  <2>1. 0 \in 0..turns /\ \A i \in 1..turns : i \in 0..turns /\ i # 0
    BY <1>2
  <2>2. \A i \in 0..turns : begin[i] = IF i = 0 THEN -1
                               ELSE IF begin[i - 1] = 0 THEN 0
                               ELSE RFind(name, IF begin[i - 1] \in {-1, 1} THEN Len(name)
                                                ELSE begin[i - 1] - 2) + 1
    BY <1>11, Zenon
  <2>3. QED
    BY <2>1, <2>2, Zenon DEF NextBegin
<1> DEFINE Good(i) == /\ begin[i] \in Parts(name)
                      /\ PartsFrom(name, begin[i]) <= i
                      /\ begin[i] # 0 => PartsFrom(name, begin[i]) = i
           T == {i \in Nat : i + 1 \in 1..turns => Good(i + 1)}
<1>13. 0 \in T
  <2>1. 0 + 1 = 1 /\ 1 - 1 = 0
    OBVIOUS
  <2>2. ASSUME 1 \in 1..turns PROVE begin[1] = NextBegin(name, -1)
    BY <1>12, <2>1, <2>2
  <2>3. QED
    BY <1>4, <2>2
<1>14. ASSUME NEW i \in Nat, i \in T
       PROVE  i + 1 \in T
  <2>1. SUFFICES ASSUME i + 2 \in 1..turns PROVE Good(i + 2)
    BY <1>2
  <2>2. i + 1 \in 1..turns /\ (i + 2) - 1 = i + 1
    BY <1>2, <2>1
  <2>3. Good(i + 1)
    BY <1>14, <2>2
  <2>4. begin[i + 2] = IF begin[i + 1] = 0 THEN 0 ELSE NextBegin(name, begin[i + 1])
    BY <1>12, <2>1, <2>2
  <2>5. CASE begin[i + 1] = 0
    BY <2>3, <2>4, <2>5, PartsCounted
  <2>6. CASE begin[i + 1] # 0
    BY <1>4, <2>3, <2>4, <2>6
  <2>7. QED
    BY <2>5, <2>6
<1>15. \A i \in 1..turns : Good(i)
  <2>1. Nat \subseteq T
    <3> HIDE DEF T
    <3> QED
      BY <1>13, <1>14, Induction
  <2>2. ASSUME NEW i \in 1..turns PROVE Good(i)
    <3>1. i - 1 \in Nat /\ (i - 1) + 1 = i
      BY <1>2
    <3>2. i - 1 \in T
      BY <2>1, <3>1
    <3> HIDE DEF Good
    <3>3. QED
      BY <3>1, <3>2
  <2>3. QED
    BY <2>2
<1>16. CASE precision <= 0
  <2>1. turns = 0
    BY <1>16 DEF turns
  <2>2. QED
    BY <1>1, <1>12, <1>16, <2>1 DEF LastParts
<1>17. CASE precision > 0
  <2> DEFINE few == {i \in Parts(name) : Cardinality(Parts(name) \cap i..Len(name)) <= precision}
  <2>1. turns = precision /\ precision \in 1..turns
    BY <1>17 DEF turns
  <2>2. PICK b : b = begin[precision]
    OBVIOUS
  <2>3. /\ b \in Parts(name) /\ PartsFrom(name, b) <= precision
        /\ b # 0 => PartsFrom(name, b) = precision
    BY <1>15, <2>1, <2>2
  <2>4. few = {i \in Parts(name) : PartsFrom(name, i) <= precision}
    BY DEF PartsFrom
  <2>5. b \in few
    BY <2>3, <2>4
  <2>6. ASSUME NEW i \in few PROVE b <= i
    <3>1. i \in Nat /\ b \in Nat /\ i \in Parts(name) /\ PartsFrom(name, i) <= precision
      BY <1>4, <2>3, <2>4
    <3>2. PartsFrom(name, i) \in Nat /\ (i < b => PartsFrom(name, i) > PartsFrom(name, b))
      BY <2>3, <3>1, PartsCounted
    <3>3. QED
      BY <2>3, <3>1, <3>2
  <2>7. \A i \in few : i \in Nat /\ b \in Nat
    BY <1>4, <2>3, <2>4
  <2> HIDE DEF few
  <2>8. ASSUME NEW i \in few, \A j \in few : i <= j PROVE i = b
    BY <2>5, <2>6, <2>7, <2>8
  <2>9. b = CHOOSE i \in few : \A j \in few : i <= j
    BY <2>5, <2>6, <2>8, Zenon
  <2>10. LastParts(name, precision) = SubSeq(name, 1 + b, Len(name))
    <3>1. ~(precision <= 0)
      BY <1>17
    <3>2. QED
      BY <2>9, <3>1, Zenon DEF LastParts, few
  <2>11. b # -1 /\ b \in 0..n /\ 1 + b = b + 1
    BY <1>4, <2>3
  <2>12. CategoryName(name, precision) = SubSeq(name, b + 1, Len(name))
    BY <1>1, <2>1, <2>2, <2>11
  <2>13. SubSeq(name, b + 1, Len(name)) \in Text
    <3>1. \A i \in b + 1..n : i \in 1..n
      BY <2>11
    <3>2. name \in Seq(Symbols)
      BY DEF Text
    <3>3. \A i \in b + 1..n : name[i] \in Symbols
      BY <1>3, <3>1, <3>2, ElementOfSeq
    <3>4. SubSeq(name, b + 1, n) \in Seq(Symbols)
      BY <2>11, <3>3, SubSeqProperties
    <3>5. QED
      BY <1>3, <3>4 DEF Text
  <2>14. QED
    BY <2>10, <2>11, <2>12, <2>13
<1>18. QED
  BY <1>16, <1>17

-----------------------------------------------------------------------------
\* The context.  The stack of a thread holds with each message the text of all
\* messages up to it.
ContextItem == [message : Text, fullMessage : Text]

Nested(s) ==
  /\ s \in Seq(ContextItem)
  /\ \A k \in 1..Len(s) :
       s[k].fullMessage = IF k = 1 THEN s[k].message
                          ELSE (s[k - 1].fullMessage \o <<" ">>) \o s[k].message

ContextText(contexts) ==
  FlattenSeq([i \in DOMAIN contexts |-> IF i = 1 THEN contexts[i].message ELSE <<" ">> \o contexts[i].message])

\* The last of them is the whole context.
LEMMA ContextIs ==
  ASSUME NEW s, Nested(s)
  PROVE  /\ ContextText(s) = IF s = <<>> THEN <<>> ELSE LastOf(s).fullMessage
         /\ ContextText(s) \in Text
<1>1. PICK n \in Nat : n = Len(s)
  BY Zenon, LenProperties DEF Nested
<1>2. DOMAIN s = 1..n /\ \A k \in 1..n : s[k] \in ContextItem
  BY <1>1, LenProperties, ElementOfSeq DEF Nested
<1>3. \A k \in 1..n : s[k].message \in Text /\ s[k].fullMessage \in Text
  BY <1>2 DEF ContextItem
<1>4. \A k \in 1..n : s[k].fullMessage = IF k = 1 THEN s[k].message
                                         ELSE (s[k - 1].fullMessage \o <<" ">>) \o s[k].message
  BY <1>1, Zenon DEF Nested
<1>5. <<" ">> \in Text
  BY SymbolText, PatternAssumption
<1> DEFINE piece == [i \in 1..n |-> IF i = 1 THEN s[i].message ELSE <<" ">> \o s[i].message]
           f == [k \in 0..n |-> IF k = 0 THEN <<>> ELSE s[k].fullMessage]
<1>6. ContextText(s) = FlattenSeq(piece)
  BY <1>2, Zenon DEF ContextText
<1>7. \A k \in 1..n : piece[k] = (IF k = 1 THEN s[k].message ELSE <<" ">> \o s[k].message)
                      /\ piece[k] \in Text
  <2>1. ASSUME NEW k \in 1..n
        PROVE  (IF k = 1 THEN s[k].message ELSE <<" ">> \o s[k].message) \in Text
    BY <1>3, <1>5, TextsJoined, Zenon
  <2>2. QED
    BY <2>1, Zenon
<1>8. f \in [0..n -> Text]
  <2>1. \A k \in 0..n : k # 0 => k \in 1..n
    OBVIOUS
  <2>2. \A k \in 0..n : (IF k = 0 THEN <<>> ELSE s[k].fullMessage) \in Text
    BY <1>3, <2>1, NoText, Zenon
  <2>3. QED
    BY <2>2, Zenon
<1>9. f[0] = <<>> /\ \A k \in 1..n : f[k] = s[k].fullMessage
  OBVIOUS
<1>10. piece \in [1..n -> Text]
  BY <1>7, Zenon
<1>11. piece \in Seq(Text) /\ Len(piece) = n
  <2> DEFINE D == Text
  <2>1. piece \in [1..n -> D]
    BY <1>10
  <2> HIDE DEF D, piece
  <2>2. piece \in Seq(D) /\ Len(piece) = n
    BY <1>1, <2>1, SeqDef, LenProperties
  <2>3. QED
    BY <2>2 DEF D
<1> HIDE DEF piece, f
<1>12. ASSUME NEW k \in 1..n
       PROVE  f[k] = f[k - 1] \o piece[k]
  <2>1. CASE k = 1
    <3>1. f[k] = s[k].message /\ piece[k] = s[k].message /\ f[k - 1] = <<>>
      <4>1. k - 1 = 0
        BY <2>1
      <4>2. QED
        BY <1>4, <1>7, <1>9, <2>1, <4>1, Zenon
    <3>2. QED
      BY <1>3, <3>1, TextsJoined, Zenon
  <2>2. CASE k # 1
    <3>1. k - 1 \in 1..n
      BY <2>2
    <3>2. f[k] = (s[k - 1].fullMessage \o <<" ">>) \o s[k].message
      BY <1>4, <1>9, <2>2, Zenon
    <3>3. PICK t \in Text : t = s[k - 1].fullMessage
      BY <1>3, <3>1, Zenon
    <3>4. PICK u \in Text : u = s[k].message
      BY <1>3, Zenon
    <3>5. PICK x \in Text : x = <<" ">>
      BY <1>5, Zenon
    <3>6. (t \o x) \o u = t \o (x \o u)
      BY TextsJoined, Zenon
    <3>7. QED
      BY <1>7, <1>9, <2>2, <3>1, <3>2, <3>3, <3>4, <3>5, <3>6, Zenon
  <2>3. QED
    BY <2>1, <2>2
<1>13. ContextText(s) = f[n]
  <2>1. f \in [0..n -> Seq(Symbols)] /\ piece \in Seq(Seq(Symbols))
    BY <1>8, <1>11 DEF Text
  <2>2. Sums(f, piece, Symbols)
    BY <1>9, <1>11, <1>12, <2>1, Zenon DEF Sums
  <2>3. QED
    BY <1>6, <1>11, <2>1, <2>2, FlattenSums, Zenon
<1>14. n \in 0..n /\ (n # 0 => n \in 1..n) /\ (s = <<>> <=> n = 0)
  <2>1. s = <<>> <=> n = 0
    BY <1>1, EmptySeq DEF Nested
  <2>2. QED
    BY <2>1
<1>15. QED
  BY <1>1, <1>8, <1>9, <1>13, <1>14, Zenon DEF LastOf

\* A stack stays one when a message is pushed and when one is popped.
LEMMA NestedKept ==
  ASSUME NEW s, Nested(s)
  PROVE  /\ \A m \in Text : Nested(Pushed(s, m))
         /\ s # <<>> => Nested(Front(s))
<1>1. PICK n \in Nat : n = Len(s)
  BY Zenon, LenProperties DEF Nested
<1>2. s \in Seq(ContextItem) /\ \A k \in 1..n : s[k] \in ContextItem
  BY <1>1, ElementOfSeq DEF Nested
<1>3. \A k \in 1..n : s[k].fullMessage = IF k = 1 THEN s[k].message
                                         ELSE (s[k - 1].fullMessage \o <<" ">>) \o s[k].message
  BY <1>1, Zenon DEF Nested
<1>4. <<" ">> \in Text
  BY SymbolText, PatternAssumption
<1>5. s = <<>> <=> n = 0
  BY <1>1, <1>2, EmptySeq
<1>6. ASSUME NEW m \in Text
      PROVE  Nested(Pushed(s, m))
  <2> DEFINE full == IF s = <<>> THEN m ELSE (LastOf(s).fullMessage \o <<" ">>) \o m
             c == [message |-> m, fullMessage |-> full]
             t == Append(s, c)
  <2>1. Pushed(s, m) = t
    BY Zenon DEF Pushed
  <2>2. full \in Text
    <3>1. CASE s = <<>>
      BY <3>1
    <3>2. CASE s # <<>>
      <4>1. n \in 1..n
        BY <1>5, <3>2
      <4>2. s[n].fullMessage \in Text
        BY <1>2, <4>1 DEF ContextItem
      <4>3. LastOf(s).fullMessage \in Text
        BY <1>1, <4>2, Zenon DEF LastOf
      <4>4. (LastOf(s).fullMessage \o <<" ">>) \o m \in Text
        BY <1>4, <4>3, TextsJoined, Zenon
      <4>5. QED
        BY <3>2, <4>4, Zenon
    <3>3. QED
      BY <3>1, <3>2
  <2> HIDE DEF full
  <2>3. c \in ContextItem /\ c.message = m /\ c.fullMessage = full
    BY <2>2, Zenon DEF ContextItem
  <2> HIDE DEF c
  <2>4. /\ t \in Seq(ContextItem) /\ Len(t) = n + 1 /\ t[n + 1] = c
        /\ \A k \in 1..n : t[k] = s[k]
    BY <1>1, <1>2, <2>3, AppendProperties
  <2> HIDE DEF t
  <2>5. ASSUME NEW k \in 1..n + 1
        PROVE  t[k].fullMessage = IF k = 1 THEN t[k].message
                                  ELSE (t[k - 1].fullMessage \o <<" ">>) \o t[k].message
    <3>1. CASE k \in 1..n
      <4>1. k # 1 => k - 1 \in 1..n
        BY <3>1
      <4>2. QED
        BY <1>3, <2>4, <3>1, <4>1, Zenon
    <3>2. CASE k = n + 1
      <4>1. CASE n = 0
        BY <1>5, <2>3, <2>4, <3>2, <4>1 DEF full
      <4>2. CASE n # 0
        <5>1. n \in 1..n /\ k # 1 /\ k - 1 = n /\ s # <<>>
          BY <1>5, <3>2, <4>2
        <5>2. t[k - 1] = LastOf(s) /\ t[k] = c
          BY <1>1, <2>4, <3>2, <5>1, Zenon DEF LastOf
        <5>3. full = (LastOf(s).fullMessage \o <<" ">>) \o m
          BY <5>1, Zenon DEF full
        <5>4. QED
          BY <2>3, <5>1, <5>2, <5>3, Zenon
      <4>3. QED
        BY <4>1, <4>2
    <3>3. k \in 1..n \/ k = n + 1
      OBVIOUS
    <3>4. QED
      BY <3>1, <3>2, <3>3, Zenon
  <2>6. QED
    BY <2>1, <2>4, <2>5, Zenon DEF Nested
<1>7. ASSUME s # <<>>
      PROVE  Nested(Front(s))
  <2> DEFINE t == Front(s)
  <2>1. n \in Nat \ {0}
    BY <1>5, <1>7
  <2>2. t = SubSeq(s, 1, n - 1)
    BY <1>1, Zenon DEF Front
  <2>3. \A i \in 1..n - 1 : s[i] \in ContextItem
    BY <1>2
  <2>4. /\ t \in Seq(ContextItem) /\ Len(t) = n - 1
        /\ \A k \in 1..n - 1 : t[k] = s[k]
    <3>1. SubSeq(s, 1, n - 1) \in Seq(ContextItem)
      BY <2>1, <2>3, SubSeqProperties
    <3>2. Len(SubSeq(s, 1, n - 1)) = IF 1 <= n - 1 THEN (n - 1) - 1 + 1 ELSE 0
      BY <2>1, <2>3, SubSeqProperties
    <3>3. \A k \in 1..(n - 1) - 1 + 1 : SubSeq(s, 1, n - 1)[k] = s[1 + k - 1]
      BY <2>1, <2>3, SubSeqProperties
    <3>4. \A k \in 1..n - 1 : k \in 1..(n - 1) - 1 + 1 /\ 1 + k - 1 = k
      BY <2>1
    <3> HIDE DEF t
    <3>5. Len(t) = n - 1
      BY <2>1, <2>2, <3>2
    <3>6. \A k \in 1..n - 1 : t[k] = s[k]
      BY <2>2, <3>3, <3>4
    <3>7. QED
      BY <2>2, <3>1, <3>5, <3>6, Zenon
  <2> HIDE DEF t
  <2>5. \A k \in 1..n - 1 : k \in 1..n /\ (k # 1 => k - 1 \in 1..n - 1)
    BY <2>1
  <2>6. \A k \in 1..n - 1 : t[k].fullMessage = IF k = 1 THEN t[k].message
                                  ELSE (t[k - 1].fullMessage \o <<" ">>) \o t[k].message
    BY <1>3, <2>4, <2>5, Zenon
  <2>7. Nested(t)
    BY <2>4, <2>6, Zenon DEF Nested
  <2>8. QED
    BY <2>7 DEF t
<1>8. QED
  BY <1>6, <1>7

-----------------------------------------------------------------------------
\* The components.  EventIs: an event that was logged by a thread with this
\* context.
Component == {e \in Element : e.spec \in {"m", "c", "p", "x", "text"}}

EventIs(event, contexts) ==
  /\ event.categoryName \in Text /\ NoFirstDot(event.categoryName)
  /\ event.priority \in Int
  /\ event.message \in Text
  /\ event.ndc \in Text /\ event.ndc = ContextText(contexts)

Shown(c, event) == Modified(Plain(c, event), c.minWidth, c.maxWidth)

LEMMA PriorityText == \A p \in Int : <<PriorityName(p)>> \in Text
<1>1. ASSUME NEW p \in Int PROVE PriorityName(p) \in Symbols
  <2> DEFINE i == IF p + 1 < 0 THEN -1 ELSE (p + 1) \div 100
             j == IF i \in 0..8 THEN i + 1 ELSE 9
  <2>1. PriorityName(p) = PriorityNames[j]
    BY Zenon DEF PriorityName
  <2>2. j \in 1..9
    OBVIOUS
  <2> HIDE DEF j
  <2>3. PriorityNames \in Seq(Symbols) /\ Len(PriorityNames) = 9
    BY PatternAssumption DEF Text, PriorityNames
  <2>4. PriorityNames[j] \in Symbols
    BY <2>2, <2>3, ElementOfSeq
  <2>5. QED
    BY <2>1, <2>4, Zenon
<1>2. QED
  BY <1>1, SymbolText, Zenon

LEMMA ElementFields ==
  \A e \in Element : e.minWidth \in Int /\ e.maxWidth \in Nat /\ e.precision \in Int /\ e.text \in Text
BY DEF Element

\* A component shows what its element of the pattern asks for.
LEMMA ShownIs ==
  ASSUME NEW event, NEW contexts, EventIs(event, contexts), NEW c \in Component
  PROVE  /\ Plain(c, event) \in Text /\ Shown(c, event) \in Text
         /\ c.spec # "text" => Shown(c, event) = Expected(c, event, contexts)
<1>1. /\ c.minWidth \in Int /\ c.maxWidth \in Nat /\ c.precision \in Int /\ c.text \in Text
      /\ c.spec \in {"m", "c", "p", "x", "text"}
  BY ElementFields DEF Component
<1> DEFINE plain == CASE c.spec = "m" -> event.message
          [] c.spec = "c" -> LastParts(event.categoryName, c.precision)
          [] c.spec = "p" -> <<PriorityName(event.priority)>>
          [] c.spec = "x" -> ContextText(contexts)
          [] OTHER -> <<c.spec>>
           body == IF c.maxWidth \in 1..Len(plain) THEN SubSeq(plain, 1, c.maxWidth) ELSE plain
<1>2. /\ CategoryName(event.categoryName, c.precision) = LastParts(event.categoryName, c.precision)
      /\ LastParts(event.categoryName, c.precision) \in Text
  BY <1>1, CategoryNameIs, Zenon DEF EventIs
<1>3. <<PriorityName(event.priority)>> \in Text
  BY PriorityText, Zenon DEF EventIs
<1>4. event.message \in Text /\ event.ndc \in Text /\ event.ndc = ContextText(contexts)
  BY Zenon DEF EventIs
<1>5. Plain(c, event) \in Text /\ (c.spec # "text" => Plain(c, event) = plain)
  <2>1. CASE c.spec = "m"
    BY <1>4, <2>1 DEF Plain
  <2>2. CASE c.spec = "c"
    BY <1>2, <2>2 DEF Plain
  <2>3. CASE c.spec = "p"
    BY <1>3, <2>3 DEF Plain
  <2>4. CASE c.spec = "x"
    BY <1>4, <2>4 DEF Plain
  <2>5. CASE c.spec = "text"
    BY <1>1, <2>5 DEF Plain
  <2>6. QED
    BY <1>1, <2>1, <2>2, <2>3, <2>4, <2>5
<1>6. ASSUME c.spec # "text"
      PROVE  Expected(c, event, contexts) = IF c.minWidth >= 0 THEN Spaces(c.minWidth - Len(body)) \o body
                                            ELSE body \o Spaces(-c.minWidth - Len(body))
  BY <1>6, Zenon DEF Expected, ContextText
<1> HIDE DEF plain
<1>7. ASSUME NEW t \in Text
      PROVE  LET cut == IF c.maxWidth \in 1..Len(t) THEN SubSeq(t, 1, c.maxWidth) ELSE t
             IN  /\ Modified(t, c.minWidth, c.maxWidth) = IF c.minWidth >= 0 THEN Spaces(c.minWidth - Len(cut)) \o cut
                                                   ELSE cut \o Spaces(-c.minWidth - Len(cut))
                 /\ Modified(t, c.minWidth, c.maxWidth) \in Text
  BY <1>1, ModifiedIs, Zenon
<1>8. Shown(c, event) \in Text
  BY <1>5, <1>7, Zenon DEF Shown
<1>9. ASSUME c.spec # "text"
      PROVE  Shown(c, event) = Expected(c, event, contexts)
  <2>1. plain \in Text /\ Plain(c, event) = plain
    BY <1>5, <1>9
  <2>2. Modified(plain, c.minWidth, c.maxWidth) = IF c.minWidth >= 0 THEN Spaces(c.minWidth - Len(body)) \o body
                                                 ELSE body \o Spaces(-c.minWidth - Len(body))
    BY <1>7, <2>1, Zenon
  <2>3. QED
    BY <1>6, <1>9, <2>1, <2>2, Zenon DEF Shown
<1>10. QED
  BY <1>5, <1>8, <1>9

\* Literal text is shown as it is, and is what its element asks for.
LEMMA LiteralIs ==
  ASSUME NEW event, NEW contexts, EventIs(event, contexts)
  PROVE  /\ \A t \in Text : Literal(t) \in Component /\ Shown(Literal(t), event) = t
         /\ \A e \in Element : e.spec = "text" => Expected(e, event, contexts) = e.text
         /\ \A e \in Element : e.spec \in {"%", "n"} /\ e.minWidth = 0 /\ e.maxWidth = 0
                               => Expected(e, event, contexts) = <<e.spec>> /\ <<e.spec>> \in Text
<1>1. ASSUME NEW t \in Text
      PROVE  Literal(t) \in Component /\ Shown(Literal(t), event) = t
  <2>1. Literal(t) = [spec |-> "text", minWidth |-> 0, maxWidth |-> 0, precision |-> -1, text |-> t]
    BY DEF Literal, Conversion
  <2>2. 0 \in Int /\ 0 \in Nat /\ -1 \in Int
    OBVIOUS
  <2>3. Literal(t) \in Component
    BY <2>1, <2>2 DEF Component, Element
  <2>4. Plain(Literal(t), event) = t /\ Literal(t).minWidth = 0 /\ Literal(t).maxWidth = 0
    BY <2>1 DEF Plain
  <2>5. Modified(t, 0, 0) = Spaces(0 - Len(t)) \o t
    <3>1. ~(0 \in 1..Len(t)) /\ 0 >= 0
      BY TextLength
    <3>2. QED
      BY <2>2, <3>1, ModifiedIs, Zenon
  <2>6. Spaces(0 - Len(t)) = <<>>
    <3>1. 0 - Len(t) \in Int /\ 0 - Len(t) <= 0
      BY TextLength
    <3>2. QED
      BY <3>1, SpacesText, Zenon
  <2>7. Modified(t, 0, 0) = t
    BY <2>5, <2>6, TextsJoined, Zenon
  <2>8. QED
    BY <2>3, <2>4, <2>7, Zenon DEF Shown
<1>2. ASSUME NEW e \in Element, e.spec = "text"
      PROVE  Expected(e, event, contexts) = e.text
  BY <1>2, Zenon DEF Expected
<1>3. ASSUME NEW e \in Element, e.spec \in {"%", "n"}, e.minWidth = 0, e.maxWidth = 0
      PROVE  Expected(e, event, contexts) = <<e.spec>> /\ <<e.spec>> \in Text
  <2> DEFINE t == <<e.spec>>
             plain == CASE e.spec = "m" -> event.message
                       [] e.spec = "c" -> LastParts(event.categoryName, e.precision)
                       [] e.spec = "p" -> <<PriorityName(event.priority)>>
                       [] e.spec = "x" -> ContextText(contexts)
                       [] OTHER -> <<e.spec>>
             body == IF e.maxWidth \in 1..Len(plain) THEN SubSeq(plain, 1, e.maxWidth) ELSE plain
  <2>1. t \in Text
    <3>1. e.spec \in Symbols
      BY <1>3, PatternAssumption
    <3>2. QED
      BY <3>1, SymbolText, Zenon
  <2>2. Expected(e, event, contexts) = IF e.spec = "text" THEN e.text
          ELSE IF e.minWidth >= 0 THEN Spaces(e.minWidth - Len(body)) \o body
          ELSE body \o Spaces(-e.minWidth - Len(body))
    BY Zenon DEF Expected, ContextText
  <2>3. plain = t
    BY <1>3
  <2> HIDE DEF plain, t
  <2>4. PICK n \in Nat : n = Len(t)
    BY <2>1, TextLength
  <2>5. body = t
    BY <1>3, <2>3
  <2>6. e.spec # "text" /\ e.minWidth >= 0 /\ e.minWidth - Len(body) = 0 - n
    BY <1>3, <2>4, <2>5
  <2> HIDE DEF body
  <2>7. Expected(e, event, contexts) = Spaces(0 - n) \o t
    BY <2>2, <2>5, <2>6, Zenon
  <2>8. Spaces(0 - n) = <<>>
    <3>1. 0 - n \in Int /\ 0 - n <= 0
      OBVIOUS
    <3>2. QED
      BY <3>1, SpacesText, Zenon
  <2>9. Expected(e, event, contexts) = t
    BY <2>1, <2>7, <2>8, TextsJoined, Zenon
  <2>10. QED
    BY <2>1, <2>9 DEF t
<1>4. QED
  BY <1>1, <1>2, <1>3, Zenon

-----------------------------------------------------------------------------
\* What components show one after the other, and with one more of them.
TextsOf(cs, event) == [i \in DOMAIN cs |-> Shown(cs[i], event)]

LEMMA TextsAppend ==
  ASSUME NEW event, NEW contexts, EventIs(event, contexts), NEW cs \in Seq(Component)
  PROVE  /\ FlattenSeq(TextsOf(cs, event)) \in Text
         /\ \A c \in Component : FlattenSeq(TextsOf(Append(cs, c), event))
                                   = FlattenSeq(TextsOf(cs, event)) \o Shown(c, event)
<1>1. ASSUME NEW ds \in Seq(Component)
      PROVE  /\ TextsOf(ds, event) \in Seq(Text) /\ Len(TextsOf(ds, event)) = Len(ds)
             /\ DOMAIN ds = 1..Len(ds)
             /\ \A i \in 1..Len(ds) : TextsOf(ds, event)[i] = Shown(ds[i], event)
  <2>1. PICK n \in Nat : n = Len(ds)
    BY LenProperties
  <2>2. DOMAIN ds = 1..n /\ \A i \in 1..n : ds[i] \in Component
    BY <2>1, LenProperties, ElementOfSeq
  <2>3. \A i \in 1..n : Shown(ds[i], event) \in Text
    BY <2>2, ShownIs, Zenon
  <2> DEFINE D == Text
             tt == [i \in 1..n |-> Shown(ds[i], event)]
  <2>4. TextsOf(ds, event) = tt
    BY <2>2, Zenon DEF TextsOf
  <2>5. tt \in [1..n -> D] /\ \A i \in 1..n : tt[i] = Shown(ds[i], event)
    BY <2>3, Zenon
  <2> HIDE DEF D, tt
  <2>6. tt \in Seq(D) /\ Len(tt) = n
    BY <2>1, <2>5, SeqDef, LenProperties
  <2>7. QED
    BY <2>1, <2>2, <2>4, <2>5, <2>6 DEF D
<1>2. TextsOf(cs, event) \in Seq(Seq(Symbols))
  BY <1>1, Zenon DEF Text
<1>3. FlattenSeq(TextsOf(cs, event)) \in Text
  <2>1. <<>> \in Seq(Symbols)
    BY EmptySeq
  <2>2. FlattenSeq(TextsOf(cs, event)) \in Seq(Symbols)
    BY <1>2, <2>1, FlattenAppend, Zenon
  <2>3. QED
    BY <2>2, Zenon DEF Text
<1>4. ASSUME NEW c \in Component
      PROVE  FlattenSeq(TextsOf(Append(cs, c), event)) = FlattenSeq(TextsOf(cs, event)) \o Shown(c, event)
  <2>1. PICK n \in Nat : n = Len(cs)
    BY LenProperties
  <2>2. /\ Append(cs, c) \in Seq(Component) /\ Len(Append(cs, c)) = n + 1 /\ Append(cs, c)[n + 1] = c
        /\ \A i \in 1..n : Append(cs, c)[i] = cs[i]
    BY <2>1, AppendProperties
  <2>3. PICK s : s = Shown(c, event)
    OBVIOUS
  <2>4. s \in Text
    BY <2>3, ShownIs, Zenon
  <2>5. PICK tt : tt = TextsOf(cs, event)
    OBVIOUS
  <2>6. tt \in Seq(Text) /\ Len(tt) = n /\ \A i \in 1..n : tt[i] = Shown(cs[i], event)
    BY <1>1, <2>1, <2>5, Zenon
  <2>7. PICK uu : uu = TextsOf(Append(cs, c), event)
    OBVIOUS
  <2>8. uu \in Seq(Text) /\ Len(uu) = n + 1 /\ \A i \in 1..n + 1 : uu[i] = Shown(Append(cs, c)[i], event)
    BY <1>1, <2>2, <2>7, Zenon
  <2> DEFINE D == Text
  <2>9. uu = Append(tt, s)
    <3>1. \A i \in 1..n : i \in 1..n + 1
      OBVIOUS
    <3>2. \A i \in 1..n : uu[i] = tt[i]
      BY <2>2, <2>6, <2>8, <3>1, Zenon
    <3>3. n + 1 \in 1..n + 1
      OBVIOUS
    <3>4. uu[n + 1] = s
      BY <2>2, <2>3, <2>8, <3>3, Zenon
    <3>5. tt \in Seq(D) /\ uu \in Seq(D) /\ s \in D
      BY <2>4, <2>6, <2>8
    <3> HIDE DEF D
    <3>6. /\ Append(tt, s) \in Seq(D) /\ Len(Append(tt, s)) = n + 1 /\ Append(tt, s)[n + 1] = s
          /\ \A i \in 1..n : Append(tt, s)[i] = tt[i]
      BY <2>6, <3>5, AppendProperties
    <3>7. \A i \in 1..n + 1 : uu[i] = Append(tt, s)[i]
      BY <3>2, <3>4, <3>6
    <3>8. QED
      BY <2>8, <3>5, <3>6, <3>7, SeqEqual
  <2>10. tt \in Seq(Seq(Symbols)) /\ s \in Seq(Symbols)
    BY <2>4, <2>6 DEF Text
  <2>11. FlattenSeq(Append(tt, s)) = FlattenSeq(tt) \o s
    BY <2>10, FlattenAppend, Zenon
  <2>12. QED
    BY <2>3, <2>5, <2>7, <2>9, <2>11, Zenon
<1>5. QED
  BY <1>3, <1>4

\* The states of the loop over a plain pattern: no widths are left over.
Conversions ==
  [components : Seq(Component), literal : Text, minWidth : {0}, maxWidth : {0}, failed : {FALSE}]

Midway(cs, t) == [components |-> cs, literal |-> t, minWidth |-> 0, maxWidth |-> 0, failed |-> FALSE]

LEMMA MidwayForm ==
  /\ \A cs, t : Midway(cs, t).components = cs /\ Midway(cs, t).literal = t
  /\ \A cs \in Seq(Component), t \in Text : Midway(cs, t) \in Conversions
  /\ \A s \in Conversions : /\ s.components \in Seq(Component) /\ s.literal \in Text
                            /\ s.minWidth = 0 /\ s.maxWidth = 0 /\ s.failed = FALSE
<1>1. ASSUME NEW C, NEW T, NEW cs \in C, NEW t \in T
      PROVE  Midway(cs, t) \in
                   [components : C, literal : T, minWidth : {0}, maxWidth : {0}, failed : {FALSE}]
  BY SMT DEF Midway
<1>2. ASSUME NEW C, NEW T,
             NEW s \in [components : C, literal : T, minWidth : {0}, maxWidth : {0}, failed : {FALSE}]
      PROVE  /\ s.components \in C /\ s.literal \in T
             /\ s.minWidth \in {0} /\ s.maxWidth \in {0} /\ s.failed \in {FALSE}
  BY Zenon
<1>3. ASSUME NEW cs, NEW t
      PROVE  Midway(cs, t).components = cs /\ Midway(cs, t).literal = t
  BY SMT DEF Midway
<1>4. ASSUME NEW cs \in Seq(Component), NEW t \in Text
      PROVE  Midway(cs, t) \in Conversions
  BY <1>1, Zenon DEF Conversions
<1>5. ASSUME NEW s \in Conversions
      PROVE  /\ s.components \in Seq(Component) /\ s.literal \in Text
             /\ s.minWidth = 0 /\ s.maxWidth = 0 /\ s.failed = FALSE
  <2>1. /\ s.components \in Seq(Component) /\ s.literal \in Text
        /\ s.minWidth \in {0} /\ s.maxWidth \in {0} /\ s.failed \in {FALSE}
    BY <1>2, Zenon DEF Conversions
  <2>2. QED
    BY <2>1, Zenon
<1>6. QED
  BY <1>3, <1>4, <1>5, Zenon

\* The assignments of the loop to such a state.
LEMMA MidwayChanged ==
  ASSUME NEW s \in Conversions
  PROVE  /\ \A e : [s EXCEPT !.literal = @ \o e.text] = Midway(s.components, s.literal \o e.text)
         /\ \A e : [s EXCEPT !.literal = Append(@, e.spec), !.minWidth = 0, !.maxWidth = 0]
                    = Midway(s.components, Append(s.literal, e.spec))
         /\ \A e : [s EXCEPT !.components = Append(@, e), !.minWidth = 0, !.maxWidth = 0]
                    = Midway(Append(s.components, e), s.literal)
         /\ PushLiteral(s) = Midway(IF s.literal = <<>> THEN s.components
                                    ELSE Append(s.components, Literal(s.literal)), <<>>)
<1> DEFINE Such(C, T, F) == [components : C, literal : T, minWidth : {0}, maxWidth : {0}, failed : F]
<1>1. ASSUME NEW cs, NEW t, NEW r \in Such({cs}, {t}, {FALSE})
      PROVE  r = Midway(cs, t)
  <2>1. r = [components |-> r.components, literal |-> r.literal, minWidth |-> r.minWidth,
             maxWidth |-> r.maxWidth, failed |-> r.failed]
    BY SMT
  <2>2. r.components = cs /\ r.literal = t /\ r.minWidth = 0 /\ r.maxWidth = 0 /\ r.failed = FALSE
    <3>1. /\ r.components \in {cs} /\ r.literal \in {t}
          /\ r.minWidth \in {0} /\ r.maxWidth \in {0} /\ r.failed \in {FALSE}
      BY Zenon
    <3>2. QED
      BY <3>1, Zenon
  <2>3. QED
    BY <2>1, <2>2, Zenon DEF Midway
<1>2. ASSUME NEW C, NEW T, NEW r \in Such(C, T, {FALSE}), NEW cs, NEW t
      PROVE  /\ [r EXCEPT !.literal = t] \in Such({r.components}, {t}, {FALSE})
             /\ [r EXCEPT !.literal = t, !.minWidth = 0, !.maxWidth = 0] \in Such({r.components}, {t}, {FALSE})
             /\ [r EXCEPT !.components = cs, !.minWidth = 0, !.maxWidth = 0] \in Such({cs}, {r.literal}, {FALSE})
             /\ [r EXCEPT !.components = cs, !.literal = t] \in Such({cs}, {t}, {FALSE})
  <2>1. [r EXCEPT !.literal = t] \in Such({r.components}, {t}, {FALSE})
    BY Zenon
  <2>2. [r EXCEPT !.literal = t, !.minWidth = 0, !.maxWidth = 0] \in Such({r.components}, {t}, {FALSE})
    BY Zenon
  <2>3. [r EXCEPT !.components = cs, !.minWidth = 0, !.maxWidth = 0] \in Such({cs}, {r.literal}, {FALSE})
    BY Zenon
  <2>4. [r EXCEPT !.components = cs, !.literal = t] \in Such({cs}, {t}, {FALSE})
    BY Zenon
  <2>5. QED
    BY <2>1, <2>2, <2>3, <2>4, Zenon
<1>3. ASSUME NEW cs, NEW t
      PROVE  /\ [s EXCEPT !.literal = t] = Midway(s.components, t)
             /\ [s EXCEPT !.literal = t, !.minWidth = 0, !.maxWidth = 0] = Midway(s.components, t)
             /\ [s EXCEPT !.components = cs, !.minWidth = 0, !.maxWidth = 0] = Midway(cs, s.literal)
             /\ [s EXCEPT !.components = cs, !.literal = t] = Midway(cs, t)
  <2>1. s \in Such(Seq(Component), Text, {FALSE})
    BY Zenon DEF Conversions
  <2>2. /\ [s EXCEPT !.literal = t] \in Such({s.components}, {t}, {FALSE})
        /\ [s EXCEPT !.literal = t, !.minWidth = 0, !.maxWidth = 0] \in Such({s.components}, {t}, {FALSE})
        /\ [s EXCEPT !.components = cs, !.minWidth = 0, !.maxWidth = 0] \in Such({cs}, {s.literal}, {FALSE})
        /\ [s EXCEPT !.components = cs, !.literal = t] \in Such({cs}, {t}, {FALSE})
    BY <1>2, <2>1
  <2>3. [s EXCEPT !.literal = t] = Midway(s.components, t)
    BY <1>1, <2>2
  <2>4. [s EXCEPT !.literal = t, !.minWidth = 0, !.maxWidth = 0] = Midway(s.components, t)
    BY <1>1, <2>2
  <2>5. [s EXCEPT !.components = cs, !.minWidth = 0, !.maxWidth = 0] = Midway(cs, s.literal)
    BY <1>1, <2>2
  <2>6. [s EXCEPT !.components = cs, !.literal = t] = Midway(cs, t)
    BY <1>1, <2>2
  <2>7. QED
    BY <2>3, <2>4, <2>5, <2>6, Zenon
<1>4. ASSUME NEW e
      PROVE  /\ [s EXCEPT !.literal = @ \o e.text] = Midway(s.components, s.literal \o e.text)
             /\ [s EXCEPT !.literal = Append(@, e.spec), !.minWidth = 0, !.maxWidth = 0]
                    = Midway(s.components, Append(s.literal, e.spec))
             /\ [s EXCEPT !.components = Append(@, e), !.minWidth = 0, !.maxWidth = 0]
                    = Midway(Append(s.components, e), s.literal)
  BY <1>3, Zenon
<1>5. PushLiteral(s) = Midway(IF s.literal = <<>> THEN s.components
                                    ELSE Append(s.components, Literal(s.literal)), <<>>)
  BY <1>3, Zenon DEF PushLiteral
<1>6. QED
  BY <1>4, <1>5, Zenon

\* What was found up to here shows this text.
Written(s, event) == FlattenSeq(TextsOf(s.components, event)) \o s.literal

LEMMA PushLiteralIs ==
  ASSUME NEW event, NEW contexts, EventIs(event, contexts), NEW s \in Conversions
  PROVE  /\ PushLiteral(s) \in Conversions
         /\ PushLiteral(s).literal = <<>>
         /\ FlattenSeq(TextsOf(PushLiteral(s).components, event)) = Written(s, event)
<1>1. s.components \in Seq(Component) /\ s.literal \in Text 
  BY MidwayForm, Zenon
<1> DEFINE cs == IF s.literal = <<>> THEN s.components ELSE Append(s.components, Literal(s.literal))
<1>2. PushLiteral(s) = Midway(cs, <<>>)
  BY MidwayChanged, Zenon
<1>3. cs \in Seq(Component)
  <2>1. Literal(s.literal) \in Component
    BY <1>1, LiteralIs, Zenon
  <2>2. Append(s.components, Literal(s.literal)) \in Seq(Component)
    BY <1>1, <2>1, AppendProperties
  <2>3. QED
    BY <1>1, <2>2, Zenon
<1>4. FlattenSeq(TextsOf(cs, event)) = Written(s, event)
  <2>1. CASE s.literal = <<>>
    <3>1. FlattenSeq(TextsOf(s.components, event)) \in Text
      BY <1>1, TextsAppend, Zenon
    <3>2. Written(s, event) = FlattenSeq(TextsOf(s.components, event))
      BY <2>1, <3>1, TextsJoined, Zenon DEF Written
    <3>3. QED
      BY <2>1, <3>2, Zenon
  <2>2. CASE s.literal # <<>>
    <3>1. Literal(s.literal) \in Component /\ Shown(Literal(s.literal), event) = s.literal
      BY <1>1, LiteralIs, Zenon
    <3>2. cs = Append(s.components, Literal(s.literal))
      BY <2>2, Zenon
    <3>3. FlattenSeq(TextsOf(cs, event)) = FlattenSeq(TextsOf(s.components, event)) \o s.literal
      BY <1>1, <3>1, <3>2, TextsAppend, Zenon
    <3>4. QED
      BY <3>3, Zenon DEF Written
  <2>3. QED
    BY <2>1, <2>2
<1> HIDE DEF cs
<1>5. PushLiteral(s) \in Conversions /\ PushLiteral(s).literal = <<>> /\ PushLiteral(s).components = cs
  <2> HIDE DEF cs
  <2>1. Midway(cs, <<>>) \in Conversions /\ Midway(cs, <<>>).literal = <<>> /\ Midway(cs, <<>>).components = cs
    BY <1>3, NoText, MidwayForm, Zenon
  <2>2. QED
    BY <1>2, <2>1, Zenon
<1>6. QED
  BY <1>4, <1>5, Zenon

\* One element of a plain pattern.
PlainElement(e) ==
  /\ e \in Element /\ e.spec # "bad"
  /\ e.spec \in {"%", "n"} => e.minWidth = 0 /\ e.maxWidth = 0

\* One turn of the loop adds what the element asks for.
LEMMA ConvertIs ==
  ASSUME NEW event, NEW contexts, EventIs(event, contexts),
         NEW s \in Conversions, NEW e, PlainElement(e)
  PROVE  /\ Convert(s, e) \in Conversions
         /\ Written(Convert(s, e), event) = Written(s, event) \o Expected(e, event, contexts)
<1>1. /\ s.components \in Seq(Component) /\ s.literal \in Text
      /\ s.minWidth = 0 /\ s.maxWidth = 0 /\ s.failed = FALSE
  BY MidwayForm, Zenon
<1>2. /\ e \in Element /\ e.spec # "bad" /\ e.minWidth \in Int /\ e.maxWidth \in Nat /\ e.text \in Text
      /\ e.spec \in {"m", "c", "p", "x", "%", "n", "text"}
      /\ e.spec \in {"%", "n"} => e.minWidth = 0 /\ e.maxWidth = 0
  <2>1. e \in Element
    BY Zenon DEF PlainElement
  <2>2. e.spec \in {"m", "c", "p", "x", "%", "n", "text", "bad"}
    BY <2>1 DEF Element
  <2>3. QED
    BY <2>1, <2>2, ElementFields DEF PlainElement
<1>3. FlattenSeq(TextsOf(s.components, event)) \in Text
  BY <1>1, TextsAppend, Zenon
<1>4. ASSUME NEW t \in Text, Expected(e, event, contexts) = t,
             Convert(s, e) = Midway(s.components, s.literal \o t)
      PROVE  /\ Convert(s, e) \in Conversions
             /\ Written(Convert(s, e), event) = Written(s, event) \o Expected(e, event, contexts)
  <2>1. s.literal \o t \in Text
    BY <1>1, TextsJoined, Zenon
  <2>2. Convert(s, e) \in Conversions
    BY <1>1, <1>4, <2>1, MidwayForm, Zenon
  <2>3. Convert(s, e).components = s.components /\ Convert(s, e).literal = s.literal \o t
    <3>1. /\ Midway(s.components, s.literal \o t).components = s.components
          /\ Midway(s.components, s.literal \o t).literal = s.literal \o t
      BY MidwayForm, Zenon
    <3>2. QED
      BY <1>4, <3>1, Zenon
  <2>4. Written(Convert(s, e), event) = FlattenSeq(TextsOf(s.components, event)) \o (s.literal \o t)
    BY <2>3, Zenon DEF Written
  <2>5. (FlattenSeq(TextsOf(s.components, event)) \o s.literal) \o t
          = FlattenSeq(TextsOf(s.components, event)) \o (s.literal \o t)
    BY <1>1, <1>3, TextsJoined, Zenon
  <2>6. QED
    BY <1>4, <2>2, <2>4, <2>5, Zenon DEF Written
<1>5. CASE e.spec = "text"
  <2>1. Convert(s, e) = [s EXCEPT !.literal = @ \o e.text]
    BY <1>1, <1>5 DEF Convert
  <2>2. Convert(s, e) = Midway(s.components, s.literal \o e.text)
    BY <2>1, MidwayChanged, Zenon
  <2>3. Expected(e, event, contexts) = e.text
    BY <1>2, <1>5, LiteralIs, Zenon
  <2>4. QED
    BY <1>2, <1>4, <2>2, <2>3, Zenon
<1>6. CASE e.spec \in {"%", "n"}
  <2>1. Convert(s, e) = [s EXCEPT !.literal = Append(@, e.spec), !.minWidth = 0, !.maxWidth = 0]
    BY <1>1, <1>2, <1>6 DEF Convert
  <2>2. Expected(e, event, contexts) = <<e.spec>> /\ <<e.spec>> \in Text
    BY <1>2, <1>6, LiteralIs, Zenon
  <2>3. Append(s.literal, e.spec) = s.literal \o <<e.spec>>
    <3>1. s.literal \in Seq(Symbols) /\ e.spec \in Symbols
      BY <1>1, <1>6, PatternAssumption DEF Text
    <3>2. QED
      BY <3>1, AppendIsConcat
  <2>4. Convert(s, e) = Midway(s.components, s.literal \o <<e.spec>>)
    <3>1. [s EXCEPT !.literal = Append(@, e.spec), !.minWidth = 0, !.maxWidth = 0]
            = Midway(s.components, Append(s.literal, e.spec))
      BY MidwayChanged, Zenon
    <3>2. QED
      BY <2>1, <2>3, <3>1, Zenon
  <2>5. QED
    BY <1>4, <2>2, <2>4, Zenon
<1>7. CASE e.spec \in {"m", "c", "p", "x"}
  <2>1. e \in Component /\ e.spec # "text"
    BY <1>2, <1>7 DEF Component
  <2>2. PICK u : u = PushLiteral(s)
    OBVIOUS
  <2>3. /\ u \in Conversions /\ u.literal = <<>>
        /\ FlattenSeq(TextsOf(u.components, event)) = Written(s, event)
    BY <2>2, PushLiteralIs, Zenon
  <2>4. u.components \in Seq(Component)
    BY <2>3, MidwayForm, Zenon
  <2>5. (IF e.minWidth # 0 THEN e.minWidth ELSE s.minWidth) = e.minWidth
        /\ (IF e.maxWidth # 0 THEN e.maxWidth ELSE s.maxWidth) = e.maxWidth
    BY <1>1
  <2>6. [e EXCEPT !.minWidth = e.minWidth, !.maxWidth = e.maxWidth] = e
    BY <1>2 DEF Element
  <2>7. Convert(s, e) = [u EXCEPT !.components = Append(@, e), !.minWidth = 0, !.maxWidth = 0]
    <3>1. ~(s.failed \/ e.spec = "bad") /\ e.spec # "text" /\ e.spec \notin {"%", "n"}
      BY <1>1, <1>2, <1>7
    <3>2. QED
      BY <2>2, <2>5, <2>6, <3>1, Zenon DEF Convert
  <2>8. Convert(s, e) = Midway(Append(u.components, e), <<>>)
    BY <2>3, <2>7, MidwayChanged, Zenon
  <2>9. Append(u.components, e) \in Seq(Component)
    BY <2>1, <2>4, AppendProperties
  <2>10. Convert(s, e) \in Conversions
    BY <2>8, <2>9, NoText, MidwayForm, Zenon
  <2>11. FlattenSeq(TextsOf(Append(u.components, e), event)) = Written(s, event) \o Expected(e, event, contexts)
    BY <2>1, <2>3, <2>4, TextsAppend, ShownIs, Zenon
  <2>12. FlattenSeq(TextsOf(Append(u.components, e), event)) \in Text
    BY <2>9, TextsAppend, Zenon
  <2>13. Convert(s, e).components = Append(u.components, e) /\ Convert(s, e).literal = <<>>
    <3>1. /\ Midway(Append(u.components, e), <<>>).components = Append(u.components, e)
          /\ Midway(Append(u.components, e), <<>>).literal = <<>>
      BY MidwayForm, Zenon
    <3>2. QED
      BY <2>8, <3>1, Zenon
  <2>14. Written(Convert(s, e), event) = FlattenSeq(TextsOf(Append(u.components, e), event))
    BY <2>12, <2>13, TextsJoined, Zenon DEF Written
  <2>15. QED
    BY <2>10, <2>11, <2>14, Zenon
<1>8. QED
  BY <1>2, <1>5, <1>6, <1>7

LEMMA WrittenText ==
  ASSUME NEW event, NEW contexts, EventIs(event, contexts), NEW s \in Conversions
  PROVE  Written(s, event) \in Text
<1>1. s.components \in Seq(Component) /\ s.literal \in Text
  BY MidwayForm, Zenon
<1>2. FlattenSeq(TextsOf(s.components, event)) \in Text
  BY <1>1, TextsAppend, Zenon
<1>3. QED
  BY <1>1, <1>2, TextsJoined, Zenon DEF Written

LEMMA ExpectedText ==
  ASSUME NEW event, NEW contexts, EventIs(event, contexts), NEW e, PlainElement(e)
  PROVE  Expected(e, event, contexts) \in Text
<1>1. /\ e \in Element /\ e.spec \in {"m", "c", "p", "x", "%", "n", "text"} /\ e.text \in Text
      /\ e.spec \in {"%", "n"} => e.minWidth = 0 /\ e.maxWidth = 0
  <2>1. e \in Element
    BY Zenon DEF PlainElement
  <2>2. e.spec \in {"m", "c", "p", "x", "%", "n", "text", "bad"}
    BY <2>1 DEF Element
  <2>3. QED
    BY <2>1, <2>2, ElementFields DEF PlainElement
<1>2. CASE e.spec = "text"
  BY <1>1, <1>2, LiteralIs, Zenon
<1>3. CASE e.spec \in {"%", "n"}
  BY <1>1, <1>3, LiteralIs, Zenon
<1>4. CASE e.spec \in {"m", "c", "p", "x"}
  <2>1. e \in Component /\ e.spec # "text"
    BY <1>1, <1>4 DEF Component
  <2>2. QED
    BY <2>1, ShownIs, Zenon
<1>5. QED
  BY <1>1, <1>2, <1>3, <1>4

\* The whole pattern: the components and the literal text that was not pushed
\* yet show what all its elements ask for.
LEMMA ConvertedIs ==
  ASSUME NEW event, NEW contexts, EventIs(event, contexts),
         NEW p \in Seq(Element), Plainly(p)
  PROVE  /\ Converted(p) \in Conversions
         /\ Written(Converted(p), event) = FlattenSeq([i \in DOMAIN p |-> Expected(p[i], event, contexts)])
<1>1. PICK n \in Nat : n = Len(p)
  BY LenProperties
<1>2. DOMAIN p = 1..n /\ \A i \in 1..n : p[i] \in Element
  BY <1>1, LenProperties, ElementOfSeq
<1>3. \A i \in 1..n : PlainElement(p[i])
  BY <1>2, Zenon DEF PlainElement, Plainly
<1> DEFINE piece == [i \in 1..n |-> Expected(p[i], event, contexts)]
           Step == [nv \in (1..n) \X Conversions |-> Convert(nv[2], p[nv[1]])]
           turns == CHOOSE turns : turns =
             [i \in 0..Len(p) |-> IF i = 0 THEN NothingConverted ELSE Convert(turns[i - 1], p[i])]
<1>4. FlattenSeq([i \in DOMAIN p |-> Expected(p[i], event, contexts)]) = FlattenSeq(piece)
  BY <1>2, Zenon
<1>5. Converted(p) = turns[n]
  BY <1>1, Zenon DEF Converted
<1>6. /\ NothingConverted = Midway(<<>>, <<>>)
      /\ NothingConverted \in Conversions
      /\ Written(NothingConverted, event) = <<>>
  <2>1. NothingConverted = Midway(<<>>, <<>>)
    BY DEF NothingConverted, Midway
  <2>2. <<>> \in Seq(Component) /\ DOMAIN <<>> = {}
    BY EmptySeq
  <2>3. Midway(<<>>, <<>>) \in Conversions /\ Midway(<<>>, <<>>).components = <<>>
        /\ Midway(<<>>, <<>>).literal = <<>>
    BY <2>2, NoText, MidwayForm, Zenon
  <2>4. TextsOf(<<>>, event) = [i \in {} |-> Shown(<<>>[i], event)]
    BY <2>2, Zenon DEF TextsOf
  <2>5. [i \in {} |-> Shown(<<>>[i], event)] = <<>>
    OBVIOUS
  <2>6. FlattenSeq(<<>>) = <<>>
    <3>1. <<>> \in Seq(Seq(Symbols)) /\ Len(<<>>) = 0
      BY EmptySeq
    <3>2. PICK f : Sums(f, <<>>, Symbols)
      BY <3>1, SumsExist, Zenon
    <3>3. f[0] = <<>>
      BY <3>2, Zenon DEF Sums
    <3>4. FlattenSeq(<<>>) = f[Len(<<>>)]
      BY <3>1, <3>2, FlattenSums, Zenon
    <3>5. QED
      BY <3>1, <3>3, <3>4, Zenon
  <2>7. FlattenSeq(TextsOf(<<>>, event)) = <<>>
    BY <2>4, <2>5, <2>6, Zenon
  <2>8. Written(Midway(<<>>, <<>>), event) = <<>> \o <<>>
    BY <2>3, <2>7, Zenon DEF Written
  <2>9. <<>> \o <<>> = <<>>
    BY NoText, TextsJoined, Zenon
  <2>10. QED
    BY <2>1, <2>3, <2>8, <2>9, Zenon
<1>7. ASSUME NEW i \in 1..n, NEW v \in Conversions
      PROVE  Step[<<i, v>>] = Convert(v, p[i]) /\ Step[<<i, v>>] \in Conversions
  <2>1. Convert(v, p[i]) \in Conversions
    BY <1>3, ConvertIs, Zenon
  <2>2. <<i, v>> \in (1..n) \X Conversions /\ <<i, v>>[1] = i /\ <<i, v>>[2] = v
    OBVIOUS
  <2>3. Step[<<i, v>>] = Convert(<<i, v>>[2], p[<<i, v>>[1]])
    BY <2>2, Zenon
  <2>4. QED
    BY <2>1, <2>2, <2>3, Zenon
<1> HIDE DEF Step
<1>8. StepsIn(Conversions, NothingConverted, Step, n)
  BY <1>1, <1>6, <1>7, Zenon DEF StepsIn
<1>9. PICK f : Recurs(f, Conversions, NothingConverted, Step, n)
  BY <1>8, Recursion, Zenon
<1>10. f \in [0..n -> Conversions] /\ f[0] = NothingConverted
  BY <1>9, Zenon DEF Recurs
<1>11. ASSUME NEW i \in 1..n
       PROVE  f[i] = Convert(f[i - 1], p[i])
  <2>1. f[i] = Step[<<i, f[i - 1]>>]
    BY <1>9, Zenon DEF Recurs
  <2>2. i - 1 \in 0..n
    BY <1>1
  <2>3. f[i - 1] \in Conversions
    BY <1>10, <2>2, Zenon
  <2>4. QED
    BY <1>7, <2>1, <2>3, Zenon
<1>12. f = [i \in 0..n |-> IF i = 0 THEN NothingConverted ELSE Convert(f[i - 1], p[i])]
  <2>1. \A i \in 0..n : f[i] = IF i = 0 THEN NothingConverted ELSE Convert(f[i - 1], p[i])
    <3>1. ASSUME NEW i \in 0..n, i # 0 PROVE i \in 1..n
      BY <1>1, <3>1
    <3>2. QED
      BY <1>10, <1>11, <3>1, Zenon
  <2>2. QED
    BY <1>10, <2>1, Zenon
<1>13. turns = [i \in 0..n |-> IF i = 0 THEN NothingConverted ELSE Convert(turns[i - 1], p[i])]
  BY <1>1, <1>12, Zenon
<1> HIDE DEF turns
<1>14. turns[0] = NothingConverted /\ \A i \in 1..n : turns[i] = Convert(turns[i - 1], p[i])
  <2>1. 0 \in 0..n /\ \A i \in 1..n : i \in 0..n /\ i # 0
    BY <1>1
  <2>2. \A i \in 0..n : turns[i] = IF i = 0 THEN NothingConverted ELSE Convert(turns[i - 1], p[i])
    BY <1>13, Zenon
  <2>3. QED
    BY <2>1, <2>2, Zenon
<1>15. \A i \in 0..n : turns[i] \in Conversions
  <2> DEFINE T == {i \in Nat : i <= n => turns[i] \in Conversions}
  <2>1. 0 \in T
    BY <1>6, <1>14
  <2>2. ASSUME NEW i \in Nat, i \in T
        PROVE  i + 1 \in T
    <3>1. SUFFICES ASSUME i + 1 <= n PROVE turns[i + 1] \in Conversions
      BY <2>2
    <3>2. i + 1 \in 1..n /\ (i + 1) - 1 = i /\ i <= n
      BY <1>1, <3>1
    <3>3. turns[i] \in Conversions
      BY <2>2, <3>2
    <3>4. turns[i + 1] = Convert(turns[i], p[i + 1])
      BY <1>14, <3>2, Zenon
    <3>5. QED
      BY <1>3, <3>2, <3>3, <3>4, ConvertIs, Zenon
  <2>3. Nat \subseteq T
    <3> HIDE DEF T
    <3> QED
      BY <2>1, <2>2, Induction, Zenon
  <2>4. QED
    BY <1>1, <2>3
<1>16. ASSUME NEW i \in 1..n
       PROVE  /\ Written(turns[i], event) = Written(turns[i - 1], event) \o Expected(p[i], event, contexts)
              /\ Expected(p[i], event, contexts) \in Text
  <2>1. i - 1 \in 0..n
    BY <1>1
  <2>2. Written(turns[i], event) = Written(turns[i - 1], event) \o Expected(p[i], event, contexts)
    <3>1. Written(Convert(turns[i - 1], p[i]), event) = Written(turns[i - 1], event) \o Expected(p[i], event, contexts)
      BY <1>3, <1>15, <2>1, ConvertIs, Zenon
    <3>2. QED
      BY <1>14, <3>1, Zenon
  <2>3. Expected(p[i], event, contexts) \in Text
    BY <1>3, ExpectedText, Zenon
  <2>4. QED
    BY <2>2, <2>3
<1> DEFINE h == [i \in 0..n |-> Written(turns[i], event)]
<1>17. h \in [0..n -> Text]
  BY <1>15, WrittenText, Zenon
<1>18. piece \in Seq(Text) /\ Len(piece) = n /\ \A i \in 1..n : piece[i] = Expected(p[i], event, contexts)
  <2>1. \A i \in 1..n : Expected(p[i], event, contexts) \in Text
    BY <1>16
  <2> DEFINE D == Text
  <2>2. piece \in [1..n -> D] /\ \A i \in 1..n : piece[i] = Expected(p[i], event, contexts)
    BY <2>1, Zenon
  <2> HIDE DEF D, piece
  <2>3. piece \in Seq(D) /\ Len(piece) = n
    BY <1>1, <2>2, SeqDef, LenProperties
  <2>4. QED
    BY <2>2, <2>3 DEF D
<1>19. h[0] = <<>> /\ \A i \in 1..n : h[i] = h[i - 1] \o piece[i]
  <2>1. 0 \in 0..n /\ \A i \in 1..n : i \in 0..n /\ i - 1 \in 0..n
    BY <1>1
  <2>2. \A i \in 0..n : h[i] = Written(turns[i], event)
    BY Zenon
  <2>3. h[0] = <<>>
    BY <1>6, <1>14, <2>1, <2>2, Zenon
  <2> HIDE DEF h, piece
  <2>4. ASSUME NEW i \in 1..n PROVE h[i] = h[i - 1] \o piece[i]
    BY <1>16, <1>18, <2>1, <2>2, Zenon
  <2>5. QED
    BY <2>3, <2>4
<1>20. h[n] = Written(turns[n], event) /\ turns[n] \in Conversions
  <2>1. n \in 0..n
    BY <1>1
  <2>2. QED
    BY <1>15, <2>1, Zenon
<1> HIDE DEF h, piece
<1>21. FlattenSeq(piece) = h[n]
  <2>1. h \in [0..n -> Seq(Symbols)] /\ piece \in Seq(Seq(Symbols))
    BY <1>17, <1>18, Zenon DEF Text
  <2>2. Sums(h, piece, Symbols)
    BY <1>18, <1>19, <2>1, Zenon DEF Sums
  <2>3. QED
    BY <1>18, <2>1, <2>2, FlattenSums, Zenon
<1>22. QED
  BY <1>4, <1>5, <1>20, <1>21, Zenon

-----------------------------------------------------------------------------
(***************************************************************************)
(* The invariant: the components are those of the pattern given last, the  *)
(* stacks hold whole contexts and are asked for, and the lines are right.  *)
(***************************************************************************)
LayoutInv ==
  /\ pattern \in Patterns \cup {DefaultPattern}
  /\ components = PushLiteral(Converted(pattern)).components
  /\ DOMAIN stack = Writers
  /\ \A w \in Writers : Nested(stack[w]) /\ (stack[w] # <<>> => isUsedNDC)
  /\ stream \in [Writers -> Text]
  /\ LinesAsConfigured

\* An event without any text, of a thread without a context.
LEMMA SomeEvent ==
  /\ Nested(<<>>)
  /\ EventIs([categoryName |-> <<>>, priority |-> 0, message |-> <<>>, ndc |-> <<>>], <<>>)
<1>1. Nested(<<>>)
  <2>1. <<>> \in Seq(ContextItem) /\ Len(<<>>) = 0 /\ 1..0 = {}
    BY EmptySeq
  <2>2. QED
    BY <2>1, Zenon DEF Nested
<1>2. ContextText(<<>>) = <<>>
  BY <1>1, ContextIs, Zenon
<1> DEFINE e == [categoryName |-> <<>>, priority |-> 0, message |-> <<>>, ndc |-> <<>>]
<1>3. e.categoryName = <<>> /\ e.priority = 0 /\ e.message = <<>> /\ e.ndc = <<>>
  OBVIOUS
<1>4. 0 \in Int
  OBVIOUS
<1> HIDE DEF e
<1>5. EventIs(e, <<>>)
  BY <1>2, <1>3, <1>4, NoText, Zenon DEF EventIs, NoFirstDot
<1>6. QED
  BY <1>1, <1>5 DEF e

\* The patterns of this model are plain, the default one too.
LEMMA PatternsPlain ==
  ASSUME PlainTexts, NEW p \in Patterns \cup {DefaultPattern}
  PROVE  /\ p \in Seq(Element) /\ Plainly(p)
         /\ Converted(p) \in Conversions /\ ~Converted(p).failed
<1>1. p \in Seq(Element) /\ Plainly(p)
  <2>1. CASE p \in Patterns
    BY <2>1, PatternAssumption, Zenon DEF PlainTexts
  <2>2. CASE p = DefaultPattern
    <3> DEFINE m == Conversion("m")
               n == Conversion("n")
    <3>1. /\ m = [spec |-> "m", minWidth |-> 0, maxWidth |-> 0, precision |-> -1, text |-> <<>>]
          /\ n = [spec |-> "n", minWidth |-> 0, maxWidth |-> 0, precision |-> -1, text |-> <<>>]
      BY Zenon DEF Conversion
    <3>2. 0 \in Int /\ 0 \in Nat /\ -1 \in Int
      OBVIOUS
    <3>3. m \in Element /\ n \in Element
      BY <3>1, <3>2, NoText DEF Element
    <3>4. m.spec = "m" /\ n.spec = "n" /\ n.minWidth = 0 /\ n.maxWidth = 0
      BY <3>1
    <3>5. DefaultPattern = <<m, n>>
      BY Zenon DEF DefaultPattern
    <3> HIDE DEF m, n
    <3>6. <<m, n>> \in Seq(Element) /\ DOMAIN <<m, n>> = 1..2 /\ <<m, n>>[1] = m /\ <<m, n>>[2] = n
      BY <3>3
    <3>7. ASSUME NEW i \in 1..2
          PROVE  /\ <<m, n>>[i].spec # "bad"
                 /\ <<m, n>>[i].spec \in {"%", "n"} => <<m, n>>[i].minWidth = 0 /\ <<m, n>>[i].maxWidth = 0
      <4>1. i = 1 \/ i = 2
        OBVIOUS
      <4>2. QED
        BY <3>4, <3>6, <4>1
    <3>8. QED
      BY <2>2, <3>5, <3>6, <3>7, Zenon DEF Plainly
  <2>3. QED
    BY <2>1, <2>2
<1>2. Converted(p) \in Conversions
  BY <1>1, SomeEvent, ConvertedIs, Zenon
<1>3. QED
  BY <1>1, <1>2, MidwayForm, Zenon

\* What is written for an event is what the pattern asks for.
LEMMA FormatIs ==
  ASSUME PlainTexts, LayoutInv, NEW event, NEW contexts, EventIs(event, contexts)
  PROVE  Format(event) = FlattenSeq([i \in DOMAIN pattern |-> Expected(pattern[i], event, contexts)])
<1>1. pattern \in Seq(Element) /\ Plainly(pattern) /\ Converted(pattern) \in Conversions
  BY PatternsPlain, Zenon DEF LayoutInv
<1>2. components = PushLiteral(Converted(pattern)).components
  BY Zenon DEF LayoutInv
<1>3. Format(event) = FlattenSeq(TextsOf(components, event))
  BY Zenon DEF Format, TextsOf, Shown
<1>4. FlattenSeq(TextsOf(components, event)) = Written(Converted(pattern), event)
  BY <1>1, <1>2, PushLiteralIs, Zenon
<1>5. QED
  BY <1>1, <1>3, <1>4, ConvertedIs, Zenon

LEMMA LayoutInit_Inv == PlainTexts /\ LayoutInit => LayoutInv
<1> SUFFICES ASSUME PlainTexts, LayoutInit PROVE LayoutInv
  OBVIOUS
<1>1. /\ pattern = DefaultPattern /\ components = PushLiteral(Converted(DefaultPattern)).components
      /\ stack = [w \in Writers |-> <<>>] /\ stream = [w \in Writers |-> <<>>]
      /\ lines = <<>> /\ meant = <<>>
  BY Zenon DEF LayoutInit
<1>2. DOMAIN stack = Writers /\ \A w \in Writers : stack[w] = <<>>
  BY <1>1, Zenon
<1>3. stream \in [Writers -> Text]
  BY <1>1, NoText, Zenon
<1>4. components = PushLiteral(Converted(pattern)).components
  BY <1>1, Zenon
<1>5. \A w \in Writers : Nested(stack[w]) /\ (stack[w] # <<>> => isUsedNDC)
  BY <1>2, SomeEvent, Zenon
<1>6. QED
  BY <1>1, <1>2, <1>3, <1>4, <1>5, Zenon DEF LayoutInv, LinesAsConfigured

\* A new stack for one thread.
LEMMA StackKept ==
  ASSUME LayoutInv, NEW w \in Writers, NEW s, Nested(s),
         stack' = [stack EXCEPT ![w] = s],
         isUsedNDC => isUsedNDC', s # <<>> => isUsedNDC',
         UNCHANGED <<pattern, components, stream, lines, meant>>
  PROVE  LayoutInv'
<1>1. /\ pattern \in Patterns \cup {DefaultPattern}
      /\ components = PushLiteral(Converted(pattern)).components
      /\ DOMAIN stack = Writers
      /\ \A v \in Writers : Nested(stack[v]) /\ (stack[v] # <<>> => isUsedNDC)
      /\ stream \in [Writers -> Text]
      /\ lines = meant
  BY Zenon DEF LayoutInv, LinesAsConfigured
<1>2. /\ pattern' = pattern /\ components' = components /\ stream' = stream /\ lines' = lines
      /\ meant' = meant
  BY Zenon
<1>3. DOMAIN stack' = Writers /\ \A v \in Writers : stack'[v] = IF v = w THEN s ELSE stack[v]
  BY <1>1, Zenon
<1>4. \A v \in Writers : Nested(stack'[v]) /\ (stack'[v] # <<>> => isUsedNDC')
  BY <1>1, <1>3, Zenon
<1>5. components' = PushLiteral(Converted(pattern')).components /\ lines' = meant'
  BY <1>1, <1>2, Zenon
<1>6. QED
  BY <1>1, <1>2, <1>3, <1>4, <1>5, Zenon DEF LayoutInv, LinesAsConfigured

LEMMA LayoutInv_Step == PlainTexts /\ LayoutInv /\ [LayoutNext]_layoutVars => LayoutInv'
<1> SUFFICES ASSUME PlainTexts, LayoutInv, [LayoutNext]_layoutVars PROVE LayoutInv'
  OBVIOUS
<1>1. /\ pattern \in Patterns \cup {DefaultPattern}
      /\ components = PushLiteral(Converted(pattern)).components
      /\ DOMAIN stack = Writers
      /\ \A w \in Writers : Nested(stack[w]) /\ (stack[w] # <<>> => isUsedNDC)
      /\ stream \in [Writers -> Text]
      /\ lines = meant
  BY Zenon DEF LayoutInv, LinesAsConfigured
<1>2. CASE SetConversionPattern
  <2>1. PICK p \in Patterns : /\ components' = (IF Converted(p).failed THEN Converted(p)
                                                ELSE PushLiteral(Converted(p))).components
                              /\ pattern' = p
    BY <1>2, Zenon DEF SetConversionPattern
  <2>2. stack' = stack /\ isUsedNDC' = isUsedNDC /\ stream' = stream /\ lines' = lines /\ meant' = meant
    BY <1>2, Zenon DEF SetConversionPattern
  <2>3. ~Converted(p).failed /\ p \in Patterns \cup {DefaultPattern}
    BY PatternsPlain, Zenon
  <2>4. components' = PushLiteral(Converted(pattern')).components
    BY <2>1, <2>3, Zenon
  <2>5. QED
    BY <1>1, <2>1, <2>2, <2>3, <2>4, Zenon DEF LayoutInv, LinesAsConfigured
<1>3. CASE PopMessage
  <2>1. lines' = Tail(lines) /\ meant' = Tail(meant) /\ stack' = stack /\ isUsedNDC' = isUsedNDC
        /\ stream' = stream /\ pattern' = pattern /\ components' = components
    BY <1>3, Zenon DEF PopMessage
  <2>2. lines' = meant' /\ components' = PushLiteral(Converted(pattern')).components
    BY <1>1, <2>1, Zenon
  <2>3. QED
    BY <1>1, <2>1, <2>2, Zenon DEF LayoutInv, LinesAsConfigured
<1>4. ASSUME NEW w \in Writers, PushContext(w)
      PROVE  LayoutInv'
  <2>1. PICK m \in Contexts : stack' = [stack EXCEPT ![w] = Pushed(stack[w], m)]
    BY <1>4, Zenon DEF PushContext
  <2>2. isUsedNDC' = TRUE /\ UNCHANGED <<pattern, components, stream, lines, meant>>
    BY <1>4, Zenon DEF PushContext
  <2>3. m \in Text
    BY PatternAssumption
  <2>4. Nested(Pushed(stack[w], m))
    BY <1>1, <2>3, NestedKept, Zenon
  <2>5. QED
    BY <2>1, <2>2, <2>4, StackKept, Zenon
<1>5. ASSUME NEW w \in Writers, PopContext(w)
      PROVE  LayoutInv'
  <2>1. /\ stack' = [stack EXCEPT ![w] = Front(stack[w])] /\ stack[w] # <<>>
        /\ isUsedNDC' = isUsedNDC /\ UNCHANGED <<pattern, components, stream, lines, meant>>
    BY <1>5, Zenon DEF PopContext
  <2>2. Nested(Front(stack[w])) /\ isUsedNDC
    BY <1>1, <2>1, NestedKept, Zenon
  <2>3. QED
    BY <2>1, <2>2, StackKept, Zenon
<1>6. ASSUME NEW w \in Writers, ClearContext(w)
      PROVE  LayoutInv'
  <2>1. /\ stack' = [stack EXCEPT ![w] = <<>>]
        /\ isUsedNDC' = isUsedNDC /\ UNCHANGED <<pattern, components, stream, lines, meant>>
    BY <1>6, Zenon DEF ClearContext
  <2>2. QED
    BY <2>1, SomeEvent, StackKept, Zenon
<1>7. ASSUME NEW w \in Writers, InheritContext(w)
      PROVE  LayoutInv'
  <2>1. PICK v \in Writers \ {w} : stack' = [stack EXCEPT ![w] = stack[v]]
    BY <1>7, Zenon DEF InheritContext
  <2>2. isUsedNDC' = isUsedNDC /\ UNCHANGED <<pattern, components, stream, lines, meant>>
    BY <1>7, Zenon DEF InheritContext
  <2>3. v \in Writers
    OBVIOUS
  <2>4. Nested(stack[v]) /\ (stack[v] # <<>> => isUsedNDC')
    BY <1>1, <2>2, <2>3, Zenon
  <2>5. QED
    BY <2>1, <2>2, <2>4, StackKept, Zenon
<1>8. ASSUME NEW w \in Writers, StreamPiece(w)
      PROVE  LayoutInv'
  <2>1. PICK p \in Pieces : stream' = [stream EXCEPT ![w] = stream[w] \o p]
    BY <1>8, Zenon DEF StreamPiece
  <2>2. /\ stack' = stack /\ isUsedNDC' = isUsedNDC /\ pattern' = pattern /\ components' = components
        /\ lines' = lines /\ meant' = meant
    BY <1>8, Zenon DEF StreamPiece
  <2>3. p \in Text /\ stream[w] \in Text
    BY <1>1, PatternAssumption
  <2>4. stream[w] \o p \in Text
    BY <2>3, TextsJoined, Zenon
  <2>5. stream' \in [Writers -> Text]
    BY <1>1, <2>1, <2>4, Zenon
  <2>6. QED
    BY <1>1, <2>2, <2>5, Zenon DEF LayoutInv, LinesAsConfigured
<1>9. ASSUME NEW w \in Writers, FlushStream(w)
      PROVE  LayoutInv'
  <2>1. PICK name \in CategoryNames, rank \in LinePriorities :
          LET event == [categoryName |-> name, priority |-> rank, message |-> stream[w], ndc |-> Context(w)]
          IN  /\ lines' = Append(lines, Format(event))
              /\ meant' = Append(meant, FlattenSeq([i \in DOMAIN pattern |-> Expected(pattern[i], event, stack[w])]))
    BY <1>9, Zenon DEF FlushStream
  <2>2. /\ stack' = stack /\ isUsedNDC' = isUsedNDC /\ pattern' = pattern /\ components' = components
        /\ stream' = [stream EXCEPT ![w] = <<>>]
    BY <1>9, Zenon DEF FlushStream
  <2> DEFINE event == [categoryName |-> name, priority |-> rank, message |-> stream[w], ndc |-> Context(w)]
  <2>3. event.categoryName = name /\ event.priority = rank /\ event.message = stream[w]
        /\ event.ndc = Context(w)
    OBVIOUS
  <2>4. name \in Text /\ NoFirstDot(name) /\ rank \in Int /\ stream[w] \in Text
    <3>1. NoFirstDot(name)
      BY Zenon DEF PlainTexts, NoFirstDot
    <3>2. QED
      BY <1>1, <3>1, PatternAssumption
  <2>5. Context(w) = ContextText(stack[w]) /\ ContextText(stack[w]) \in Text
    BY <1>1, ContextIs, Zenon DEF Context
  <2> HIDE DEF event
  <2>6. EventIs(event, stack[w])
    BY <2>3, <2>4, <2>5, Zenon DEF EventIs
  <2>7. Format(event) = FlattenSeq([i \in DOMAIN pattern |-> Expected(pattern[i], event, stack[w])])
    BY <2>6, FormatIs, Zenon
  <2>8. lines' = meant'
    BY <1>1, <2>1, <2>7, Zenon DEF event
  <2>9. stream' \in [Writers -> Text]
    BY <1>1, <2>2, NoText, Zenon
  <2>10. components' = PushLiteral(Converted(pattern')).components
    BY <1>1, <2>2, Zenon
  <2>11. QED
    BY <1>1, <2>2, <2>8, <2>9, <2>10, Zenon DEF LayoutInv, LinesAsConfigured
<1>10. CASE UNCHANGED layoutVars
  <2>1. /\ stack' = stack /\ isUsedNDC' = isUsedNDC /\ pattern' = pattern /\ components' = components
        /\ lines' = lines /\ meant' = meant /\ stream' = stream
    BY <1>10, Zenon DEF layoutVars
  <2>2. QED
    BY <1>1, <2>1, Zenon DEF LayoutInv, LinesAsConfigured
<1>11. QED
  BY <1>2, <1>3, <1>4, <1>5, <1>6, <1>7, <1>8, <1>9, <1>10, Zenon DEF LayoutNext

\* Where the pattern can be converted as it says and no name of a category
\* begins with a dot (where it departs is in PlainTexts), every line of the
\* queue is what the pattern given last said of its event, with the whole
\* context of the thread that logged it (PatternLayout.cpp:228-245, 279-406,
\* NDC.cpp:61-65, 116-122).
THEOREM LinesAlwaysAsConfigured == PlainTexts /\ LayoutSpec => []LinesAsConfigured
<1> SUFFICES ASSUME PlainTexts PROVE LayoutSpec => []LinesAsConfigured
  OBVIOUS
<1>1. LayoutInit => LayoutInv
  BY LayoutInit_Inv
<1>2. LayoutInv /\ [LayoutNext]_layoutVars => LayoutInv'
  BY LayoutInv_Step
<1>3. LayoutInv => LinesAsConfigured
  BY DEF LayoutInv
<1>4. QED
  BY <1>1, <1>2, <1>3, PTL DEF LayoutSpec
-----------------------------------------------------------------------------
(***************************************************************************)
(* The property files of log4cpp: texts, joined and cut, and what is found *)
(* in them.                                                                *)
(***************************************************************************)
LEMMA Joins ==
  ASSUME NEW S
  PROVE  /\ \A s, t \in Seq(S) : s \o t \in Seq(S) /\ Len(s \o t) = Len(s) + Len(t)
         /\ \A s, t, u \in Seq(S) : (s \o t) \o u = s \o (t \o u)
         /\ \A t \in Seq(S) : <<>> \o t = t /\ t \o <<>> = t
         /\ \A c \in S : <<c>> \in Seq(S)
         /\ <<>> \in Seq(S)
<1>1. \A s, t \in Seq(S) : s \o t \in Seq(S) /\ Len(s \o t) = Len(s) + Len(t)
  BY ConcatProperties
<1>2. \A s, t, u \in Seq(S) : (s \o t) \o u = s \o (t \o u)
  BY ConcatAssociative
<1>3. \A t \in Seq(S) : <<>> \o t = t /\ t \o <<>> = t
  BY ConcatEmptySeq
<1>4. ASSUME NEW c \in S PROVE <<c>> \in Seq(S)
  OBVIOUS
<1>5. QED
  BY <1>1, <1>2, <1>3, <1>4, EmptySeq

\* Regrouping three texts.
Regroups(s, t, u) == (s \o t) \o u = s \o (t \o u)

LEMMA Regrouped == ASSUME NEW S PROVE \A s, t, u \in Seq(S) : Regroups(s, t, u)
BY ConcatAssociative DEF Regroups

\* The symbols of two texts that are joined.
LEMMA JoinedAt ==
  ASSUME NEW S, NEW s \in Seq(S), NEW t \in Seq(S)
  PROVE  /\ \A i \in 1..Len(s) : (s \o t)[i] = s[i]
         /\ \A i \in 1..Len(t) : (s \o t)[Len(s) + i] = t[i]
<1>1. PICK m \in Nat : m = Len(s)
  BY LenProperties
<1>2. PICK n \in Nat : n = Len(t)
  BY LenProperties
<1>3. \A i \in 1..m + n : (s \o t)[i] = IF i <= m THEN s[i] ELSE t[i - m]
  BY <1>1, <1>2, ConcatProperties
<1>4. ASSUME NEW i \in 1..m PROVE (s \o t)[i] = s[i]
  <2>1. i \in 1..m + n /\ i <= m
    OBVIOUS
  <2>2. QED
    BY <1>3, <2>1
<1>5. ASSUME NEW i \in 1..n PROVE (s \o t)[m + i] = t[i]
  <2>1. m + i \in 1..m + n /\ ~(m + i <= m) /\ (m + i) - m = i
    OBVIOUS
  <2>2. QED
    BY <1>3, <2>1
<1>6. QED
  BY <1>1, <1>2, <1>4, <1>5

\* Cutting between them.
LEMMA CutJoined ==
  ASSUME NEW S, NEW s \in Seq(S), NEW t \in Seq(S)
  PROVE  /\ SubSeq(s \o t, 1, Len(s)) = s
         /\ SubSeq(s \o t, Len(s) + 1, Len(s \o t)) = t
<1>1. PICK m \in Nat : m = Len(s)
  BY LenProperties
<1>2. PICK n \in Nat : n = Len(t)
  BY LenProperties
<1>3. PICK u \in Seq(S) : u = s \o t
  BY ConcatProperties
<1>4. Len(u) = m + n /\ (\A i \in 1..m : u[i] = s[i]) /\ (\A i \in 1..n : u[m + i] = t[i])
  BY <1>1, <1>2, <1>3, ConcatProperties, JoinedAt
<1>5. \A i \in 1..m + n : u[i] \in S
  BY <1>3, <1>4, ElementOfSeq
<1>6. SubSeq(u, 1, m) = s
  <2>1. \A i \in 1..m : u[i] \in S
    BY <1>5
  <2>2. SubSeq(u, 1, m) \in Seq(S)
    BY <2>1, SubSeqProperties
  <2>3. Len(SubSeq(u, 1, m)) = IF 1 <= m THEN m - 1 + 1 ELSE 0
    BY <2>1, SubSeqProperties
  <2>4. \A i \in 1..m - 1 + 1 : SubSeq(u, 1, m)[i] = u[1 + i - 1]
    BY <2>1, SubSeqProperties
  <2>5. Len(SubSeq(u, 1, m)) = m
    BY <2>3
  <2>6. \A i \in 1..m : SubSeq(u, 1, m)[i] = s[i]
    <3>1. \A i \in 1..m : i \in 1..m - 1 + 1 /\ 1 + i - 1 = i
      OBVIOUS
    <3>2. QED
      BY <1>4, <2>4, <3>1
  <2>7. QED
    BY <1>1, <2>2, <2>5, <2>6, SeqEqual
<1>7. SubSeq(u, m + 1, m + n) = t
  <2>1. \A i \in m + 1..m + n : u[i] \in S
    BY <1>5
  <2>2. SubSeq(u, m + 1, m + n) \in Seq(S)
    BY <2>1, SubSeqProperties
  <2>3. Len(SubSeq(u, m + 1, m + n)) = IF m + 1 <= m + n THEN (m + n) - (m + 1) + 1 ELSE 0
    BY <2>1, SubSeqProperties
  <2>4. \A i \in 1..(m + n) - (m + 1) + 1 : SubSeq(u, m + 1, m + n)[i] = u[(m + 1) + i - 1]
    BY <2>1, SubSeqProperties
  <2>5. Len(SubSeq(u, m + 1, m + n)) = n
    BY <2>3
  <2>6. \A i \in 1..n : SubSeq(u, m + 1, m + n)[i] = t[i]
    <3>1. \A i \in 1..n : i \in 1..(m + n) - (m + 1) + 1 /\ (m + 1) + i - 1 = m + i
      OBVIOUS
    <3>2. QED
      BY <1>4, <2>4, <3>1
  <2>7. QED
    BY <1>2, <2>2, <2>5, <2>6, SeqEqual
<1>8. QED
  BY <1>1, <1>2, <1>3, <1>4, <1>6, <1>7

\* Text that does not contain a symbol.
LEMMA WithoutIs ==
  ASSUME NEW S, NEW s \in Seq(S), NEW C, Without(s, C)
  PROVE  s \in Seq(S \ C)
<1>1. s \in [1..Len(s) -> S] /\ Len(s) \in Nat /\ DOMAIN s = 1..Len(s)
  BY LenProperties
<1>2. \A i \in 1..Len(s) : s[i] \in S /\ s[i] \notin C
  BY <1>1 DEF Without, ToSet
<1>3. s \in [1..Len(s) -> S \ C]
  BY <1>1, <1>2
<1>4. QED
  BY <1>1, <1>3, SeqDef

LEMMA NotIn ==
  ASSUME NEW S, NEW c, NEW s \in Seq(S \ {c})
  PROVE  s \in Seq(S) /\ \A i \in 1..Len(s) : s[i] # c
<1>1. s \in Seq(S)
  <2>1. S \ {c} \subseteq S
    OBVIOUS
  <2>2. QED
    BY <2>1, SeqMonotonic
<1>2. \A i \in 1..Len(s) : s[i] \in S \ {c}
  BY ElementOfSeq
<1>3. QED
  BY <1>1, <1>2

\* The least and the largest number of a set of positions.
LEMMA LeastPosition ==
  ASSUME NEW T \in SUBSET Nat, NEW p \in T
  PROVE  /\ (\A q \in T : p <= q) => Min(T) = p
         /\ (\A q \in T : q <= p) => Max(T) = p
<1>1. ASSUME \A q \in T : p <= q PROVE Min(T) = p
  <2>1. \A x \in T : (\A y \in T : x <= y) => x = p
    <3>1. ASSUME NEW x \in T, \A y \in T : x <= y PROVE x = p
      <4>1. x <= p /\ p <= x /\ x \in Nat /\ p \in Nat
        BY <1>1, <3>1
      <4>2. QED
        BY <4>1
    <3>2. QED
      BY <3>1
  <2>2. QED
    BY <1>1, <2>1, Zenon DEF Min
<1>2. ASSUME \A q \in T : q <= p PROVE Max(T) = p
  <2>1. \A q \in T : p >= q
    BY <1>2
  <2>2. \A x \in T : (\A y \in T : x >= y) => x = p
    <3>1. ASSUME NEW x \in T, \A y \in T : x >= y PROVE x = p
      <4>1. x >= p /\ p >= x /\ x \in Nat /\ p \in Nat
        BY <2>1, <3>1
      <4>2. QED
        BY <4>1
    <3>2. QED
      BY <3>1
  <2>3. QED
    BY <2>1, <2>2, Zenon DEF Max
<1>3. QED
  BY <1>1, <1>2

\* What find returns.
LEMMA FindThere ==
  ASSUME NEW s, NEW n \in Nat, n = Len(s), NEW c, NEW from \in Nat \ {0}, NEW p \in from..n,
         s[p] = c, \A i \in from..n : i < p => s[i] # c
  PROVE  Find(s, c, from) = p
<1> DEFINE spots == {i \in from..Len(s) : s[i] = c}
<1>1. Find(s, c, from) = IF spots = {} THEN 0 ELSE Min(spots)
  BY DEF Find
<1>2. spots \in SUBSET Nat /\ p \in spots
  OBVIOUS
<1>3. \A q \in spots : p <= q
  OBVIOUS
<1> HIDE DEF spots
<1>4. Min(spots) = p /\ spots # {}
  BY <1>2, <1>3, LeastPosition
<1>5. QED
  BY <1>1, <1>4

\* p is the first place from `from` on that has c.
Leads(s, c, from, n, p) == p \in from..n /\ s[p] = c /\ \A i \in from..n : i < p => s[i] # c

LEMMA FindLeads ==
  ASSUME NEW s, NEW n \in Nat, n = Len(s), NEW c, NEW from \in Nat \ {0}, NEW p, Leads(s, c, from, n, p)
  PROVE  Find(s, c, from) = p
<1>1. p \in from..n /\ s[p] = c /\ \A i \in from..n : i < p => s[i] # c
  BY Zenon DEF Leads
<1>2. QED
  BY <1>1, FindThere

LEMMA FindNothing ==
  ASSUME NEW s, NEW n \in Nat, n = Len(s), NEW c, NEW from \in Nat \ {0},
         \A i \in from..n : s[i] # c
  PROVE  Find(s, c, from) = 0
<1> DEFINE spots == {i \in from..Len(s) : s[i] = c}
<1>1. Find(s, c, from) = IF spots = {} THEN 0 ELSE Min(spots)
  BY DEF Find
<1>2. spots = {}
  OBVIOUS
<1>3. QED
  BY <1>1, <1>2

LEMMA FindIs ==
  ASSUME NEW s, NEW n \in Nat, n = Len(s), NEW c, NEW from \in Nat \ {0}
  PROVE  \/ Find(s, c, from) = 0 /\ \A i \in from..n : s[i] # c
         \/ /\ Find(s, c, from) \in from..n /\ s[Find(s, c, from)] = c
            /\ \A i \in from..n : i < Find(s, c, from) => s[i] # c
<1> DEFINE spots == {i \in from..n : s[i] = c}
<1>1. CASE spots = {}
  <2>1. \A i \in from..n : s[i] # c
    BY <1>1
  <2>2. QED
    BY <2>1, FindNothing
<1>2. CASE spots # {}
  <2>1. spots \in SUBSET Nat
    OBVIOUS
  <2>2. PICK p \in spots : \A q \in spots : p <= q
    <3> HIDE DEF spots
    <3> QED
      BY <1>2, <2>1, LeastNumber
  <2>3. p \in from..n /\ s[p] = c
    OBVIOUS
  <2>4. \A i \in from..n : i < p => s[i] # c
    <3>1. ASSUME NEW i \in from..n, i < p, s[i] = c PROVE FALSE
      <4>1. i \in spots
        BY <3>1
      <4>2. p <= i /\ i \in Nat /\ p \in Nat
        BY <2>1, <2>2, <4>1
      <4>3. QED
        BY <3>1, <4>2
    <3>2. QED
      BY <3>1
  <2>5. Find(s, c, from) = p
    BY <2>3, <2>4, FindThere
  <2>6. QED
    BY <2>3, <2>4, <2>5
<1>3. QED
  BY <1>1, <1>2

\* The first of a symbol that the text before it does not have.
LEMMA FindFirst ==
  ASSUME NEW S, NEW c \in S, NEW s \in Seq(S \ {c}), NEW t \in Seq(S)
  PROVE  /\ Find(s, c, 1) = 0
         /\ Find(s \o (<<c>> \o t), c, 1) = Len(s) + 1
<1>1. s \in Seq(S) /\ \A i \in 1..Len(s) : s[i] # c
  BY NotIn
<1>2. PICK m \in Nat : m = Len(s)
  BY <1>1, LenProperties
<1>3. Find(s, c, 1) = 0
  BY <1>1, <1>2, FindNothing
<1>4. PICK u \in Seq(S) : u = <<c>> \o t
  BY Joins
<1>5. u[1] = c /\ Len(u) \in Nat /\ Len(u) >= 1
  <2>1. <<c>> \in Seq(S) /\ Len(<<c>>) = 1 /\ <<c>>[1] = c
    OBVIOUS
  <2>2. 1 \in 1..Len(<<c>>)
    BY <2>1
  <2>3. u[1] = <<c>>[1]
    BY <1>4, <2>1, <2>2, JoinedAt
  <2>4. Len(u) = 1 + Len(t) /\ Len(t) \in Nat
    BY <1>4, <2>1, Joins, LenProperties
  <2>5. QED
    BY <2>1, <2>3, <2>4
<1>6. PICK v \in Seq(S) : v = s \o u
  BY <1>1, Joins
<1>7. PICK n \in Nat : n = Len(v)
  BY LenProperties
<1>8. n >= m + 1 /\ v[m + 1] = c /\ \A i \in 1..m : v[i] # c
  <2>1. n = m + Len(u)
    BY <1>1, <1>2, <1>6, <1>7, Joins
  <2>2. \A i \in 1..m : v[i] = s[i]
    BY <1>1, <1>2, <1>6, JoinedAt
  <2>3. 1 \in 1..Len(u)
    BY <1>5
  <2>4. v[m + 1] = u[1]
    BY <1>1, <1>2, <1>6, <2>3, JoinedAt
  <2>5. QED
    BY <1>1, <1>2, <1>5, <2>1, <2>2, <2>4
<1>9. Find(v, c, 1) = m + 1
  <2>1. m + 1 \in 1..n
    BY <1>8
  <2>2. \A i \in 1..n : i < m + 1 => v[i] # c
    BY <1>8
  <2>3. QED
    BY <1>7, <1>8, <2>1, <2>2, FindThere
<1>10. QED
  BY <1>2, <1>3, <1>4, <1>6, <1>9

\* Three symbols.
Spelled(a, b, c) == <<a, b, c>> = (<<a>> \o <<b>>) \o <<c>>

LEMMA ThreeOf ==
  ASSUME NEW S, NEW a \in S, NEW b \in S, NEW c \in S
  PROVE  <<a, b, c>> \in Seq(S) /\ Spelled(a, b, c)
<1>1. <<a, b, c>> \in Seq(S) /\ Len(<<a, b, c>>) = 3
  OBVIOUS
<1>2. PICK x, y, z \in Seq(S) : x = <<a>> /\ y = <<b>> /\ z = <<c>>
  <2>1. <<a>> \in Seq(S) /\ <<b>> \in Seq(S) /\ <<c>> \in Seq(S)
    OBVIOUS
  <2>2. QED
    BY <2>1, Zenon
<1>3. Len(x) = 1 /\ Len(y) = 1 /\ Len(z) = 1 /\ x[1] = a /\ y[1] = b /\ z[1] = c
  BY <1>2
<1>4. PICK s \in Seq(S) : s = x \o y
  BY ConcatProperties
<1>5. Len(s) = 2 /\ s[1] = a /\ s[2] = b
  <2>1. Len(s) = Len(x) + Len(y)
    BY <1>4, ConcatProperties
  <2>2. s[1] = x[1] /\ s[1 + 1] = y[1]
    BY <1>3, <1>4, JoinedAt
  <2>3. QED
    BY <1>3, <2>1, <2>2
<1>6. PICK t \in Seq(S) : t = s \o z
  BY ConcatProperties
<1>7. Len(t) = 3 /\ t[1] = a /\ t[2] = b /\ t[3] = c
  <2>1. Len(t) = Len(s) + Len(z)
    BY <1>6, ConcatProperties
  <2>2. t[1] = s[1] /\ t[2] = s[2]
    <3>1. \A i \in 1..Len(s) : t[i] = s[i]
      BY <1>6, JoinedAt
    <3>2. QED
      BY <1>5, <3>1
  <2>4. t[2 + 1] = z[1]
    <3>1. \A i \in 1..Len(z) : t[Len(s) + i] = z[i]
      BY <1>6, JoinedAt
    <3>2. QED
      BY <1>3, <1>5, <3>1
  <2>3. QED
    BY <1>3, <1>5, <2>1, <2>2, <2>4
<1>8. \A i \in 1..3 : t[i] = <<a, b, c>>[i]
  <2>1. \A i \in 1..3 : i = 1 \/ i = 2 \/ i = 3
    OBVIOUS
  <2>2. QED
    BY <1>7, <2>1
<1>9. t = <<a, b, c>>
  BY <1>1, <1>7, <1>8, SeqEqual
<1>10. QED
  BY <1>1, <1>2, <1>4, <1>6, <1>9, Zenon DEF Spelled

\* g[n] is the concatenation of what follows the first n sequences of ss.
Tails(g, ss, S) ==
  /\ g \in [0..Len(ss) -> Seq(S)]
  /\ g[Len(ss)] = <<>> /\ g[0] = FlattenSeq(ss)
  /\ \A n \in 1..Len(ss) : g[n - 1] = ss[n] \o g[n]

LEMMA TailsExist ==
  ASSUME NEW S, NEW ss \in Seq(Seq(S))
  PROVE  \E g : Tails(g, ss, S)
<1> DEFINE D == Seq(S)
<1>1. PICK N \in Nat : N = Len(ss)
  BY LenProperties
<1>2. \A n \in 1..N : ss[n] \in D
  BY <1>1, ElementOfSeq
<1>3. PICK f : Sums(f, ss, S)
  BY SumsExist
<1>4. f \in [0..N -> D] /\ f[0] = <<>> /\ \A n \in 1..N : f[n] = f[n - 1] \o ss[n]
  BY <1>1, <1>3, Zenon DEF Sums
<1>5. FlattenSeq(ss) = f[N]
  BY <1>1, <1>3, FlattenSums, Zenon
<1>6. /\ <<>> \in D /\ \A s, t \in D : s \o t \in D
      /\ \A t \in D : <<>> \o t = t /\ t \o <<>> = t
  BY Joins, Zenon
<1>61. \A s, t, u \in D : Regroups(s, t, u)
  BY Regrouped, Zenon
<1> HIDE DEF D
<1> DEFINE Step == [nv \in (1..N) \X D |-> ss[N - nv[1] + 1] \o nv[2]]
<1>7. ASSUME NEW n \in 1..N, NEW v \in D
      PROVE  Step[<<n, v>>] = ss[N - n + 1] \o v /\ Step[<<n, v>>] \in D
  <2>1. Step[<<n, v>>] = ss[N - n + 1] \o v
    <3>1. <<n, v>> \in (1..N) \X D /\ <<n, v>>[1] = n /\ <<n, v>>[2] = v
      OBVIOUS
    <3>2. Step[<<n, v>>] = ss[N - <<n, v>>[1] + 1] \o <<n, v>>[2]
      BY <3>1, Zenon
    <3>3. QED
      BY <3>1, <3>2, Zenon
  <2>2. N - n + 1 \in 1..N
    BY <1>1
  <2>3. ss[N - n + 1] \in D
    BY <1>2, <2>2, Zenon
  <2>4. QED
    BY <1>6, <2>1, <2>3, Zenon
<1> HIDE DEF Step
<1>8. StepsIn(D, <<>>, Step, N)
  BY <1>1, <1>6, <1>7, Zenon DEF StepsIn
<1>9. PICK h : Recurs(h, D, <<>>, Step, N)
  BY <1>8, Recursion, Zenon
<1>10. h \in [0..N -> D] /\ h[0] = <<>> /\ \A n \in 1..N : h[n] = ss[N - n + 1] \o h[n - 1]
  <2>1. h \in [0..N -> D] /\ h[0] = <<>>
    BY <1>9, Zenon DEF Recurs
  <2>2. ASSUME NEW n \in 1..N PROVE h[n] = ss[N - n + 1] \o h[n - 1]
    <3>1. h[n] = Step[<<n, h[n - 1]>>]
      BY <1>9, Zenon DEF Recurs
    <3>2. n - 1 \in 0..N
      BY <1>1
    <3>3. h[n - 1] \in D
      BY <2>1, <3>2, Zenon
    <3>4. QED
      BY <1>7, <3>1, <3>3, Zenon
  <2>3. QED
    BY <2>1, <2>2
<1> DEFINE g == [n \in 0..N |-> h[N - n]]
<1>11. ASSUME NEW n \in 0..N PROVE g[n] = h[N - n] /\ g[n] \in D
  <2>1. N - n \in 0..N
    BY <1>1
  <2>2. h[N - n] \in D
    BY <1>10, <2>1, Zenon
  <2>3. QED
    BY <2>2, Zenon
<1>12. g \in [0..N -> D]
  BY <1>11, Zenon
<1> HIDE DEF g
<1>13. g[N] = <<>>
  <2>1. N \in 0..N /\ N - N = 0
    BY <1>1
  <2>2. g[N] = h[0]
    BY <1>11, <2>1
  <2>3. QED
    BY <1>10, <2>2
<1>14. ASSUME NEW n \in 1..N PROVE g[n - 1] = ss[n] \o g[n]
  <2>1. /\ n \in 0..N /\ n - 1 \in 0..N /\ N - (n - 1) \in 1..N
        /\ N - (N - (n - 1)) + 1 = n /\ (N - (n - 1)) - 1 = N - n
    BY <1>1
  <2>2. g[n - 1] = h[N - (n - 1)] /\ g[n] = h[N - n]
    BY <1>11, <2>1, Zenon
  <2>3. h[N - (n - 1)] = ss[N - (N - (n - 1)) + 1] \o h[(N - (n - 1)) - 1]
    BY <1>10, <2>1, Zenon
  <2>4. QED
    BY <2>1, <2>2, <2>3, Zenon
<1>15. g[0] = FlattenSeq(ss)
  <2> DEFINE Same(n) == f[n] \o g[n] = g[0]
             T == {n \in Nat : n <= N => Same(n)}
  <2>1. Same(0)
    <3>1. 0 \in 0..N
      BY <1>1
    <3>2. g[0] \in D
      BY <1>11, <3>1
    <3>3. QED
      BY <1>4, <1>6, <3>2, Zenon
  <2>2. ASSUME NEW n \in 0..N, n + 1 \in 0..N, Same(n) PROVE Same(n + 1)
    <3>1. n + 1 \in 1..N /\ (n + 1) - 1 = n
      BY <1>1, <2>2
    <3>2. g[n] = ss[n + 1] \o g[n + 1]
      BY <1>14, <3>1, Zenon
    <3>3. f[n + 1] = f[n] \o ss[n + 1]
      BY <1>4, <3>1, Zenon
    <3>4. PICK s \in D : s = f[n]
      BY <1>4, Zenon
    <3>5. PICK t \in D : t = ss[n + 1]
      BY <1>2, <3>1, Zenon
    <3>6. PICK u \in D : u = g[n + 1]
      BY <1>11, <2>2, Zenon
    <3>7. Regroups(s, t, u)
      BY <1>61
    <3>8. QED
      BY <2>2, <3>2, <3>3, <3>4, <3>5, <3>6, <3>7, Zenon DEF Regroups
  <2> HIDE DEF Same
  <2>3. Nat \subseteq T
    <3>1. 0 \in T
      BY <2>1
    <3>2. ASSUME NEW n \in Nat, n \in T PROVE n + 1 \in T
      BY <1>1, <2>2, <3>2
    <3> HIDE DEF T
    <3>3. QED
      BY <3>1, <3>2, Induction, Zenon
  <2>4. f[N] \o g[N] = g[0]
    <3>1. N \in T /\ N <= N
      BY <1>1, <2>3
    <3>2. Same(N)
      BY <3>1
    <3>3. QED
      BY <3>2 DEF Same
  <2>5. f[N] \in D
    BY <1>1, <1>4
  <2>6. QED
    BY <1>5, <1>6, <1>13, <2>4, <2>5, Zenon
<1>16. QED
  BY <1>1, <1>12, <1>13, <1>14, <1>15, Zenon DEF Tails, D

-----------------------------------------------------------------------------
\* trim takes the blanks off both ends.
Trimmed(t, x) == TrimText(t) = x

LEMMA TrimIs ==
  ASSUME NEW S, NEW p \in Seq({BLANK}), NEW x \in Seq(S), NEW q \in Seq({BLANK}), Solid(x), {BLANK} \subseteq S
  PROVE  Trimmed(p \o (x \o q), x)
<1>0. SUFFICES TrimText(p \o (x \o q)) = x
  BY Zenon DEF Trimmed
<1>1. p \in Seq(S) /\ q \in Seq(S)
  BY SeqMonotonic
<1>2. /\ \A i \in 1..Len(p) : p[i] = BLANK
      /\ \A i \in 1..Len(q) : q[i] = BLANK
  <2>1. \A i \in 1..Len(p) : p[i] \in {BLANK}
    BY ElementOfSeq
  <2>2. \A i \in 1..Len(q) : q[i] \in {BLANK}
    BY ElementOfSeq
  <2>3. QED
    BY <2>1, <2>2
<1>3. PICK a \in Nat : a = Len(p)
  BY LenProperties
<1>4. PICK b \in Nat : b = Len(x)
  BY LenProperties
<1>5. PICK c \in Nat : c = Len(q)
  BY LenProperties
<1>6. PICK y \in Seq(S) : y = x \o q
  BY <1>1, <1>3, <1>4, <1>5, Joins
<1>7. Len(y) = b + c /\ (\A i \in 1..b : y[i] = x[i]) /\ (\A i \in 1..c : y[b + i] = BLANK)
  BY <1>3, <1>1, <1>2, <1>4, <1>5, <1>6, Joins, JoinedAt
<1>8. PICK s \in Seq(S) : s = p \o y
  BY <1>1, <1>3, <1>4, <1>5, Joins
<1>9. Len(s) = a + (b + c) /\ (\A i \in 1..a : s[i] = BLANK) /\ (\A i \in 1..b + c : s[a + i] = y[i])
  <2>1. Len(s) = a + (b + c)
    <3>1. Len(s) = Len(p) + Len(y)
      BY <1>1, <1>8, ConcatProperties
    <3>2. PICK m, n \in Nat : m = Len(p) /\ n = Len(y)
      BY LenProperties
    <3>3. m = a /\ n = b + c
      BY <1>3, <1>7, <3>2
    <3>4. QED
      BY <3>1, <3>2, <3>3
  <2>2. \A i \in 1..a : s[i] = p[i]
    BY <1>1, <1>3, <1>8, JoinedAt
  <2>3. \A i \in 1..b + c : s[a + i] = y[i]
    BY <1>1, <1>3, <1>7, <1>8, JoinedAt
  <2>4. QED
    BY <1>2, <1>3, <2>1, <2>2, <2>3
<1>10. /\ \A i \in 1..b : s[a + i] = x[i]
       /\ \A i \in a + b + 1..a + b + c : s[i] = BLANK
  <2>1. \A i \in 1..b : i \in 1..b + c
    BY <1>3, <1>4, <1>5
  <2>2. \A i \in a + b + 1..a + b + c :
          i - a \in 1..b + c /\ a + (i - a) = i /\ i - a - b \in 1..c /\ b + (i - a - b) = i - a
    BY <1>3, <1>4, <1>5
  <2>3. \A i \in 1..b : s[a + i] = x[i]
    BY <1>3, <1>4, <1>5, <1>7, <1>9, <2>1
  <2>4. ASSUME NEW i \in a + b + 1..a + b + c PROVE s[i] = BLANK
    <3>1. PICK j \in 1..c : j = i - a - b
      BY <1>3, <1>4, <1>5, <2>2
    <3>2. b + j \in 1..b + c /\ a + (b + j) = i
      BY <1>3, <1>4, <1>5, <3>1
    <3>4. y[b + j] = BLANK
      BY <1>7, <3>1
    <3>3. QED
      BY <1>9, <3>2, <3>4
  <2>5. QED
    BY <1>3, <1>4, <1>5, <2>3, <2>4
<1>11. DOMAIN s = 1..a + (b + c)
  BY <1>3, <1>4, <1>5, <1>9, LenProperties
<1> DEFINE solid == {i \in DOMAIN s : s[i] # BLANK}
<1>12. TrimText(s) = IF solid = {} THEN <<>> ELSE SubSeq(s, Min(solid), Max(solid))
  BY DEF TrimText
<1>13. \A i \in solid : i \in a + 1..a + b
  <2>1. ASSUME NEW i \in solid, i \notin a + 1..a + b PROVE FALSE
    <3>1. i \in 1..a + (b + c) /\ s[i] # BLANK
      BY <1>3, <1>4, <1>5, <1>11
    <3>2. i \in 1..a \/ i \in a + b + 1..a + b + c
      BY <1>3, <1>4, <1>5, <2>1, <3>1
    <3>3. QED
      BY <1>3, <1>4, <1>5, <1>9, <1>10, <3>1, <3>2
  <2>2. QED
    BY <1>3, <1>4, <1>5, <2>1
<1>14. CASE b = 0
  <2>1. solid = {}
    <3>1. a + 1..a + b = {}
      BY <1>3, <1>4, <1>5, <1>14
    <3> HIDE DEF solid
    <3>2. QED
      BY <1>3, <1>4, <1>5, <1>13, <3>1
  <2>2. x = <<>>
    BY <1>3, <1>5, <1>4, <1>14, EmptySeq
  <2>3. QED
    BY <1>3, <1>4, <1>5, <1>6, <1>8, <1>12, <2>1, <2>2
<1>15. CASE b # 0
  <2>1. x # <<>>
    BY <1>3, <1>5, <1>4, <1>15, EmptySeq
  <2>2. x[1] # BLANK /\ x[b] # BLANK
    BY <1>3, <1>5, <1>4, <2>1 DEF Solid
  <2>3. 1 \in 1..b /\ b \in 1..b /\ a + 1 \in 1..a + (b + c) /\ a + b \in 1..a + (b + c)
    BY <1>3, <1>4, <1>5, <1>15
  <2>4. a + 1 \in solid /\ a + b \in solid
    BY <1>3, <1>4, <1>5, <1>10, <1>11, <2>2, <2>3
  <2>5. solid \in SUBSET Nat
    BY <1>3, <1>4, <1>5, <1>11
  <2>6. (\A i \in solid : a + 1 <= i) /\ (\A i \in solid : i <= a + b)
    BY <1>3, <1>4, <1>5, <1>13
  <2> HIDE DEF solid
  <2>7. Min(solid) = a + 1
    BY <2>4, <2>5, <2>6, LeastPosition, Zenon
  <2>8. Max(solid) = a + b
    BY <2>4, <2>5, <2>6, LeastPosition, Zenon
  <2>9. TrimText(s) = SubSeq(s, a + 1, a + b)
    BY <1>3, <1>4, <1>5, <1>12, <2>4, <2>7, <2>8
  <2>10. \A i \in a + 1..a + b : s[i] \in S
    <3>1. ASSUME NEW i \in a + 1..a + b PROVE s[i] \in S
      <4>1. i \in 1..Len(s)
        BY <1>3, <1>4, <1>5, <1>9
      <4>2. QED
        BY <1>3, <1>4, <1>5, <4>1, ElementOfSeq
    <3>2. QED
      BY <1>3, <1>4, <1>5, <3>1
  <2>11. SubSeq(s, a + 1, a + b) \in Seq(S)
    BY <1>3, <1>4, <1>5, <2>10, SubSeqProperties
  <2>12. Len(SubSeq(s, a + 1, a + b)) = IF a + 1 <= a + b THEN (a + b) - (a + 1) + 1 ELSE 0
    BY <1>3, <1>4, <1>5, <2>10, SubSeqProperties
  <2>13. \A i \in 1..(a + b) - (a + 1) + 1 : SubSeq(s, a + 1, a + b)[i] = s[(a + 1) + i - 1]
    BY <1>3, <1>4, <1>5, <2>10, SubSeqProperties
  <2>14. Len(SubSeq(s, a + 1, a + b)) = b
    BY <1>3, <1>4, <1>5, <1>15, <2>12
  <2>15. \A i \in 1..b : SubSeq(s, a + 1, a + b)[i] = x[i]
    <3>1. \A i \in 1..b : i \in 1..(a + b) - (a + 1) + 1 /\ (a + 1) + i - 1 = a + i
      BY <1>3, <1>4, <1>5
    <3>2. QED
      BY <1>3, <1>4, <1>5, <1>10, <2>13, <3>1
  <2>16. SubSeq(s, a + 1, a + b) = x
    BY <1>3, <1>5, <1>4, <2>11, <2>14, <2>15, SeqEqual
  <2>17. QED
    BY <1>3, <1>4, <1>5, <1>6, <1>8, <2>9, <2>16
<1>16. QED
  BY <1>14, <1>15

\* The symbols of what is cut.
IsPiece(v, lo, hi) == \A i \in 1..hi - lo + 1 : SubSeq(v, lo, hi)[i] = v[lo + i - 1]

LEMMA PieceAt ==
  ASSUME NEW S, NEW v, NEW lo \in Int, NEW hi \in Int, \A i \in lo..hi : v[i] \in S
  PROVE  IsPiece(v, lo, hi)
BY SubSeqProperties DEF IsPiece

\* A text x of length b between two others, in v of length n.
Between(v, p, x, q, a, b, n) ==
  /\ v = (p \o x) \o q /\ Len(p \o x) = a + b
  /\ a + b <= n /\ n = a + b + Len(q)
  /\ \A i \in a + 1..a + b : v[i] = x[i - a]
  /\ SubSeq(v, a + 1, a + b) = x
  /\ SubSeq(v, a + 1, n) = x \o q

LEMMA Inside ==
  ASSUME NEW S, NEW p \in Seq(S), NEW x \in Seq(S), NEW q \in Seq(S), NEW v, v = p \o (x \o q),
         NEW a \in Nat, a = Len(p), NEW b \in Nat, b = Len(x), NEW n \in Nat, n = Len(v)
  PROVE  Between(v, p, x, q, a, b, n) /\ p \o x \in Seq(S) /\ v \in Seq(S)
<1>1. v \in Seq(S) /\ v = (p \o x) \o q /\ p \o x \in Seq(S) /\ x \o q \in Seq(S)
  <2>1. (p \o x) \o q = p \o (x \o q)
    BY ConcatAssociative
  <2>2. p \o x \in Seq(S) /\ x \o q \in Seq(S)
    BY ConcatProperties
  <2>3. p \o (x \o q) \in Seq(S)
    BY <2>2, ConcatProperties
  <2>4. QED
    BY <2>1, <2>2, <2>3
<1>2. PICK c \in Nat : c = Len(q)
  BY LenProperties
<1>3. PICK d \in Nat : d = Len(x \o q)
  BY <1>1, LenProperties
<1>4. d = b + c /\ n = a + d
  BY <1>1, <1>2, <1>3, ConcatProperties
<1>5. Len(p \o x) = a + b
  BY ConcatProperties
<1>6. /\ \A i \in 1..b : (x \o q)[i] = x[i]
      /\ \A i \in 1..d : v[a + i] = (x \o q)[i]
  <2>1. \A i \in 1..b : (x \o q)[i] = x[i]
    BY JoinedAt
  <2>2. PICK y \in Seq(S) : y = x \o q
    BY <1>1
  <2>3. \A i \in 1..Len(y) : (p \o y)[Len(p) + i] = y[i]
    BY <2>2, JoinedAt
  <2>4. v = p \o y
    BY <2>2
  <2>5. \A i \in 1..d : v[a + i] = y[i]
    BY <1>3, <2>2, <2>3, <2>4, Zenon
  <2>6. QED
    BY <2>1, <2>2, <2>5, Zenon
<1>7. \A i \in a + 1..a + b : v[i] = x[i - a]
  <2>1. ASSUME NEW i \in a + 1..a + b PROVE v[i] = x[i - a]
    <3>1. PICK j \in 1..b : j = i - a
      <4>1. i - a \in 1..b
        OBVIOUS
      <4>2. QED
        BY <4>1
    <3>2. j \in 1..d /\ a + j = i
      BY <1>2, <1>4, <3>1
    <3>3. v[a + j] = (x \o q)[j] /\ (x \o q)[j] = x[j]
      BY <1>6, <3>1, <3>2, Zenon
    <3>4. QED
      BY <3>1, <3>2, <3>3
  <2>2. QED
    BY <2>1
<1>8. SubSeq(v, a + 1, n) = x \o q
  <2>1. PICK y \in Seq(S) : y = x \o q
    BY <1>1
  <2>2. SubSeq(p \o y, Len(p) + 1, Len(p \o y)) = y
    BY CutJoined
  <2>3. QED
    BY <2>1, <2>2, Zenon
<1>9. SubSeq(v, a + 1, a + b) = x
  <2>1. \A i \in a + 1..a + b : v[i] \in S
    <3>1. ASSUME NEW i \in a + 1..a + b PROVE v[i] \in S
      <4>1. i \in 1..n
        BY <1>2, <1>4
      <4>2. QED
        BY <1>1, <4>1, ElementOfSeq
    <3>2. QED
      BY <3>1
  <2>2. /\ SubSeq(v, a + 1, a + b) \in Seq(S)
        /\ Len(SubSeq(v, a + 1, a + b)) = IF a + 1 <= a + b THEN (a + b) - (a + 1) + 1 ELSE 0
        /\ \A i \in 1..(a + b) - (a + 1) + 1 : SubSeq(v, a + 1, a + b)[i] = v[(a + 1) + i - 1]
    <3>1. PICK lo \in Int : lo = a + 1
      OBVIOUS
    <3>2. PICK hi \in Int : hi = a + b
      OBVIOUS
    <3>3. \A i \in lo..hi : v[i] \in S
      BY <2>1, <3>1, <3>2, Zenon
    <3>4. SubSeq(v, lo, hi) \in Seq(S)
      BY <3>3, SubSeqProperties
    <3>5. Len(SubSeq(v, lo, hi)) = IF lo <= hi THEN hi - lo + 1 ELSE 0
      BY <3>3, SubSeqProperties
    <3>6. \A i \in 1..hi - lo + 1 : SubSeq(v, lo, hi)[i] = v[lo + i - 1]
      <4>1. IsPiece(v, lo, hi)
        BY <3>3, PieceAt, Zenon
      <4>2. QED
        BY <4>1, Zenon DEF IsPiece
    <3>7. QED
      BY <3>1, <3>2, <3>4, <3>5, <3>6, Zenon
  <2>3. Len(SubSeq(v, a + 1, a + b)) = b
    BY <2>2
  <2>4. ASSUME NEW i \in 1..b PROVE SubSeq(v, a + 1, a + b)[i] = x[i]
    <3>1. i \in 1..(a + b) - (a + 1) + 1 /\ (a + 1) + i - 1 = a + i /\ a + i \in a + 1..a + b /\ (a + i) - a = i
      OBVIOUS
    <3>2. SubSeq(v, a + 1, a + b)[i] = v[a + i]
      BY <2>2, <3>1
    <3>3. v[a + i] = x[i]
      BY <1>7, <3>1
    <3>4. QED
      BY <3>2, <3>3
  <2>5. QED
    BY <2>2, <2>3, <2>4, SeqEqual
<1>10. a + b <= n /\ n = a + b + Len(q)
  BY <1>2, <1>4
<1>11. QED
  BY <1>1, <1>5, <1>7, <1>8, <1>9, <1>10 DEF Between

-----------------------------------------------------------------------------
(***************************************************************************)
(* The substitution of variables: its recursive function has a value, and  *)
(* what it makes of each part of a value.                                  *)
(***************************************************************************)
\* The maps from keys to values.
Maps == UNION {[K -> Seq(Letters)] : K \in SUBSET Seq(Letters)}

LEMMA MapIs ==
  ASSUME NEW m
  PROVE  m \in Maps <=> /\ m \in [DOMAIN m -> Seq(Letters)]
                        /\ DOMAIN m \subseteq Seq(Letters)
BY Zenon DEF Maps

LEMMA SymbolsThere ==
  /\ {OPEN_TAG, CLOSE_TAG, "=", "#", BLANK, NEWLINE} \subseteq Letters
  /\ OPEN_TAG # CLOSE_TAG
  /\ BLANK # "#" /\ BLANK # "="
  /\ OPEN_TAG # "#" /\ CLOSE_TAG # "#" /\ "=" # "#"
  /\ NEWLINE \notin {OPEN_TAG, CLOSE_TAG, BLANK, "=", "#"}
<1>1. {OPEN_TAG, CLOSE_TAG, "=", "#", BLANK, NEWLINE} \subseteq Letters
  BY PropertyAssumption, Zenon
<1>2. OPEN_TAG # CLOSE_TAG
  BY Zenon DEF OPEN_TAG, CLOSE_TAG
<1>3. BLANK # "#" /\ BLANK # "="
  BY Zenon DEF BLANK
<1>4. OPEN_TAG # "#" /\ CLOSE_TAG # "#" /\ "=" # "#"
  BY Zenon DEF OPEN_TAG, CLOSE_TAG
<1>5. NEWLINE \notin {OPEN_TAG, CLOSE_TAG, BLANK, "=", "#"}
  BY Zenon DEF OPEN_TAG, CLOSE_TAG, BLANK, NEWLINE
<1>6. QED
  BY <1>1, <1>2, <1>3, <1>4, <1>5, Zenon

LEMMA ValueText1 ==
  ASSUME properties \in Maps, NEW key \in Seq(Letters)
  PROVE  Value(key) \in Seq(Letters)
<1>1. <<OPEN_TAG>> \in Seq(Letters) /\ <<>> \in Seq(Letters)
  BY SymbolsThere, Joins, Zenon
<1>2. properties \in [DOMAIN properties -> Seq(Letters)]
  BY MapIs, Zenon
<1>3. key \in DOMAIN Environment => Environment[key] \in Seq(Letters)
  BY PropertyAssumption, Zenon
<1>4. key \in DOMAIN properties => properties[key] \in Seq(Letters)
  BY <1>2, Zenon
<1>5. QED
  BY <1>1, <1>3, <1>4, Zenon DEF Value

\* What is read from `left` on, with g for what is read after a variable.
Rest(v, left, g) ==
  LET open == Find(v, OPEN_TAG, left)
      close == Find(v, CLOSE_TAG, open + 1)
  IN  IF open = 0 \/ close = 0 THEN SubSeq(v, left, Len(v))
      ELSE SubSeq(v, left, open - 1) \o Value(SubSeq(v, open + 1, close - 1)) \o g[close + 1]

LEMMA PartOf ==
  ASSUME NEW S, NEW v \in Seq(S), NEW n \in Nat, n = Len(v), NEW i \in Nat \ {0}, NEW j \in Nat, j <= n
  PROVE  SubSeq(v, i, j) \in Seq(S)
<1>1. \A k \in i..j : v[k] \in S
  <2>1. ASSUME NEW k \in i..j PROVE v[k] \in S
    <3>1. k \in 1..n
      OBVIOUS
    <3>2. QED
      BY <3>1, ElementOfSeq
  <2>2. QED
    BY <2>1
<1>2. QED
  BY <1>1, SubSeqProperties

Agree(g, h, left, n) == \A i \in left + 1..n + 1 : g[i] = h[i]

LEMMA RestIs ==
  ASSUME properties \in Maps, NEW v \in Seq(Letters), NEW n \in Nat, n = Len(v), NEW left \in 1..n + 1,
         NEW g \in [1..n + 1 -> Seq(Letters)], NEW h,
         Agree(g, h, left, n)
  PROVE  Rest(v, left, g) = Rest(v, left, h) /\ Rest(v, left, g) \in Seq(Letters)
<1>1. PICK open : open = Find(v, OPEN_TAG, left)
  OBVIOUS
<1>2. PICK close : close = Find(v, CLOSE_TAG, open + 1)
  OBVIOUS
<1>3. left \in Nat \ {0}
  OBVIOUS
<1>4. open = 0 \/ open \in left..n
  BY <1>1, <1>3, FindIs
<1>5. open + 1 \in Nat \ {0}
  BY <1>4
<1>6. close = 0 \/ close \in open + 1..n
  BY <1>2, <1>5, FindIs
<1>7. CASE open = 0 \/ close = 0
  <2>1. Rest(v, left, g) = SubSeq(v, left, Len(v)) /\ Rest(v, left, h) = SubSeq(v, left, Len(v))
    BY <1>1, <1>2, <1>7, Zenon DEF Rest
  <2>2. SubSeq(v, left, n) \in Seq(Letters)
    BY <1>3, PartOf
  <2>3. QED
    BY <2>1, <2>2
<1>8. CASE ~(open = 0 \/ close = 0)
  <2>1. open \in left..n /\ close \in open + 1..n
    BY <1>4, <1>6, <1>8
  <2>2. /\ close + 1 \in left + 1..n + 1 /\ close + 1 \in 1..n + 1
        /\ open + 1 \in Nat \ {0} /\ close - 1 \in Nat /\ close - 1 <= n
        /\ open - 1 \in Nat /\ open - 1 <= n
    BY <2>1
  <2>3. SubSeq(v, left, open - 1) \in Seq(Letters) /\ SubSeq(v, open + 1, close - 1) \in Seq(Letters)
    BY <1>3, <2>2, PartOf
  <2>4. PICK s \in Seq(Letters) : s = SubSeq(v, left, open - 1)
    BY <2>3
  <2>5. PICK u \in Seq(Letters) : u = Value(SubSeq(v, open + 1, close - 1))
    BY <2>3, ValueText1, Zenon
  <2>6. g[close + 1] = h[close + 1] /\ g[close + 1] \in Seq(Letters)
    BY <2>2 DEF Agree
  <2>7. Rest(v, left, g) = s \o u \o g[close + 1] /\ Rest(v, left, h) = s \o u \o h[close + 1]
    BY <1>1, <1>2, <1>8, <2>4, <2>5, Zenon DEF Rest
  <2>8. s \o u \o g[close + 1] \in Seq(Letters)
    BY <2>4, <2>5, <2>6, Joins, Zenon
  <2>9. QED
    BY <2>6, <2>7, <2>8, Zenon
<1>9. QED
  BY <1>7, <1>8

Reader(v) == CHOOSE rest : rest = [left \in 1..Len(v) + 1 |-> Rest(v, left, rest)]

LEMMA ReaderIs ==
  ASSUME properties \in Maps, NEW v \in Seq(Letters), NEW n \in Nat, n = Len(v)
  PROVE  /\ Substituted(v) = Reader(v)[1]
         /\ \A left \in 1..n + 1 : Reader(v)[left] = Rest(v, left, Reader(v)) /\ Reader(v)[left] \in Seq(Letters)
<1> DEFINE D == [1..n + 1 -> Seq(Letters)]
           Good(k) == \E g \in D : \A left \in 1..n + 1 : left + k >= n + 2 => g[left] = Rest(v, left, g)
           T == {k \in Nat : k <= n + 1 => Good(k)}
<1>0. ASSUME NEW g \in D, NEW h, NEW left \in 1..n + 1, Agree(g, h, left, n)
      PROVE  Rest(v, left, g) = Rest(v, left, h)
  <2>1. g \in [1..n + 1 -> Seq(Letters)]
    OBVIOUS
  <2>2. QED
    BY <1>0, <2>1, RestIs
<1>1. Good(0)
  <2>1. PICK g : g = [i \in 1..n + 1 |-> <<>>]
    OBVIOUS
  <2>2. g \in D
    <3>1. <<>> \in Seq(Letters)
      BY Joins, Zenon
    <3>2. QED
      BY <2>1, <3>1
  <2>3. \A left \in 1..n + 1 : ~(left + 0 >= n + 2)
    OBVIOUS
  <2> HIDE DEF D
  <2>4. QED
    BY <2>2, <2>3, Zenon
<1>2. ASSUME NEW k \in Nat, k + 1 <= n + 1, Good(k) PROVE Good(k + 1)
  <2>1. PICK g \in D : \A left \in 1..n + 1 : left + k >= n + 2 => g[left] = Rest(v, left, g)
    BY <1>2, Zenon
  <2>2. PICK now \in 1..n + 1 : now = n + 1 - k
    <3>1. n + 1 - k \in 1..n + 1
      BY <1>2
    <3>2. QED
      BY <3>1
  <2>3. PICK u : u = Rest(v, now, g)
    OBVIOUS
  <2>4. u \in Seq(Letters)
    <3>1. Agree(g, g, now, n)
      BY Zenon DEF Agree
    <3>2. QED
      BY <2>1, <2>3, <3>1, RestIs, Zenon
  <2>5. PICK more : more = [g EXCEPT ![now] = u]
    OBVIOUS
  <2>6. more \in D /\ more[now] = u /\ \A i \in 1..n + 1 : i # now => more[i] = g[i]
    BY <2>1, <2>2, <2>4, <2>5
  <2>7. ASSUME NEW left \in 1..n + 1, left + (k + 1) >= n + 2 PROVE more[left] = Rest(v, left, more)
    <3>1. left >= now /\ (left # now => left + k >= n + 2) /\ left \in Nat
      BY <1>2, <2>2, <2>7
    <3>2. \A i \in left + 1..n + 1 : i \in 1..n + 1 /\ i # now
      BY <2>2, <3>1
    <3>3. \A i \in left + 1..n + 1 : g[i] = more[i]
      BY <2>6, <3>2, Zenon
    <3>4. Rest(v, left, g) = Rest(v, left, more)
      <4>1. Agree(g, more, left, n)
        BY <3>3, Zenon DEF Agree
      <4>2. QED
        BY <1>0, <2>1, <4>1, Zenon
    <3>5. CASE left = now
      BY <2>3, <2>6, <3>4, <3>5, Zenon
    <3>6. CASE left # now
      BY <2>1, <2>6, <3>1, <3>4, <3>6, Zenon
    <3>7. QED
      BY <3>5, <3>6
  <2> HIDE DEF D
  <2>8. QED
    BY <2>6, <2>7, Zenon
<1>3. Good(n + 1)
  <2> HIDE DEF Good
  <2>1. 0 \in T
    BY <1>1
  <2>2. ASSUME NEW k \in Nat, k \in T PROVE k + 1 \in T
    <3>1. SUFFICES ASSUME k + 1 <= n + 1 PROVE Good(k + 1)
      OBVIOUS
    <3>2. k <= n + 1
      BY <3>1
    <3>3. QED
      BY <1>2, <2>2, <3>1, <3>2
  <2>3. Nat \subseteq T
    <3> HIDE DEF T
    <3> QED
      BY <2>1, <2>2, Induction, Zenon
  <2>4. n + 1 \in T
    <3>1. n + 1 \in Nat
      OBVIOUS
    <3> HIDE DEF T
    <3>2. QED
      BY <2>3, <3>1
  <2>5. QED
    BY <2>4
<1>4. PICK g \in D : \A left \in 1..n + 1 : g[left] = Rest(v, left, g)
  <2>1. PICK g \in D : \A left \in 1..n + 1 : left + (n + 1) >= n + 2 => g[left] = Rest(v, left, g)
    BY <1>3, Zenon
  <2>2. \A left \in 1..n + 1 : left + (n + 1) >= n + 2
    OBVIOUS
  <2>3. QED
    BY <2>1, <2>2, Zenon
<1>5. g = [left \in 1..Len(v) + 1 |-> Rest(v, left, g)]
  BY <1>4, Zenon
<1>6. Reader(v) = [left \in 1..Len(v) + 1 |-> Rest(v, left, Reader(v))]
  BY <1>5, Zenon DEF Reader
<1>7. \A left \in 1..n + 1 : Reader(v)[left] = Rest(v, left, Reader(v))
  BY <1>6, Zenon
<1>8. \A left \in 1..n + 1 : Reader(v)[left] \in Seq(Letters)
  <2> DEFINE r == Reader(v)
             Same(k) == \A left \in 1..n + 1 : left + k >= n + 2 => r[left] = g[left]
             U == {k \in Nat : k <= n + 1 => Same(k)}
  <2>1. Same(0)
    OBVIOUS
  <2>2. ASSUME NEW k \in Nat, k + 1 <= n + 1, Same(k) PROVE Same(k + 1)
    <3>1. ASSUME NEW left \in 1..n + 1, left + (k + 1) >= n + 2 PROVE r[left] = g[left]
      <4>1. \A i \in left + 1..n + 1 : i \in 1..n + 1 /\ i + k >= n + 2
        BY <3>1
      <4>2. \A i \in left + 1..n + 1 : g[i] = r[i]
        BY <2>2, <4>1, Zenon
      <4>3. Rest(v, left, g) = Rest(v, left, r)
        <5>1. Agree(g, r, left, n)
          BY <4>2, Zenon DEF Agree
        <5>2. QED
          BY <1>0, <1>4, <5>1, Zenon
      <4>4. QED
        BY <1>4, <1>7, <4>3, Zenon
    <3>2. QED
      BY <3>1, Zenon
  <2> HIDE DEF Same, r
  <2>3. Nat \subseteq U
    <3>1. 0 \in U
      BY <2>1
    <3>2. ASSUME NEW k \in Nat, k \in U PROVE k + 1 \in U
      <4>1. SUFFICES ASSUME k + 1 <= n + 1 PROVE Same(k + 1)
        OBVIOUS
      <4>2. k <= n + 1
        BY <4>1
      <4>3. QED
        BY <2>2, <3>2, <4>1, <4>2
    <3> HIDE DEF U
    <3>3. QED
      BY <3>1, <3>2, Induction, Zenon
  <2>4. Same(n + 1)
    <3>1. n + 1 \in Nat /\ n + 1 <= n + 1
      OBVIOUS
    <3>2. n + 1 \in U
      <4> HIDE DEF U
      <4> QED
        BY <2>3, <3>1
    <3>3. QED
      BY <3>1, <3>2
  <2>5. \A left \in 1..n + 1 : left + (n + 1) >= n + 2
    OBVIOUS
  <2>6. \A left \in 1..n + 1 : r[left] = g[left]
    BY <2>4, <2>5, Zenon DEF Same
  <2>7. \A left \in 1..n + 1 : g[left] \in Seq(Letters)
    BY <1>4
  <2>8. QED
    BY <2>6, <2>7, Zenon DEF r
<1>9. Substituted(v) = Reader(v)[1]
  BY Zenon DEF Substituted, Reader, Rest
<1>10. QED
  BY <1>7, <1>8, <1>9

\* Reading the value v from where t begins yields u.
Reads(v, t, u) == \A pre \in Seq(Letters) : v = pre \o t => Reader(v)[Len(pre) + 1] = u

LEMMA ReadsNothing ==
  ASSUME properties \in Maps, NEW v \in Seq(Letters)
  PROVE  Reads(v, <<>>, <<>>)
<1>1. SUFFICES ASSUME NEW pre \in Seq(Letters), v = pre \o <<>> PROVE Reader(v)[Len(pre) + 1] = <<>>
  BY Zenon DEF Reads
<1>2. PICK n \in Nat : n = Len(v)
  BY LenProperties
<1>3. v = pre
  BY <1>1, ConcatEmptySeq
<1>4. n + 1 \in 1..n + 1
  BY <1>2
<1>5. Reader(v)[n + 1] = Rest(v, n + 1, Reader(v))
  BY <1>2, <1>4, ReaderIs, Zenon
<1>6. Find(v, OPEN_TAG, n + 1) = 0
  <2>1. n + 1 \in Nat \ {0} /\ \A i \in n + 1..n : v[i] # OPEN_TAG
    BY <1>2
  <2>2. QED
    BY <1>2, <2>1, FindNothing
<1>7. Rest(v, n + 1, Reader(v)) = SubSeq(v, n + 1, Len(v))
  BY <1>6, Zenon DEF Rest
<1>8. SubSeq(v, n + 1, n) = <<>>
  BY <1>2, SubSeqEmpty
<1>9. QED
  BY <1>2, <1>3, <1>5, <1>7, <1>8

\* Text is read as it is, whatever follows it.
LEMMA ReadsText ==
  ASSUME properties \in Maps, NEW v \in Seq(Letters), NEW x \in Seq(Letters \ {OPEN_TAG}),
         NEW t \in Seq(Letters), NEW u \in Seq(Letters), Reads(v, t, u)
  PROVE  Reads(v, x \o t, x \o u)
<1>1. SUFFICES ASSUME NEW pre \in Seq(Letters), v = pre \o (x \o t) PROVE Reader(v)[Len(pre) + 1] = x \o u
  BY Zenon DEF Reads
<1> DEFINE r == Reader(v)
<1>2. x \in Seq(Letters) /\ \A i \in 1..Len(x) : x[i] # OPEN_TAG
  BY NotIn
<1>3. PICK n \in Nat : n = Len(v)
  BY LenProperties
<1>4. PICK a \in Nat : a = Len(pre)
  BY LenProperties
<1>5. PICK b \in Nat : b = Len(x)
  BY <1>2, LenProperties
<1>6. /\ v = (pre \o x) \o t /\ pre \o x \in Seq(Letters) /\ Len(pre \o x) = a + b
      /\ a + b <= n
      /\ \A i \in a + 1..a + b : v[i] = x[i - a]
      /\ SubSeq(v, a + 1, a + b) = x
  <2>1. Between(v, pre, x, t, a, b, n) /\ pre \o x \in Seq(Letters)
    BY <1>1, <1>2, <1>3, <1>4, <1>5, Inside, Zenon
  <2>2. QED
    BY <2>1, Zenon DEF Between
<1>7. r[a + b + 1] = u
  BY <1>6, Zenon DEF Reads
<1>8. \A i \in a + 1..a + b : v[i] # OPEN_TAG
  <2>1. ASSUME NEW i \in a + 1..a + b PROVE v[i] # OPEN_TAG
    <3>1. i - a \in 1..b
      BY <1>4, <1>5
    <3>2. QED
      BY <1>2, <1>5, <1>6, <3>1
  <2>2. QED
    BY <2>1
<1>9. /\ a + 1 \in 1..n + 1 /\ a + b + 1 \in 1..n + 1
      /\ a + 1 \in Nat \ {0} /\ a + b + 1 \in Nat \ {0}
  BY <1>3, <1>4, <1>5, <1>6
<1>10. r[a + 1] = Rest(v, a + 1, r) /\ r[a + b + 1] = Rest(v, a + b + 1, r)
       /\ \A i \in 1..n + 1 : r[i] \in Seq(Letters)
  BY <1>3, <1>9, ReaderIs, Zenon
<1>11. PICK open : open = Find(v, OPEN_TAG, a + b + 1)
  OBVIOUS
<1>12. PICK close : close = Find(v, CLOSE_TAG, open + 1)
  OBVIOUS
<1>13. \/ open = 0 /\ \A i \in a + b + 1..n : v[i] # OPEN_TAG
       \/ /\ open \in a + b + 1..n /\ v[open] = OPEN_TAG
          /\ \A i \in a + b + 1..n : i < open => v[i] # OPEN_TAG
  BY <1>3, <1>9, <1>11, FindIs
<1>14. Find(v, OPEN_TAG, a + 1) = open
  <2>1. \A i \in a + 1..n : i \in a + 1..a + b \/ i \in a + b + 1..n
    BY <1>4, <1>5
  <2>2. CASE open = 0 /\ \A i \in a + b + 1..n : v[i] # OPEN_TAG
    <3>1. \A i \in a + 1..n : v[i] # OPEN_TAG
      BY <1>8, <2>1, <2>2
    <3>2. QED
      BY <1>3, <1>9, <2>2, <3>1, FindNothing
  <2>3. CASE /\ open \in a + b + 1..n /\ v[open] = OPEN_TAG
             /\ \A i \in a + b + 1..n : i < open => v[i] # OPEN_TAG
    <3>1. open \in a + 1..n
      BY <1>4, <1>5, <2>3
    <3>2. \A i \in a + 1..n : i < open => v[i] # OPEN_TAG
      BY <1>8, <2>1, <2>3
    <3>3. Leads(v, OPEN_TAG, a + 1, n, open) /\ a + 1 \in Nat \ {0}
      BY <1>9, <2>3, <3>1, <3>2, Zenon DEF Leads
    <3>4. QED
      BY <1>3, <3>3, FindLeads
  <2>4. QED
    BY <1>13, <2>2, <2>3
<1>15. \A k \in a + b..n : SubSeq(v, a + 1, k) = x \o SubSeq(v, a + b + 1, k)
  <2>1. ASSUME NEW k \in a + b..n PROVE SubSeq(v, a + 1, k) = x \o SubSeq(v, a + b + 1, k)
    <3>1. a + 1 \in 1..Len(v) + 1 /\ a + b \in (a + 1) - 1..Len(v) /\ k \in a + b..Len(v)
      BY <1>3, <1>4, <1>5, <1>6
    <3>2. SubSeq(v, a + 1, a + b) \o SubSeq(v, (a + b) + 1, k) = SubSeq(v, a + 1, k)
      BY <3>1, ConcatAdjacentSubSeq
    <3>3. QED
      BY <1>6, <3>2
  <2>2. QED
    BY <2>1
<1>16. CASE open = 0 \/ close = 0
  <2>1. r[a + 1] = SubSeq(v, a + 1, n) /\ u = SubSeq(v, a + b + 1, n)
    BY <1>3, <1>7, <1>10, <1>11, <1>12, <1>14, <1>16, Zenon DEF Rest
  <2>2. n \in a + b..n
    BY <1>3, <1>4, <1>5, <1>6
  <2>3. QED
    BY <1>4, <1>15, <2>1, <2>2
<1>17. CASE ~(open = 0 \/ close = 0)
  <2>1. open \in a + b + 1..n
    BY <1>13, <1>17
  <2>2. open + 1 \in Nat \ {0}
    BY <2>1
  <2>3. close \in open + 1..n
    BY <1>3, <1>12, <1>17, <2>2, FindIs
  <2>4. /\ open - 1 \in a + b..n /\ open - 1 \in Nat /\ open - 1 <= n
        /\ close - 1 \in Nat /\ close - 1 <= n /\ close + 1 \in 1..n + 1
    BY <1>3, <1>4, <1>5, <2>1, <2>3
  <2>5. PICK s \in Seq(Letters) : s = SubSeq(v, a + b + 1, open - 1)
    BY <1>3, <1>9, <2>4, PartOf
  <2>6. SubSeq(v, open + 1, close - 1) \in Seq(Letters)
    BY <1>3, <2>2, <2>4, PartOf
  <2>7. PICK y \in Seq(Letters) : y = Value(SubSeq(v, open + 1, close - 1))
    BY <2>6, ValueText1, Zenon
  <2>8. PICK w \in Seq(Letters) : w = r[close + 1]
    BY <1>10, <2>4
  <2>9. r[a + 1] = SubSeq(v, a + 1, open - 1) \o y \o w /\ u = s \o y \o w
    BY <1>7, <1>10, <1>11, <1>12, <1>14, <1>17, <2>5, <2>7, <2>8, Zenon DEF Rest
  <2>10. SubSeq(v, a + 1, open - 1) = x \o s
    BY <1>15, <2>4, <2>5
  <2>11. ((x \o s) \o y) \o w = x \o ((s \o y) \o w)
    <3>1. s \o y \in Seq(Letters)
      BY ConcatProperties
    <3>2. Regroups(x, s, y) /\ Regroups(x, s \o y, w)
      BY <1>2, <3>1, Regrouped, Zenon
    <3>3. QED
      BY <3>2, Zenon DEF Regroups
  <2>12. QED
    BY <1>4, <2>9, <2>10, <2>11, Zenon
<1>18. QED
  BY <1>16, <1>17

\* A variable is read as its value.
LEMMA ReadsVariable ==
  ASSUME properties \in Maps, NEW v \in Seq(Letters), NEW x \in Seq(Letters \ {CLOSE_TAG}),
         NEW t \in Seq(Letters), NEW u \in Seq(Letters), Reads(v, t, u)
  PROVE  Reads(v, (<<OPEN_TAG>> \o x \o <<CLOSE_TAG>>) \o t, Value(x) \o u)
<1>1. SUFFICES ASSUME NEW pre \in Seq(Letters), v = pre \o ((<<OPEN_TAG>> \o x \o <<CLOSE_TAG>>) \o t)
               PROVE  Reader(v)[Len(pre) + 1] = Value(x) \o u
  BY Zenon DEF Reads
<1> DEFINE r == Reader(v)
<1>2. x \in Seq(Letters) /\ \A i \in 1..Len(x) : x[i] # CLOSE_TAG
  BY NotIn
<1>3. PICK n \in Nat : n = Len(v)
  BY LenProperties
<1>4. PICK a \in Nat : a = Len(pre)
  BY LenProperties
<1>5. PICK b \in Nat : b = Len(x)
  BY <1>2, LenProperties
<1>6. PICK o \in Seq(Letters) : o = <<OPEN_TAG>>
  BY SymbolsThere, Joins, Zenon
<1>7. PICK c \in Seq(Letters) : c = <<CLOSE_TAG>>
  BY SymbolsThere, Joins, Zenon
<1>8. Len(o) = 1 /\ o[1] = OPEN_TAG /\ Len(c) = 1 /\ c[1] = CLOSE_TAG
  BY <1>6, <1>7
<1>9. v = pre \o (o \o (x \o (c \o t)))
  <2>1. o \o x \in Seq(Letters) /\ c \o t \in Seq(Letters)
    BY <1>2, ConcatProperties
  <2>2. Regroups(o \o x, c, t) /\ Regroups(o, x, c \o t)
    BY <1>2, <2>1, Regrouped, Zenon
  <2>3. /\ ((o \o x) \o c) \o t = (o \o x) \o (c \o t)
        /\ (o \o x) \o (c \o t) = o \o (x \o (c \o t))
    BY <2>2, Zenon DEF Regroups
  <2>4. v = pre \o (((o \o x) \o c) \o t)
    BY <1>1, <1>6, <1>7, Zenon
  <2>5. QED
    BY <2>3, <2>4, Zenon
<1>10. PICK p \in Seq(Letters) : p = pre \o o
  BY ConcatProperties
<1>11. PICK s \in Seq(Letters) : s = p \o x
  BY <1>2, ConcatProperties
<1>12. PICK q \in Seq(Letters) : q = c \o t
  BY ConcatProperties
<1>13. PICK y \in Seq(Letters) : y = x \o q
  BY <1>2, ConcatProperties
<1>14. /\ v = p \o y /\ Len(p) = a + 1 /\ a + 1 <= n
       /\ \A i \in a + 1..a + 1 : v[i] = o[i - a]
  <2>1. v = pre \o (o \o y) /\ 1 \in Nat
    BY <1>9, <1>12, <1>13
  <2>2. Between(v, pre, o, y, a, 1, n)
    BY <1>3, <1>4, <1>8, <2>1, Inside, Zenon
  <2>3. QED
    BY <1>10, <2>2, Zenon DEF Between
<1>15. /\ v = s \o q /\ Len(s) = a + 1 + b /\ a + 1 + b <= n
       /\ \A i \in a + 1 + 1..a + 1 + b : v[i] = x[i - (a + 1)]
       /\ SubSeq(v, a + 1 + 1, a + 1 + b) = x
  <2>1. v = p \o (x \o q) /\ a + 1 \in Nat /\ a + 1 = Len(p)
    BY <1>4, <1>13, <1>14
  <2>2. Between(v, p, x, q, a + 1, b, n)
    BY <1>2, <1>3, <1>5, <2>1, Inside, Zenon
  <2>3. QED
    BY <1>11, <2>2, Zenon DEF Between
<1>16. /\ v = (s \o c) \o t /\ s \o c \in Seq(Letters) /\ Len(s \o c) = (a + 1 + b) + 1 /\ (a + 1 + b) + 1 <= n
       /\ \A i \in (a + 1 + b) + 1..(a + 1 + b) + 1 : v[i] = c[i - (a + 1 + b)]
  <2>1. v = s \o (c \o t) /\ a + 1 + b \in Nat /\ a + 1 + b = Len(s) /\ 1 \in Nat
    BY <1>4, <1>5, <1>12, <1>15
  <2>2. Between(v, s, c, t, a + 1 + b, 1, n) /\ s \o c \in Seq(Letters)
    BY <1>3, <1>8, <2>1, Inside, Zenon
  <2>3. QED
    BY <2>2, Zenon DEF Between
<1>17. v[a + 1] = OPEN_TAG
  <2>1. a + 1 \in a + 1..a + 1 /\ (a + 1) - a = 1
    BY <1>4
  <2>2. QED
    BY <1>8, <1>14, <2>1
<1>18. v[a + b + 2] = CLOSE_TAG
  <2>1. a + b + 2 \in (a + 1 + b) + 1..(a + 1 + b) + 1 /\ (a + b + 2) - (a + 1 + b) = 1
    BY <1>4, <1>5
  <2>2. QED
    BY <1>8, <1>16, <2>1
<1>19. \A i \in a + 2..a + b + 1 : v[i] # CLOSE_TAG
  <2>1. ASSUME NEW i \in a + 2..a + b + 1 PROVE v[i] # CLOSE_TAG
    <3>1. i \in a + 1 + 1..a + 1 + b /\ i - (a + 1) \in 1..b
      BY <1>4, <1>5
    <3>2. QED
      BY <1>2, <1>5, <1>15, <3>1
  <2>2. QED
    BY <2>1
<1>20. Find(v, OPEN_TAG, a + 1) = a + 1
  <2>1. a + 1 \in Nat \ {0} /\ a + 1 \in a + 1..n /\ \A i \in a + 1..n : ~(i < a + 1)
    BY <1>3, <1>4, <1>14
  <2>2. QED
    BY <1>3, <1>17, <2>1, FindThere
<1>21. Find(v, CLOSE_TAG, (a + 1) + 1) = a + b + 2
  <2>0. (a + 1 + b) + 1 <= n
    BY <1>16
  <2>1. /\ (a + 1) + 1 \in Nat \ {0} /\ a + b + 2 \in (a + 1) + 1..n
        /\ \A i \in (a + 1) + 1..n : i < a + b + 2 => i \in a + 2..a + b + 1
    <3>1. (a + 1) + 1 \in Nat \ {0} /\ (a + 1) + 1 = a + 2
      BY <1>4
    <3>2. a + b + 2 \in (a + 1) + 1..n
      BY <1>3, <1>4, <1>5, <2>0
    <3>3. ASSUME NEW i \in (a + 1) + 1..n, i < a + b + 2 PROVE i \in a + 2..a + b + 1
      BY <1>4, <1>5, <3>3
    <3>4. QED
      BY <3>1, <3>2, <3>3, Zenon
  <2>2. \A i \in (a + 1) + 1..n : i < a + b + 2 => v[i] # CLOSE_TAG
    BY <1>19, <2>1
  <2>3. PICK k : k = a + b + 2
    OBVIOUS
  <2>4. PICK m : m = (a + 1) + 1
    OBVIOUS
  <2>5. k \in m..n /\ m \in Nat \ {0} /\ v[k] = CLOSE_TAG /\ \A i \in m..n : i < k => v[i] # CLOSE_TAG
    BY <1>18, <2>1, <2>2, <2>3, <2>4, Zenon
  <2>6. Find(v, CLOSE_TAG, m) = k
    <3>1. Leads(v, CLOSE_TAG, m, n, k) /\ m \in Nat \ {0}
      BY <2>5, Zenon DEF Leads
    <3>2. QED
      BY <1>3, <3>1, FindLeads
  <2>7. QED
    BY <2>3, <2>4, <2>6, Zenon
<1>22. a + 1 # 0 /\ a + b + 2 # 0
  BY <1>4, <1>5
<1>23. /\ a + 1 \in 1..n + 1 /\ (a + 1) - 1 = a /\ (a + b + 2) - 1 = a + 1 + b /\ a < a + 1
       /\ (a + b + 2) + 1 = ((a + 1 + b) + 1) + 1 /\ (a + b + 2) + 1 \in 1..n + 1
  <2>1. (a + 1 + b) + 1 <= n
    BY <1>16
  <2>2. QED
    BY <1>3, <1>4, <1>5, <2>1
<1>24. r[a + 1] = Rest(v, a + 1, r)
  BY <1>3, <1>23, ReaderIs, Zenon
<1>25. r[a + 1] = SubSeq(v, a + 1, (a + 1) - 1)
                  \o Value(SubSeq(v, (a + 1) + 1, (a + b + 2) - 1)) \o r[(a + b + 2) + 1]
  BY <1>20, <1>21, <1>22, <1>24, Zenon DEF Rest
<1>26. SubSeq(v, a + 1, (a + 1) - 1) = <<>>
  <2>1. a + 1 \in Int /\ (a + 1) - 1 \in Int /\ (a + 1) - 1 < a + 1
    BY <1>4
  <2>2. QED
    BY <2>1, SubSeqEmpty
<1>27. SubSeq(v, (a + 1) + 1, (a + b + 2) - 1) = x
  BY <1>15, <1>23, Zenon
<1>28. r[(a + b + 2) + 1] = u
  <2>1. r[((a + 1 + b) + 1) + 1] = u
    BY <1>16, Zenon DEF Reads
  <2>2. QED
    BY <1>23, <2>1, Zenon
<1>29. PICK z \in Seq(Letters) : z = Value(x)
  BY <1>2, ValueText1, Zenon
<1>30. r[a + 1] = <<>> \o z \o u
  BY <1>25, <1>26, <1>27, <1>28, <1>29, Zenon
<1>31. <<>> \o z = z
  BY ConcatEmptySeq
<1>32. QED
  BY <1>4, <1>29, <1>30, <1>31, Zenon

\* An opening that nothing closes is read as it is.
LEMMA ReadsOpen ==
  ASSUME properties \in Maps, NEW v \in Seq(Letters), NEW x \in Seq(Letters \ {CLOSE_TAG})
  PROVE  Reads(v, <<OPEN_TAG>> \o x, <<OPEN_TAG>> \o x)
<1>1. SUFFICES ASSUME NEW pre \in Seq(Letters), v = pre \o (<<OPEN_TAG>> \o x)
               PROVE  Reader(v)[Len(pre) + 1] = <<OPEN_TAG>> \o x
  BY Zenon DEF Reads
<1> DEFINE r == Reader(v)
<1>2. x \in Seq(Letters) /\ \A i \in 1..Len(x) : x[i] # CLOSE_TAG
  BY NotIn
<1>3. PICK n \in Nat : n = Len(v)
  BY LenProperties
<1>4. PICK a \in Nat : a = Len(pre)
  BY LenProperties
<1>5. PICK b \in Nat : b = Len(x)
  BY <1>2, LenProperties
<1>6. PICK o \in Seq(Letters) : o = <<OPEN_TAG>>
  BY SymbolsThere, Joins, Zenon
<1>7. Len(o) = 1 /\ o[1] = OPEN_TAG
  BY <1>6
<1>8. /\ v = (pre \o o) \o x /\ pre \o o \in Seq(Letters) /\ Len(pre \o o) = a + 1 /\ a + 1 <= n
      /\ n = a + 1 + b
      /\ \A i \in a + 1..a + 1 : v[i] = o[i - a]
      /\ SubSeq(v, a + 1, n) = o \o x
  <2>1. v = pre \o (o \o x) /\ 1 \in Nat
    BY <1>1, <1>6
  <2>2. Between(v, pre, o, x, a, 1, n) /\ pre \o o \in Seq(Letters)
    BY <1>2, <1>3, <1>4, <1>7, <2>1, Inside, Zenon
  <2>3. n = a + 1 + b
    BY <1>5, <2>2, Zenon DEF Between
  <2>4. QED
    BY <2>2, <2>3, Zenon DEF Between
<1>9. \A i \in a + 2..n : v[i] # CLOSE_TAG
  <2>1. ASSUME NEW i \in a + 2..n PROVE v[i] # CLOSE_TAG
    <3>0. n = a + 1 + b
      BY <1>8
    <3>1. i - (a + 1) \in 1..b /\ (a + 1) + (i - (a + 1)) = i
      BY <1>4, <1>5, <3>0
    <3>2. PICK j \in 1..b : j = i - (a + 1)
      BY <3>1
    <3>3. PICK p \in Seq(Letters) : p = pre \o o
      BY <1>8
    <3>4. (p \o x)[Len(p) + j] = x[j]
      BY <1>2, <1>5, <3>3, JoinedAt
    <3>5. Len(p) + j = i /\ v = p \o x
      BY <1>8, <3>1, <3>2, <3>3
    <3>6. QED
      BY <1>2, <1>5, <3>4, <3>5
  <2>2. QED
    BY <2>1
<1>10. Find(v, OPEN_TAG, a + 1) = a + 1
  <2>1. /\ a + 1 \in Nat \ {0} /\ a + 1 \in a + 1..n /\ \A i \in a + 1..n : ~(i < a + 1)
        /\ a + 1 \in a + 1..a + 1 /\ (a + 1) - a = 1
    BY <1>3, <1>4, <1>8
  <2>2. v[a + 1] = OPEN_TAG
    BY <1>7, <1>8, <2>1
  <2>3. QED
    BY <1>3, <2>1, <2>2, FindThere
<1>11. Find(v, CLOSE_TAG, (a + 1) + 1) = 0
  <2>1. (a + 1) + 1 \in Nat \ {0} /\ \A i \in (a + 1) + 1..n : i \in a + 2..n
    BY <1>3, <1>4
  <2>2. \A i \in (a + 1) + 1..n : v[i] # CLOSE_TAG
    BY <1>9, <2>1
  <2>3. QED
    BY <1>3, <2>1, <2>2, FindNothing
<1>12. a + 1 \in 1..n + 1
  BY <1>3, <1>4, <1>8
<1>13. r[a + 1] = Rest(v, a + 1, r)
  BY <1>3, <1>12, ReaderIs, Zenon
<1>14. r[a + 1] = SubSeq(v, a + 1, Len(v))
  BY <1>10, <1>11, <1>13, Zenon DEF Rest
<1>15. QED
  BY <1>3, <1>4, <1>6, <1>8, <1>14, Zenon

\* What a part stands for, when m has been read.
StandsFor(m, p) ==
  CASE p.kind = "text" -> p.text
    [] p.kind = "escape" -> <<OPEN_TAG>>
    [] p.kind = "open" -> <<OPEN_TAG>> \o p.text
    [] p.kind = "variable" /\ p.text \in DOMAIN Environment -> Environment[p.text]
    [] p.kind = "variable" /\ p.text \in DOMAIN m \ DOMAIN Environment -> m[p.text]
    [] OTHER -> <<>>

Meaning(m, parts) == FlattenSeq([i \in DOMAIN parts |-> StandsFor(m, parts[i])])

\* A part is what its kind says.
PartIs(p) ==
  /\ p \in Part
  /\ p.kind = "text" => Without(p.text, {OPEN_TAG})
  /\ p.kind = "variable" => Without(p.text, {CLOSE_TAG}) /\ p.text # <<OPEN_TAG>>
  /\ p.kind = "open" => Without(p.text, {CLOSE_TAG})

LEMMA LineIs ==
  ASSUME NEW s \in Line
  PROVE  s \in Seq(Letters)
<1>1. s \in Seq(Letters \ {NEWLINE}) /\ Letters \ {NEWLINE} \subseteq Letters
  BY DEF Line
<1>2. QED
  BY <1>1, SeqMonotonic

LEMMA PartReads ==
  ASSUME properties \in Maps, NEW v \in Seq(Letters), NEW p, PartIs(p),
         NEW t \in Seq(Letters), NEW u \in Seq(Letters), Reads(v, t, u),
         p.kind = "open" => t = <<>> /\ u = <<>>
  PROVE  /\ Reads(v, PartText(p) \o t, StandsFor(properties, p) \o u)
         /\ PartText(p) \in Seq(Letters) /\ StandsFor(properties, p) \in Seq(Letters)
<1>1. /\ p.text \in Seq(Letters)
      /\ p.kind \in {"text", "variable", "escape", "open"}
  <2>1. p \in Part
    BY Zenon DEF PartIs
  <2>2. p.text \in Line /\ p.kind \in {"text", "variable", "escape", "open"}
    BY <2>1 DEF Part
  <2>3. QED
    BY <2>2, LineIs
<1>2. PICK x \in Seq(Letters) : x = p.text
  BY <1>1
<1>3. PICK o \in Seq(Letters) : o = <<OPEN_TAG>>
  BY SymbolsThere, Joins, Zenon
<1>4. PICK c \in Seq(Letters) : c = <<CLOSE_TAG>>
  BY SymbolsThere, Joins, Zenon
<1>5. CASE p.kind = "text"
  <2>1. PartText(p) = x
    BY <1>2, <1>5 DEF PartText
  <2>2. StandsFor(properties, p) = x
    BY <1>2, <1>5 DEF StandsFor
  <2>3. x \in Seq(Letters \ {OPEN_TAG})
    <3>1. Without(x, {OPEN_TAG})
      BY <1>2, <1>5, Zenon DEF PartIs
    <3>2. QED
      BY <3>1, WithoutIs
  <2>4. Reads(v, x \o t, x \o u)
    BY <2>3, ReadsText, Zenon
  <2>5. QED
    BY <2>1, <2>2, <2>4, Zenon
<1>6. CASE p.kind = "variable"
  <2>1. PartText(p) = o \o x \o c
    BY <1>2, <1>3, <1>4, <1>6 DEF PartText
  <2>2. x # <<OPEN_TAG>> /\ Without(x, {CLOSE_TAG})
    BY <1>2, <1>6, Zenon DEF PartIs
  <2>3. x \in Seq(Letters \ {CLOSE_TAG})
    BY <2>2, WithoutIs
  <2>4. Reads(v, (o \o x \o c) \o t, Value(x) \o u)
    BY <1>3, <1>4, <2>3, ReadsVariable, Zenon
  <2>5. StandsFor(properties, p) = Value(x)
    <3>1. CASE x \in DOMAIN Environment
      BY <1>2, <1>6, <2>2, <3>1 DEF StandsFor, Value
    <3>2. CASE x \notin DOMAIN Environment /\ x \in DOMAIN properties
      BY <1>2, <1>6, <2>2, <3>2 DEF StandsFor, Value
    <3>3. CASE x \notin DOMAIN Environment /\ x \notin DOMAIN properties
      BY <1>2, <1>6, <2>2, <3>3 DEF StandsFor, Value
    <3>4. QED
      BY <3>1, <3>2, <3>3, Zenon
  <2>6. Value(x) \in Seq(Letters) /\ o \o x \o c \in Seq(Letters)
    <3>1. o \o x \in Seq(Letters)
      BY ConcatProperties
    <3>2. (o \o x) \o c \in Seq(Letters)
      BY <3>1, ConcatProperties
    <3>3. QED
      BY <3>2, ValueText1, Zenon
  <2>7. QED
    BY <2>1, <2>4, <2>5, <2>6, Zenon
<1>7. CASE p.kind = "escape"
  <2>1. PartText(p) = o \o o \o c
    <3>1. PartText(p) = <<OPEN_TAG, OPEN_TAG, CLOSE_TAG>>
      BY <1>7 DEF PartText
    <3>2. <<OPEN_TAG, OPEN_TAG, CLOSE_TAG>> = (<<OPEN_TAG>> \o <<OPEN_TAG>>) \o <<CLOSE_TAG>>
      <4>1. OPEN_TAG \in Letters /\ CLOSE_TAG \in Letters
        BY SymbolsThere
      <4>2. Spelled(OPEN_TAG, OPEN_TAG, CLOSE_TAG)
        BY <4>1, ThreeOf, Zenon
      <4>3. QED
        BY <4>2, Zenon DEF Spelled
    <3>3. QED
      BY <1>3, <1>4, <3>1, <3>2, Zenon
  <2>2. StandsFor(properties, p) = o
    BY <1>3, <1>7 DEF StandsFor
  <2>3. o \in Seq(Letters \ {CLOSE_TAG})
    <3>1. OPEN_TAG \in Letters \ {CLOSE_TAG}
      BY SymbolsThere
    <3>2. <<OPEN_TAG>> \in Seq(Letters \ {CLOSE_TAG})
      BY <3>1, Joins, Zenon
    <3>3. QED
      BY <1>3, <3>2, Zenon
  <2>4. Reads(v, (o \o o \o c) \o t, Value(o) \o u)
    BY <1>3, <1>4, <2>3, ReadsVariable, Zenon
  <2>5. Value(o) = o
    BY <1>3, Zenon DEF Value
  <2>6. o \o o \o c \in Seq(Letters)
    <3>1. o \o o \in Seq(Letters)
      BY ConcatProperties
    <3>2. QED
      BY <3>1, ConcatProperties
  <2>7. QED
    BY <2>1, <2>2, <2>4, <2>5, <2>6, Zenon
<1>8. CASE p.kind = "open"
  <2>1. PartText(p) = o \o x /\ StandsFor(properties, p) = o \o x
    BY <1>2, <1>3, <1>8 DEF PartText, StandsFor
  <2>2. x \in Seq(Letters \ {CLOSE_TAG})
    <3>1. Without(x, {CLOSE_TAG})
      BY <1>2, <1>8, Zenon DEF PartIs
    <3>2. QED
      BY <3>1, WithoutIs
  <2>3. Reads(v, o \o x, o \o x)
    BY <1>3, <2>2, ReadsOpen, Zenon
  <2>4. PICK y \in Seq(Letters) : y = o \o x
    BY ConcatProperties
  <2>5. y \o t = y /\ y \o u = y
    BY <1>8, ConcatEmptySeq
  <2>6. QED
    BY <2>1, <2>3, <2>4, <2>5, Zenon
<1>9. QED
  BY <1>1, <1>5, <1>6, <1>7, <1>8, Zenon

\* A list of texts by its elements.
LEMMA ListOf ==
  ASSUME NEW D, NEW n \in Nat, NEW f, f \in [1..n -> D]
  PROVE  f \in Seq(D) /\ Len(f) = n
BY SeqDef, LenProperties

\* The value of a line, read part by part.
LEMMA PartsRead ==
  ASSUME properties \in Maps, NEW parts \in Seq(Part),
         \A i \in 1..Len(parts) : PartIs(parts[i]) /\ (parts[i].kind = "open" => i = Len(parts))
  PROVE  /\ ValueText(parts) \in Seq(Letters) /\ Meaning(properties, parts) \in Seq(Letters)
         /\ Substituted(ValueText(parts)) = Meaning(properties, parts)
<1> DEFINE D == Seq(Letters)
           texts == [i \in DOMAIN parts |-> PartText(parts[i])]
           values == [i \in DOMAIN parts |-> StandsFor(properties, parts[i])]
<1>1. PICK n \in Nat : n = Len(parts) /\ DOMAIN parts = 1..n
  BY LenProperties
<1>2. \A i \in 1..n : PartIs(parts[i]) /\ (parts[i].kind = "open" => i = n)
  BY <1>1, Zenon
<1>3. <<>> \in D
  BY Joins, Zenon
<1>4. \A i \in 1..n : PartText(parts[i]) \in D /\ StandsFor(properties, parts[i]) \in D
  <2>1. \A p : PartIs(p) => PartText(p) \in D /\ StandsFor(properties, p) \in D
    <3>1. ASSUME NEW p, PartIs(p) PROVE PartText(p) \in D /\ StandsFor(properties, p) \in D
      <4>1. Reads(<<>>, <<>>, <<>>)
        BY <1>3, ReadsNothing, Zenon
      <4>2. QED
        BY <1>3, <3>1, <4>1, PartReads, Zenon
    <3>2. QED
      BY <3>1, Zenon
  <2>2. QED
    BY <1>2, <2>1, Zenon
<1> HIDE DEF D
<1>5. texts \in Seq(D) /\ Len(texts) = n /\ \A i \in 1..n : texts[i] = PartText(parts[i])
  <2>1. texts \in [1..n -> D] /\ \A i \in 1..n : texts[i] = PartText(parts[i])
    BY <1>1, <1>4, Zenon
  <2> HIDE DEF texts
  <2>2. QED
    BY <2>1, ListOf
<1>6. values \in Seq(D) /\ Len(values) = n /\ \A i \in 1..n : values[i] = StandsFor(properties, parts[i])
  <2>1. values \in [1..n -> D] /\ \A i \in 1..n : values[i] = StandsFor(properties, parts[i])
    BY <1>1, <1>4, Zenon
  <2> HIDE DEF values
  <2>2. QED
    BY <2>1, ListOf
<1>7. PICK g : Tails(g, texts, Letters)
  BY <1>5, TailsExist, Zenon DEF D
<1>8. PICK h : Tails(h, values, Letters)
  BY <1>6, TailsExist, Zenon DEF D
<1>9. ValueText(parts) = FlattenSeq(texts) /\ Meaning(properties, parts) = FlattenSeq(values)
  BY Zenon DEF ValueText, Meaning
<1> HIDE DEF texts, values
<1>10. /\ g \in [0..n -> D] /\ g[n] = <<>> /\ g[0] = FlattenSeq(texts)
       /\ \A i \in 1..n : g[i - 1] = PartText(parts[i]) \o g[i]
  BY <1>5, <1>7, Zenon DEF Tails, D
<1>11. /\ h \in [0..n -> D] /\ h[n] = <<>> /\ h[0] = FlattenSeq(values)
       /\ \A i \in 1..n : h[i - 1] = StandsFor(properties, parts[i]) \o h[i]
  BY <1>6, <1>8, Zenon DEF Tails, D
<1>12. 0 \in 0..n /\ g[0] \in D /\ h[0] \in D
  <2>1. 0 \in 0..n
    BY <1>1
  <2>2. QED
    BY <1>10, <1>11, <2>1, Zenon
<1>13. PICK v \in Seq(Letters) : v = g[0]
  BY <1>12, Zenon DEF D
<1> DEFINE Good(k) == Reads(v, g[n - k], h[n - k])
           T == {k \in Nat : k <= n => Good(k)}
<1>14. Good(0)
  <2>1. n - 0 = n
    BY <1>1
  <2>2. Reads(v, <<>>, <<>>)
    BY ReadsNothing, Zenon
  <2>3. QED
    BY <1>10, <1>11, <2>1, <2>2, Zenon
<1>15. ASSUME NEW k \in Nat, k + 1 <= n, Good(k) PROVE Good(k + 1)
  <2>1. PICK i \in 1..n : i = n - k
    <3>1. n - k \in 1..n
      BY <1>1, <1>15
    <3>2. QED
      BY <3>1
  <2>2. n - (k + 1) = i - 1 /\ i \in 0..n
    BY <1>1, <2>1
  <2>3. g[i] \in Seq(Letters) /\ h[i] \in Seq(Letters) /\ Reads(v, g[i], h[i])
    BY <1>10, <1>11, <1>15, <2>1, <2>2, Zenon DEF D
  <2>4. PartIs(parts[i]) /\ (parts[i].kind = "open" => g[i] = <<>> /\ h[i] = <<>>)
    BY <1>2, <1>10, <1>11, Zenon
  <2>5. Reads(v, PartText(parts[i]) \o g[i], StandsFor(properties, parts[i]) \o h[i])
    BY <2>3, <2>4, PartReads, Zenon
  <2>6. QED
    BY <1>10, <1>11, <2>2, <2>5, Zenon
<1> HIDE DEF Good
<1>16. Nat \subseteq T
  <2>1. 0 \in T
    BY <1>14
  <2>2. ASSUME NEW k \in Nat, k \in T PROVE k + 1 \in T
    <3>1. SUFFICES ASSUME k + 1 <= n PROVE Good(k + 1)
      OBVIOUS
    <3>2. k <= n
      BY <1>1, <3>1
    <3>3. QED
      BY <1>15, <2>2, <3>1, <3>2
  <2> HIDE DEF T
  <2>3. QED
    BY <2>1, <2>2, Induction, Zenon
<1>17. Reads(v, g[0], h[0])
  <2>1. n <= n /\ n - n = 0
    BY <1>1
  <2>2. Good(n)
    <3>1. n \in T
      <4> HIDE DEF T
      <4> QED
        BY <1>1, <1>16, Zenon
    <3>2. QED
      BY <2>1, <3>1
  <2>3. QED
    BY <2>1, <2>2, Zenon DEF Good
<1>18. Reader(v)[1] = h[0]
  <2>1. <<>> \in Seq(Letters) /\ v = <<>> \o g[0] /\ Len(<<>>) + 1 = 1
    <3>1. <<>> \o v = v /\ Len(<<>>) = 0
      BY ConcatEmptySeq
    <3>2. QED
      BY <1>3, <1>13, <3>1 DEF D
  <2>2. Reader(v)[Len(<<>>) + 1] = h[0]
    BY <1>17, <2>1, Zenon DEF Reads
  <2>3. QED
    BY <2>1, <2>2, Zenon
<1>19. PICK l \in Nat : l = Len(v)
  BY LenProperties
<1>20. Substituted(v) = Reader(v)[1]
  BY <1>19, ReaderIs, Zenon
<1>21. QED
  BY <1>9, <1>10, <1>11, <1>12, <1>13, <1>18, <1>20, Zenon DEF D

-----------------------------------------------------------------------------
(***************************************************************************)
(* A whole line: what the loop makes of it is what it defines.             *)
(***************************************************************************)
\* A symbol that no part contains is not in their text.
LEMMA ValueWithout ==
  ASSUME NEW c \in {"#", NEWLINE}, NEW parts \in Seq(Part),
         \A i \in 1..Len(parts) : parts[i].text \in Seq(Letters \ {c})
  PROVE  ValueText(parts) \in Seq(Letters \ {c})
<1> DEFINE S == Letters \ {c}
           D == Seq(S)
           texts == [i \in DOMAIN parts |-> PartText(parts[i])]
<1>1. PICK n \in Nat : n = Len(parts) /\ DOMAIN parts = 1..n
  BY LenProperties
<1>2. OPEN_TAG \in S /\ CLOSE_TAG \in S
  BY SymbolsThere
<1> HIDE DEF S
<1>3. PICK o \in D : o = <<OPEN_TAG>>
  BY <1>2, Joins, Zenon
<1>4. PICK e \in D : e = <<CLOSE_TAG>>
  BY <1>2, Joins, Zenon
<1>5. ASSUME NEW i \in 1..n PROVE PartText(parts[i]) \in D
  <2>1. parts[i] \in Part
    BY <1>1, ElementOfSeq
  <2>2. parts[i].kind \in {"text", "variable", "escape", "open"}
    BY <2>1 DEF Part
  <2>3. PICK x \in D : x = parts[i].text
    BY <1>1, Zenon DEF S
  <2>4. x \in D /\ o \o x \in D /\ (o \o x) \o e \in D /\ <<OPEN_TAG, OPEN_TAG, CLOSE_TAG>> \in D
    <3>1. o \o x \in D
      BY ConcatProperties
    <3>2. (o \o x) \o e \in D
      BY <3>1, ConcatProperties
    <3>3. <<OPEN_TAG, OPEN_TAG, CLOSE_TAG>> \in Seq(S)
      BY <1>2, ThreeOf, Zenon
    <3>4. QED
      BY <3>1, <3>2, <3>3
  <2>5. CASE parts[i].kind = "text"
    <3>1. PartText(parts[i]) = x
      BY <2>3, <2>5 DEF PartText
    <3>2. QED
      BY <2>4, <3>1, Zenon
  <2>6. CASE parts[i].kind = "variable"
    <3>1. PartText(parts[i]) = (o \o x) \o e
      BY <1>3, <1>4, <2>3, <2>6 DEF PartText
    <3>2. QED
      BY <2>4, <3>1, Zenon
  <2>7. CASE parts[i].kind = "escape"
    <3>1. PartText(parts[i]) = <<OPEN_TAG, OPEN_TAG, CLOSE_TAG>>
      BY <2>7 DEF PartText
    <3>2. QED
      BY <2>4, <3>1, Zenon
  <2>8. CASE parts[i].kind = "open"
    <3>1. PartText(parts[i]) = o \o x
      BY <1>3, <2>3, <2>8 DEF PartText
    <3>2. QED
      BY <2>4, <3>1, Zenon
  <2>9. QED
    BY <2>2, <2>5, <2>6, <2>7, <2>8, Zenon
<1> HIDE DEF D
<1>6. texts \in Seq(D)
  <2>1. texts \in [1..n -> D]
    BY <1>1, <1>5, Zenon
  <2> HIDE DEF texts
  <2>2. QED
    BY <2>1, ListOf
<1>7. PICK g : Tails(g, texts, S)
  BY <1>6, TailsExist, Zenon DEF D
<1>8. ValueText(parts) = FlattenSeq(texts)
  BY Zenon DEF ValueText
<1> HIDE DEF texts
<1>9. g \in [0..Len(texts) -> D] /\ g[0] = FlattenSeq(texts)
  BY <1>7, Zenon DEF Tails, D
<1>10. 0 \in 0..Len(texts)
  BY <1>6, LenProperties
<1>11. QED
  BY <1>8, <1>9, <1>10, Zenon DEF D, S

\* What follows the first symbol.
LEMMA FirstThenRest ==
  ASSUME NEW S, NEW s \in Seq(S), s # <<>>
  PROVE  \E t \in Seq(S) : s = <<s[1]>> \o t
<1>1. PICK n \in Nat \ {0} : n = Len(s)
  BY EmptySeq
<1>2. 1 \in 1..Len(s) /\ n \in 1..Len(s)
  BY <1>1
<1>3. SubSeq(s, 1, n) = <<s[1]>> \o SubSeq(s, 1 + 1, n)
  BY <1>2, SubSeqRecursiveFirst
<1>4. SubSeq(s, 1, n) = s
  BY <1>1, SubSeqFull
<1>5. SubSeq(s, 1 + 1, n) \in Seq(S)
  <2>1. 1 + 1 \in Nat \ {0} /\ n \in Nat /\ n <= n
    BY <1>1
  <2>2. QED
    BY <1>1, <2>1, PartOf
<1>6. QED
  BY <1>3, <1>4, <1>5

\* What is before the first "#" of a line.
Uncommented(line) ==
  LET comment == Find(line, "#", 1)
  IN  IF comment = 0 THEN line ELSE SubSeq(line, 1, comment - 1)

LEMMA CommentCut ==
  ASSUME NEW S, "#" \in S, NEW s \in Seq(S \ {"#"}), NEW t \in Seq(S), t = <<>> \/ t[1] = "#"
  PROVE  Uncommented(s \o t) = s
<1>1. s \in Seq(S)
  BY NotIn
<1>2. CASE t = <<>>
  <2>1. s \o t = s
    BY <1>1, <1>2, ConcatEmptySeq
  <2>2. Find(s, "#", 1) = 0
    BY FindFirst
  <2>3. QED
    BY <2>1, <2>2, Zenon DEF Uncommented
<1>3. CASE t # <<>>
  <2>1. PICK u \in Seq(S) : t = <<"#">> \o u
    <3>1. t[1] = "#"
      BY <1>3
    <3>2. PICK u \in Seq(S) : t = <<t[1]>> \o u
      BY <1>3, FirstThenRest, Zenon
    <3>3. QED
      BY <3>1, <3>2, Zenon
  <2>2. PICK m \in Nat : m = Len(s)
    BY <1>1, LenProperties
  <2>3. Find(s \o (<<"#">> \o u), "#", 1) = m + 1
    BY <2>2, FindFirst
  <2>4. m + 1 # 0 /\ (m + 1) - 1 = m
    BY <2>2
  <2>5. SubSeq(s \o t, 1, m) = s
    BY <1>1, <2>2, CutJoined
  <2>6. QED
    BY <2>1, <2>3, <2>4, <2>5, Zenon DEF Uncommented
<1>4. QED
  BY <1>2, <1>3

\* A command at its "=".
Halves(command, equals, s, t) ==
  /\ equals # 0
  /\ SubSeq(command, 1, equals - 1) = s
  /\ SubSeq(command, equals + 1, Len(command)) = t

LEMMA CommandCut ==
  ASSUME NEW S, "=" \in S, NEW s \in Seq(S \ {"="}), NEW t \in Seq(S),
         NEW command, command = s \o (<<"=">> \o t), NEW equals, equals = Find(command, "=", 1)
  PROVE  Halves(command, equals, s, t)
<1>1. s \in Seq(S)
  BY NotIn
<1>2. PICK m \in Nat : m = Len(s)
  BY <1>1, LenProperties
<1>3. equals = m + 1
  BY <1>2, FindFirst
<1>4. equals # 0 /\ equals - 1 = m
  BY <1>2, <1>3
<1>5. PICK e \in Seq(S) : e = <<"=">>
  BY Joins, Zenon
<1>6. e \o t \in Seq(S) /\ s \o e \in Seq(S) /\ Len(s \o e) = equals
  <2>1. Len(e) = 1
    BY <1>5
  <2>2. e \o t \in Seq(S) /\ s \o e \in Seq(S) /\ Len(s \o e) = Len(s) + Len(e)
    BY <1>1, ConcatProperties
  <2>3. QED
    BY <1>2, <1>3, <2>1, <2>2
<1>7. Regroups(s, e, t)
  BY <1>1, Regrouped, Zenon
<1>8. command = (s \o e) \o t
  BY <1>5, <1>7, Zenon DEF Regroups
<1>9. SubSeq(command, 1, m) = s
  <2>1. PICK y \in Seq(S) : y = e \o t
    BY <1>6
  <2>2. SubSeq(s \o y, 1, Len(s)) = s
    BY <1>1, CutJoined
  <2>3. QED
    BY <1>2, <1>5, <2>1, <2>2, Zenon
<1>10. SubSeq(command, equals + 1, Len(command)) = t
  <2>1. PICK y \in Seq(S) : y = s \o e
    BY <1>6
  <2>2. SubSeq(y \o t, Len(y) + 1, Len(y \o t)) = t
    BY CutJoined
  <2>3. QED
    BY <1>6, <1>8, <2>1, <2>2, Zenon
<1>11. QED
  BY <1>4, <1>9, <1>10, Zenon DEF Halves

\* A line that is not a definition changes nothing.
LEMMA NothingDefined ==
  ASSUME NEW line, Find(Uncommented(line), "=", 1) = 0
  PROVE  HandleLine(line) = properties
BY Zenon DEF HandleLine, Uncommented

LEMMA SomethingDefined ==
  ASSUME NEW line, NEW command, command = Uncommented(line), NEW equals, equals = Find(command, "=", 1),
         equals # 0
  PROVE  HandleLine(line) = InsertProperty(Key(TrimText(SubSeq(command, 1, equals - 1))),
                              Substituted(TrimText(SubSeq(command, equals + 1, Len(command)))))
BY Zenon DEF HandleLine, Uncommented

LEMMA KeyText ==
  ASSUME NEW s \in Seq(Letters)
  PROVE  Key(s) \in Seq(Letters)
<1>1. PICK n \in Nat : n = Len(s)
  BY LenProperties
<1>2. PICK dot : dot = Find(s, ".", 1)
  OBVIOUS
<1>3. dot = 0 \/ dot \in 1..n
  BY <1>1, <1>2, FindIs
<1>4. SubSeq(s, dot + 1, n) \in Seq(Letters)
  <2>1. dot + 1 \in Nat \ {0} /\ n <= n
    BY <1>1, <1>3
  <2>2. QED
    BY <1>1, <2>1, PartOf
<1>5. Key(s) = s \/ Key(s) = SubSeq(s, dot + 1, Len(s))
  BY <1>2, Zenon DEF Key
<1>6. QED
  BY <1>1, <1>4, <1>5

\* What a line of the kind "value" defines.
LEMMA DefineIs ==
  ASSUME NEW m, NEW d
  PROVE  /\ d.kind # "value" => Define(m, d) = m
         /\ Key(d.key) \in DOMAIN m => Define(m, d) = m
         /\ d.kind = "value" /\ Key(d.key) \notin DOMAIN m =>
              Define(m, d) = [k \in DOMAIN m \cup {Key(d.key)} |->
                                IF k = Key(d.key) THEN Meaning(m, d.parts) ELSE m[k]]
BY Zenon DEF Define, Meaning, StandsFor

LEMMA InsertIs ==
  ASSUME NEW key, NEW value
  PROVE  /\ key \in DOMAIN properties => InsertProperty(key, value) = properties
         /\ key \notin DOMAIN properties =>
              InsertProperty(key, value) = [k \in DOMAIN properties \cup {key} |->
                                              IF k = key THEN value ELSE properties[k]]
BY Zenon DEF InsertProperty

LEMMA CommentHandled ==
  ASSUME NEW d, Definition(d), d.kind = "comment"
  PROVE  HandleLine(LineText(d)) = properties
<1>1. d.key \in Seq(Letters) /\ d.parts \in Seq(Part)
  BY LineIs, Zenon DEF Definition
<1>2. PICK s \in Seq(Letters) : s = <<"#">>
  BY SymbolsThere, Joins, Zenon
<1>3. PICK e \in Seq(Letters) : e = <<"=">>
  BY SymbolsThere, Joins, Zenon
<1>4. PICK k \in Seq(Letters) : k = d.key
  BY <1>1
<1>5. PICK v : v = ValueText(d.parts)
  OBVIOUS
<1>6. LineText(d) = ((s \o k) \o e) \o v
  BY <1>2, <1>3, <1>4, <1>5 DEF LineText
<1>7. v \in Seq(Letters)
  <2>1. \A i \in 1..Len(d.parts) : d.parts[i].text \in Seq(Letters \ {NEWLINE})
    <3>1. \A i \in 1..Len(d.parts) : d.parts[i] \in Part
      BY <1>1, ElementOfSeq
    <3>2. QED
      BY <3>1 DEF Part, Line
  <2>2. v \in Seq(Letters \ {NEWLINE})
    BY <1>1, <1>5, <2>1, ValueWithout
  <2>3. QED
    BY <2>2, NotIn
<1>8. PICK t \in Seq(Letters) : t = k \o (e \o v)
  <2>1. e \o v \in Seq(Letters)
    BY <1>7, ConcatProperties
  <2>2. k \o (e \o v) \in Seq(Letters)
    BY <2>1, ConcatProperties
  <2>3. QED
    BY <2>2
<1>9. LineText(d) = s \o t
  <2>1. s \o k \in Seq(Letters) /\ e \o v \in Seq(Letters)
    BY <1>7, ConcatProperties
  <2>2. Regroups(s \o k, e, v) /\ Regroups(s, k, e \o v)
    BY <1>7, <2>1, Regrouped, Zenon
  <2>3. QED
    BY <1>6, <1>8, <2>2, Zenon DEF Regroups
<1>10. Uncommented(<<>> \o (s \o t)) = <<>>
  <2>1. PICK y \in Seq(Letters) : y = s \o t
    BY ConcatProperties
  <2>2. y[1] = "#"
    <3>1. \A i \in 1..Len(s) : y[i] = s[i]
      BY <2>1, JoinedAt
    <3>2. Len(s) = 1 /\ s[1] = "#"
      BY <1>2
    <3>3. QED
      BY <3>1, <3>2
  <2>3. <<>> \in Seq(Letters \ {"#"}) /\ "#" \in Letters
    BY SymbolsThere, Joins, Zenon
  <2>4. QED
    BY <2>1, <2>2, <2>3, CommentCut, Zenon
<1>11. <<>> \o (s \o t) = s \o t
  BY ConcatProperties, ConcatEmptySeq
<1>12. Find(<<>>, "=", 1) = 0
  <2>1. <<>> \in Seq(Letters \ {"="}) /\ "=" \in Letters /\ <<>> \in Seq(Letters)
    BY SymbolsThere, Joins, Zenon
  <2>2. QED
    BY <2>1, FindFirst
<1>13. Find(Uncommented(LineText(d)), "=", 1) = 0
  BY <1>9, <1>10, <1>11, <1>12, Zenon
<1>14. QED
  BY <1>13, NothingDefined, Zenon

LEMMA OtherHandled ==
  ASSUME NEW d, Definition(d), d.kind = "other"
  PROVE  HandleLine(LineText(d)) = properties
<1>1. LineText(d) = d.key
  BY DEF LineText
<1>2. d.key \in Seq(Letters) /\ Without(d.key, {"="})
  BY LineIs, Zenon DEF Definition
<1>3. PICK s \in Seq(Letters \ {"="}) : s = d.key
  BY <1>2, WithoutIs
<1>4. PICK n \in Nat : n = Len(s)
  BY LenProperties
<1>5. PICK comment : comment = Find(s, "#", 1)
  OBVIOUS
<1>6. comment = 0 \/ comment \in 1..n
  BY <1>4, <1>5, FindIs
<1>7. Uncommented(s) \in Seq(Letters \ {"="})
  <2>1. CASE comment = 0
    BY <1>5, <2>1, Zenon DEF Uncommented
  <2>2. CASE comment # 0
    <3>1. 1 \in Nat \ {0} /\ comment - 1 \in Nat /\ comment - 1 <= n
      BY <1>4, <1>6, <2>2
    <3>2. SubSeq(s, 1, comment - 1) \in Seq(Letters \ {"="})
      BY <1>4, <3>1, PartOf
    <3>3. QED
      BY <1>5, <2>2, <3>2, Zenon DEF Uncommented
  <2>3. QED
    BY <2>1, <2>2
<1>8. Find(Uncommented(s), "=", 1) = 0
  <2>1. "=" \in Letters /\ <<>> \in Seq(Letters)
    BY SymbolsThere, Joins, Zenon
  <2>2. QED
    BY <1>7, <2>1, FindFirst
<1>9. QED
  BY <1>1, <1>3, <1>8, NothingDefined, Zenon

\* The text of a value, what is in front of its comment, and the two sides of
\* its "=".
LEMMA ValueLineIs ==
  ASSUME NEW d, Definition(d), d.kind = "value"
  PROVE  \E key, value, b \in Seq(Letters), command \in Seq(Letters \ {"#"}) :
           /\ key = d.key /\ value = ValueText(d.parts) /\ b = <<BLANK>>
           /\ LineText(d) = command \o d.comment
           /\ command = (key \o b) \o (<<"=">> \o (b \o (value \o b)))
<1>1. /\ d.key \in Line /\ d.parts \in Seq(Part) /\ d.comment \in Line
      /\ Without(d.key, {"=", "#"})
      /\ \A i \in DOMAIN d.parts : Without(d.parts[i].text, {"#"})
  BY Zenon DEF Definition
<1> DEFINE S == Letters \ {"#"}
<1>2. BLANK \in S /\ "=" \in S /\ S \subseteq Letters
  BY SymbolsThere
<1>3. d.key \in Seq(S)
  <2>1. Without(d.key, {"#"})
    BY <1>1 DEF Without
  <2>2. d.key \in Seq(Letters)
    BY <1>1, LineIs
  <2>3. QED
    BY <2>1, <2>2, WithoutIs
<1>4. ValueText(d.parts) \in Seq(S)
  <2>1. DOMAIN d.parts = 1..Len(d.parts)
    BY <1>1, LenProperties
  <2>2. ASSUME NEW i \in 1..Len(d.parts) PROVE d.parts[i].text \in Seq(S)
    <3>1. d.parts[i] \in Part
      BY <1>1, ElementOfSeq
    <3>2. d.parts[i].text \in Line
      BY <3>1 DEF Part
    <3>3. d.parts[i].text \in Seq(Letters) /\ Without(d.parts[i].text, {"#"})
      BY <1>1, <2>1, <3>2, LineIs
    <3>4. QED
      BY <3>3, WithoutIs
  <2>3. QED
    BY <1>1, <2>2, ValueWithout
<1> HIDE DEF S
<1>5. PICK key \in Seq(S) : key = d.key
  BY <1>3
<1>6. PICK value \in Seq(S) : value = ValueText(d.parts)
  BY <1>4
<1>7. PICK b \in Seq(S) : b = <<BLANK>>
  BY <1>2, Joins, Zenon
<1>8. PICK e \in Seq(S) : e = <<"=">>
  BY <1>2, Joins, Zenon
<1>9. PICK f \in Seq(S) : f = b \o e
  BY ConcatProperties
<1>10. <<BLANK, "=", BLANK>> = (b \o e) \o b
  <2>1. Spelled(BLANK, "=", BLANK)
    BY <1>2, ThreeOf, Zenon
  <2>2. QED
    BY <1>7, <1>8, <2>1, Zenon DEF Spelled
<1>11. PICK command \in Seq(S) : command = ((key \o ((b \o e) \o b)) \o value) \o b
  <2>1. (b \o e) \o b \in Seq(S)
    BY <1>9, ConcatProperties
  <2>2. key \o ((b \o e) \o b) \in Seq(S)
    BY <2>1, ConcatProperties
  <2>3. (key \o ((b \o e) \o b)) \o value \in Seq(S)
    BY <2>2, ConcatProperties
  <2>4. ((key \o ((b \o e) \o b)) \o value) \o b \in Seq(S)
    BY <2>3, ConcatProperties
  <2>5. QED
    BY <2>4
<1>12. LineText(d) = command \o d.comment
  <2>1. LineText(d) = d.key \o <<BLANK, "=", BLANK>> \o ValueText(d.parts) \o <<BLANK>> \o d.comment
    BY DEF LineText
  <2>2. QED
    BY <1>5, <1>6, <1>7, <1>10, <1>11, <2>1, Zenon
<1>13. command = (key \o b) \o (e \o (b \o (value \o b)))
  <2>1. PICK vb \in Seq(S) : vb = value \o b
    BY ConcatProperties
  <2>2. PICK kf \in Seq(S) : kf = key \o f
    BY ConcatProperties
  <2>3. PICK fb \in Seq(S) : fb = f \o b
    BY ConcatProperties
  <2>4. PICK kfb \in Seq(S) : kfb = key \o fb
    BY ConcatProperties
  <2>5. PICK bvb \in Seq(S) : bvb = b \o vb
    BY ConcatProperties
  <2>6. PICK kb \in Seq(S) : kb = key \o b
    BY ConcatProperties
  <2>7. Regroups(kfb, value, b) /\ Regroups(key, f, b) /\ Regroups(kf, b, vb) /\ Regroups(key, b, e)
        /\ Regroups(kb, e, bvb)
    BY Regrouped, Zenon
  <2>8. command = kfb \o vb
    BY <1>9, <1>11, <2>1, <2>3, <2>4, <2>7, Zenon DEF Regroups
  <2>9. kfb = kf \o b
    BY <2>2, <2>3, <2>4, <2>7, Zenon DEF Regroups
  <2>10. kf = kb \o e
    BY <1>9, <2>2, <2>6, <2>7, Zenon DEF Regroups
  <2>11. command = kf \o bvb
    BY <2>5, <2>7, <2>8, <2>9, Zenon DEF Regroups
  <2>12. command = kb \o (e \o bvb)
    BY <2>7, <2>10, <2>11, Zenon DEF Regroups
  <2>13. QED
    BY <2>1, <2>5, <2>6, <2>12, Zenon
<1>14. key \in Seq(Letters) /\ value \in Seq(Letters) /\ b \in Seq(Letters) /\ command \in Seq(Letters \ {"#"})
  BY <1>2, SeqMonotonic DEF S
<1>15. QED
  BY <1>5, <1>6, <1>7, <1>8, <1>12, <1>13, <1>14, Zenon

LEMMA PartsAllAre ==
  ASSUME NEW d, Definition(d), d.kind = "value"
  PROVE  /\ d.parts \in Seq(Part)
         /\ \A i \in 1..Len(d.parts) : PartIs(d.parts[i]) /\ (d.parts[i].kind = "open" => i = Len(d.parts))
<1>1. d.parts \in Seq(Part)
  BY Zenon DEF Definition
<1>2. DOMAIN d.parts = 1..Len(d.parts)
  BY <1>1, LenProperties
<1>3. ASSUME NEW i \in 1..Len(d.parts)
      PROVE  PartIs(d.parts[i]) /\ (d.parts[i].kind = "open" => i = Len(d.parts))
  <2>1. d.parts[i] \in Part
    BY <1>1, ElementOfSeq
  <2>2. QED
    BY <1>2, <2>1, Zenon DEF Definition, PartIs
<1>4. QED
  BY <1>1, <1>3

LEMMA ValueHandled ==
  ASSUME properties \in Maps, NEW d, Definition(d), d.kind = "value"
  PROVE  HandleLine(LineText(d)) = InsertProperty(Key(d.key), Meaning(properties, d.parts))
<1>1. PICK key, value, b \in Seq(Letters), command \in Seq(Letters \ {"#"}) :
           /\ key = d.key /\ value = ValueText(d.parts) /\ b = <<BLANK>>
           /\ LineText(d) = command \o d.comment
           /\ command = (key \o b) \o (<<"=">> \o (b \o (value \o b)))
  BY ValueLineIs, Zenon
<1>2. /\ d.comment \in Seq(Letters) /\ (d.comment = <<>> \/ d.comment[1] = "#")
      /\ Solid(key) /\ Solid(value) /\ Without(key, {"=", "#"})
  BY <1>1, LineIs, Zenon DEF Definition
<1>3. Uncommented(LineText(d)) = command
  <2>1. "#" \in Letters
    BY SymbolsThere
  <2>2. Uncommented(command \o d.comment) = command
    BY <1>2, <2>1, CommentCut
  <2>3. QED
    BY <1>1, <2>2, Zenon
<1>4. PICK right \in Seq(Letters) : right = b \o (value \o b)
  <2>1. value \o b \in Seq(Letters)
    BY ConcatProperties
  <2>2. b \o (value \o b) \in Seq(Letters)
    BY <2>1, ConcatProperties
  <2>3. QED
    BY <2>2
<1>5. PICK left \in Seq(Letters \ {"="}) : left = key \o b
  <2>1. Without(key, {"="})
    BY <1>2 DEF Without
  <2>2. key \in Seq(Letters \ {"="})
    BY <2>1, WithoutIs
  <2>3. BLANK \in Letters \ {"="}
    BY SymbolsThere
  <2>4. b \in Seq(Letters \ {"="})
    BY <1>1, <2>3, Joins, Zenon
  <2>5. key \o b \in Seq(Letters \ {"="})
    BY <2>2, <2>4, ConcatProperties
  <2>6. QED
    BY <2>5
<1>6. PICK equals : equals = Find(command, "=", 1)
  OBVIOUS
<1>7. /\ equals # 0
      /\ SubSeq(command, 1, equals - 1) = left
      /\ SubSeq(command, equals + 1, Len(command)) = right
  <2>1. "=" \in Letters /\ command = left \o (<<"=">> \o right)
    BY <1>1, <1>4, <1>5, SymbolsThere
  <2>2. Halves(command, equals, left, right)
    BY <1>6, <2>1, CommandCut, Zenon
  <2>3. QED
    BY <2>2, Zenon DEF Halves
<1>8. b \in Seq({BLANK}) /\ <<>> \in Seq({BLANK}) /\ {BLANK} \subseteq Letters
  <2>1. BLANK \in {BLANK} /\ {BLANK} \subseteq Letters
    BY SymbolsThere
  <2>2. <<BLANK>> \in Seq({BLANK}) /\ <<>> \in Seq({BLANK})
    BY <2>1, Joins, Zenon
  <2>3. QED
    BY <1>1, <2>1, <2>2, Zenon
<1>9. TrimText(left) = key
  <2>1. Trimmed(<<>> \o (key \o b), key)
    BY <1>2, <1>8, TrimIs, Zenon
  <2>2. key \o b \in Seq(Letters)
    BY ConcatProperties
  <2>3. <<>> \o (key \o b) = key \o b
    BY <2>2, ConcatEmptySeq
  <2>4. QED
    BY <1>5, <2>1, <2>3, Zenon DEF Trimmed
<1>10. TrimText(right) = value
  <2>1. Trimmed(b \o (value \o b), value)
    BY <1>2, <1>8, TrimIs, Zenon
  <2>2. QED
    BY <1>4, <2>1, Zenon DEF Trimmed
<1>11. Substituted(value) = Meaning(properties, d.parts)
  BY <1>1, PartsAllAre, PartsRead, Zenon
<1>12. HandleLine(LineText(d)) = InsertProperty(Key(TrimText(left)), Substituted(TrimText(right)))
  BY <1>3, <1>6, <1>7, SomethingDefined, Zenon
<1>13. QED
  BY <1>1, <1>9, <1>10, <1>11, <1>12, Zenon

\* The main step: the loop and the writer's view agree on a line.
LEMMA LineHandled ==
  ASSUME properties \in Maps, NEW d, Definition(d)
  PROVE  /\ HandleLine(LineText(d)) = Define(properties, d)
         /\ Define(properties, d) \in Maps
<1>1. d.kind \in {"value", "comment", "other"}
  BY Zenon DEF Definition
<1>2. CASE d.kind = "comment"
  <2>1. HandleLine(LineText(d)) = properties /\ d.kind # "value"
    BY <1>2, CommentHandled
  <2>2. QED
    BY <2>1, DefineIs, Zenon
<1>3. CASE d.kind = "other"
  <2>1. HandleLine(LineText(d)) = properties /\ d.kind # "value"
    BY <1>3, OtherHandled
  <2>2. QED
    BY <2>1, DefineIs, Zenon
<1>4. CASE d.kind = "value"
  <2>1. HandleLine(LineText(d)) = InsertProperty(Key(d.key), Meaning(properties, d.parts))
    BY <1>4, ValueHandled, Zenon
  <2>2. CASE Key(d.key) \in DOMAIN properties
    BY <2>1, <2>2, InsertIs, DefineIs, Zenon
  <2>3. CASE Key(d.key) \notin DOMAIN properties
    <3>1. PICK m : m = [k \in DOMAIN properties \cup {Key(d.key)} |->
                          IF k = Key(d.key) THEN Meaning(properties, d.parts) ELSE properties[k]]
      OBVIOUS
    <3>2. Define(properties, d) = m /\ HandleLine(LineText(d)) = m
      <4>1. d.kind = "value" /\ Key(d.key) \notin DOMAIN properties =>
              Define(properties, d) = [k \in DOMAIN properties \cup {Key(d.key)} |->
                                IF k = Key(d.key) THEN Meaning(properties, d.parts) ELSE properties[k]]
        BY Zenon DEF Define, Meaning, StandsFor
      <4>2. Key(d.key) \notin DOMAIN properties =>
              InsertProperty(Key(d.key), Meaning(properties, d.parts)) =
                [k \in DOMAIN properties \cup {Key(d.key)} |->
                                IF k = Key(d.key) THEN Meaning(properties, d.parts) ELSE properties[k]]
        BY Zenon DEF InsertProperty
      <4>3. QED
        BY <1>4, <2>1, <2>3, <3>1, <4>1, <4>2, Zenon
    <3>3. Meaning(properties, d.parts) \in Seq(Letters)
      BY <1>4, PartsAllAre, PartsRead, Zenon
    <3>4. Key(d.key) \in Seq(Letters)
      <4>1. d.key \in Line
        BY Zenon DEF Definition
      <4>2. QED
        BY <4>1, LineIs, KeyText
    <3>5. properties \in [DOMAIN properties -> Seq(Letters)] /\ DOMAIN properties \subseteq Seq(Letters)
      BY MapIs, Zenon
    <3>6. /\ DOMAIN m = DOMAIN properties \cup {Key(d.key)}
          /\ m \in [DOMAIN properties \cup {Key(d.key)} -> Seq(Letters)]
      BY <3>1, <3>3, <3>5, Zenon
    <3>7. DOMAIN m \subseteq Seq(Letters) /\ m \in [DOMAIN m -> Seq(Letters)]
      BY <3>4, <3>5, <3>6, Zenon
    <3>8. m \in Maps
      BY <3>7, MapIs, Zenon
    <3>9. QED
      BY <3>2, <3>8, Zenon
  <2>4. QED
    BY <2>2, <2>3
<1>5. QED
  BY <1>1, <1>2, <1>3, <1>4

-----------------------------------------------------------------------------
(***************************************************************************)
(* The file as a sequence of lines, and what its lines define one by one.  *)
(***************************************************************************)
LEMMA LineJoins ==
  /\ \A s, t \in Line : s \o t \in Line
  /\ \A c \in Letters \ {NEWLINE} : <<c>> \in Line
  /\ <<>> \in Line
<1>1. /\ \A s, t \in Seq(Letters \ {NEWLINE}) : s \o t \in Seq(Letters \ {NEWLINE})
      /\ \A c \in Letters \ {NEWLINE} : <<c>> \in Seq(Letters \ {NEWLINE})
      /\ <<>> \in Seq(Letters \ {NEWLINE})
  BY Joins, Zenon
<1>2. QED
  BY <1>1, Zenon DEF Line

\* The text of a line has no newline.
LEMMA LineTextIs ==
  ASSUME NEW d, Definition(d)
  PROVE  LineText(d) \in Line
<1>1. d.key \in Line /\ d.parts \in Seq(Part) /\ d.comment \in Line /\ d.kind \in {"value", "comment", "other"}
  BY Zenon DEF Definition
<1>2. ValueText(d.parts) \in Line
  <2>1. \A i \in 1..Len(d.parts) : d.parts[i].text \in Seq(Letters \ {NEWLINE})
    <3>1. \A i \in 1..Len(d.parts) : d.parts[i] \in Part
      BY <1>1, ElementOfSeq
    <3>2. QED
      BY <3>1 DEF Part, Line
  <2>2. QED
    BY <1>1, <2>1, ValueWithout DEF Line
<1>3. BLANK \in Letters \ {NEWLINE} /\ "=" \in Letters \ {NEWLINE} /\ "#" \in Letters \ {NEWLINE}
  BY SymbolsThere
<1>4. <<BLANK>> \in Line /\ <<"=">> \in Line /\ <<"#">> \in Line
  BY <1>3, LineJoins, Zenon
<1>5. <<BLANK, "=", BLANK>> \in Line
  BY <1>3, ThreeOf, Zenon DEF Line
<1>6. CASE d.kind = "value"
  <2>1. LineText(d) = d.key \o <<BLANK, "=", BLANK>> \o ValueText(d.parts) \o <<BLANK>> \o d.comment
    BY <1>6 DEF LineText
  <2>2. d.key \o <<BLANK, "=", BLANK>> \in Line
    BY <1>1, <1>5, LineJoins, Zenon
  <2>3. (d.key \o <<BLANK, "=", BLANK>>) \o ValueText(d.parts) \in Line
    BY <1>2, <2>2, LineJoins, Zenon
  <2>4. ((d.key \o <<BLANK, "=", BLANK>>) \o ValueText(d.parts)) \o <<BLANK>> \in Line
    BY <1>4, <2>3, LineJoins, Zenon
  <2>5. QED
    BY <1>1, <2>1, <2>4, LineJoins, Zenon
<1>7. CASE d.kind = "comment"
  <2>1. LineText(d) = <<"#">> \o d.key \o <<"=">> \o ValueText(d.parts)
    BY <1>7 DEF LineText
  <2>2. <<"#">> \o d.key \in Line
    BY <1>1, <1>4, LineJoins, Zenon
  <2>3. (<<"#">> \o d.key) \o <<"=">> \in Line
    BY <1>4, <2>2, LineJoins, Zenon
  <2>4. QED
    BY <1>2, <2>1, <2>3, LineJoins, Zenon
<1>8. CASE d.kind = "other"
  BY <1>1, <1>8 DEF LineText
<1>9. QED
  BY <1>1, <1>6, <1>7, <1>8

\* What ends the line with number i.
Ending(f, i) == IF i = Len(f.lines) /\ ~f.newline THEN <<>> ELSE <<NEWLINE>>

LinesOf(f) == [i \in DOMAIN f.lines |-> LineText(f.lines[i]) \o Ending(f, i)]

\* The text of f after the first k lines, left[k].
LeftOf(f) == CHOOSE left : Tails(left, LinesOf(f), Letters)

LEMMA FileIs ==
  ASSUME NEW f \in FileTexts
  PROVE  /\ Len(f.lines) \in Nat /\ f.newline \in BOOLEAN
         /\ DOMAIN f.lines = 1..Len(f.lines)
         /\ \A i \in 1..Len(f.lines) : Definition(f.lines[i])
<1>1. f.newline \in BOOLEAN /\ f.lines \in Seq(ToSet(f.lines)) /\ \A i \in DOMAIN f.lines : Definition(f.lines[i])
  BY PropertyAssumption, Zenon
<1>2. Len(f.lines) \in Nat /\ DOMAIN f.lines = 1..Len(f.lines)
  BY <1>1, LenProperties
<1>3. QED
  BY <1>1, <1>2, Zenon

LEMMA EndingIs ==
  ASSUME NEW f, NEW i
  PROVE  /\ Ending(f, i) = <<>> \/ Ending(f, i) = <<NEWLINE>>
         /\ Ending(f, i) \in Seq(Letters)
         /\ Ending(f, i) = <<>> => i = Len(f.lines)
<1>1. <<>> \in Seq(Letters) /\ <<NEWLINE>> \in Seq(Letters)
  BY SymbolsThere, Joins, Zenon
<1>2. <<NEWLINE>> # <<>>
  OBVIOUS
<1>3. CASE i = Len(f.lines) /\ ~f.newline
  BY <1>1, <1>3, Zenon DEF Ending
<1>4. CASE ~(i = Len(f.lines) /\ ~f.newline)
  BY <1>1, <1>2, <1>4, Zenon DEF Ending
<1>5. QED
  BY <1>3, <1>4

LEMMA LeftIs ==
  ASSUME NEW f \in FileTexts, NEW n \in Nat, n = Len(f.lines)
  PROVE  /\ \A k \in 0..n : LeftOf(f)[k] \in Seq(Letters)
         /\ LeftOf(f)[0] = FileText(f) /\ LeftOf(f)[n] = <<>>
         /\ \A k \in 1..n : LeftOf(f)[k - 1] = (LineText(f.lines[k]) \o Ending(f, k)) \o LeftOf(f)[k]
<1> DEFINE D == Seq(Letters)
<1>1. DOMAIN f.lines = 1..n /\ \A i \in 1..n : Definition(f.lines[i])
  BY FileIs, Zenon
<1>2. \A i \in 1..n : LineText(f.lines[i]) \o Ending(f, i) \in D
  <2>1. ASSUME NEW i \in 1..n PROVE LineText(f.lines[i]) \o Ending(f, i) \in D
    <3>1. LineText(f.lines[i]) \in Line
      BY <1>1, LineTextIs, Zenon
    <3>2. LineText(f.lines[i]) \in Seq(Letters) /\ Ending(f, i) \in Seq(Letters)
      BY <3>1, LineIs, EndingIs, Zenon
    <3>3. QED
      BY <3>2, ConcatProperties
  <2>2. QED
    BY <2>1
<1> HIDE DEF D
<1>3. LinesOf(f) \in Seq(D) /\ Len(LinesOf(f)) = n
      /\ \A i \in 1..n : LinesOf(f)[i] = LineText(f.lines[i]) \o Ending(f, i)
  <2>1. /\ LinesOf(f) \in [1..n -> D]
        /\ \A i \in 1..n : LinesOf(f)[i] = LineText(f.lines[i]) \o Ending(f, i)
    BY <1>1, <1>2, Zenon DEF LinesOf
  <2>2. QED
    BY <2>1, ListOf
<1>4. \E left : Tails(left, LinesOf(f), Letters)
  BY <1>3, TailsExist, Zenon DEF D
<1>5. Tails(LeftOf(f), LinesOf(f), Letters)
  BY <1>4, Zenon DEF LeftOf
<1>6. FileText(f) = FlattenSeq(LinesOf(f))
  BY Zenon DEF FileText, LinesOf, Ending
<1>7. /\ LeftOf(f) \in [0..n -> D] /\ LeftOf(f)[n] = <<>> /\ LeftOf(f)[0] = FlattenSeq(LinesOf(f))
      /\ \A k \in 1..n : LeftOf(f)[k - 1] = LinesOf(f)[k] \o LeftOf(f)[k]
  BY <1>3, <1>5, Zenon DEF Tails, D
<1>8. \A k \in 0..n : LeftOf(f)[k] \in D
  BY <1>7, Zenon
<1>9. \A k \in 1..n : LeftOf(f)[k - 1] = (LineText(f.lines[k]) \o Ending(f, k)) \o LeftOf(f)[k]
  BY <1>3, <1>7, Zenon
<1>10. QED
  BY <1>6, <1>7, <1>8, <1>9, Zenon DEF D

\* The text of a part's meaning, for every map.
LEMMA StandsText ==
  ASSUME NEW m \in Maps, NEW p, PartIs(p)
  PROVE  StandsFor(m, p) \in Seq(Letters)
<1>1. p.text \in Seq(Letters)
  <2>1. p \in Part
    BY Zenon DEF PartIs
  <2>2. p.text \in Line
    BY <2>1 DEF Part
  <2>3. QED
    BY <2>2, LineIs
<1>2. <<>> \in Seq(Letters) /\ <<OPEN_TAG>> \in Seq(Letters)
  BY SymbolsThere, Joins, Zenon
<1>3. <<OPEN_TAG>> \o p.text \in Seq(Letters)
  BY <1>1, <1>2, Joins, Zenon
<1>4. p.text \in DOMAIN Environment => Environment[p.text] \in Seq(Letters)
  BY PropertyAssumption, Zenon
<1>5. p.text \in DOMAIN m => m[p.text] \in Seq(Letters)
  <2>1. m \in [DOMAIN m -> Seq(Letters)]
    BY MapIs, Zenon
  <2>2. QED
    BY <2>1, Zenon
<1>6. p.kind \in {"text", "variable", "escape", "open"}
  <2>1. p \in Part
    BY Zenon DEF PartIs
  <2>2. QED
    BY <2>1 DEF Part
<1>7. CASE p.kind = "text"
  <2>1. StandsFor(m, p) = p.text
    BY <1>7 DEF StandsFor
  <2>2. QED
    BY <1>1, <2>1
<1>8. CASE p.kind = "escape"
  <2>1. StandsFor(m, p) = <<OPEN_TAG>>
    BY <1>8 DEF StandsFor
  <2>2. QED
    BY <1>2, <2>1
<1>9. CASE p.kind = "open"
  <2>1. StandsFor(m, p) = <<OPEN_TAG>> \o p.text
    BY <1>9 DEF StandsFor
  <2>2. QED
    BY <1>3, <2>1
<1>10. CASE p.kind = "variable"
  <2>1. CASE p.text \in DOMAIN Environment
    <3>1. StandsFor(m, p) = Environment[p.text]
      BY <1>10, <2>1 DEF StandsFor
    <3>2. QED
      BY <1>4, <2>1, <3>1
  <2>2. CASE p.text \notin DOMAIN Environment /\ p.text \in DOMAIN m
    <3>1. StandsFor(m, p) = m[p.text]
      BY <1>10, <2>2 DEF StandsFor
    <3>2. QED
      BY <1>5, <2>2, <3>1
  <2>3. CASE p.text \notin DOMAIN Environment /\ p.text \notin DOMAIN m
    <3>1. StandsFor(m, p) = <<>>
      BY <1>10, <2>3 DEF StandsFor
    <3>2. QED
      BY <1>2, <3>1
  <2>4. QED
    BY <2>1, <2>2, <2>3
<1>11. QED
  BY <1>6, <1>7, <1>8, <1>9, <1>10

LEMMA MeaningText ==
  ASSUME NEW m \in Maps, NEW parts \in Seq(Part), \A i \in 1..Len(parts) : PartIs(parts[i])
  PROVE  Meaning(m, parts) \in Seq(Letters)
<1> DEFINE D == Seq(Letters)
           values == [i \in DOMAIN parts |-> StandsFor(m, parts[i])]
<1>1. PICK n \in Nat : n = Len(parts) /\ DOMAIN parts = 1..n
  BY LenProperties
<1>2. \A i \in 1..n : StandsFor(m, parts[i]) \in D
  BY <1>1, StandsText, Zenon
<1> HIDE DEF D
<1>3. values \in Seq(D)
  <2>1. values \in [1..n -> D]
    BY <1>1, <1>2, Zenon
  <2> HIDE DEF values
  <2>2. QED
    BY <2>1, ListOf
<1>4. PICK g : Tails(g, values, Letters)
  BY <1>3, TailsExist, Zenon DEF D
<1>5. Meaning(m, parts) = FlattenSeq(values)
  BY Zenon DEF Meaning
<1> HIDE DEF values
<1>6. g \in [0..Len(values) -> D] /\ g[0] = FlattenSeq(values)
  BY <1>4, Zenon DEF Tails, D
<1>7. 0 \in 0..Len(values)
  BY <1>3, LenProperties
<1>8. QED
  BY <1>5, <1>6, <1>7, Zenon DEF D

LEMMA DefineText ==
  ASSUME NEW m \in Maps, NEW d, Definition(d)
  PROVE  Define(m, d) \in Maps
<1>1. CASE d.kind # "value"
  BY <1>1, DefineIs, Zenon
<1>2. CASE Key(d.key) \in DOMAIN m
  BY <1>2, DefineIs, Zenon
<1>3. CASE d.kind = "value" /\ Key(d.key) \notin DOMAIN m
  <2>1. PICK w : w = [k \in DOMAIN m \cup {Key(d.key)} |->
                          IF k = Key(d.key) THEN Meaning(m, d.parts) ELSE m[k]]
    OBVIOUS
  <2>2. Define(m, d) = w
    BY <1>3, <2>1, Zenon DEF Define, Meaning, StandsFor
  <2>3. Meaning(m, d.parts) \in Seq(Letters)
    BY <1>3, PartsAllAre, MeaningText, Zenon
  <2>4. Key(d.key) \in Seq(Letters)
    <3>1. d.key \in Line
      BY Zenon DEF Definition
    <3>2. QED
      BY <3>1, LineIs, KeyText
  <2>5. m \in [DOMAIN m -> Seq(Letters)] /\ DOMAIN m \subseteq Seq(Letters)
    BY MapIs, Zenon
  <2>6. /\ DOMAIN w = DOMAIN m \cup {Key(d.key)}
        /\ w \in [DOMAIN m \cup {Key(d.key)} -> Seq(Letters)]
    BY <2>1, <2>3, <2>5, Zenon
  <2>7. DOMAIN w \subseteq Seq(Letters) /\ w \in [DOMAIN w -> Seq(Letters)]
    BY <2>4, <2>5, <2>6, Zenon
  <2>8. w \in Maps
    BY <2>7, MapIs, Zenon
  <2>9. QED
    BY <2>2, <2>8, Zenon
<1>4. QED
  BY <1>1, <1>2, <1>3

NoProperties == [k \in {} |-> <<>>]

\* The properties that the first n lines of f define.
Defined(f) ==
  CHOOSE upTo : upTo = [n \in 0..Len(f.lines) |->
                          IF n = 0 THEN [k \in {} |-> <<>>] ELSE Define(upTo[n - 1], f.lines[n])]

LEMMA DefinedIs ==
  ASSUME NEW f \in FileTexts, NEW n \in Nat, n = Len(f.lines)
  PROVE  /\ Meant(f) = Defined(f)[n]
         /\ Defined(f)[0] = NoProperties
         /\ \A i \in 1..n : Defined(f)[i] = Define(Defined(f)[i - 1], f.lines[i])
<1>1. \A i \in 1..n : Definition(f.lines[i])
  BY FileIs, Zenon
<1>2. NoProperties \in Maps
  <2>1. DOMAIN NoProperties = {} /\ NoProperties \in [{} -> Seq(Letters)]
    BY DEF NoProperties
  <2>2. DOMAIN NoProperties \subseteq Seq(Letters) /\ NoProperties \in [DOMAIN NoProperties -> Seq(Letters)]
    BY <2>1, Zenon
  <2>3. QED
    BY <2>2, MapIs, Zenon
<1> DEFINE Step == [nv \in (1..n) \X Maps |-> Define(nv[2], f.lines[nv[1]])]
<1>3. ASSUME NEW i \in 1..n, NEW v \in Maps
      PROVE  Step[<<i, v>>] = Define(v, f.lines[i]) /\ Step[<<i, v>>] \in Maps
  <2>1. Define(v, f.lines[i]) \in Maps
    BY <1>1, DefineText, Zenon
  <2>2. <<i, v>> \in (1..n) \X Maps /\ <<i, v>>[1] = i /\ <<i, v>>[2] = v
    OBVIOUS
  <2>3. Step[<<i, v>>] = Define(<<i, v>>[2], f.lines[<<i, v>>[1]])
    BY <2>2, Zenon
  <2>4. QED
    BY <2>1, <2>2, <2>3, Zenon
<1> HIDE DEF Step
<1>4. StepsIn(Maps, NoProperties, Step, n)
  BY <1>2, <1>3, Zenon DEF StepsIn
<1>5. PICK h : Recurs(h, Maps, NoProperties, Step, n)
  BY <1>4, Recursion, Zenon
<1>6. h \in [0..n -> Maps] /\ h[0] = NoProperties
  BY <1>5, Zenon DEF Recurs
<1>7. ASSUME NEW i \in 1..n PROVE h[i] = Define(h[i - 1], f.lines[i])
  <2>1. h[i] = Step[<<i, h[i - 1]>>]
    BY <1>5, Zenon DEF Recurs
  <2>2. i - 1 \in 0..n
    OBVIOUS
  <2>3. h[i - 1] \in Maps
    BY <1>6, <2>2, Zenon
  <2>4. QED
    BY <1>3, <2>1, <2>3, Zenon
<1>8. h = [i \in 0..Len(f.lines) |-> IF i = 0 THEN [k \in {} |-> <<>>] ELSE Define(h[i - 1], f.lines[i])]
  <2>1. \A i \in 0..n : h[i] = IF i = 0 THEN [k \in {} |-> <<>>] ELSE Define(h[i - 1], f.lines[i])
    <3>1. ASSUME NEW i \in 0..n, i # 0 PROVE i \in 1..n
      BY <3>1
    <3>2. QED
      BY <1>6, <1>7, <3>1, Zenon DEF NoProperties
  <2>2. QED
    BY <1>6, <2>1, Zenon
<1>9. Defined(f) = [i \in 0..Len(f.lines) |->
                      IF i = 0 THEN [k \in {} |-> <<>>] ELSE Define(Defined(f)[i - 1], f.lines[i])]
  BY <1>8, Zenon DEF Defined
<1>10. Meant(f) = Defined(f)[n]
  BY Zenon DEF Meant, Defined
<1>11. /\ Defined(f)[0] = NoProperties
       /\ \A i \in 1..n : Defined(f)[i] = Define(Defined(f)[i - 1], f.lines[i])
  <2>1. 0 \in 0..n /\ \A i \in 1..n : i \in 0..n /\ i # 0
    OBVIOUS
  <2>2. \A i \in 0..n : Defined(f)[i] = IF i = 0 THEN [k \in {} |-> <<>>]
                                        ELSE Define(Defined(f)[i - 1], f.lines[i])
    BY <1>9, Zenon
  <2>3. QED
    BY <2>1, <2>2, Zenon DEF NoProperties
<1>12. QED
  BY <1>10, <1>11

-----------------------------------------------------------------------------
(***************************************************************************)
(* The loop.                                                               *)
(***************************************************************************)
\* getline at the end of the file.
LEMMA GotNothing ==
  ASSUME eof \/ input = <<>>
  PROVE  GetLine.text = <<>> /\ GetLine.left = input /\ GetLine.eof = TRUE /\ GetLine.fail = TRUE
<1>1. GetLine = [text |-> <<>>, left |-> input, eof |-> TRUE, fail |-> TRUE]
  BY Zenon DEF GetLine
<1>2. QED
  BY <1>1, Zenon

\* getline on a line t that ends with e and has r behind it: the line, or a
\* piece u of it that fills the buffer.
Pieced(t, e, r) ==
  \E u, s \in Line :
    /\ s # <<>> /\ t = u \o s
    /\ GetLine.text = u /\ GetLine.left = (s \o e) \o r
    /\ GetLine.eof = FALSE /\ GetLine.fail = TRUE

Whole(t, e, r) ==
  /\ GetLine.text = t /\ GetLine.left = r
  /\ GetLine.eof = (e = <<>>) /\ GetLine.fail = FALSE

LEMMA GotLine ==
  ASSUME ~eof, input # <<>>, NEW t \in Line, NEW e, e = <<>> \/ e = <<NEWLINE>>,
         NEW r \in Seq(Letters), e = <<>> => r = <<>>, input = (t \o e) \o r
  PROVE  Pieced(t, e, r) \/ Whole(t, e, r)
<1>1. t \in Seq(Letters) /\ e \in Seq(Letters) /\ t \in Seq(Letters \ {NEWLINE}) /\ NEWLINE \in Letters
  <2>1. t \in Seq(Letters) /\ NEWLINE \in Letters /\ <<>> \in Seq(Letters)
    BY LineIs, SymbolsThere, Joins, Zenon
  <2>2. <<NEWLINE>> \in Seq(Letters)
    BY <2>1, Joins, Zenon
  <2>3. QED
    BY <2>1, <2>2, Zenon DEF Line
<1>2. PICK te \in Seq(Letters) : te = t \o e
  BY <1>1, ConcatProperties
<1>3. PICK er \in Seq(Letters) : er = e \o r
  BY <1>1, ConcatProperties
<1>4. input = te \o r /\ input = t \o er /\ input \in Seq(Letters)
  <2>1. Regroups(t, e, r)
    BY <1>1, Regrouped, Zenon
  <2>2. input = te \o r /\ input = t \o er
    BY <1>2, <1>3, <2>1, Zenon DEF Regroups
  <2>3. te \o r \in Seq(Letters)
    BY ConcatProperties
  <2>4. QED
    BY <2>2, <2>3, Zenon
<1>5. PICK m \in Nat : m = Len(t)
  BY <1>1, LenProperties
<1>6. PICK n \in Nat : n = Len(input)
  BY <1>4, LenProperties
<1>7. PICK room \in Nat \ {0} : room = LINE_SIZE - 1
  <2>1. LINE_SIZE - 1 \in Nat \ {0}
    BY PropertyAssumption
  <2>2. QED
    BY <2>1
<1>8. PICK stop : stop = Find(input, NEWLINE, 1)
  OBVIOUS
<1>9. /\ (IF stop = 0 THEN Len(input) ELSE stop - 1) = m
      /\ (stop = 0) = (e = <<>>)
      /\ SubSeq(input, 1 + (m + 1), n) = r
  <2>1. CASE e = <<>>
    <3>1. input = t
      <4>1. t \o <<>> = t
        BY <1>1, ConcatEmptySeq
      <4>2. QED
        BY <1>2, <1>4, <2>1, <4>1, Zenon
    <3>2. stop = 0
      <4>1. Find(t, NEWLINE, 1) = 0
        BY <1>1, FindFirst
      <4>2. QED
        BY <1>8, <3>1, <4>1, Zenon
    <3>3. SubSeq(input, 1 + (m + 1), n) = <<>>
      <4>1. n = m
        BY <1>5, <1>6, <3>1
      <4>2. 1 + (m + 1) \in Int /\ n \in Int /\ n < 1 + (m + 1)
        BY <1>5, <1>6, <4>1
      <4>3. QED
        BY <4>2, SubSeqEmpty
    <3>4. QED
      BY <1>5, <2>1, <3>1, <3>2, <3>3, Zenon
  <2>2. CASE e = <<NEWLINE>>
    <3>1. stop = m + 1
      <4>1. Find(t \o (<<NEWLINE>> \o r), NEWLINE, 1) = Len(t) + 1
        BY <1>1, FindFirst
      <4>2. QED
        BY <1>3, <1>4, <1>5, <1>8, <2>2, <4>1, Zenon
    <3>2. stop # 0 /\ stop - 1 = m
      BY <1>5, <3>1
    <3>3. e # <<>>
      <4>1. <<NEWLINE>> # <<>>
        OBVIOUS
      <4>2. QED
        BY <2>2, <4>1, Zenon
    <3>4. Len(te) = m + 1
      <4>1. Len(te) = Len(t) + Len(e)
        BY <1>1, <1>2, ConcatProperties
      <4>2. Len(e) = 1
        BY <2>2
      <4>3. QED
        BY <1>5, <4>1, <4>2
    <3>5. SubSeq(te \o r, Len(te) + 1, Len(te \o r)) = r
      BY CutJoined
    <3>6. (m + 1) + 1 = 1 + (m + 1)
      BY <1>5
    <3>7. SubSeq(input, 1 + (m + 1), n) = r
      BY <1>4, <1>6, <3>4, <3>5, <3>6, Zenon
    <3>8. QED
      BY <3>2, <3>3, <3>7, Zenon
  <2>3. QED
    BY <2>1, <2>2
<1>10. GetLine = [text |-> SubSeq(input, 1, IF m > room THEN room ELSE m),
                  left |-> SubSeq(input, 1 + (IF m > room THEN room ELSE m + 1), n),
                  eof |-> ~(m > room) /\ (stop = 0), fail |-> m > room]
  BY <1>6, <1>7, <1>8, <1>9, Zenon DEF GetLine
<1>11. /\ GetLine.text = SubSeq(input, 1, IF m > room THEN room ELSE m)
       /\ GetLine.left = SubSeq(input, 1 + (IF m > room THEN room ELSE m + 1), n)
       /\ GetLine.eof = (~(m > room) /\ (stop = 0)) /\ GetLine.fail = (m > room)
  BY <1>10, Zenon
<1>12. CASE m > room
  <2>1. /\ 1 \in 1..Len(t) + 1 /\ room \in 1 - 1..Len(t) /\ m \in room..Len(t)
        /\ room \in Nat /\ room <= m /\ m <= m /\ room + 1 \in Nat \ {0} /\ 1 \in Nat \ {0}
    BY <1>5, <1>7, <1>12
  <2>2. SubSeq(t, 1, room) \in Line /\ SubSeq(t, room + 1, m) \in Line
    BY <1>1, <1>5, <2>1, PartOf DEF Line
  <2>3. PICK u \in Line : u = SubSeq(t, 1, room)
    BY <2>2
  <2>4. PICK s \in Line : s = SubSeq(t, room + 1, m)
    BY <2>2
  <2>5. t = u \o s
    <3>1. SubSeq(t, 1, room) \o SubSeq(t, room + 1, m) = SubSeq(t, 1, m)
      BY <1>1, <2>1, ConcatAdjacentSubSeq
    <3>2. SubSeq(t, 1, m) = t
      BY <1>1, <1>5, SubSeqFull
    <3>3. QED
      BY <2>3, <2>4, <3>1, <3>2, Zenon
  <2>6. \A i \in 1..m : t[i] \in Letters
    BY <1>1, <1>5, ElementOfSeq
  <2>7. Len(u) = room
    <3>1. \A i \in 1..room : t[i] \in Letters
      BY <1>5, <1>7, <1>12, <2>6
    <3>2. Len(u) = IF 1 <= room THEN room - 1 + 1 ELSE 0
      BY <1>7, <2>3, <3>1, SubSeqProperties
    <3>3. QED
      BY <1>7, <3>2
  <2>8. s # <<>>
    <3>1. \A i \in room + 1..m : t[i] \in Letters
      BY <1>5, <1>7, <2>6
    <3>2. Len(s) = IF room + 1 <= m THEN m - (room + 1) + 1 ELSE 0
      BY <1>5, <1>7, <2>4, <3>1, SubSeqProperties
    <3>3. Len(s) # 0 /\ Len(<<>>) = 0
      BY <1>5, <1>7, <1>12, <3>2
    <3>4. QED
      BY <3>3
  <2>9. u \in Seq(Letters) /\ s \in Seq(Letters)
    BY LineIs
  <2>10. PICK rest \in Seq(Letters) : rest = s \o er
    BY <2>9, ConcatProperties
  <2>11. input = u \o rest /\ rest = (s \o e) \o r
    <3>1. Regroups(u, s, er) /\ Regroups(s, e, r)
      BY <1>1, <2>9, Regrouped, Zenon
    <3>2. QED
      BY <1>3, <1>4, <2>5, <2>10, <3>1, Zenon DEF Regroups
  <2>12. SubSeq(u \o rest, 1, Len(u)) = u /\ SubSeq(u \o rest, Len(u) + 1, Len(u \o rest)) = rest
    BY <2>9, CutJoined
  <2>13. GetLine.text = u
    BY <1>11, <1>12, <2>7, <2>11, <2>12, Zenon
  <2>14. GetLine.left = rest
    <3>1. room + 1 = 1 + room
      BY <1>7
    <3>2. QED
      BY <1>6, <1>11, <1>12, <2>7, <2>11, <2>12, <3>1, Zenon
  <2>15. GetLine.eof = FALSE /\ GetLine.fail = TRUE
    BY <1>11, <1>12, Zenon
  <2>16. Pieced(t, e, r)
    BY <2>5, <2>8, <2>11, <2>13, <2>14, <2>15, Zenon DEF Pieced
  <2>17. QED
    BY <2>16
<1>13. CASE ~(m > room)
  <2>1. SubSeq(t \o er, 1, Len(t)) = t
    BY <1>1, CutJoined
  <2>2. GetLine.text = t
    BY <1>4, <1>5, <1>11, <1>13, <2>1, Zenon
  <2>3. GetLine.left = r
    BY <1>9, <1>11, <1>13, Zenon
  <2>4. GetLine.eof = (e = <<>>) /\ GetLine.fail = FALSE
    <3>1. CASE e = <<>>
      <4>1. stop = 0
        BY <1>9, <3>1, Zenon
      <4>2. (~(m > room) /\ (stop = 0)) = TRUE /\ (m > room) = FALSE
        BY <1>13, <4>1
      <4>3. GetLine.eof = TRUE /\ GetLine.fail = FALSE
        BY <1>11, <4>2
      <4>4. QED
        BY <3>1, <4>3, Zenon
    <3>2. CASE e # <<>>
      <4>1. stop # 0
        BY <1>9, <3>2, Zenon
      <4>2. (~(m > room) /\ (stop = 0)) = FALSE /\ (m > room) = FALSE
        BY <1>13, <4>1
      <4>3. GetLine.eof = FALSE /\ GetLine.fail = FALSE
        BY <1>11, <4>2
      <4>4. QED
        BY <3>2, <4>3, Zenon
    <3>3. QED
      BY <3>1, <3>2
  <2>5. Whole(t, e, r)
    BY <2>2, <2>3, <2>4, Zenon DEF Whole
  <2>6. QED
    BY <2>5
<1>14. QED
  BY <1>12, <1>13

\* The invariant of the loop.  A piece of a line is in fullLine, the text s of
\* the line is still in the stream:
Torn(k, s) ==
  /\ s # <<>> /\ fullLine \o s = LineText(file.lines[k + 1])
  /\ input = (s \o Ending(file, k + 1)) \o LeftOf(file)[k + 1]

\* k lines are handled.
Reading(k) ==
  /\ k \in 0..Len(file.lines)
  /\ properties = Defined(file)[k]
  /\ eof => k = Len(file.lines) /\ ~partiallyRead
  /\ ~eof /\ ~partiallyRead => input = LeftOf(file)[k]
  /\ ~eof /\ partiallyRead => k # Len(file.lines) /\ \E s \in Line : Torn(k, s)

ReadInv ==
  /\ file \in FileTexts /\ fullLine \in Seq(Letters) /\ properties \in Maps
  /\ eof \in BOOLEAN /\ fail \in BOOLEAN /\ partiallyRead \in BOOLEAN
  /\ fail => properties = Meant(file)
  /\ ~loading => fail
  /\ ~fail => \E k \in 0..Len(file.lines) : Reading(k)

LEMMA EmptyHandled == HandleLine(<<>>) = properties
<1>1. "#" \in Letters /\ "=" \in Letters
  BY SymbolsThere
<1>2. <<>> \in Seq(Letters \ {"#"}) /\ <<>> \in Seq(Letters \ {"="}) /\ <<>> \in Seq(Letters)
  BY Joins, Zenon
<1>3. Find(<<>>, "#", 1) = 0
  BY <1>1, <1>2, FindFirst
<1>4. Uncommented(<<>>) = <<>>
  BY <1>3, Zenon DEF Uncommented
<1>5. Find(<<>>, "=", 1) = 0
  BY <1>1, <1>2, FindFirst
<1>6. QED
  BY <1>4, <1>5, NothingDefined, Zenon

LEMMA EmptyParts ==
  ASSUME NEW S, NEW s \in Seq(S), NEW e \in Seq(S), NEW r \in Seq(S), (s \o e) \o r = <<>>
  PROVE  s = <<>> /\ e = <<>> /\ r = <<>>
<1>1. PICK a \in Nat : a = Len(s)
  BY LenProperties
<1>2. PICK b \in Nat : b = Len(e)
  BY LenProperties
<1>3. PICK c \in Nat : c = Len(r)
  BY LenProperties
<1>4. PICK y \in Seq(S) : y = s \o e /\ Len(y) = a + b
  BY <1>1, <1>2, ConcatProperties
<1>5. Len(y \o r) = Len(y) + Len(r)
  BY ConcatProperties
<1>6. Len(y \o r) = 0
  <2>1. Len(<<>>) = 0
    OBVIOUS
  <2>2. QED
    BY <1>4, <2>1, Zenon
<1>7. a = 0 /\ b = 0 /\ c = 0
  BY <1>1, <1>2, <1>3, <1>4, <1>5, <1>6
<1>8. QED
  BY <1>1, <1>2, <1>3, <1>7, EmptySeq

\* The k-th step of Defined is what the loop does with the k-th line.
LEMMA NextLine ==
  ASSUME ReadInv, NEW n \in Nat, n = Len(file.lines), NEW k \in 0..n, k # n,
         properties = Defined(file)[k]
  PROVE  /\ k + 1 \in 1..n /\ k + 1 \in 0..n
         /\ Definition(file.lines[k + 1])
         /\ HandleLine(LineText(file.lines[k + 1])) = Defined(file)[k + 1]
         /\ Defined(file)[k + 1] \in Maps
         /\ LeftOf(file)[k] = (LineText(file.lines[k + 1]) \o Ending(file, k + 1)) \o LeftOf(file)[k + 1]
         /\ LeftOf(file)[k + 1] \in Seq(Letters)
         /\ Ending(file, k + 1) = <<>> => k + 1 = n /\ LeftOf(file)[k + 1] = <<>>
<1>1. PICK i \in 1..n : i = k + 1
  <2>1. k + 1 \in 1..n
    OBVIOUS
  <2>2. QED
    BY <2>1
<1>2. i \in 0..n /\ i - 1 = k
  BY <1>1
<1>3. file \in FileTexts /\ properties \in Maps
  BY Zenon DEF ReadInv
<1>4. Definition(file.lines[i])
  BY <1>3, FileIs, Zenon
<1>5. Defined(file)[i] = Define(Defined(file)[i - 1], file.lines[i])
  BY <1>3, DefinedIs
<1>6. Defined(file)[i] = Define(properties, file.lines[i])
  BY <1>2, <1>5, Zenon
<1>7. /\ HandleLine(LineText(file.lines[i])) = Define(properties, file.lines[i])
      /\ Define(properties, file.lines[i]) \in Maps
  BY <1>3, <1>4, LineHandled, Zenon
<1>8. /\ \A j \in 0..n : LeftOf(file)[j] \in Seq(Letters)
      /\ LeftOf(file)[n] = <<>>
      /\ \A j \in 1..n : LeftOf(file)[j - 1] = (LineText(file.lines[j]) \o Ending(file, j)) \o LeftOf(file)[j]
  BY <1>3, LeftIs, Zenon
<1>9. LeftOf(file)[k] = (LineText(file.lines[i]) \o Ending(file, i)) \o LeftOf(file)[i]
  BY <1>2, <1>8, Zenon
<1>10. Ending(file, i) = <<>> => i = n /\ LeftOf(file)[i] = <<>>
  BY <1>8, EndingIs, Zenon
<1>11. QED
  BY <1>1, <1>2, <1>4, <1>6, <1>7, <1>8, <1>9, <1>10, Zenon

\* Nothing is left, and so every line is handled.
LEMMA AtTheEnd ==
  ASSUME ReadInv, NEW n \in Nat, n = Len(file.lines), NEW k \in 0..n, Reading(k), eof \/ input = <<>>
  PROVE  ~partiallyRead /\ properties = Meant(file)
<1>1. file \in FileTexts /\ properties \in Maps /\ eof \in BOOLEAN /\ partiallyRead \in BOOLEAN
  BY Zenon DEF ReadInv
<1>2. /\ properties = Defined(file)[k]
      /\ eof => k = n /\ ~partiallyRead
      /\ ~eof /\ ~partiallyRead => input = LeftOf(file)[k]
      /\ ~eof /\ partiallyRead => k # n /\ \E s \in Line : Torn(k, s)
  BY Zenon DEF Reading
<1>3. Meant(file) = Defined(file)[n]
  BY <1>1, DefinedIs, Zenon
<1>4. CASE eof
  BY <1>2, <1>3, <1>4, Zenon
<1>5. CASE ~eof
  <2>1. input = <<>>
    BY <1>5
  <2>2. ~partiallyRead
    <3>1. SUFFICES ASSUME partiallyRead PROVE FALSE
      OBVIOUS
    <3>2. PICK s \in Line : Torn(k, s)
      BY <1>2, <1>5, <3>1, Zenon
    <3>3. k # n
      BY <1>2, <1>5, <3>1, Zenon
    <3>4. s # <<>> /\ (s \o Ending(file, k + 1)) \o LeftOf(file)[k + 1] = <<>>
      BY <2>1, <3>2, Zenon DEF Torn
    <3>5. s \in Seq(Letters) /\ Ending(file, k + 1) \in Seq(Letters) /\ LeftOf(file)[k + 1] \in Seq(Letters)
      BY <1>2, <3>3, LineIs, EndingIs, NextLine, Zenon
    <3>6. s = <<>>
      BY <3>4, <3>5, EmptyParts, Zenon
    <3>7. QED
      BY <3>4, <3>6
  <2>3. CASE k = n
    BY <1>2, <1>3, <2>2, <2>3, Zenon
  <2>4. CASE k # n
    <3>1. PICK d : d = LineText(file.lines[k + 1])
      OBVIOUS
    <3>2. (d \o Ending(file, k + 1)) \o LeftOf(file)[k + 1] = <<>>
      BY <1>2, <1>5, <2>1, <2>2, <2>4, <3>1, NextLine, Zenon
    <3>3. d \in Seq(Letters) /\ Ending(file, k + 1) \in Seq(Letters) /\ LeftOf(file)[k + 1] \in Seq(Letters)
      <4>1. d \in Line
        BY <1>2, <2>4, <3>1, NextLine, LineTextIs, Zenon
      <4>2. QED
        BY <1>2, <2>4, <4>1, LineIs, EndingIs, NextLine, Zenon
    <3>4. d = <<>> /\ Ending(file, k + 1) = <<>>
      BY <3>2, <3>3, EmptyParts, Zenon
    <3>5. k + 1 = n /\ HandleLine(d) = Defined(file)[k + 1]
      BY <1>2, <2>4, <3>1, <3>4, NextLine, Zenon
    <3>6. HandleLine(d) = properties
      BY <3>4, EmptyHandled, Zenon
    <3>7. QED
      BY <1>3, <2>2, <3>5, <3>6, Zenon
  <2>5. QED
    BY <2>3, <2>4
<1>6. QED
  BY <1>4, <1>5

\* What a turn of the loop puts in front of the line it got.
Full(x) == IF partiallyRead THEN fullLine \o x ELSE x

\* What is left of the line the loop is in, t, and of the file behind it.
Ahead(k, t) ==
  /\ t \in Line /\ Full(t) = LineText(file.lines[k + 1])
  /\ input = (t \o Ending(file, k + 1)) \o LeftOf(file)[k + 1]

LEMMA LineAhead ==
  ASSUME ReadInv, NEW n \in Nat, n = Len(file.lines), NEW k \in 0..n, Reading(k), ~eof, input # <<>>
  PROVE  k # n /\ \E t : Ahead(k, t)
<1>1. file \in FileTexts /\ partiallyRead \in BOOLEAN
  BY Zenon DEF ReadInv
<1>2. /\ properties = Defined(file)[k]
      /\ ~partiallyRead => input = LeftOf(file)[k]
      /\ partiallyRead => k # n /\ \E s \in Line : Torn(k, s)
  BY Zenon DEF Reading
<1>3. CASE partiallyRead
  <2>1. PICK s \in Line : Torn(k, s)
    BY <1>2, <1>3, Zenon
  <2>2. Ahead(k, s)
    BY <1>3, <2>1, Zenon DEF Torn, Ahead, Full
  <2>3. QED
    BY <1>2, <1>3, <2>2, Zenon
<1>4. CASE ~partiallyRead
  <2>1. k # n
    <3>1. LeftOf(file)[n] = <<>>
      BY <1>1, LeftIs, Zenon
    <3>2. QED
      BY <1>2, <1>4, <3>1, Zenon
  <2>2. LineText(file.lines[k + 1]) \in Line
    BY <1>2, <2>1, NextLine, LineTextIs, Zenon
  <2>3. input = (LineText(file.lines[k + 1]) \o Ending(file, k + 1)) \o LeftOf(file)[k + 1]
    BY <1>2, <1>4, <2>1, NextLine, Zenon
  <2>4. Ahead(k, LineText(file.lines[k + 1]))
    BY <1>4, <2>2, <2>3, Zenon DEF Ahead, Full
  <2>5. QED
    BY <2>1, <2>4, Zenon
<1>5. QED
  BY <1>3, <1>4

LEMMA FullJoins ==
  ASSUME ReadInv, NEW u \in Line
  PROVE  /\ Full(u) \in Seq(Letters)
         /\ \A s \in Line : Full(u) \o s = Full(u \o s)
<1>1. fullLine \in Seq(Letters) /\ u \in Seq(Letters)
  BY LineIs, Zenon DEF ReadInv
<1>2. fullLine \o u \in Seq(Letters)
  BY <1>1, ConcatProperties
<1>3. ASSUME NEW s \in Line PROVE Full(u) \o s = Full(u \o s)
  <2>1. s \in Seq(Letters)
    BY LineIs
  <2>2. Regroups(fullLine, u, s)
    BY <1>1, <2>1, Regrouped, Zenon
  <2>3. QED
    BY <2>2, Zenon DEF Full, Regroups
<1>4. QED
  BY <1>1, <1>2, <1>3, Zenon DEF Full

LEMMA ReadFromInit == PropertyInit => ReadInv
<1> SUFFICES ASSUME PropertyInit PROVE ReadInv
  OBVIOUS
<1>1. /\ file \in FileTexts /\ input = FileText(file) /\ eof = FALSE /\ fail = FALSE
      /\ fullLine = <<>> /\ partiallyRead = FALSE /\ properties = [k \in {} |-> <<>>] /\ loading = TRUE
  BY Zenon DEF PropertyInit
<1>2. PICK n \in Nat : n = Len(file.lines)
  BY <1>1, FileIs, Zenon
<1>3. Defined(file)[0] = NoProperties /\ LeftOf(file)[0] = FileText(file)
  BY <1>1, <1>2, DefinedIs, LeftIs, Zenon
<1>4. properties = Defined(file)[0]
  BY <1>1, <1>3, Zenon DEF NoProperties
<1>5. 0 \in 0..Len(file.lines)
  BY <1>2
<1>6. Reading(0)
  BY <1>1, <1>3, <1>4, <1>5, Zenon DEF Reading
<1>7. properties \in Maps
  <2>1. DOMAIN NoProperties = {} /\ NoProperties \in [{} -> Seq(Letters)]
    BY DEF NoProperties
  <2>2. DOMAIN NoProperties \subseteq Seq(Letters) /\ NoProperties \in [DOMAIN NoProperties -> Seq(Letters)]
    BY <2>1, Zenon
  <2>3. NoProperties \in Maps
    BY <2>2, MapIs, Zenon
  <2>4. QED
    BY <1>1, <2>3, Zenon DEF NoProperties
<1>8. fullLine \in Seq(Letters)
  BY <1>1
<1>9. eof \in BOOLEAN /\ fail \in BOOLEAN /\ partiallyRead \in BOOLEAN
  BY <1>1
<1>10. ~fail /\ loading
  BY <1>1
<1>11. QED
  BY <1>1, <1>5, <1>6, <1>7, <1>8, <1>9, <1>10, Zenon DEF ReadInv

\* A turn of the loop, as it uses what getline gives it.
Turn ==
  /\ file' = file /\ loading' = loading
  /\ input' = GetLine.left /\ eof' = GetLine.eof
  /\ fullLine' = Full(GetLine.text) /\ partiallyRead' = GetLine.fail
  /\ fail' = (GetLine.fail /\ GetLine.eof)
  /\ properties' = IF GetLine.fail /\ ~GetLine.eof THEN properties ELSE HandleLine(Full(GetLine.text))

LEMMA TurnIs == ReadPiece => Turn /\ loading /\ ~fail
BY Zenon DEF ReadPiece, Turn, Full

\* The last turn: nothing is left.
LEMMA LastTurn ==
  ASSUME ReadInv, loading, ~fail, Turn, eof \/ input = <<>>
  PROVE  ReadInv'
<1>1. PICK n \in Nat : n = Len(file.lines)
  BY FileIs, Zenon DEF ReadInv
<1>2. PICK k \in 0..n : Reading(k)
  BY <1>1, Zenon DEF ReadInv
<1>3. ~partiallyRead /\ properties = Meant(file)
  BY <1>1, <1>2, AtTheEnd, Zenon
<1>4. GetLine.text = <<>> /\ GetLine.eof = TRUE /\ GetLine.fail = TRUE
  BY GotNothing, Zenon
<1>5. Full(GetLine.text) = <<>>
  BY <1>3, <1>4, Zenon DEF Full
<1>6. /\ file' = file /\ loading' = loading /\ fullLine' = <<>> /\ properties' = HandleLine(<<>>)
      /\ eof' = TRUE /\ partiallyRead' = TRUE /\ fail' = (TRUE /\ TRUE)
  BY <1>4, <1>5, Zenon DEF Turn
<1>7. properties' = properties /\ fail' = TRUE
  <2>1. (TRUE /\ TRUE) = TRUE
    OBVIOUS
  <2>2. QED
    BY <1>6, <2>1, EmptyHandled, Zenon
<1>8. <<>> \in Seq(Letters)
  BY Joins, Zenon
<1>9. file \in FileTexts /\ properties \in Maps
  BY Zenon DEF ReadInv
<1>10. QED
  BY <1>3, <1>6, <1>7, <1>8, <1>9, Zenon DEF ReadInv

\* A piece of a line was read, and the buffer is full.
LEMMA PieceTurn ==
  ASSUME ReadInv, loading, ~fail, Turn, ~eof, NEW n \in Nat, n = Len(file.lines),
         NEW k \in 0..n, Reading(k), k # n, NEW t, Ahead(k, t),
         Pieced(t, Ending(file, k + 1), LeftOf(file)[k + 1])
  PROVE  ReadInv'
<1>1. PICK u \in Line, s \in Line :
        /\ s # <<>> /\ t = u \o s
        /\ GetLine.text = u /\ GetLine.left = (s \o Ending(file, k + 1)) \o LeftOf(file)[k + 1]
        /\ GetLine.eof = FALSE /\ GetLine.fail = TRUE
  BY Zenon DEF Pieced
<1>2. /\ file' = file /\ loading' = loading /\ fullLine' = Full(u) /\ properties' = properties
      /\ input' = (s \o Ending(file, k + 1)) \o LeftOf(file)[k + 1]
      /\ eof' = FALSE /\ partiallyRead' = TRUE /\ fail' = (TRUE /\ FALSE)
  BY <1>1, Zenon DEF Turn
<1>3. fail' = FALSE
  <2>1. (TRUE /\ FALSE) = FALSE
    OBVIOUS
  <2>2. QED
    BY <1>2, <2>1, Zenon
<1>4. Full(u) \in Seq(Letters) /\ Full(u) \o s = LineText(file.lines[k + 1])
  <2>1. Full(u) \in Seq(Letters) /\ Full(u) \o s = Full(u \o s)
    BY FullJoins, Zenon
  <2>2. QED
    BY <1>1, <2>1, Zenon DEF Ahead
<1>5. Torn(k, s)'
  BY <1>1, <1>2, <1>4, Zenon DEF Torn
<1>6. properties = Defined(file)[k]
  BY Zenon DEF Reading
<1>7. Reading(k)'
  BY <1>2, <1>5, <1>6, Zenon DEF Reading
<1>8. file \in FileTexts /\ properties \in Maps
  BY Zenon DEF ReadInv
<1>9. loading' /\ ~fail'
  BY <1>2, <1>3
<1>10. (\E j \in 0..Len(file.lines) : Reading(j))'
  BY <1>2, <1>7, Zenon
<1>11. QED
  BY <1>2, <1>3, <1>4, <1>8, <1>9, <1>10, Zenon DEF ReadInv

\* A line was read to its end.
LEMMA LineTurn ==
  ASSUME ReadInv, loading, ~fail, Turn, ~eof, NEW n \in Nat, n = Len(file.lines),
         NEW k \in 0..n, Reading(k), k # n, NEW t, Ahead(k, t),
         Whole(t, Ending(file, k + 1), LeftOf(file)[k + 1])
  PROVE  ReadInv'
<1>1. PICK i : i = k + 1
  OBVIOUS
<1>2. properties = Defined(file)[k]
  BY Zenon DEF Reading
<1>3. /\ i \in 0..n
      /\ HandleLine(LineText(file.lines[i])) = Defined(file)[i]
      /\ Defined(file)[i] \in Maps
      /\ Ending(file, i) = <<>> => i = n
  BY <1>1, <1>2, NextLine, Zenon
<1>4. t \in Line /\ Full(t) = LineText(file.lines[i])
  BY <1>1, Zenon DEF Ahead
<1>5. /\ GetLine.text = t /\ GetLine.left = LeftOf(file)[i]
      /\ GetLine.eof = (Ending(file, i) = <<>>) /\ GetLine.fail = FALSE
  BY <1>1, Zenon DEF Whole
<1>6. /\ file' = file /\ loading' = loading /\ fullLine' = Full(t) /\ properties' = Defined(file)[i]
      /\ input' = LeftOf(file)[i] /\ partiallyRead' = FALSE
      /\ eof' = (Ending(file, i) = <<>>)
  BY <1>3, <1>4, <1>5, Zenon DEF Turn
<1>7. fail' = FALSE
  <2>1. fail' = (FALSE /\ GetLine.eof)
    BY <1>5, Zenon DEF Turn
  <2>2. (FALSE /\ GetLine.eof) = FALSE
    OBVIOUS
  <2>3. QED
    BY <2>1, <2>2, Zenon
<1>8. eof' \in BOOLEAN /\ (eof' => i = n)
  BY <1>3, <1>6
<1>9. Reading(i)'
  BY <1>3, <1>6, <1>8, Zenon DEF Reading
<1>10. Full(t) \in Seq(Letters)
  BY <1>4, FullJoins, Zenon
<1>11. (\E j \in 0..Len(file.lines) : Reading(j))'
  BY <1>3, <1>6, <1>9, Zenon
<1>12. file \in FileTexts /\ loading' /\ ~fail'
  BY <1>6, <1>7 DEF ReadInv
<1>13. QED
  BY <1>3, <1>6, <1>7, <1>8, <1>10, <1>11, <1>12, Zenon DEF ReadInv

LEMMA ReadPieceKeeps == ReadInv /\ ReadPiece => ReadInv'
<1> SUFFICES ASSUME ReadInv, ReadPiece PROVE ReadInv'
  OBVIOUS
<1>1. Turn /\ loading /\ ~fail
  BY TurnIs
<1>2. CASE eof \/ input = <<>>
  BY <1>1, <1>2, LastTurn, Zenon
<1>3. CASE ~(eof \/ input = <<>>)
  <2>1. ~eof /\ input # <<>>
    BY <1>3
  <2>2. PICK n \in Nat : n = Len(file.lines)
    BY FileIs, Zenon DEF ReadInv
  <2>3. PICK k \in 0..n : Reading(k)
    BY <1>1, <2>2, Zenon DEF ReadInv
  <2>4. k # n /\ \E t : Ahead(k, t)
    BY <2>1, <2>2, <2>3, LineAhead, Zenon
  <2>5. PICK t : Ahead(k, t)
    BY <2>4
  <2>6. properties = Defined(file)[k]
    BY <2>3, Zenon DEF Reading
  <2>7. /\ LeftOf(file)[k + 1] \in Seq(Letters)
        /\ Ending(file, k + 1) = <<>> => LeftOf(file)[k + 1] = <<>>
    BY <2>2, <2>4, <2>6, NextLine, Zenon
  <2>8. t \in Line /\ input = (t \o Ending(file, k + 1)) \o LeftOf(file)[k + 1]
    BY <2>5, Zenon DEF Ahead
  <2>9. Ending(file, k + 1) = <<>> \/ Ending(file, k + 1) = <<NEWLINE>>
    BY EndingIs
  <2>10. Pieced(t, Ending(file, k + 1), LeftOf(file)[k + 1]) \/ Whole(t, Ending(file, k + 1), LeftOf(file)[k + 1])
    BY <2>1, <2>7, <2>8, <2>9, GotLine, Zenon
  <2>11. CASE Pieced(t, Ending(file, k + 1), LeftOf(file)[k + 1])
    BY <1>1, <2>1, <2>2, <2>3, <2>4, <2>5, <2>11, PieceTurn, Zenon
  <2>12. CASE Whole(t, Ending(file, k + 1), LeftOf(file)[k + 1])
    BY <1>1, <2>1, <2>2, <2>3, <2>4, <2>5, <2>12, LineTurn, Zenon
  <2>13. QED
    BY <2>10, <2>11, <2>12
<1>4. QED
  BY <1>2, <1>3

LEMMA ReadStep == ReadInv /\ [PropertyNext]_propertyVars => ReadInv'
<1> SUFFICES ASSUME ReadInv, [PropertyNext]_propertyVars PROVE ReadInv'
  OBVIOUS
<1>1. CASE ReadPiece
  BY <1>1, ReadPieceKeeps
<1>2. CASE LoadEnds
  <2>1. /\ fail /\ file' = file /\ input' = input /\ eof' = eof /\ fail' = fail /\ fullLine' = fullLine
        /\ partiallyRead' = partiallyRead /\ properties' = properties
    BY <1>2 DEF LoadEnds
  <2>2. fail' /\ (~loading' => fail')
    BY <2>1
  <2>3. QED
    BY <2>1, <2>2, Zenon DEF ReadInv
<1>3. CASE UNCHANGED propertyVars
  <2>1. /\ file' = file /\ input' = input /\ eof' = eof /\ fail' = fail /\ fullLine' = fullLine
        /\ partiallyRead' = partiallyRead /\ properties' = properties /\ loading' = loading
    BY <1>3 DEF propertyVars
  <2>2. QED
    BY <2>1, Zenon DEF ReadInv, Reading, Torn
<1>4. QED
  BY <1>1, <1>2, <1>3 DEF PropertyNext

\* A property file is loaded as its writer means it, for every file whose lines
\* are definitions, every environment and every size of the buffer
\* (PropertyFile!LoadedAsMeant; Properties.cpp:28-43, 111-157).
THEOREM LoadedAlwaysAsMeant == PropertySpec => []LoadedAsMeant
<1>1. ReadInv => LoadedAsMeant
  BY Zenon DEF ReadInv, LoadedAsMeant
<1>2. QED
  BY ReadFromInit, ReadStep, <1>1, PTL DEF PropertySpec
=============================================================================
