------------------------------ MODULE Category ------------------------------
(***************************************************************************)
(* The categories of log4cpp as the library and its tests use them          *)
(* (src/log4cpp/src/Category.cpp, HierarchyMaintainer.cpp, Appender.cpp,    *)
(* AppenderSkeleton.cpp, PropertyConfiguratorImpl.cpp,                      *)
(* SimpleConfigurator.cpp): threads log while another thread configures the *)
(* hierarchy, takes appenders away or shuts everything down.                *)
(*                                                                          *)
(* Every category has a mutex over its set of appenders.  callAppenders     *)
(* holds it while the appenders write and while the parents' appenders      *)
(* write, so a thread that logs holds the locks of a path of the hierarchy. *)
(* A step is one critical section, one call of an appender, or one write of *)
(* an unprotected member.  One thread configures, any number log.           *)
(*                                                                          *)
(* A user of an appender keeps the rules of Appender.hh and Category.hh: a  *)
(* pointer given to addAppender is new, one given by reference is detached  *)
(* before its owner deletes it.                                             *)
(***************************************************************************)
EXTENDS Naturals, Sequences, FiniteSets, SequencesExt

CONSTANTS
  Loggers,        \* threads that log
  Configurer,     \* the thread that configures and shuts down
  Names,          \* names of categories
  Root,           \* the name ""
  ParentOf,       \* the name up to the last dot; ParentOf[Root] = NoName
  NoName,
  Appenders,      \* appender objects
  NameOf,         \* the name of each object
  NoAppender,
  Levels,         \* the priorities in use; smaller is more severe
  NOTSET,         \* greater than every level
  EventLevels,    \* the priorities events are logged with
  Threshold,      \* AppenderSkeleton::_threshold of each object
  Filters,        \* the chain of decisions of each object's filters
  Files,          \* the property files doConfigure may be given
  MaxChanges,     \* operations the configurer performs
  MaxLogs         \* calls of log per thread

AppenderNames == {NameOf[a] : a \in Appenders}

\* What a property file says of an appender and of a category.
AppenderEntry == [name : AppenderNames, fault : {"none", "type", "layout", "threshold"}]
CategoryEntry == [name : Names, priority : Levels \cup {NOTSET}, additive : BOOLEAN, refs : Seq(AppenderNames)]

ASSUME CategoryAssumption ==
  /\ Root \in Names /\ NoName \notin Names
  /\ ParentOf \in [Names -> Names \cup {NoName}]
  /\ \A n \in Names : ParentOf[n] = NoName <=> n = Root
  /\ EventLevels \subseteq Levels /\ Levels \subseteq Nat /\ NOTSET \in Nat /\ \A p \in Levels : p < NOTSET
  /\ Configurer \notin Loggers /\ NoName \notin Loggers /\ NoAppender \notin Appenders
  /\ NameOf \in [Appenders -> AppenderNames]
  /\ Files \subseteq [appenders : Seq(AppenderEntry), categories : Seq(CategoryEntry)]

\* A parent's name is shorter: going up from any name ends at the root, so what
\* holds of a category when it holds of its parent holds of every category.
ASSUME HierarchyAssumption ==
  \A S \in SUBSET Names :
     (\A n \in Names : ParentOf[n] \in S \cup {NoName} => n \in S) => S = Names

VARIABLES
  known,       \* HierarchyMaintainer::_categoryMap
  priority,    \* Category::_priority
  additive,    \* Category::_isAdditive
  attached,    \* Category::_appender
  owned,       \* the appenders with _ownsAppender true
  lock,        \* Category::_appenderSetMutex: the thread that holds it
  mapLock,     \* HierarchyMaintainer::_categoryMutex
  life,        \* "unborn", "alive" or "deleted"; "twice" if deleted again
  registry,    \* Appender::_allAppenders: name -> object
  call,        \* per logging thread: the call of log it is in
  logs,        \* calls of log made so far
  job,         \* what the configurer is doing
  changes,     \* operations the configurer has begun
  configured   \* PropertyConfiguratorImpl::_allAppenders, which is static

hierarchy == <<known, priority, additive, attached, owned>>
objects   == <<life, registry, configured>>
categoryVars == <<hierarchy, lock, mapLock, objects, call, logs, job, changes>>

Nobody == NoName
Idle == [at |-> "idle"]

---------------------------------------------------------------------------
(* The hierarchy.                                                           *)

\* A category and its parents up to the root: what is in every set that has it
\* and the parents of its members.
Path(n) ==
  {c \in Names : \A S \in SUBSET Names :
                   n \in S /\ (\A m \in S : ParentOf[m] \in S \cup {NoName}) => c \in S}

\* getChainedPriority: the first priority on the way up that is set.  The
\* members it reads are single words nobody locks; they are read in one step.
ChainedPriority[n \in Names] ==
  IF priority[n] < NOTSET \/ ParentOf[n] = NoName
  THEN priority[n] ELSE ChainedPriority[ParentOf[n]]

IsPriorityEnabled(n, p) == ChainedPriority[n] >= p

\* FixedContextCategory: its own priority comes first, if it has one.
FixedEnabled(own, n, p) == (IF own = NOTSET THEN ChainedPriority[n] ELSE own) >= p

\* Filter::decide: the first decision of the chain that is not NEUTRAL.
Denies(chain) ==
  LET voiced == SelectSeq(chain, LAMBDA d : d # "NEUTRAL")
  IN  voiced # <<>> /\ Head(voiced) = "DENY"

\* AppenderSkeleton::doAppend hands the event on to _append.
Passes(a, p) ==
  /\ Threshold[a] = NOTSET \/ p <= Threshold[a]
  /\ ~Denies(Filters[a])

\* The categories whose appenders a call of callAppenders for n reaches.
Reached[n \in Names \cup {NoName}] ==
  IF n = NoName THEN {}
  ELSE {n} \cup (IF additive[n] THEN Reached[ParentOf[n]] ELSE {})

---------------------------------------------------------------------------
CategoryInit ==
  /\ known = {Root}
  /\ priority = [n \in Names |-> IF n = Root THEN 600 ELSE NOTSET]
  /\ additive = [n \in Names |-> TRUE]
  /\ attached = [n \in Names |-> {}]
  /\ owned = [n \in Names |-> {}]
  /\ lock = [n \in Names |-> Nobody]
  /\ mapLock = Nobody
  /\ life = [a \in Appenders |-> "unborn"]
  /\ registry = [x \in AppenderNames |-> NoAppender]
  /\ configured = [x \in AppenderNames |-> NoAppender]
  /\ call = [t \in Loggers |-> Idle]
  /\ logs = [t \in Loggers |-> 0]
  /\ job = Idle
  /\ changes = 0

---------------------------------------------------------------------------
(* A thread that logs.                                                      *)

\* The event is made and callAppenders is entered.  "heard" counts the calls
\* of _append for the event; "due" is what it would be if nothing changed, and
\* "disturbed" says that the configurer has changed something meanwhile.
BeginCall(t, n, p) ==
  call' = [call EXCEPT ![t] =
    [at |-> "enter", cat |-> n, level |-> p, held |-> <<>>, todo |-> {},
     using |-> NoAppender, disturbed |-> FALSE,
     heard |-> [a \in Appenders |-> 0],
     due |-> [a \in Appenders |->
                IF Passes(a, p)
                THEN Cardinality({c \in Reached[n] : a \in attached[c]}) ELSE 0]]]

\* log, debug ... fatal, and a stream that is flushed.
Log(t, n, p) ==
  /\ call[t].at = "idle" /\ logs[t] < MaxLogs
  /\ n \in known
  /\ logs' = [logs EXCEPT ![t] = @ + 1]
  /\ IF IsPriorityEnabled(n, p) THEN BeginCall(t, n, p) ELSE UNCHANGED call
  /\ UNCHANGED <<hierarchy, lock, mapLock, objects, job, changes>>

\* A FixedContextCategory with a priority of its own hands its events to the
\* appenders of the category it is named after.
LogFixed(t, own, n, p) ==
  /\ call[t].at = "idle" /\ logs[t] < MaxLogs
  /\ n \in known
  /\ logs' = [logs EXCEPT ![t] = @ + 1]
  /\ IF FixedEnabled(own, n, p) THEN BeginCall(t, n, p) ELSE UNCHANGED call
  /\ UNCHANGED <<hierarchy, lock, mapLock, objects, job, changes>>

\* callAppenders takes the lock of the category and looks at its set.
EnterCategory(t) ==
  /\ call[t].at = "enter"
  /\ lock[call[t].cat] = Nobody
  /\ lock' = [lock EXCEPT ![call[t].cat] = t]
  /\ call' = [call EXCEPT ![t].at = "loop", ![t].todo = attached[call[t].cat],
                          ![t].held = Append(@, call[t].cat)]
  /\ UNCHANGED <<hierarchy, mapLock, objects, logs, job, changes>>

\* One turn of the loop: doAppend is entered ...
AppendBegin(t) ==
  /\ call[t].at = "loop"
  /\ \E a \in call[t].todo :
       call' = [call EXCEPT ![t].at = "append", ![t].using = a]
  /\ UNCHANGED <<hierarchy, lock, mapLock, objects, logs, job, changes>>

\* ... and left.
AppendEnd(t) ==
  /\ call[t].at = "append"
  /\ LET a == call[t].using
         was == call[t].heard
         heard == IF Passes(a, call[t].level) THEN [was EXCEPT ![a] = @ + 1] ELSE was
     IN  call' = [call EXCEPT ![t].at = "loop", ![t].using = NoAppender,
                    ![t].todo = @ \ {a}, ![t].heard = heard]
  /\ UNCHANGED <<hierarchy, lock, mapLock, objects, logs, job, changes>>

\* Mutant: the flag of additivity is not looked at.
GoUp_Anyway(t) ==
  /\ call[t].at = "loop" /\ call[t].todo = {}
  /\ LET up == ParentOf[call[t].cat]
     IN  call' = [call EXCEPT
           ![t] = IF up # NoName THEN [@ EXCEPT !.at = "enter", !.cat = up]
                                 ELSE [@ EXCEPT !.at = "leave"]]
  /\ UNCHANGED <<hierarchy, lock, mapLock, objects, logs, job, changes>>

\* After the loop the parent's callAppenders is called, with the lock held.
GoUp(t) ==
  /\ call[t].at = "loop" /\ call[t].todo = {}
  /\ LET up == ParentOf[call[t].cat]
     IN  call' = [call EXCEPT
           ![t] = IF additive[call[t].cat] /\ up # NoName
                  THEN [@ EXCEPT !.at = "enter", !.cat = up]
                  ELSE [@ EXCEPT !.at = "leave"]]
  /\ UNCHANGED <<hierarchy, lock, mapLock, objects, logs, job, changes>>

\* Mutant: only the lock that was taken last is given back.
Leave_Last(t) ==
  /\ call[t].at = "leave"
  /\ lock' = [lock EXCEPT ![call[t].cat] = Nobody]
  /\ call' = [call EXCEPT ![t] = Idle]
  /\ UNCHANGED <<hierarchy, mapLock, objects, logs, job, changes>>

\* The calls return, and with them the scoped locks go.
Leave(t) ==
  /\ call[t].at = "leave"
  /\ lock' = [n \in Names |-> IF lock[n] = t THEN Nobody ELSE lock[n]]
  /\ call' = [call EXCEPT ![t] = Idle]
  /\ UNCHANGED <<hierarchy, mapLock, objects, logs, job, changes>>

\* Category::getInstance: the category and the parents that do not exist yet
\* are made in one critical section of the maintainer.
GetInstance(n) ==
  /\ mapLock = Nobody
  /\ known' = known \cup Path(n)

NewCategory(t, n) ==
  /\ call[t].at = "idle"
  /\ n \notin known
  /\ GetInstance(n)
  /\ UNCHANGED <<priority, additive, attached, owned, lock, mapLock, objects, call, logs, job, changes>>

---------------------------------------------------------------------------
(* Appenders.                                                               *)

\* The constructor registers the object under its name, whatever is there.
Construct(a) ==
  /\ life[a] = "unborn"
  /\ life' = [life EXCEPT ![a] = "alive"]
  /\ registry' = [registry EXCEPT ![NameOf[a]] = a]

\* delete: the destructor erases the name, whoever is registered under it.
Delete(S) ==
  /\ life' = [a \in Appenders |-> IF a \notin S THEN life[a]
                ELSE IF life[a] = "alive" THEN "deleted" ELSE "twice"]
  /\ registry' = [x \in AppenderNames |->
                    IF x \in {NameOf[a] : a \in S} THEN NoAppender ELSE registry[x]]

\* The loggers that are inside a call see that the hierarchy has changed.
Disturb ==
  call' = [t \in Loggers |->
             IF call[t].at = "idle" THEN call[t] ELSE [call[t] EXCEPT !.disturbed = TRUE]]

\* addAppender: an appender that is there already is left as it is.
Insert(n, a, own) ==
  /\ lock[n] = Nobody
  /\ attached' = [attached EXCEPT ![n] = @ \cup {a}]
  /\ owned' = [owned EXCEPT ![n] = IF own /\ a \notin attached[n] THEN @ \cup {a} ELSE @]
  /\ Disturb

\* removeAllAppenders: the owned ones are deleted while the lock is held.
RemoveAll(n) ==
  /\ lock[n] = Nobody
  /\ Delete(owned[n])
  /\ attached' = [attached EXCEPT ![n] = {}]
  /\ owned' = [owned EXCEPT ![n] = {}]
  /\ Disturb

---------------------------------------------------------------------------
(* The configurer.                                                          *)

Begin == job.at = "idle" /\ changes < MaxChanges /\ changes' = changes + 1

SetPriority(n, p) ==
  /\ Begin /\ n \in known
  /\ p < NOTSET \/ ParentOf[n] # NoName
  /\ priority' = [priority EXCEPT ![n] = p]
  /\ UNCHANGED <<known, additive, attached, owned, lock, mapLock, objects, call, logs, job>>

SetAdditivity(n, b) ==
  /\ Begin /\ n \in known
  /\ additive' = [additive EXCEPT ![n] = b]
  /\ Disturb
  /\ UNCHANGED <<known, priority, attached, owned, lock, mapLock, objects, logs, job>>

\* SimpleConfigurator: a new appender, then its layout and addAppender(pointer).
NewAppender(n, a) ==
  /\ Begin /\ n \in known
  /\ Construct(a)
  /\ job' = [at |-> "insert", cat |-> n, obj |-> a]
  /\ UNCHANGED <<hierarchy, lock, mapLock, configured, call, logs>>

AddAppender ==
  /\ job.at = "insert"
  /\ Insert(job.cat, job.obj, TRUE)
  /\ job' = Idle
  /\ UNCHANGED <<known, priority, additive, lock, mapLock, objects, logs, changes>>

\* A layout the configurator does not know: the new appender is left behind.
RefuseLayout ==
  /\ job.at = "insert"
  /\ job' = Idle
  /\ UNCHANGED <<hierarchy, lock, mapLock, objects, call, logs, changes>>

AddReference(n, a) ==
  /\ Begin /\ n \in known
  /\ life[a] = "alive" /\ \A c \in Names : a \notin owned[c]
  /\ Insert(n, a, FALSE)
  /\ UNCHANGED <<known, priority, additive, lock, mapLock, objects, logs, job>>

\* Mutant: the appender is taken away and deleted without the lock.
RemoveAppender_Unlocked(n, a) ==
  /\ Begin /\ a \in attached[n]
  /\ IF a \in owned[n] THEN Delete({a}) ELSE UNCHANGED <<life, registry>>
  /\ attached' = [attached EXCEPT ![n] = @ \ {a}]
  /\ owned' = [owned EXCEPT ![n] = @ \ {a}]
  /\ Disturb
  /\ UNCHANGED <<known, priority, additive, lock, mapLock, configured, logs, job>>

\* removeAppender: an owned appender is deleted under the lock.
RemoveAppender(n, a) ==
  /\ Begin /\ a \in attached[n]
  /\ lock[n] = Nobody
  /\ IF a \in owned[n] THEN Delete({a}) ELSE UNCHANGED <<life, registry>>
  /\ attached' = [attached EXCEPT ![n] = @ \ {a}]
  /\ owned' = [owned EXCEPT ![n] = @ \ {a}]
  /\ Disturb
  /\ UNCHANGED <<known, priority, additive, lock, mapLock, configured, logs, job>>

RemoveAllAppenders(n) ==
  /\ Begin /\ n \in known
  /\ RemoveAll(n)
  /\ UNCHANGED <<known, priority, additive, lock, mapLock, configured, logs, job>>

\* The owner of an appender that was given by reference deletes it.
DeleteReferenced(a) ==
  /\ Begin
  /\ life[a] = "alive" /\ a \notin Range(configured)
  /\ \A n \in Names : a \notin attached[n]
  /\ Delete({a})
  /\ UNCHANGED <<hierarchy, lock, mapLock, configured, call, logs, job>>

---------------------------------------------------------------------------
(* PropertyConfigurator::configure.  A file is a record: "appenders" is a   *)
(* sequence of names and faults, "categories" a sequence that begins with   *)
(* the root.                                                                *)

Configure(f) ==
  /\ Begin
  /\ \A i \in DOMAIN f.appenders : \E a \in Appenders :
       NameOf[a] = f.appenders[i].name /\ life[a] = "unborn"
  /\ job' = [at |-> "appenders", todo |-> f.appenders, cats |-> f.categories]
  /\ UNCHANGED <<hierarchy, lock, mapLock, objects, call, logs>>

\* instantiateAllAppenders, one turn.  An unknown type fails before there is
\* an object; an unknown layout leaves the object behind; one with an unknown
\* threshold is deleted.
InstantiateAppender ==
  /\ job.at = "appenders" /\ job.todo # <<>>
  /\ LET d == Head(job.todo)
     IN  \/ d.fault = "type" /\ UNCHANGED objects
         \/ \E a \in Appenders :
              /\ NameOf[a] = d.name
              /\ d.fault \in {"none", "layout"} /\ Construct(a)
              /\ configured' = IF d.fault = "none" THEN [configured EXCEPT ![d.name] = a] ELSE configured
         \/ \E a \in Appenders :
              /\ NameOf[a] = d.name
              /\ d.fault = "threshold" /\ life[a] = "unborn"
              /\ life' = [life EXCEPT ![a] = "deleted"]
              /\ registry' = [registry EXCEPT ![d.name] = NoAppender]
              /\ UNCHANGED configured
  /\ job' = IF Head(job.todo).fault = "none" THEN [job EXCEPT !.todo = Tail(@)] ELSE Idle
  /\ UNCHANGED <<hierarchy, lock, mapLock, call, logs, changes>>

\* configureCategory begins with getInstance.
ConfigureCategory ==
  /\ job.at = "appenders" /\ job.todo = <<>> /\ job.cats # <<>>
  /\ GetInstance(Head(job.cats).name)
  /\ job' = [job EXCEPT !.at = "priority"]
  /\ UNCHANGED <<priority, additive, attached, owned, lock, mapLock, objects, call, logs, changes>>

ConfigurePriority ==
  /\ job.at = "priority"
  /\ LET c == Head(job.cats)
     IN  IF c.priority = NOTSET /\ c.name = Root
         THEN job' = Idle /\ UNCHANGED priority
         ELSE /\ priority' = [priority EXCEPT ![c.name] = c.priority]
              /\ job' = [job EXCEPT !.at = "additivity"]
  /\ UNCHANGED <<known, additive, attached, owned, lock, mapLock, objects, call, logs, changes>>

ConfigureAdditivity ==
  /\ job.at = "additivity"
  /\ additive' = [additive EXCEPT ![Head(job.cats).name] = Head(job.cats).additive]
  /\ job' = [job EXCEPT !.at = "clear"]
  /\ Disturb
  /\ UNCHANGED <<known, priority, attached, owned, lock, mapLock, objects, logs, changes>>

ConfigureClear ==
  /\ job.at = "clear"
  /\ RemoveAll(Head(job.cats).name)
  /\ job' = [at |-> "attach", todo |-> Head(job.cats).refs, cats |-> job.cats]
  /\ UNCHANGED <<known, priority, additive, lock, mapLock, configured, logs, changes>>

\* The appenders are attached by reference; a name that was never configured
\* ends the configuration where it is.
ConfigureAttach ==
  /\ job.at = "attach" /\ job.todo # <<>>
  /\ LET a == configured[Head(job.todo)]
     IN  IF a = NoAppender
         THEN job' = Idle /\ UNCHANGED <<attached, owned, call>>
         ELSE /\ Insert(Head(job.cats).name, a, FALSE)
              /\ job' = [job EXCEPT !.todo = Tail(@)]
  /\ UNCHANGED <<known, priority, additive, lock, mapLock, objects, logs, changes>>

NextCategory ==
  /\ job.at = "attach" /\ job.todo = <<>>
  /\ job' = [at |-> "appenders", todo |-> <<>>, cats |-> Tail(job.cats)]
  /\ UNCHANGED <<hierarchy, lock, mapLock, objects, call, logs, changes>>

Configured ==
  /\ job.at = "appenders" /\ job.todo = <<>> /\ job.cats = <<>>
  /\ job' = Idle
  /\ UNCHANGED <<hierarchy, lock, mapLock, objects, call, logs, changes>>

---------------------------------------------------------------------------
(* shutdown and shutdownForced.                                             *)

Shutdown(forced) ==
  /\ Begin
  /\ mapLock = Nobody /\ mapLock' = Configurer
  /\ job' = [at |-> "shutdown", todo |-> known, forced |-> forced]
  /\ UNCHANGED <<hierarchy, lock, objects, call, logs>>

ShutdownCategory ==
  /\ job.at = "shutdown"
  /\ \E n \in job.todo :
       /\ RemoveAll(n)
       /\ job' = [job EXCEPT !.todo = @ \ {n}]
  /\ UNCHANGED <<known, priority, additive, lock, mapLock, configured, logs, changes>>

ShutdownEnd ==
  /\ job.at = "shutdown" /\ job.todo = {}
  /\ mapLock' = Nobody
  /\ job' = IF job.forced THEN [at |-> "release"] ELSE Idle
  /\ UNCHANGED <<hierarchy, lock, objects, call, logs, changes>>

\* _deleteAllAppenders: what is registered, in one sweep; then the program
\* configures no more.
DeleteAllAppenders ==
  /\ job.at = "release"
  /\ Delete(Range(registry) \ {NoAppender})
  /\ job' = [at |-> "off"]
  /\ UNCHANGED <<hierarchy, lock, mapLock, configured, call, logs, changes>>

---------------------------------------------------------------------------
LogStep(t) ==
  \/ EnterCategory(t) \/ AppendBegin(t) \/ AppendEnd(t) \/ GoUp(t) \/ Leave(t)

LoggerNext(t) ==
  \/ \E n \in Names : NewCategory(t, n)
  \/ \E n \in Names, p \in EventLevels :
       Log(t, n, p) \/ \E own \in Levels \cup {NOTSET} : LogFixed(t, own, n, p)
  \/ LogStep(t)

JobStep ==
  \/ AddAppender \/ RefuseLayout
  \/ InstantiateAppender \/ ConfigureCategory \/ ConfigurePriority
  \/ ConfigureAdditivity \/ ConfigureClear \/ ConfigureAttach
  \/ NextCategory \/ Configured
  \/ ShutdownCategory \/ ShutdownEnd \/ DeleteAllAppenders

ConfigurerNext ==
  \/ \E n \in Names :
       \/ \E p \in Levels \cup {NOTSET} : SetPriority(n, p)
       \/ \E b \in BOOLEAN : SetAdditivity(n, b)
       \/ \E a \in Appenders : NewAppender(n, a) \/ AddReference(n, a) \/ RemoveAppender(n, a)
       \/ RemoveAllAppenders(n)
  \/ \E a \in Appenders : DeleteReferenced(a)
  \/ \E f \in Files : Configure(f)
  \/ \E forced \in BOOLEAN : Shutdown(forced)
  \/ JobStep

CategoryNext == ConfigurerNext \/ \E t \in Loggers : LoggerNext(t)

\* A thread inside a call goes on; nobody has to call anything.
CategoryFairness == WF_categoryVars(JobStep) /\ \A t \in Loggers : WF_categoryVars(LogStep(t))

CategorySpec == CategoryInit /\ [][CategoryNext]_categoryVars /\ CategoryFairness

---------------------------------------------------------------------------
\* Every pointer that somebody will follow leads to an object that lives: an
\* appender attached to a category, the one a thread is inside of
\* (callAppenders, Category.cpp:227), and those reopenAll and closeAll will
\* find under a name (Appender.cpp:70-87).  No object is deleted twice.
OnlyLiveAppenders ==
  /\ \A n \in Names : \A a \in attached[n] : life[a] = "alive"
  /\ \A t \in Loggers : call[t].at = "append" => life[call[t].using] = "alive"
  /\ \A x \in AppenderNames : registry[x] # NoAppender => life[registry[x]] = "alive"
  /\ \A a \in Appenders : life[a] # "twice"

\* A call of log that no change of the hierarchy overlaps is heard by each
\* appender once for every category on the way up that has it, as long as the
\* categories are additive, and by no other (Category.cpp:224-237).
HeardAsAttached ==
  \A t \in Loggers :
    call[t].at = "leave" /\ ~call[t].disturbed => call[t].heard = call[t].due

\* A thread that logs gets back to work, whoever else logs, configures or
\* shuts down: the locks it holds and wants are ordered.
LogReturns == \A t \in Loggers : call[t].at # "idle" ~> call[t].at = "idle"
=============================================================================
