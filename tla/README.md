# threadit-cpp in TLA+

`threadit` is a small C++ library of active objects for Windows: a class that
derives from `CThreadIt` has a thread and a queue, its clients hand it work
packs, and it answers through queues and callbacks. The code of the library is
in `src/threadit/src`, its tests in `src/threadittest`. The repository builds it
with two libraries it carries in source: log4cpp (`src/log4cpp`), through which
the library and its tests log, and UnitTest++ (`src/unittest-cpp-master`), which
the tests are written with. This directory holds TLA+ models of that code, TLC
configurations that check them, and proofs that `tlapm` checks. All line numbers
below are those of the repository.

To check a run: `tlc -config <run>.cfg <module>`; to check the proofs:
`tlapm <module>.tla`. `PROJECT.json` lists the runs, the source lines of every
definition, a mutant for each property (a plausible bug that the property
catches) and the hazards the properties are aimed at.

## 1. The system

| Component | State | Operations | Used by |
|---|---|---|---|
| `CProtectedQueue` (ProtectedQueue.h) | a list of pointers under a critical section, a counting semaphore | insertItem, waitItem, getItem, getItemNoDec, getQSemaphore, clear, size, isEmpty | `CThreadIt`, clients' result queues |
| `CMtQueue` (mtqueue.h) | a list of values under a critical section, a manual-reset event | the same | `CTestResultQ`, shared pointer result queues |
| `CActive` (active.cpp) | thread handle, "started" flag; static: two counters, a set of handles | constructors, startThread, waitForThreadToStop, threadStub, KillAllThreads, waitForZeroThreads | base class of `CThreadIt` |
| `CThreadIt` (threadit.cpp) | m_WorkQ, m_DoneQ, pack counter, exit and rebuild flags, tables of methods and events, period, callback | startWork, getWork, setEventMethod, setPeriod, stopThread, destructor; on its thread: threadRoutine, sendResponse | everybody |
| `CTimeIt` (TimeIt.cpp) | start tick, time allowed, "timing" flag | startTiming, stopTiming, timeElapsed, isExpired, getRemaining, reset | `CThreadIt::m_Period` |
| `CSubject`, `CObserver` (Subject.cpp, Observer.cpp) | a list of observers under a critical section | attach, detach, removeObservers, notifyOnChange, notifyOnUpdate | `CThreadItCallback` |
| `CThreadItMessage` (threaditmessage.h) | instruction, source, one work pack | setSourceInfo, sendTo, sendWithNoReplyTo | interfaces, observers |
| `CISafeThreadItInterface`, `CIThreadItInterface` | weak (or plain) pointers to worker and sender | sendMessage, getSafeWorker, setters | derived interface classes |
| `CThreadItNotifier`, `CThreadItObserver` | a list of observers, each with weak pointers to a target and a source | attach, detach, cleanExpiredObservers, notify | derived instances |
| `CTestResultQ` (testresultq.h) | a `CMtQueue` of results | publish, getResult, getSuccessResult | tests |
| the tests (TestThreadIt.cpp) | counters and results of the observers, the packs of `CTestIt` | a test sends packs or registers events, waits, checks | |
| log4cpp's hierarchy (Category.cpp, HierarchyMaintainer.cpp, Appender.cpp, the configurators) | a map of categories, each with a priority, a flag and a locked set of appenders; two maps of appenders by name | getInstance, log, addAppender, removeAppender, configure, shutdown | everybody who logs |
| log4cpp's files (FileAppender, RollingFileAppender, DailyRollingFileAppender) | an open file, its backups | open, append, rollOver | the hierarchy |
| log4cpp's mail (SmtpAppender, BufferingAppender) | a queue of events; a list of mails, a condition, a thread | append, dump, send, shutdown | the hierarchy |
| log4cpp's lines (PatternLayout, NDC, CategoryStream, Priority) | the parsed pattern; a stack per thread | setConversionPattern, format, push, pop, inherit | appenders |
| log4cpp's packets (RemoteSyslogAppender) | a socket | open, close, reopen, append | the hierarchy |
| log4cpp's property files (Properties, StringUtil) | a map | load | PropertyConfigurator |
| UnitTest++ (TestRunner, ExecuteTest, CheckMacros, TestResults, ReportAssert ...) | a list of tests, results, a chain of reporters, the flag of CHECK_ASSERT | add, run, check, require, report | the tests |
| helpers | none | strings, console, file names | |

How they interact: a client (or an interface, or an observer) calls `startWork`
of an instance, on the client's thread; the pack passes through m_WorkQ to the
instance's thread, which runs a worker method and then `sendResponse`; the pack
goes on into m_DoneQ or a queue of the client, and a callback goes through
`CSubject` to observers that the clients have attached, on the instance's
thread. A method may send messages to other instances, with its own instance as
the source; the receiver replies to the source. The owner stops the thread and
waits for it in the destructor of the derived class (`CTestIt`, `ComponentBImpl`);
`~CThreadIt` itself waits for nothing, whatever its comment says (section 5).
All threads log through categories, whose appenders the main thread configures
from a property file or by calls; a test is a function that a static object puts
into UnitTest++'s list and `main` runs.

What is hard here:

- Two of the queues' operations are not one step: the signal is given after
  the list has been changed (ProtectedQueue.h:168, mtqueue.h:173), `clear`
  drains the semaphore after it has emptied the list (ProtectedQueue.h:270),
  and `CThreadIt` waits on the semaphore itself and then takes the item.
- A pack has one owner at a time, by convention only; `sendResponse` goes on
  after it has given the pack away.
- Flags are shared without a lock: m_isExitThread, m_ResetEventInfo, and with the
  latter the slots of m_EventMethod, which tests fill from outside the thread.
- The thread waits on a queue, events and a time out at once, and must be fair
  to all of them.
- Observers run on the notifying thread inside a critical section.
- An instance must outlive its thread, whoever destroys it.
- The tick counter goes round every 49.7 days, on unsigned words.
- A thread that logs calls appenders through pointers, under the locks of a path
  of categories, while another thread detaches and deletes appenders.
- A roll over is a chain of renames and deletions that a crash may cut anywhere.
- The mail thread gives its lock up while it sends, and shuts down on a flag.
- Packets, property lines and columns are cut at fixed sizes, in place.
- UnitTest++ directs control by exceptions and keeps flags beyond a test.
- Tests wait for other threads by polling and sleeping.

## 2. The modules

| Module | Models | Abstract specification |
|---|---|---|
| `Fifo` | what a queue promises | |
| `ActiveObject` | what an active object promises | |
| `ProtectedQueue` | `CProtectedQueue` and the use CThreadIt makes of its semaphore | `Fifo` |
| `MtQueue` | `CMtQueue` | `Fifo` |
| `MCQueues` | one of the two queues, chosen in each behaviour | `Fifo`, by one refinement mapping |
| `ThreadIt`, `MCThreadIt` | `CThreadIt` | `ActiveObject` |
| `PeriodTimer` (extends `TimeIt`) | the period of threadRoutine, on `CTimeIt` | |
| `Active`, `MCActive` | `CActive` | |
| `Subject`, `MCSubject` | `CSubject` as CThreadIt uses it | |
| `SafeInterface`, `MCSafeInterface` | messages, interfaces, observers, notifiers, and shared pointers to instances | each instance is used as an `ActiveObject` |
| `TestResultQ` | `CTestResultQ` as its tests poll it | |
| `TestThreadIt`, `MCTestThreadIt` | the program of TestThreadIt.cpp: `CTestIt`, its packs, events, callbacks and checks | |
| `Category` | the hierarchy of log4cpp, its appenders and configurators | |
| `LogFile`, `RollingFile`, `DailyFile` | a log file and its two ways to roll over | |
| `MailSender` | BufferingAppender and SmtpAppender | |
| `PatternLayout` | PatternLayout, NDC, the column formats of CategoryStream | a line put together from the pattern as configured |
| `Syslog` | RemoteSyslogAppender | the message cut into packets |
| `PropertyFile` | Properties::load | the entries a file means |
| `TestRunner` | UnitTest++ | |
| `MCSupport` | one of the eleven parts above, chosen in each behaviour | |
| `ProofLemmas` | facts on sequences, on sets of numbers and on recursive functions that the proofs cite | |
| `ProtectedQueueProofs`, `ThreadItProofs`, `SubjectProofs`, `SafeInterfaceProofs` | the proofs about the module of that name | |
| `ActiveProofs` | the proofs about Active and about TestThreadIt | |
| `CommonProofs` | the proofs about what others use: MtQueue, Category, PatternLayout and PropertyFile | |
| `SupportProofs` | the proofs about TestRunner, PeriodTimer, RollingFile, DailyFile, MailSender and Syslog | |

A definition whose name ends in `_Something` and whose comment begins with
"Mutant" is a bug that the code does not have; `Next` uses none of them.

### Steps

In every module a step is what one thread does between two accesses to data
that another thread may change: one critical section, one call of a semaphore
or event, one read or write of an unprotected flag. A program counter per
thread (`pc`, `at`, `life`) says where it is. Sequential consistency is assumed.

**ProtectedQueue, MtQueue.** `InsertPush` is the critical section of
insertItem, `InsertRelease` (`InsertSet`) the call after it. `WaitCall`,
`WaitSignalled`, `WaitTimeout` and `WaitPop` are waitItem; getItem is a waitItem
with time out 0. `TakeToken`, `GetItemNoDec` and `StrayRelease` are what
threadRoutine and stopThread do with getQSemaphore. `ClearItems`, `ClearDrain`
and `ClearDone` are clear. `held[t]` are the items a thread owns: the code has
no such variable, but its comments pass ownership of pointers, and the
properties are about it. `MCQueues` puts the two side by side: they have their
lists, threads and items in common, and the signal of the one that was not chosen
stays up.

**ThreadIt.** The queues are the lists and counts of ProtectedQueue with one
consumer each. A client goes through `StartWork` (numbering, under the mutex),
`StartWorkInsert`, `StartWorkRelease`; `GetWork...`; `SetEventMethod` (the
handler), `SetEventHandle`, `SetEventCount` and `SetEventMethodFlag`, which are the
unprotected writes of setEventMethod one by one; `DeletePack`, when it is done with
a result; the owner through `StopThread` (the flag),
`StopThreadRelease`, `WaitForThreadToStop`, `Destroy`. The thread goes once
round the loop of threadRoutine through `RebuildEvents`, a `ScanSlot` for each
slot and `RebuildDone` (or `NoRebuild`), `CheckExit`
(the first test of m_isExitThread), a wait, the tests on its result, a worker or
event method, the four steps of sendResponse (`RespondCopy`: copy what is
needed later, `RespondDeliver`: insert into a queue or delete, `RespondSignal`:
the semaphore, `RespondNotify`: the callback), and the test of the period. The
order of the tests of m_isExitThread and the point at which m_ResetEventInfo is
cleared are the code's. `Kind[p]` are the settings of a pack; a method may
answer with its pack, with a new one (`Fresh`) or with none. sendResponse reads a
pack through `Contents`: of one that was deleted it reads `Garbage`, so that a read
that comes too late shows in what the observers are told (`ToldAsAnswered`).
Clients call setEventMethod one after the other, which is laxer than the code's own
rule that only the thread calls it (threadit.cpp:695); two at once would race for
the same slot.

**PeriodTimer.** Time is a counter of words 0..UINT_MAX that starts anywhere
and goes round; `since` is the real time since startTiming. The thread's reads
and the three unprotected writes of a client's setPeriod interleave. Elapsed and
m_TimeOut are words.

**Active.** `life[o]` is where the owner of object o is in constructor, join or
destructor, `thread[o]` where its thread is in threadStub. Handles are reused by
the system once closed. The increment of m_theThreadCount is a read and a
write; the running count is changed under the critical section.

**Subject.** A critical section that its holder may enter again; the loop of
notifyOnChange calls one observer per step, and an observer may throw
(`NotifyThrow`: sendResponse catches it).

**SafeInterface.** `owned` are the instances whose owner still has its
shared_ptr, `pointer[t]` the shared_ptr a thread holds while it sends; an
instance is `Alive` while there is one of the two. `Lock`, `Send` and `Release`
are getSafeWorker/lock, sendTo/startWork and the end of the scope. Whoever takes
the last one away (`Drop`, `Release`) runs the destructor: stopThread and then
`Join`. An instance is only a queue and a thread here; `UsesActiveObjects` says
that it is used within the bounds of `ActiveObject`, which ThreadIt implements.
The worker methods are those of the test components (ComponentBImpl::funtionD
replies to the source of its pack) and a method that notifies (`Answer`). funtionD
makes a shared_ptr of the weak source, which throws bad_weak_ptr when the source
has expired or was never set: `Lock` of a reply then goes to "thrown", and
`StubCatches` ends the thread (active.cpp:428). A notification is answered only if
it has a source, as threadit.h:200 asks of a receiver. A request is made by one of
two calls: `sendTo` keeps the source of the message (`Delivered`), `sendMessage` loses
the one it has put into the pack, because sendWithNoReplyTo writes the message's own
over it.

**TestResultQ, TestThreadIt.** The result queue is polled: getResult takes what
is there, sleeps, and gives up after MaxWait intervals. TestThreadIt is a
CThreadIt whose client is a test function: a `plan` says what the test sends and
registers, the instance's thread answers through the done queue and the
callback, and the test waits before it checks. Events are registered from outside,
as the tests do: `RegisterEvent` fills a slot, `AskForScan` sets m_ResetEventInfo,
while the thread begins a turn (`BeginTurn`), looks at one slot after the other
(`ScanSlot`) and clears the flag (`EndScan`) in any interleaving; `listed` are the
events it then waits for. Its copies of a pack are those of
CWorkPackIt's constructors, and `checkParams` is the code's.

**Category.** A step is one critical section of a category or of the maintainer,
one call of an appender, or one write of a member nobody locks. `call[t]` is the
call of log a thread is in, with the locks it holds on the way up; `job` is what
the configuring thread is in the middle of: an appender that is being built, a
property file with the appenders and categories still to come, a shutdown.
`owned` are the appenders with _ownsAppender, `registry` and `configured` the
maps of Appender.cpp and PropertyConfiguratorImpl.cpp, which keep plain
pointers. `life` says what has become of an object.

**LogFile, RollingFile, DailyFile.** A step is one call of the system (rename,
remove, open, write); a crash may come between any two, and the process starts
again with what is on the disk. Files are sequences of numbered events. In
DailyFile `clock` is finer than a day: the age of a file is compared with `KeptFor`
in units of the clock, as the code does it in seconds, while names and roll overs
go by the date of a time (`DateOf`, any calendar whose dates do not go back and in
which times more than `DayLength` apart have different dates; the day on which the
clock is put back, which has 25 hours, is left out). The
daily appender's clean-up may delete the file that was just opened, if it was
last written too long ago; what is appended then goes to a file without a name
(`fd = NoFile`) until the next roll over, and the log begins again after it.

**MailSender.** A step is one critical section of the list of mails or one wait;
a mail is the buffer that was dumped. The thread sends without the lock.

**PatternLayout, Syslog, PropertyFile.** Each models a conversion twice: as the
code makes it, piece by piece with its state (the position in the pattern, the
buffer that is moved, the line that is read in parts), and as a definition of
what is meant, which the property compares it with. Characters are strings of
length one, out of a set (`Symbols`, `Letters`); "${" is one of them, and those
that mean something have names (`NEWLINE`, `OPEN_TAG`, ...). A format is a
sequence of elements. A property file is a sequence of lines as its writer means
them (`Definition`): a definition, whose value is made of texts, variables,
escapes and possibly an opening that nothing closes, with blanks around the "="
and a comment behind; a comment with a definition in it; or a line without "=".
The conditions of `Definition` say which texts make a line what it is meant to be
(no "#" in a value, no close tag in the name of a variable ...); other lines are
written as another kind.

**TestRunner.** A step is a macro of a test's body or one level of the calls
around the body. An exception is `thrown` and a stage: it unwinds through the
REQUIREs of the body, its time constraint, ExecuteTest and RunTest.

**MCSupport.** These parts share nothing, so they are checked one at a time in
one run: `part` is chosen at the start, the variables of the others keep their
initial values.

## 3. The runs

Each passing run finishes in less than three minutes with two workers.

| Run | Properties | States | What it shows |
|---|---|---|---|
| `Queues_fifo` | NoLostSignal EventCovers ImplementsFifo WaitersServed | 130,351 | no item or wake-up is lost or duplicated: by the semaphore queue as long as inserts do not overlap a clear, by the event queue always |
| `ProtectedQueue_clear_race` | WaitersServed violated | | they are lost if they do |
| `ThreadIt_owner` | OneOwner ResultReady ToldAsAnswered ImplementsActiveObject | 1,232,514 | two clients: packs have one owner, results are there when the callback runs, which says what the pack said although it may be deleted by then; the whole is an active object |
| `ThreadIt_progress` | RegisteredIsHeard RightMethod StopEndsThread WorkTaken PeriodKept EventHeard | 355,928 | events, period, packs sent again: everything gets its turn |
| `Active_objects` | KillReachesAll ZeroMeansNoneRuns | 211,658 | the static data stay right with reused handles and kills |
| `Subject_notify` | DeletedIsQuiet ToldOnce | 402,174 | an observer may be deleted after detach; each is told once |
| `Subject_throw` | SectionFree violated | | an exception leaves the section entered |
| `Support_parts` | see below | 383,873 | the parts of MCSupport |
| `SafeInterface_messages` | UsesActiveObjects DestructorReturns RequestAnswered | 11,373 | instances let go at any time while messages, replies and notifications are under way, a request without a source among them |
| `SafeInterface_mutual` | OutlivesThread violated | | two destructors wait for each other |
| `SafeInterface_clean` | CleanEnds violated | | cleanExpiredObservers does not return |
| `TestThreadIt_register` | EventsAnswered violated | | an event registered during the scan of the slots is forgotten |

The type invariants of the modules (TypeOK, PeriodTypeOK ...) and what follows
from other properties (ExactlyOnce) are not checked by a run of their own: the
refinements and the proofs need them, so that section 4 has them for every value
of the constants.

`Support_parts` asks of each part what could really be wrong with it:

| Part | Properties | States | What it shows |
|---|---|---|---|
| category | OnlyLiveAppenders HeardAsAttached LogReturns | 150,000 | pointers to appenders are good whatever is removed, deleted or configured meanwhile; an undisturbed event is heard by each appender as often as it is attached on the way up; the locks of a path and the maintainer's cannot make threads wait for each other |
| rolling file | BackupsInOrder | 1,800 | the backups and the file are the end of the log in order, whatever the point of a roll over at which the process ended |
| daily file | DaysKept | 29,400 | no event is lost or moved before its time, and none is deleted within the days it is kept, wherever midnight, the hour of the day and crashes fall |
| mail | LossyMailedOnce MailShutdownReturns MailsGoOut | 94,500 | a lossy buffer, that has to drop events too, mails an event once at most and in order, mails go out, and the shutdown of the sender returns |
| layout | LinesAsConfigured | 8,800 | a line is what the pattern and the nested context say, with widths and precision |
| syslog | MessageInPackets | 3,700 | the packets hold the message and nothing else, each within its size |
| properties | LoadedAsMeant | 3,000 | lines longer than the buffer, comments and variables are read as meant |
| test runner | CountsAgree | 44,000 | the totals of the summary are those of the list of reports |
| result queue | SuccessReceived | 5,100 | getSuccessResult returns with the success that is in the queue, whatever other results and time outs come before it |
| test | ChecksHold OwnItem | 637 | the tests' checks on packs and periods hold after their waits, and those on events for the events the thread listens to; a callback's item is that of the pack, in the orders the tests send packs in |
| period | NotBeforePeriod | 43,000 | no period is cut short, wherever the counter goes round, whatever is set meanwhile |

### Bounds, and why they are enough

- Queues: three threads and three items. A lost wake-up needs a producer, a
  consumer and a third thread that interferes; three items make a queue of
  length two behind the one that is passed on. MaxCount is the number of items,
  so the semaphore reaches its maximum (and `StrayRelease` is then lost) in the
  run; the code's is LONG_MAX.
- ThreadIt_owner: two clients, two packs and one a method makes, one event;
  MaxID = 1 lets the pack counter go round. ThreadIt_progress: one client, packs
  that are sent again for ever, two events (the second is the one that can
  starve), a period; MaxID = 0 because numbers do not matter there.
- Active: three objects of two owners and as many handles as objects, so that a
  closed handle is reused. Symmetry is used for handles and for two objects of
  one owner; no property of that run is a liveness property. The action property
  names no element of a symmetric set.
- Subject: two notifying threads, two clients, three observers; MaxDepth = 2
  bounds how often a section is entered by a thread that does not leave it.
- PeriodTimer: UINT_MAX = 5, so that the counter goes round within a few steps
  of any start, with a period and none, changed by the thread and by a client.
  The theorems of SupportProofs on the timer hold for every width.
- Category: two categories, two appenders of one name (a second object replaces
  the first in the registry), two threads that log once each, two operations of
  the configurer, each with all its steps. Two operations are enough for one to
  build on the other (configure and remove, add and shut down); every interleaving of a
  log with an operation is there. A run by hand with three names, three appenders
  and two threads (5.96 million states) found nothing else, and CommonProofs has
  OnlyLiveAppenders and HeardAsAttached for every size.
- Files: eight events of one or two units, files of two units, three backups and
  two crashes: the chain of renames is longer than two steps and is cut and taken
  up again twice. Daily files over five units of the clock, two to a day, kept for
  one day: a file may be younger than its days to keep at one roll over and older at
  the next, on the same date or not.
- MailSender: two buffers of two events each, and three events that are logged: a
  buffer is full when the third one comes, and a lossy one drops its oldest.
- PatternLayout: three patterns that between them have both kinds of width,
  precisions, truncation and every conversion that is modelled; two writers, five
  steps of pushes, pops and lines.
- Syslog: packets of six units, messages shorter than, as long as and longer than
  one packet, and the empty one.
- PropertyFile: all files of up to three lines out of five kinds, with and
  without a last newline, read through a buffer of six characters.
- TestRunner: two tests, one with a fixture, in two suites, two macros a body.
- TestResultQ, TestThreadIt: two results and three publications; seven plans,
  six of them those of tests of TestThreadIt.cpp, and one of five packs that mixes
  what packs can ask for. Two slots for events and up to three registrations.
- SafeInterface: three instances in a chain a, b, c, and a bound on the requests,
  by either call.
  In `SafeInterface_messages` c is kept and replies to nobody, so no two
  instances can wait for each other: this is what the two violation runs vary.

`CHECK_DEADLOCK FALSE` is in the runs where the system may stop: all
consumers wait with INFINITE for an item that nobody will insert, all threads
wait for a section that an exception left entered, or the requests are used up.

### Fairness

Weak fairness is asked of a thread inside a call (`Progress`, `ClientProgress`,
`ThreadProgress`): the scheduler runs a ready thread, and a satisfied wait
returns. It is never asked of a client's decision to call, of a time out, an event
or a period to come; a wait of the thread ends by itself only once the period has
elapsed (`due /\ WaitOther`). `SafeInterface` also asks strong fairness of
`Return`: a method that may go on calling its notifier returns in the end.
`MCSupport` asks weak fairness, in the part that was chosen, of a configuration
that has been begun (`JobStep`), of a thread inside a call of log (`LogStep`), of
the mail thread (`SenderStep`, `SenderJoin`) and of a poll of the result queue
(`ResultCall`): all of them are threads that run or wait for a lock others give
back. Nothing is asked of a call of log, a configuration or a publication to
begin.
Nothing is assumed about the order in which waiting threads are released, so
`WaitersServed` says that an item at the head is taken, not that each waiter is
served.

## 4. The proofs

For every value of the constants that meets the modules' assumptions:

| Theorem | Statement | Assumes |
|---|---|---|
| `ProtectedQueueProofs!TypeCorrect`, `ItemsExactlyOnce` | `Spec => []TypeOK`, `[]ExactlyOnce` | |
| `ProtectedQueueProofs!SignalNeverLost` | `Spec => []NoLostSignal` | ClearExclusive |
| `ProtectedQueueProofs!SatisfiedWaitsFindItems` | `Spec => []NoSpuriousWakeup` | nobody clears or touches the semaphore from outside |
| `ProtectedQueueProofs!QueueRefinesFifo` | `Spec => ImplementsFifo` | |
| `CommonProofs!TypeCorrect`, `ItemsExactlyOnce`, `NoWakeupLost`, `QueueRefinesFifo` | as above, `[]EventCovers` | |
| `ThreadItProofs!TypeCorrect` | `Spec => []TypeOK` | |
| `ThreadItProofs!EventsFindTheirMethod` | `Spec => []RightMethod` | only the thread registers events |
| `ThreadItProofs!EventsAreHeard` | `Spec => []RegisteredIsHeard` | only the thread registers events |
| `ThreadItProofs!RefinesActiveObject` | `Spec => ImplementsActiveObject` | the join does not time out |
| `ThreadItProofs!PacksHaveOneOwner`, `ObserversAreTold` | `Spec => []OneOwner`, `ToldAsAnswered` | |
| `ThreadItProofs!ResultsAreReady` | `Spec => []ResultReady` | the join does not time out |
| `SafeInterfaceProofs!ThreadsEndFirst`, `InstancesAreActiveObjects` | `Spec => []OutlivesThread`, `UsesActiveObjects` | NoCycle: no two instances can wait for each other |
| `SubjectProofs!TypeCorrect`, `DeletedQuiet`, `NotifiedOnce` | `Spec => []TypeOK`, `[]DeletedIsQuiet`, `[]ToldOnce` | |
| `SupportProofs!PeriodTypeCorrect`, `Expires`, `Remains`, `NeverEarly` | `PeriodSpec => []PeriodTypeOK`, `[]ExpiresInTime`, `[]RemainingIsLeft`, `NotBeforePeriod` | |
| `ActiveProofs!TypeCorrect`, `ZeroIsNone` | `Spec => []TypeOK`, `ZeroMeansNoneRuns` | |
| `ActiveProofs!KillReaches`, `WaitedIsOver` | `Spec => []KillReachesAll`, `[]JoinedIsOver` | the join does not time out |
| `CommonProofs!CategoryInvariant`, `LiveAppenders` | `CategorySpec => []CategoryInv`, `[]OnlyLiveAppenders` | |
| `CommonProofs!CallsAreHeard` | `CategorySpec => []HeardAsAttached` | |
| `CommonProofs!LinesAlwaysAsConfigured` | `LayoutSpec => []LinesAsConfigured` | PlainTexts: no pattern or name that section 5 lists |
| `CommonProofs!LoadedAlwaysAsMeant` | `PropertySpec => []LoadedAsMeant` | |
| `ActiveProofs!ChecksAlwaysHold`, `OwnItemAlways` | `TestSpec => []ChecksHold`, `[]OwnItem` | |
| `SupportProofs!TotalsAgree` | `RunnerSpec => []CountsAgree` | |
| `SupportProofs!BackupsStayInOrder` | `RollingSpec => []BackupsInOrder` | |
| `SupportProofs!EventsStayTheirDays` | `DailySpec => []DaysKept` | |
| `SupportProofs!MailedOnce` | `MailSpec => []LossyMailedOnce` | |
| `SupportProofs!MessagesComeWhole` | `SyslogSpec => []MessageInPackets` | |
| `SupportProofs!ReporterIsRestored`, `RequireEnds` | `RunnerSpec => [](RunnerTypeOK /\ ReporterRestored)`, `RequireEndsBody` | |
| `SupportProofs!FailedAsserts` | `RunnerSpec => []AssertsCounted` | no CHECK_ASSERT inside REQUIRE |

Assumptions on the constants: in ProtectedQueue finitely many threads and at most MaxCount
items (a semaphore that drops a count at LONG_MAX would lose a signal), the
packs' settings have their types, a day is kept at least, dates follow times as
`DailyAssumption` says, a packet has room for
more than the preamble. `HierarchyAssumption` of Category says that going up from
any category ends at the root: the code finds a parent by cutting the name at its
last dot (HierarchyMaintainer.cpp:69-77), so that a parent's name is shorter.
`PlanAssumption` of TestThreadIt: the packs of a plan name no queue of their own,
as in the tests; plans have any number of packs, events and signals, and any
settings otherwise. `PropertyAssumption`: the buffer has room for a character
besides the final zero, and each line of a file is a `Definition`; the lines, the parts of
a value, the environment and the buffer have any size. `PlainTexts` is what the code needs for its lines to be as
configured: without it, the departures of section 5 are counterexamples.

The arguments:

- *Ownership of items.* `OwnInv` is TypeOK and ExactlyOnce together; the list
  must be injective for a pop to take the item out of it for good. `PushOwn` and
  `PopOwn` are the two lemmas, the other steps leave the three places alone.
- *No lost signal.* NoLostSignal is a sum: list <= count + threads on their way.
  It is not inductive: `ClearDrain` lowers the count. `SignalInv` adds
  `DrainEmpty`: while a drain is running the list is empty, which holds only if
  no insert overlaps a clear. `AtMove` counts how one thread's step changes the
  number of threads at a set of labels. The run `ProtectedQueue_clear_race` shows that the
  assumption is needed.
- *No spurious wake-up.* `PromiseInv` is the opposite inequality,
  count + threads on their way <= list, with nobody at "token" or "drain".
- *The event queue.* EventCovers needs only types: both places that reset the
  event do it inside the critical section in which they found the list empty.
- *Events and their methods.* `EventInv`: the slots up to the count have a handle
  and its handler, the others have no handle; hEventList is a prefix of them, as
  long as the scan has come or complete unless a rebuild is requested; and the
  outcome of a wait is an index into it. It holds only if the thread itself
  registers the events: `TestThreadIt_register` shows what is lost otherwise.
- *What observers are told.* `ToldInv`: from the copy to the call, the callback and
  the flag say what the answered pack says. The copy reads a pack that is still
  the thread's, which is where `OwnInv` (no pack in hand is freed) is needed.
- *End of the thread.* `StopInv` relates the owner's place to the thread's end; the
  refinement needs it.
- *Refinements.* Each critical section of a queue is a step of `Fifo`, the rest
  stutters; a thread counts as waiting from the moment it waits with INFINITE or
  its wait was satisfied. In ThreadIt `TakeWork` is the abstract Take, event and
  periodic methods are ActAlone, `RespondNotify` or its shorter ways are Finish.

- *Observers.* `IInv`: a loop runs inside the critical section, whose holder is
  a notifier, so that the list stays as the loop found it and `told` is a prefix
  of it; a client whose detach has returned passed an observer that is not in the
  list. The list must be injective for detach to take the observer out for good
  (`WithoutItem`). An observer that throws leaves the section entered: no client
  changes the list then, which is why the theorems need no assumption on Throws.
- *The timer.* `IInv` says that a running stop watch started `since` before the
  present tick, modulo the counter's range, and that it runs once the routine is
  past its start; the lemmas on words (`Words`, `WrapOnce`, `ElapsedIsSince`) give
  what timeElapsed computes. `NotBeforePeriod` needs in addition what each of the
  three words that setPeriod writes may be while a read is under way.
- *Threads and handles.* `CountInv` bounds the count from both sides: it is at
  least the number of threads in their routine (`Running`) and at most the number
  of those that entered it, the killed ones included (`Entered`). `HandleInv`: a
  handle is its object's from CreateThread to the end of the wait, names that
  object's thread, and is in the set as long as the thread lives; it is closed only
  by its owner, who waited for the thread before (hence the assumption on the
  time out).
- *Appenders.* `OnlyLiveAppenders` is not inductive. `OwnedAlone`: an appender
  that a category owns is attached to it alone and unknown to the property
  configurator, so that its deletion leaves no other reference. `Calling`: a
  thread in the loop holds the lock, and what it has not called is still
  attached; a removal needs the lock. `Working` says what a configuration that is
  under way refers to, `KnownHaveAll` that shutdown finds every category that has
  appenders, so that the sweep over the registry deletes nothing that is
  attached. The property configurator's own map is never cleared: after the sweep
  its pointers are bad, and the model ends there.
- *The runner.* The reporters that REQUIRE hangs in front of the results are
  counted by `depth`, which is zero outside a body; the last report is that of the
  test that runs. Without CHECK_ASSERT inside REQUIRE the flag is never set
  between two macros.

- *One owner.* The places of a pack are a set the module computes from ten
  variables. `Ledger` is an account of them: a function that gives each pack one
  place, and one client or queue there, and agrees with the state in both
  directions. That the account exists is the invariant, and a function has one
  value. A step of the code moves one pack from one line of the account to
  another; `OwnMove` and the lemmas next to it do the bookkeeping once.
- *Results are ready.* `ReadyInv` counts, per done queue: its length is the count
  of the semaphore, plus the clients that were woken for it, plus one while
  sendResponse is between the list and the semaphore (`Signalling`). At "notify"
  the last summand is zero.
- *Lifetimes.* In SafeInterface an instance is destroyed by whoever lets go of it
  last, so `Joining` (with `Destroying` for each thread) relates three things: a thread in a join waits for an
  instance that nobody has a pointer to any more and that is not yet gone, the
  thread itself has sent to that instance, and no two threads join the same one. `SendsInv`, `QueueInv` and `ListInv` bound to whom each
  instance can have a reference at all (`SendsTo`). `NoCycle` says that among
  any instances that may be let go one sends to none of the others; it is what
  `SafeInterface_messages` satisfies, and `SafeInterface_mutual` shows
  the deadlock and the destroyed running thread without it.
- *Who hears an event.* A call of log that nothing disturbed has, for each
  appender, heard so far what is due less what is still to come (`HeardSoFar`):
  the categories still to be entered on the way up (`UpFrom`, whose lengths add
  up by `ReachedIs` and `ReachedOnce`) and the appender itself while its category's
  loop has not called it.
- *Totals.* `CountsKnown`: the totals are those of the reports that are finished
  and of the test that runs, and the flag of TestResults is TRUE exactly when the
  report of that test has a failure. `FailuresUpTo` is the sum the property takes.
- *Logs on disk.* `CutBy` says that the files, from the oldest to the newest, are
  a slice of the log cut at some numbers: an append moves the last cut, a rename
  moves a cut to the next name, a removal begins the slice later, and a crash
  changes nothing on disk. `RollingInv` adds which backup has been freed at each
  stage of rollOver. For days the cuts are ordered by the files' dates:
  `DailyDates` (the dated files were last written in the order of their names),
  `DailyStages` (what has been opened, and whether it still has a name) and
  `DailyEvents` (an event is in a file that was written when it was logged or
  later, so that the file is not deleted before the event's days are over). Dates
  order the files and times decide what goes; `Calendar` is what relates the two.
- *Mails.* `LossyState`: what a lossy buffer has mailed and what it keeps are
  each sorted and disjoint, and end at the latest event. The mails on their way
  are followed through the list, the thread's hand and the log of what was sent.
- *Packets.* `PacketState`: while a message of length f is sent with l bytes left,
  the buffer is the preamble and the last l bytes, and the payloads sent so far are
  the first f - l.

- *The tests.* `TestInv` follows each pack of a plan by its number through the work
  queue (`InWorkQ`), the thread's hand (`InHand`) and the answers, collected or
  still queued (`Replies`), and counts what the observer was told (`Counted`):
  every pack sent is in one of the three, and a reply comes after those of the
  packs sent before. `ChecksHold` is what this says once the test has collected
  all. `Attended`: an event one of whose signals was answered is listed, or its slot
  is still to come in the scan that is under way; what is not `Outstanding` once the
  test is over are therefore signals of listed events. Taken and asked packs are sets of positions of the plan, whose elements are
  counted with the library's facts on cardinality. `Announced` adds the one
  callback: between its preparation and the call it has the item of the pack in
  hand, and the items told, collected or queued, are those of the packs in order.
- *Lines of the log.* `LayoutInv`: the components are those of the pattern that
  was given last, and each element of a context stack has the texts of all below
  it (`Nested`; `ContextIs` turns the last one into the text of the whole stack).
  `WrittenText` and `ConvertedIs` go over the pattern by `Induction`: what was
  converted up to an element, with the literal not yet pushed, shows the text
  that the elements up to there mean. `ModifiedIs` is cutting and padding,
  `CategoryNameIs` the search for the n-th dot from the right.
- *Property files.* Three recursions meet. `LeftOf` is the file behind its first
  k lines, `Defined` what these define. `ReadInv`: between two turns of the loop k
  lines are handled, and either the stream is LeftOf[k], or a piece of the next
  line is in fullLine and the rest of that line is in front of the stream
  (`Torn`). `GotLine` says what getline does with a line: a full buffer or the whole
  line. `LineHandled` says that the code does with a line what its definition
  says: the comment and the "=" are found where the writer put them (`CommentCut`,
  `CommandCut`), trimming takes off his blanks (`TrimIs`), and the substitution is
  followed through the parts of the value from behind: `Reads(v, t, u)` says that,
  from where t begins, the recursion yields u, whatever is in front of it. The
  last turn, at the end of the file, handles an empty line.

Induction over data. The library's induction theorems take an operator, which no
installed prover can instantiate. ProofLemmas therefore states them on sets:
`Induction` (a set of numbers that has 0 and each successor is Nat), `Recursion`
(a function with f[0] = base and f[n] = Step[n, f[n - 1]] exists and is unique on
its range), and from them `SumsExist`, `FlattenAppend` and what FlattenSeq is.
HierarchyAssumption is of the same form, on the categories.

Only model-checked:

- Liveness (WaitersServed, StopEndsThread, WorkTaken, PeriodKept, EventHeard,
  DestructorReturns, RequestAnswered, LogReturns, MailShutdownReturns, MailsGoOut,
  SuccessReceived): TLAPS has no reasoning under fairness here.
- That waits and polls of the tests end is assumed in TestThreadIt (they are
  longer than what they wait for); SuccessReceived is about polling itself.

Every invariant and every action property of a passing run has its theorem.

## 5. Where code and text disagree

Shown by a run:

- `ProtectedQueue_clear_race`: clear drains the semaphore outside the critical
  section (ProtectedQueue.h:270) and eats the signal that insertItem promises
  (ProtectedQueue.h:71-73).
- `Subject_throw`: an exception of an observer passes the critical section of
  notifyOnChange (Subject.cpp:156) and is caught in sendResponse
  (threadit.cpp:626-637): the section stays entered.
- `SafeInterface_mutual`: the last shared_ptr may be released by the thread that
  sends, whose destructor then waits for a thread that waits for it. The class
  comment (isafethreaditinterface.cpp:36-48) promises consistent lifetimes.
- `SafeInterface_clean`: an expired observer is equal to no observer
  (threaditobserver.cpp:96-110), so cleanExpiredObservers loops for ever
  (threaditnotifier.cpp:141-163).
- `SafeInterface_mutual` again: the comment of ~CThreadIt (threadit.cpp:177-180)
  says that it waits until the thread stops. It does not (182-190), and the wait of
  the derived class's destructor gives up after THREAD_STOP_TIME (active.cpp:251).
- `TestThreadIt_register`: setEventMethod says that only the instance's own thread
  calls it (threadit.cpp:695), tests call it from outside (TestThreadIt.cpp:492,
  543). m_ResetEventInfo is then cleared (threadit.cpp:394) over a slot that the
  scan had passed before it was filled, the event is never waited for, and the
  CHECKs of TestThreadIt.cpp:511 and 575 fail.

Read off the code, without a run of their own:

- m_theCallback keeps the data item of an earlier pack (threadit.cpp:590;
  threadit.h:188-190 says that a pack has to ask for it).
- The callback's work identifier is the instruction (threadit.cpp:453), not the
  number startWork returned (threadit.h:145-153).
- A pack that wants a result and names no queue is neither delivered nor deleted
  (threadit.cpp:612-615, threadit.h:335-337); OneOwner makes an exception of it.
- Elapsed is only set while there is a periodic method (threadit.cpp:531-536); a
  method that changes both period and periodic method makes the subtraction go
  below zero, and the next wait lasts longer than the period.
- timeElapsed is a millisecond short once the counter has gone round
  (TimeIt.cpp:154, threadit.cpp:853).
- m_theThreadCount is changed without a lock (active.cpp:83, 221); nothing reads
  it. m_theRunningThreadCount keeps threads that were killed (active.cpp:96-107).
  waitForZeroThreads may return before a started thread has entered its
  routine (active.cpp:371). A closed handle may stay in m_HandleSet
  (active.cpp:262).
- sendMessage's source is overwritten by the message's own (empty) one
  (isafethreaditinterface.cpp:198, threaditmessage.h:197-198), although its
  comment says that the sender is part of the message (187-188). SafeInterface has
  this (`Delivered`); RequestAnswered therefore speaks of the requests by sendTo.
- ComponentBImpl::funtionD tests for a null pointer (ComponentBImpl.cpp:132), but the
  shared_ptr it makes of an expired source (128) throws before that, and the thread
  ends. RequestAnswered excuses a thread that was sent such a request.
- CThreadItNotifier says that it uses critical sections
  (threaditnotifier.cpp:32-33); it has none.
- The copy constructor of CWorkPackIt leaves out m_wptheSource and the reply
  instruction (threadit.cpp:1122-1139).
- ProtectedQueue.h:114-115 and 247-248 say different things of who deletes the
  items of a clear; it deletes them (265).

In log4cpp:

- The destructor of HierarchyMaintainer calls shutdown again
  (HierarchyMaintainer.cpp), and the shutdown handler of SmtpAppender then uses
  the sender that the first call has deleted, if shutdown was called by hand.
- A failed layout leaves the new appender behind, a failed threshold deletes it
  (PropertyConfiguratorImpl.cpp:298, 313, 343). _allAppenders is static and never
  cleared; `_allAppenders[x] = instantiateAppender(x)` (line 125) may leave a
  null entry when it throws, by the order in which a compiler evaluates it.
- An appender that is attached to two categories is called under two locks at
  once; threadittest_log4cpp.properties attaches FILE so. (Its keys are not
  those that Properties looks for, so that the defaults apply.)
- BufferingAppender that is not lossy dumps its queue when it is full but does
  not clear it, and dumps it again with the next event (BufferingAppender.cpp).
- The condition of SmtpAppender's thread is waited for without a loop: a
  spurious wake-up would take a mail from an empty list.
- The width of a pattern element before `%%` or `%n` carries over to the next
  element, and a failed setConversionPattern leaves half of the new layout with an
  empty _conversionPattern (PatternLayout.cpp). A category whose name begins with
  a dot has a wrong name for its parent.
- Priority 99 is named ALERT; NDC::pop on an empty stack is undefined behaviour
  (NDC.cpp); CategoryStream::width dereferences a null buffer when the stream's
  priority is NOTSET.
- The daily appender deletes what begins with its file's name, and with it the
  files of another log whose name begins so (DailyRollingFileAppender.cpp).
- NTEventLogAppender::close does not forget its handle. snprintf.c is compiled
  nowhere, and the factories are used by no configurator.

In UnitTest++: CHECK_ASSERT that fails inside REQUIRE leaves s_assertExpected
TRUE, which TestAssertHandler.cpp:102-106 says is reset; the next failed assert is
then not a failure (hence the assumption of FailedAsserts). A REQUIRE that fails in
a fixture's constructor is reported twice (TestMacros.h:78-87).

In threadit and its tests, met with TestThreadIt and TestResultQ:

- The copies of a CWorkPackIt leave out m_isUseSharedPtrQ and m_ptheSharedPtrQ
  as well; initialise does not set m_theReplyInstructionId.
- checkParams' default is not to copy, although threadit.h:312-316 says that
  copying is the default. getWorkDoneQ and getWorkQ assign to a parameter that is
  passed by value (threadit.cpp:307-325).
- getResult may return up to 20 ms early and drops the results it was not asked
  for; the loop of getSuccessResult is not bounded by theLoops
  (testresultq.h:91-148).
- The message test's `digest` never deletes its pack.

## 6. Not modelled

- Of ThreadIt: two calls of setEventMethod at the same time, a waitForThreadToStop
  that gives up (StopTimesOut is FALSE in its runs, and the theorems that need it
  say so; SafeInterface has the time out), work that a method sends to its own
  instance, exceptions in
  worker methods (they end the thread: active.cpp:428, and later packs are never
  taken, by design), semaphores registered as events, the execution times of packs
  (threadit.cpp:780-858), changes to the table of worker methods, failures of
  CreateMutex and _beginthreadex.
- Of CActive: priorities, suspendThread, thread names.
- Of CSubject: getNumberOfObservers; observers that attach or detach inside
  their own notification.
- Of CTimeIt: stopTiming and reset, which the library never calls.
- Of the message layer: instructions and payloads, plain pointers
  (CIThreadItInterface leaves lifetimes to its user), a message sent twice (both
  sends share one pack, threaditmessage.h:166), a notifier used by several
  threads (undefined behaviour), and an `operator ==` or `isValid` that lets go
  last.
- Of log4cpp: reopenAll and closeAll (calls of the system under the registry's
  lock), BasicConfigurator, changes of one appender's threshold and layout while
  it is used, the SMTP dialogue, %d, %r, %R, %t and %u of PatternLayout and the
  fixed layouts, the look-up of the syslog host, failures of file operations and
  two processes with one file. The remaining appenders (NT event log, debugger,
  console, idsa, abort) are one call of the system each.
- Of UnitTest++: the formats of the reports, CompositeTestReporter, the build
  without exceptions.
- Helpers: strings, console, file names.

## 7. Plan

Done, in this order: the two queues and their proofs, CThreadIt and its proofs,
CActive, CSubject, the timers and their proofs, the message layer, the tests and
their result queue, log4cpp's hierarchy, files, mail, lines, packets and property
files, UnitTest++, and the proofs on the hierarchy, the runner, the files, the mails, the
packets, the message layer, the tests, the lines and the property files.

Next models: copies of work packs and messages that are sent twice, in
SafeInterface; other exceptions of worker methods and work sent to oneself, in
ThreadIt; a composition of ThreadIt with Subject.

Next proofs: abstract specifications for RollingFile and DailyFile (a log that
forgets its oldest part) that both implement; the layouts outside PlainTexts, with
what the code makes of them.
