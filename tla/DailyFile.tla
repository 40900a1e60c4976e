----------------------------- MODULE DailyFile -----------------------------
(***************************************************************************)
(* DailyRollingFileAppender.cpp: the first event of a day renames the file  *)
(* to the date of the events in it and deletes dated files that have become *)
(* too old.  A step is one call of the file system; time may pass between   *)
(* any two of them, midnight with it, and so may the end of the program.    *)
(* The clock is finer than a day, as the age of a file is compared in       *)
(* seconds and its date in days; it does not go back.                       *)
(***************************************************************************)
EXTENDS LogFile, FiniteSets, Integers

CONSTANTS
  MaxTime,         \* the clock runs from 0 to MaxTime
  DayLength,       \* 60 * 60 * 24 seconds, in units of the clock
  MaxDay, DateOf,  \* localtime_r: the date of each time, out of 1..MaxDay
  MaxDaysToKeep,
  MaxDaily         \* bounds the events logged

\* The names are the dates 1..MaxDay and then the file in use.  Two times that
\* are more than DayLength apart are of different dates.
ASSUME DailyAssumption ==
  /\ {MaxTime, MaxDaily} \subseteq Nat /\ {DayLength, MaxDay, MaxDaysToKeep} \subseteq Nat \ {0}
  /\ Len(FileNames) = MaxDay + 1
  /\ DateOf \in [0..MaxTime -> 1..MaxDay]
  /\ \A s, t \in 0..MaxTime : s <= t => DateOf[s] <= DateOf[t]
  /\ \A s, t \in 0..MaxTime : s < t - DayLength => DateOf[s] < DateOf[t]

VARIABLES
  clock,      \* time(NULL)
  mtime,      \* name -> the time the file was last written
  logsTime,   \* the date in DailyRollingFileAppender::_logsTime
  moment,     \* the time in the local variable now of _append
  dailyAt,    \* where _append is
  loggedOn    \* event -> the time it was logged

dailyVars == <<fileVars, clock, mtime, logsTime, moment, dailyAt, loggedOn>>

KeptFor == MaxDaysToKeep * DayLength

Dated(d) == FileNames[d]

DailyInit ==
  /\ FileInit
  /\ clock = 0 /\ mtime = [n \in LogNames |-> 0] /\ logsTime = 0 /\ moment = 0
  /\ dailyAt = "off" /\ loggedOn = <<>>

TimePasses ==
  /\ clock < MaxTime
  /\ clock' = clock + 1
  /\ UNCHANGED <<fileVars, mtime, logsTime, moment, dailyAt, loggedOn>>

\* open touches a file that it creates or truncates.
OpenTouches ==
  /\ Open
  /\ mtime' = IF LogName \in dir /\ append THEN mtime ELSE [mtime EXCEPT ![LogName] = clock]

\* The constructor: the file may be of an earlier day, stat tells.
DailyConstruct ==
  /\ dailyAt = "off"
  /\ OpenTouches
  /\ logsTime' = DateOf[mtime'[LogName]]
  /\ dailyAt' = "ready"
  /\ UNCHANGED <<append, logged, crashes, clock, moment, loggedOn>>

\* _append asks for the time; rollOver begins with close.
DailyBegin ==
  /\ dailyAt = "ready" /\ logged < MaxDaily
  /\ moment' = clock
  /\ IF DateOf[clock] # logsTime
     THEN fd' = NoFile /\ dailyAt' = "rename"
     ELSE UNCHANGED fd /\ dailyAt' = "write"
  /\ UNCHANGED <<append, dir, text, logged, crashes, clock, mtime, logsTime, loggedOn>>

RenameToDate ==
  /\ dailyAt = "rename"
  /\ Rename(LogName, Dated(logsTime))
  /\ mtime' = IF LogName \in dir THEN [mtime EXCEPT ![Dated(logsTime)] = mtime[LogName]] ELSE mtime
  /\ dailyAt' = "open"
  /\ UNCHANGED <<append, fd, logged, crashes, clock, logsTime, moment, loggedOn>>

DailyOpen ==
  /\ dailyAt = "open"
  /\ OpenTouches
  /\ dailyAt' = "clean"
  /\ UNCHANGED <<append, logged, crashes, clock, logsTime, moment, loggedOn>>

\* Mutant: a file that is exactly that old goes too.
TooOld_Early(n) == mtime[n] <= clock - KeptFor

\* The scan of the directory by the time of the last change.  It looks at the
\* file in use as well, which is too old only if the days to keep went by since the open.
TooOld(n) == mtime[n] < clock - KeptFor

DeleteOld ==
  /\ dailyAt = "clean"
  /\ LET old == {n \in dir : TooOld(n)}
     IN  /\ dir' = dir \ old
         /\ fd' = IF fd \in old THEN NoFile ELSE fd
         /\ text' = [n \in LogNames |-> IF n \in old THEN <<>> ELSE text[n]]
  /\ logsTime' = DateOf[moment]
  /\ dailyAt' = "write"
  /\ UNCHANGED <<append, logged, crashes, clock, mtime, moment, loggedOn>>

DailyWrite ==
  /\ dailyAt = "write"
  /\ Write
  /\ mtime' = IF fd = NoFile THEN mtime ELSE [mtime EXCEPT ![fd] = clock]
  /\ loggedOn' = Append(loggedOn, moment)
  /\ dailyAt' = "ready"
  /\ UNCHANGED <<append, dir, fd, crashes, clock, logsTime, moment>>

DailyCrash ==
  /\ dailyAt # "off" /\ crashes < MaxCrashes
  /\ dailyAt' = "off" /\ fd' = NoFile /\ crashes' = crashes + 1
  /\ UNCHANGED <<append, dir, text, logged, clock, mtime, logsTime, moment, loggedOn>>

DailyNext ==
  \/ TimePasses \/ DailyConstruct \/ DailyBegin \/ RenameToDate \/ DailyOpen
  \/ DeleteOld \/ DailyWrite \/ DailyCrash

DailySpec == DailyInit /\ [][DailyNext]_dailyVars

\* With append no event is lost or moved before its time: the dated files and
\* the file in use are the end of the log, and an event stays for MaxDaysToKeep
\* times 24 hours, wherever midnight and crashes fall and although the dates and
\* the ages of the files are told by different clocks
\* (DailyRollingFileAppender.cpp:73).
DaysKept ==
  append =>
    /\ IsSuffixOfLog
    /\ \A e \in DOMAIN loggedOn : loggedOn[e] >= clock - KeptFor => \E n \in LogNames : e \in ToSet(text[n])
=============================================================================
