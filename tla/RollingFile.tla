---------------------------- MODULE RollingFile ----------------------------
(***************************************************************************)
(* RollingFileAppender.cpp: when the file has reached its size it becomes   *)
(* backup 1, backup i becomes i + 1 and the last one is removed.  A step is *)
(* one call of the file system; the program may end between two of them and *)
(* be started again.                                                        *)
(***************************************************************************)
EXTENDS LogFile, Integers, FiniteSetsExt

CONSTANTS
  MaxFileSize,     \* RollingFileAppender::_maxFileSize
  MaxBackupIndex,  \* _maxBackupIndex
  SizeOf           \* event -> bytes

ASSUME RollingAssumption ==
  /\ MaxFileSize \in Nat /\ MaxBackupIndex \in 0..Len(FileNames) - 1
  /\ SizeOf \in [1..MaxLogged -> Nat \ {0}]

VARIABLES pc, shifting   \* where _append is; the loop variable of rollOver

rollingVars == <<fileVars, pc, shifting>>

\* The backups are the names before the last one; number 1 is the newest.
Backup(i) == FileNames[Len(FileNames) - i]

Bytes(s) == FoldLeft(LAMBDA sum, e : sum + SizeOf[e], 0, s)

RollingInit == FileInit /\ pc = "off" /\ shifting = 0

\* The constructor opens the file.
RollingConstruct ==
  /\ pc = "off"
  /\ Open
  /\ pc' = "ready"
  /\ UNCHANGED <<append, logged, crashes, shifting>>

RollingWrite ==
  /\ pc = "ready" /\ logged < MaxLogged
  /\ Write
  /\ pc' = "written"
  /\ UNCHANGED <<append, dir, fd, crashes, shifting>>

\* lseek to the end gives the size.  rollOver begins with close.
CheckSize ==
  /\ pc = "written"
  /\ IF fd # NoFile /\ Bytes(text[fd]) >= MaxFileSize
     THEN fd' = NoFile /\ pc' = "remove"
     ELSE UNCHANGED fd /\ pc' = "ready"
  /\ UNCHANGED <<append, dir, text, logged, crashes, shifting>>

RemoveLast ==
  /\ pc = "remove"
  /\ IF MaxBackupIndex > 0
     THEN Unlink(Backup(MaxBackupIndex)) /\ pc' = "shift"
     ELSE UNCHANGED <<dir, text>> /\ pc' = "open"
  /\ shifting' = MaxBackupIndex
  /\ UNCHANGED <<append, fd, logged, crashes>>

\* Mutant: the file itself is renamed before the backups make room.
Shift_NewestFirst ==
  /\ pc = "shift"
  /\ LET i == MaxBackupIndex - shifting + 1
     IN  Rename(IF i = 1 THEN LogName ELSE Backup(i - 1), Backup(i))
  /\ shifting' = shifting - 1
  /\ pc' = IF shifting = 1 THEN "open" ELSE "shift"
  /\ UNCHANGED <<append, fd, logged, crashes>>

\* One rename: backup i - 1 to i, and in the end the file to backup 1.
Shift ==
  /\ pc = "shift"
  /\ Rename(IF shifting > 1 THEN Backup(shifting - 1) ELSE LogName, Backup(shifting))
  /\ shifting' = shifting - 1
  /\ pc' = IF shifting = 1 THEN "open" ELSE "shift"
  /\ UNCHANGED <<append, fd, logged, crashes>>

RollingOpen ==
  /\ pc = "open"
  /\ Open
  /\ pc' = "ready"
  /\ UNCHANGED <<append, logged, crashes, shifting>>

RollingCrash ==
  /\ pc # "off" /\ crashes < MaxCrashes
  /\ pc' = "off" /\ fd' = NoFile /\ shifting' = 0 /\ crashes' = crashes + 1
  /\ UNCHANGED <<append, dir, text, logged>>

RollingNext ==
  \/ RollingConstruct \/ RollingWrite \/ CheckSize \/ RemoveLast \/ Shift \/ RollingOpen \/ RollingCrash

RollingSpec == RollingInit /\ [][RollingNext]_rollingVars

---------------------------------------------------------------------------
\* With append the backups and the file are the end of the log whatever the
\* point at which the program ended; no rename falls on a file that is there
\* (RollingFileAppender.cpp:61).
BackupsInOrder == append => IsSuffixOfLog
=============================================================================
