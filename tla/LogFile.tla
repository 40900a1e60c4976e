------------------------------ MODULE LogFile ------------------------------
(***************************************************************************)
(* A log file of log4cpp and the names around it (FileAppender.cpp).  An    *)
(* event is its number; a file is the sequence of the events in it.  "fd"   *)
(* is the name the open file has at the moment, as a descriptor stays with  *)
(* a file that is renamed.                                                  *)
(*                                                                          *)
(* RollingFile and DailyFile extend this module.  The appender is used by   *)
(* one thread at a time, as it is when one category owns it.                *)
(***************************************************************************)
EXTENDS Naturals, SequencesExt

CONSTANTS
  FileNames,    \* in the order of their age, oldest first; the last is in use
  MaxLogged,    \* events logged
  MaxCrashes    \* times the program ends without closing anything

LogNames == ToSet(FileNames)
NoFile == "no file"

ASSUME LogFileAssumption ==
  /\ FileNames \in Seq(LogNames) /\ FileNames # <<>> /\ IsInjective(FileNames)
  /\ NoFile \notin LogNames

VARIABLES
  append,     \* the flag given to the constructor: no O_TRUNC
  dir,        \* the names that exist
  text,       \* name -> the events in the file
  fd,         \* FileAppender::_fd; NoFile if it is closed or its file was deleted
  logged,     \* events given to the appender
  crashes

fileVars == <<append, dir, text, fd, logged, crashes>>

LogName == Last(FileNames)

FileInit ==
  /\ append \in BOOLEAN
  /\ dir = {} /\ text = [n \in LogNames |-> <<>>]
  /\ fd = NoFile
  /\ logged = 0 /\ crashes = 0

\* open(_fileName, _flags, _mode)
Open ==
  /\ dir' = dir \cup {LogName}
  /\ text' = IF append THEN text ELSE [text EXCEPT ![LogName] = <<>>]
  /\ fd' = LogName

\* FileAppender::_append: write; its result is not looked at.
Write ==
  /\ logged' = logged + 1
  /\ text' = IF fd = NoFile THEN text ELSE [text EXCEPT ![fd] = Append(@, logged')]

\* rename and remove: nothing happens if there is no such file.
Rename(from, to) ==
  IF from \in dir
  THEN /\ dir' = (dir \ {from}) \cup {to}
       /\ text' = [text EXCEPT ![to] = text[from], ![from] = <<>>]
  ELSE UNCHANGED <<dir, text>>

Unlink(n) ==
  /\ dir' = dir \ {n}
  /\ text' = [text EXCEPT ![n] = <<>>]

\* Everything in the files, oldest first.
Contents == FlattenSeq([i \in DOMAIN FileNames |-> text[FileNames[i]]])

\* The files read in the order of their names are the last events in the order
\* they were logged, with no gap and nothing twice.
IsSuffixOfLog ==
  Contents = [i \in 1..Len(Contents) |-> logged - Len(Contents) + i]
=============================================================================
