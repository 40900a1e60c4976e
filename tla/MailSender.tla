----------------------------- MODULE MailSender -----------------------------
(***************************************************************************)
(* Events that leave by mail: BufferingAppender.cpp collects them until one *)
(* of them is severe enough (LevelEvaluator.cpp), SmtpAppender.cpp queues   *)
(* the mails for a thread of their own, and shutdown ends that thread.  The *)
(* buffers belong to different categories, whose locks they are used under; *)
(* the sender is shared.                                                    *)
(*                                                                          *)
(* A step is a critical section of mails_mutex_, the test of should_exit_,  *)
(* which is read without it, or the connection to the server.               *)
(***************************************************************************)
EXTENDS Naturals, SequencesExt

CONSTANTS
  Buffers,     \* the buffering appenders
  BufferSize,  \* BufferingAppender::max_size_
  MaxMailed    \* events given to each of them

ASSUME MailAssumption == BufferSize \in Nat \ {0}

VARIABLES
  lossy,       \* buffer -> BufferingAppender::lossy_
  buffer,      \* buffer -> BufferingAppender::queue_, newest first
  events,      \* buffer -> events given to it
  mails,       \* sender::mails_; a mail is the buffer and its events
  outbox,      \* the mails whose turn with the server is over
  shouldExit,  \* sender::should_exit_
  sender,      \* where operator() of the sender's thread is
  owner        \* the thread that calls shutdown

mailVars == <<lossy, buffer, events, mails, outbox, shouldExit, sender, owner>>

MailInit ==
  /\ lossy \in [Buffers -> BOOLEAN]
  /\ buffer = [b \in Buffers |-> <<>>] /\ events = [b \in Buffers |-> 0]
  /\ mails = <<>> /\ outbox = <<>>
  /\ shouldExit = FALSE /\ sender = "loop" /\ owner = "idle"

\* Mutant: the sender's thread is not woken.
SendMail_Silent(ms) == mails' = mails \o ms /\ UNCHANGED sender

\* send: the mail is queued and the sender's thread is woken, if it waits.
\* Two mails in a row are queued without anybody seeing the first alone.
SendMail(ms) ==
  /\ mails' = mails \o ms
  /\ sender' = IF sender = "waiting" /\ ms # <<>> THEN "woken" ELSE sender

\* dump: the layout writes the oldest event first.
Dump(b, q) == <<[from |-> b, events |-> Reverse(q)]>>

\* Mutant: the size is compared after the new event was put.
AppendMail_Late(b, trigger) ==
  /\ owner = "idle" /\ events[b] < MaxMailed
  /\ LET e == events[b] + 1
         full == Len(buffer[b]) > BufferSize
         now == <<e>> \o (IF full /\ lossy[b] THEN Front(buffer[b]) ELSE buffer[b])
     IN  /\ events' = [events EXCEPT ![b] = e]
         /\ buffer' = [buffer EXCEPT ![b] = IF trigger THEN <<>> ELSE now]
         /\ SendMail((IF full /\ ~lossy[b] THEN Dump(b, buffer[b]) ELSE <<>>)
                     \o (IF trigger THEN Dump(b, now) ELSE <<>>))
  /\ UNCHANGED <<lossy, outbox, shouldExit, owner>>

\* BufferingAppender::_append.  A full buffer gives up its oldest event if it
\* is lossy, and is mailed and kept as it is if not; a trigger mails the
\* buffer and empties it.
AppendMail(b, trigger) ==
  /\ owner = "idle" /\ events[b] < MaxMailed
  /\ LET e == events[b] + 1
         full == Len(buffer[b]) = BufferSize
         now == <<e>> \o (IF full /\ lossy[b] THEN Front(buffer[b]) ELSE buffer[b])
     IN  /\ events' = [events EXCEPT ![b] = e]
         /\ buffer' = [buffer EXCEPT ![b] = IF trigger THEN <<>> ELSE now]
         /\ SendMail((IF full /\ ~lossy[b] THEN Dump(b, buffer[b]) ELSE <<>>)
                     \o (IF trigger THEN Dump(b, now) ELSE <<>>))
  /\ UNCHANGED <<lossy, outbox, shouldExit, owner>>

---------------------------------------------------------------------------
(* The sender's thread.                                                     *)

SenderLoop ==
  /\ sender = "loop"
  /\ sender' = IF shouldExit THEN "over" ELSE "look"
  /\ UNCHANGED <<lossy, buffer, events, mails, outbox, shouldExit, owner>>

\* Under the lock: leave, wait, or keep the first mail's iterator.
SenderLook ==
  /\ sender \in {"look", "woken"}
  /\ sender' = IF mails # <<>> THEN "sending"
               ELSE IF shouldExit THEN "over" ELSE "waiting"
  /\ UNCHANGED <<lossy, buffer, events, mails, outbox, shouldExit, owner>>

\* The server has taken the mail or an exception was caught; either way it is
\* erased.
SenderErase ==
  /\ sender = "sending"
  /\ outbox' = Append(outbox, Head(mails))
  /\ mails' = Tail(mails)
  /\ sender' = "loop"
  /\ UNCHANGED <<lossy, buffer, events, shouldExit, owner>>

---------------------------------------------------------------------------
(* shutdown, which HierarchyMaintainer calls once the appenders are gone.   *)

\* Mutant: a thread that waits is not woken.
SenderShutdown_Silent ==
  /\ owner = "idle"
  /\ shouldExit' = TRUE
  /\ owner' = "join"
  /\ UNCHANGED <<lossy, buffer, events, mails, outbox, sender>>

SenderShutdown ==
  /\ owner = "idle"
  /\ shouldExit' = TRUE
  /\ sender' = IF sender = "waiting" THEN "woken" ELSE sender
  /\ owner' = "join"
  /\ UNCHANGED <<lossy, buffer, events, mails, outbox>>

SenderJoin ==
  /\ owner = "join" /\ sender = "over"
  /\ owner' = "deleted"
  /\ UNCHANGED <<lossy, buffer, events, mails, outbox, shouldExit, sender>>

SenderStep == SenderLoop \/ SenderLook \/ SenderErase

MailNext ==
  \/ \E b \in Buffers, trigger \in BOOLEAN : AppendMail(b, trigger)
  \/ SenderStep \/ SenderShutdown \/ SenderJoin

\* The sender's thread runs, its server answers or fails in the end, and a
\* join returns when the thread is over.
MailFairness == WF_mailVars(SenderStep) /\ WF_mailVars(SenderJoin)

MailSpec == MailInit /\ [][MailNext]_mailVars /\ MailFairness

---------------------------------------------------------------------------
\* What has been mailed from a buffer, or will be.
Mailed(b) ==
  LET all == outbox \o mails
  IN  FlattenSeq([i \in DOMAIN all |-> IF all[i].from = b THEN all[i].events ELSE <<>>])

\* A lossy buffer mails an event once at most, in the order they came, keeps
\* no more than its size, and what it keeps is newer than what it has mailed
\* (BufferingAppender.cpp:22); the queue of the sender, which other buffers use
\* too, changes nothing of that (SmtpAppender.cpp:146).
LossyMailedOnce ==
  \A b \in Buffers :
    LET s == Mailed(b) \o Reverse(buffer[b])
    IN  lossy[b] =>
          /\ \A i \in 1..Len(s) - 1 : s[i] < s[i + 1]
          /\ Len(buffer[b]) <= BufferSize
          /\ events[b] > 0 => s # <<>> /\ Last(s) = events[b]

\* shutdown returns: the sender's thread does not sleep through it.
MailShutdownReturns == owner = "join" ~> owner = "deleted"

\* A mail that is queued goes out, unless shutdown overtakes it.
MailsGoOut == mails # <<>> ~> (mails = <<>> \/ shouldExit)
=============================================================================
