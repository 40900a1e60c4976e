------------------------------- MODULE Syslog -------------------------------
(***************************************************************************)
(* log4cpp::RemoteSyslogAppender: an event is sent to a syslog daemon in    *)
(* datagrams, each with the priority in front, of MAX_PACKET bytes at most. *)
(* Threads that log through different categories are in _append together,   *)
(* and the appender may be reopened meanwhile.                              *)
(*                                                                          *)
(* A byte is a symbol: those of a message are numbered.                     *)
(***************************************************************************)
EXTENDS Naturals, Sequences, SequencesExt

CONSTANTS
  Senders,        \* threads
  MAX_PACKET,     \* 900
  MessageLengths,
  EventPriorities,
  MaxSent,        \* events of one thread
  MaxReopens

\* There is room for a byte behind "<", three digits and ">".
ASSUME PacketAssumption == MAX_PACKET \in Nat /\ MAX_PACKET > 5 /\ MessageLengths \subseteq Nat

VARIABLES
  ipAddr,      \* _ipAddr # 0
  socket,      \* _socket: "none" for 0, "open", "invalid"
  sending,     \* sender -> where it is in _append
  buf,         \* sender -> its buffer
  left,        \* sender -> messageLength
  formatted,   \* sender -> the message and its priority
  packets,     \* sender -> what sendto was given for this message
  given, reopens

syslogVars == <<ipAddr, socket, sending, buf, left, formatted, packets, given, reopens>>

LOG_USER == 8

\* toSyslogPriority: LOG_EMERG is 0, LOG_DEBUG 7
ToSyslogPriority(p) == IF p + 1 > 799 THEN 7 ELSE (p + 1) \div 100

\* sprintf (buf, "<%d>"): the length tells the number of digits
Preamble(p) ==
  LET n == LOG_USER + ToSyslogPriority(p)
  IN  IF n < 10 THEN <<"<", n, ">">> ELSE <<"<", n \div 10, n % 10, ">">>

Numbered(n) == [i \in 1..n |-> i]

\* The resolver may fail, and so may socket ().
Opened(address, s) ==
  \/ address = FALSE /\ ipAddr = FALSE /\ s = "none"
  \/ address = TRUE /\ s \in {"open", "invalid"}

SyslogInit ==
  /\ ipAddr \in BOOLEAN /\ socket \in {"none", "open", "invalid"}
  /\ ipAddr = FALSE <=> socket = "none"
  /\ sending = [t \in Senders |-> "idle"]
  /\ buf = [t \in Senders |-> <<>>] /\ left = [t \in Senders |-> 0]
  /\ formatted = [t \in Senders |-> [length |-> 0, priority |-> 0]]
  /\ packets = [t \in Senders |-> <<>>]
  /\ given = [t \in Senders |-> 0] /\ reopens = 0

\* reopen: close, which forgets the socket, and open
CloseSocket ==
  /\ reopens < MaxReopens /\ reopens' = reopens + 1
  /\ socket' = "none"
  /\ UNCHANGED <<ipAddr, sending, buf, left, formatted, packets, given>>

OpenSocket ==
  /\ reopens > 0 /\ socket = "none"
  /\ Opened(ipAddr', socket')
  /\ UNCHANGED <<sending, buf, left, formatted, packets, given, reopens>>

\* _append up to the loop
FillBuffer(t) ==
  /\ sending[t] = "idle" /\ given[t] < MaxSent
  /\ \E n \in MessageLengths, p \in EventPriorities :
       /\ formatted' = [formatted EXCEPT ![t] = [length |-> n, priority |-> p]]
       /\ buf' = [buf EXCEPT ![t] = Preamble(p) \o Numbered(n)]
       /\ left' = [left EXCEPT ![t] = n]
  /\ packets' = [packets EXCEPT ![t] = <<>>]
  /\ given' = [given EXCEPT ![t] = @ + 1]
  /\ sending' = [sending EXCEPT ![t] = "loop"]
  /\ UNCHANGED <<ipAddr, socket, reopens>>

PreambleOf(t) == Preamble(formatted[t].priority)

\* Mutant: the bytes of the preamble count as bytes of the message.
SendPacket_Overcounts(t) ==
  LET preambleLength == Len(PreambleOf(t))
  IN  /\ sending[t] = "loop" /\ left[t] > 0
      /\ IF preambleLength + left[t] > MAX_PACKET
         THEN /\ packets' = [packets EXCEPT ![t] = Append(@, SubSeq(buf[t], 1, MAX_PACKET))]
              /\ left' = [left EXCEPT ![t] = IF @ > MAX_PACKET THEN @ - MAX_PACKET ELSE 0]
              /\ buf' = [buf EXCEPT ![t] = PreambleOf(t) \o SubSeq(@, MAX_PACKET + 1, MAX_PACKET + left'[t])]
              /\ sending' = sending
         ELSE /\ packets' = [packets EXCEPT ![t] = Append(@, SubSeq(buf[t], 1, preambleLength + left[t]))]
              /\ sending' = [sending EXCEPT ![t] = "idle"]
              /\ UNCHANGED <<left, buf>>
      /\ UNCHANGED <<ipAddr, socket, formatted, given, reopens>>

\* A turn of the loop.  The rest of the message is moved behind the preamble.
\* The result of sendto is not looked at: without a socket the packet is lost.
SendPacket(t) ==
  LET preambleLength == Len(PreambleOf(t))
  IN  /\ sending[t] = "loop" /\ left[t] > 0
      /\ IF preambleLength + left[t] > MAX_PACKET
         THEN /\ packets' = [packets EXCEPT ![t] = Append(@, SubSeq(buf[t], 1, MAX_PACKET))]
              /\ left' = [left EXCEPT ![t] = @ - (MAX_PACKET - preambleLength)]
              /\ buf' = [buf EXCEPT ![t] = PreambleOf(t) \o SubSeq(@, MAX_PACKET + 1, MAX_PACKET + left'[t])]
              /\ sending' = sending
         ELSE /\ packets' = [packets EXCEPT ![t] = Append(@, SubSeq(buf[t], 1, preambleLength + left[t]))]
              /\ sending' = [sending EXCEPT ![t] = "idle"]
              /\ UNCHANGED <<left, buf>>
      /\ UNCHANGED <<ipAddr, socket, formatted, given, reopens>>

\* An empty message sends nothing.
NothingToSend(t) ==
  /\ sending[t] = "loop" /\ left[t] = 0
  /\ sending' = [sending EXCEPT ![t] = "idle"]
  /\ UNCHANGED <<ipAddr, socket, buf, left, formatted, packets, given, reopens>>

SyslogNext ==
  \/ CloseSocket \/ OpenSocket
  \/ \E t \in Senders : FillBuffer(t) \/ SendPacket(t) \/ NothingToSend(t)

SyslogSpec == SyslogInit /\ [][SyslogNext]_syslogVars

---------------------------------------------------------------------------
\* A packet is not longer than the maximum and begins with the priority of its
\* event; and when _append is done, what follows the priorities is the message,
\* each byte once and in order (RemoteSyslogAppender.cpp:154-166).
MessageInPackets ==
  \A t \in Senders :
    LET Payload(packet) == SubSeq(packet, Len(PreambleOf(t)) + 1, Len(packet))
    IN  /\ \A i \in DOMAIN packets[t] :
             Len(packets[t][i]) <= MAX_PACKET /\ IsPrefix(PreambleOf(t), packets[t][i])
        /\ sending[t] = "idle" =>
             FlattenSeq([i \in DOMAIN packets[t] |-> Payload(packets[t][i])]) = Numbered(formatted[t].length)
=============================================================================
