---------------------------- MODULE PatternLayout ----------------------------
(***************************************************************************)
(* How log4cpp makes the text of an event: PatternLayout with its           *)
(* components, the nested diagnostic context (NDC) of the thread, the       *)
(* CategoryStream in which a message is collected, and the                  *)
(* StringQueueAppender that keeps the formatted text.                       *)
(*                                                                          *)
(* Text is a sequence of symbols.  A conversion pattern is given as the     *)
(* sequence of what the character loop of setConversionPattern finds in it: *)
(* literal text, or a conversion specifier with its widths and its postfix. *)
(***************************************************************************)
EXTENDS Integers, Sequences, SequencesExt

CONSTANTS
  Symbols,        \* what texts are made of; a name of a priority is one symbol
  Writers,        \* threads
  Patterns,       \* arguments of setConversionPattern, sequences of Element
  CategoryNames,  \* texts
  Contexts,       \* arguments of NDC::push, texts
  Pieces,         \* texts that are streamed
  LinePriorities, \* priorities of events
  MaxSteps        \* bound on the calls that change a context, a pattern or a stream

Text == Seq(Symbols)

\* What the loop finds: "m", "c", "p", "x" have a component, "%" and "n" are
\* literal text, "text" is text, "bad" throws ConfigureFailure (an unknown or
\* an unterminated specifier).  minWidth < 0 aligns to the left, precision is
\* the postfix of "c", -1 if there is none.
Element == [spec : {"m", "c", "p", "x", "%", "n", "text", "bad"},
            minWidth : Int, maxWidth : Nat, precision : Int, text : Text]

\* What Priority::getPriorityName chooses from.
PriorityNames == <<"FATAL", "ALERT", "CRIT", "ERROR", "WARN", "NOTICE", "INFO", "DEBUG", "NOTSET">>

ASSUME PatternAssumption ==
  /\ {" ", "%", "n"} \subseteq Symbols /\ PriorityNames \in Text
  /\ Patterns \subseteq Seq(Element)
  /\ CategoryNames \subseteq Text /\ Contexts \subseteq Text /\ Pieces \subseteq Text
  /\ LinePriorities \subseteq Int

VARIABLES
  stack,        \* writer -> NDC::_stack: pairs of message and fullMessage
  isUsedNDC,    \* NDC::isUsedNDC
  pattern,      \* the pattern given last
  components,   \* PatternLayout::_components
  stream,       \* writer -> CategoryStream::_buffer, no text if it is NULL
  lines,        \* StringQueueAppender::_queue
  meant,       \* history: what each line should be
  calls

layoutVars == <<stack, isUsedNDC, pattern, components, stream, lines, meant, calls>>

Spaces(n) == [i \in 1..n |-> " "]
LastOf(s) == s[Len(s)]

---------------------------------------------------------------------------
(* The components.                                                          *)

\* string::rfind of a dot that begins at position `from` (0 is the first) or
\* before; -1 for npos.
RFind(name, from) ==
  LET at == {i \in 1..Len(name) : name[i] = "." /\ i - 1 <= from}
  IN  IF at = {} THEN -1 ELSE (CHOOSE i \in at : \A j \in at : j <= i) - 1

\* CategoryNameComponent::append: `begin - 2` is a very large number when
\* begin is npos, and when it is 1.
CategoryName(name, precision) ==
  LET turns == IF precision > 0 THEN precision ELSE 0
      begin[i \in 0..turns] ==
        IF i = 0 THEN -1
        ELSE IF begin[i - 1] = 0 THEN 0     \* the loop was left
        ELSE RFind(name, IF begin[i - 1] \in {-1, 1} THEN Len(name) ELSE begin[i - 1] - 2) + 1
  IN  IF begin[turns] = -1 THEN name ELSE SubSeq(name, begin[turns] + 1, Len(name))

\* Priority::getPriorityName
PriorityName(p) ==
  LET i == IF p + 1 < 0 THEN -1 ELSE (p + 1) \div 100
  IN  PriorityNames[IF i \in 0..8 THEN i + 1 ELSE 9]

\* StringLiteral-, Message-, CategoryName-, Priority- and NDCComponent
Plain(c, event) ==
  CASE c.spec = "text" -> c.text
    [] c.spec = "m" -> event.message
    [] c.spec = "c" -> CategoryName(event.categoryName, c.precision)
    [] c.spec = "p" -> <<PriorityName(event.priority)>>
    [] c.spec = "x" -> event.ndc

\* FormatModifierComponent::append
Modified(text, minWidth, maxWidth) ==
  LET msg == IF maxWidth > 0 /\ maxWidth < Len(text) THEN SubSeq(text, 1, maxWidth) ELSE text
      width == IF minWidth < 0 THEN -minWidth ELSE minWidth
      fill == IF width > Len(msg) THEN Spaces(width - Len(msg)) ELSE <<>>
  IN  IF minWidth < 0 THEN msg \o fill ELSE fill \o msg

\* PatternLayout::format
Format(event) ==
  FlattenSeq([i \in DOMAIN components |->
    Modified(Plain(components[i], event), components[i].minWidth, components[i].maxWidth)])

---------------------------------------------------------------------------
(* PatternLayout::setConversionPattern.                                     *)

Conversion(spec) == [spec |-> spec, minWidth |-> 0, maxWidth |-> 0, precision |-> -1, text |-> <<>>]

\* A component is pushed after the literal text before it, which has no widths.
Literal(text) == [Conversion("text") EXCEPT !.text = text]
PushLiteral(s) ==
  [s EXCEPT !.components = IF s.literal = <<>> THEN @ ELSE Append(@, Literal(s.literal)), !.literal = <<>>]

\* One turn of the loop.  A specifier without a component does not reset the
\* widths it was given: the next component has them.
Convert(s, e) ==
  LET minWidth == IF e.minWidth # 0 THEN e.minWidth ELSE s.minWidth
      maxWidth == IF e.maxWidth # 0 THEN e.maxWidth ELSE s.maxWidth
  IN  IF s.failed \/ e.spec = "bad" THEN [s EXCEPT !.failed = TRUE]
      ELSE IF e.spec = "text" THEN [s EXCEPT !.literal = @ \o e.text]
      ELSE IF e.spec \in {"%", "n"}
      THEN [s EXCEPT !.literal = Append(@, e.spec), !.minWidth = minWidth, !.maxWidth = maxWidth]
      ELSE [PushLiteral(s) EXCEPT !.components = Append(@, [e EXCEPT !.minWidth = minWidth, !.maxWidth = maxWidth]),
                                  !.minWidth = 0, !.maxWidth = 0]

NothingConverted == [components |-> <<>>, literal |-> <<>>, minWidth |-> 0, maxWidth |-> 0, failed |-> FALSE]
Converted(p) ==
  LET turns[i \in 0..Len(p)] == IF i = 0 THEN NothingConverted ELSE Convert(turns[i - 1], p[i])
  IN  turns[Len(p)]

\* DEFAULT_CONVERSION_PATTERN, "%m%n"
DefaultPattern == <<Conversion("m"), Conversion("n")>>

LayoutInit ==
  /\ stack = [w \in Writers |-> <<>>] /\ isUsedNDC = FALSE
  /\ pattern = DefaultPattern /\ components = PushLiteral(Converted(DefaultPattern)).components
  /\ stream = [w \in Writers |-> <<>>]
  /\ lines = <<>> /\ meant = <<>> /\ calls = 0

Call == calls < MaxSteps /\ calls' = calls + 1

\* The components made before a failure stay, the literal text is lost.
SetConversionPattern ==
  /\ Call
  /\ \E p \in Patterns :
       LET done == Converted(p)
       IN  /\ components' = (IF done.failed THEN done ELSE PushLiteral(done)).components
           /\ pattern' = p
  /\ UNCHANGED <<stack, isUsedNDC, stream, lines, meant>>

---------------------------------------------------------------------------
(* NDC, with a stack for each thread.                                       *)

\* Mutant: a context knows the message of its parent only.
Pushed_Shallow(s, message) ==
  Append(s, [message |-> message,
             fullMessage |-> IF s = <<>> THEN message ELSE LastOf(s).message \o <<" ">> \o message])

Pushed(s, message) ==
  Append(s, [message |-> message,
             fullMessage |-> IF s = <<>> THEN message ELSE LastOf(s).fullMessage \o <<" ">> \o message])

PushContext(w) ==
  /\ Call
  /\ \E m \in Contexts : stack' = [stack EXCEPT ![w] = Pushed(@, m)]
  /\ isUsedNDC' = TRUE
  /\ UNCHANGED <<pattern, components, stream, lines, meant>>

\* pop is undefined for a thread that has no context: it is not called then.
PopContext(w) ==
  /\ Call
  /\ stack[w] # <<>>
  /\ stack' = [stack EXCEPT ![w] = Front(@)]
  /\ UNCHANGED <<isUsedNDC, pattern, components, stream, lines, meant>>

ClearContext(w) ==
  /\ Call
  /\ stack' = [stack EXCEPT ![w] = <<>>]
  /\ UNCHANGED <<isUsedNDC, pattern, components, stream, lines, meant>>

\* cloneStack in one thread, inherit in the other
InheritContext(w) ==
  /\ Call
  /\ \E v \in Writers \ {w} : stack' = [stack EXCEPT ![w] = stack[v]]
  /\ UNCHANGED <<isUsedNDC, pattern, components, stream, lines, meant>>

\* NDC::get
Context(w) == IF isUsedNDC /\ stack[w] # <<>> THEN LastOf(stack[w]).fullMessage ELSE <<>>

---------------------------------------------------------------------------
(* CategoryStream and StringQueueAppender.                                  *)

StreamPiece(w) ==
  /\ Call
  /\ \E p \in Pieces : stream' = [stream EXCEPT ![w] = @ \o p]
  /\ UNCHANGED <<stack, isUsedNDC, pattern, components, lines, meant>>

\* What the pattern says: each conversion has its own widths, the name of the
\* category is cut to its last parts, the context is all that was pushed.
Parts(name) == {0} \cup {i \in 1..Len(name) : name[i] = "."}
LastParts(name, n) ==
  IF n <= 0 THEN name
  ELSE LET few == {i \in Parts(name) : Cardinality(Parts(name) \cap i..Len(name)) <= n}
       IN  SubSeq(name, 1 + CHOOSE i \in few : \A j \in few : i <= j, Len(name))
Expected(e, event, contexts) ==
  LET text ==
        CASE e.spec = "m" -> event.message
          [] e.spec = "c" -> LastParts(event.categoryName, e.precision)
          [] e.spec = "p" -> <<PriorityName(event.priority)>>
          [] e.spec = "x" -> FlattenSeq([i \in DOMAIN contexts |->
                               IF i = 1 THEN contexts[i].message ELSE <<" ">> \o contexts[i].message])
          [] OTHER -> <<e.spec>>
      body == IF e.maxWidth \in 1..Len(text) THEN SubSeq(text, 1, e.maxWidth) ELSE text
  IN  IF e.spec = "text" THEN e.text
      ELSE IF e.minWidth >= 0 THEN Spaces(e.minWidth - Len(body)) \o body
      ELSE body \o Spaces(-e.minWidth - Len(body))

\* CategoryStream::flush and the destructor log what was streamed, eol too.
FlushStream(w) ==
  /\ stream[w] # <<>>
  /\ \E name \in CategoryNames, priority \in LinePriorities :
       LET event == [categoryName |-> name, priority |-> priority, message |-> stream[w], ndc |-> Context(w)]
       IN  /\ lines' = Append(lines, Format(event))
           /\ meant' = Append(meant, FlattenSeq([i \in DOMAIN pattern |-> Expected(pattern[i], event, stack[w])]))
  /\ stream' = [stream EXCEPT ![w] = <<>>]
  /\ UNCHANGED <<stack, isUsedNDC, pattern, components, calls>>

\* popMessage; an empty text when there is none
PopMessage ==
  /\ lines # <<>>
  /\ lines' = Tail(lines) /\ meant' = Tail(meant)
  /\ UNCHANGED <<stack, isUsedNDC, pattern, components, stream, calls>>

LayoutNext ==
  \/ SetConversionPattern \/ PopMessage
  \/ \E w \in Writers : PushContext(w) \/ PopContext(w) \/ ClearContext(w) \/ InheritContext(w)
                        \/ StreamPiece(w) \/ FlushStream(w)

LayoutSpec == LayoutInit /\ [][LayoutNext]_layoutVars

---------------------------------------------------------------------------
\* A line of the queue is what the pattern says of the event, with the whole
\* context of the thread that logged it, inherited parts included
\* (PatternLayout.cpp:228-245, 279-406, NDC.cpp:61-65, 116-122).
LinesAsConfigured == lines = meant

\* Where the code departs from that: a pattern that setConversionPattern
\* rejects, widths given to "%%" and "%n", and the name of a category that
\* begins with a dot.
Plainly(p) == \A i \in DOMAIN p : /\ p[i].spec # "bad"
                                  /\ p[i].spec \in {"%", "n"} => p[i].minWidth = 0 /\ p[i].maxWidth = 0
PlainTexts == /\ \A p \in Patterns : Plainly(p)
              /\ \A name \in CategoryNames : name = <<>> \/ name[1] # "."
=============================================================================
