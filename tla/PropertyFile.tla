---------------------------- MODULE PropertyFile ----------------------------
(***************************************************************************)
(* log4cpp::Properties: a configuration file is read through a buffer of a  *)
(* fixed size, lines longer than it in pieces; comments are cut, variables  *)
(* are replaced, and what is left is a map from keys to values.             *)
(*                                                                          *)
(* Text is a sequence of symbols; "${" is one of them.                      *)
(***************************************************************************)
EXTENDS Integers, Sequences, SequencesExt, FiniteSetsExt

CONSTANTS
  Letters,       \* the symbols of files
  FileTexts,     \* what is to be loaded: lines, each of them a Definition
  LINE_SIZE,     \* 256
  Environment    \* getenv: a function from some names to texts

NEWLINE == "\n"
BLANK == " "
OPEN_TAG == "${"
CLOSE_TAG == "}"

\* A file as its writer sees it, and the text of it.
PartText(p) ==
  CASE p.kind = "text" -> p.text
    [] p.kind = "variable" -> <<OPEN_TAG>> \o p.text \o <<CLOSE_TAG>>
    [] p.kind = "escape" -> <<OPEN_TAG, OPEN_TAG, CLOSE_TAG>>
    [] p.kind = "open" -> <<OPEN_TAG>> \o p.text
ValueText(parts) == FlattenSeq([i \in DOMAIN parts |-> PartText(parts[i])])
LineText(d) ==
  CASE d.kind = "value" -> d.key \o <<BLANK, "=", BLANK>> \o ValueText(d.parts) \o <<BLANK>> \o d.comment
    [] d.kind = "comment" -> <<"#">> \o d.key \o <<"=">> \o ValueText(d.parts)
    [] d.kind = "other" -> d.key
FileText(f) ==
  FlattenSeq([i \in DOMAIN f.lines |->
    LineText(f.lines[i]) \o (IF i = Len(f.lines) /\ ~f.newline THEN <<>> ELSE <<NEWLINE>>)])

\* A line of a file.  A value is a sequence of parts: text, the value of a
\* variable, the escape for "${", or an opening that nothing closes.  What its
\* texts do not contain makes a line what its kind says.
Without(s, symbols) == ToSet(s) \cap symbols = {}
Solid(s) == s = <<>> \/ (s[1] # BLANK /\ s[Len(s)] # BLANK)
Line == Seq(Letters \ {NEWLINE})
Part == [kind : {"text", "variable", "escape", "open"}, text : Line]
Definition(d) ==
  /\ d.kind \in {"value", "comment", "other"}
  /\ d.key \in Line /\ d.parts \in Seq(Part) /\ d.comment \in Line
  /\ d.kind = "other" => Without(d.key, {"="})
  /\ d.kind = "value" =>
       /\ Without(d.key, {"=", "#"}) /\ Solid(d.key) /\ Solid(ValueText(d.parts))
       /\ d.comment = <<>> \/ d.comment[1] = "#"
       /\ \A i \in DOMAIN d.parts :
            LET p == d.parts[i]
            IN  /\ Without(p.text, {"#"})
                /\ p.kind = "text" => Without(p.text, {OPEN_TAG})
                /\ p.kind = "variable" => Without(p.text, {CLOSE_TAG}) /\ p.text # <<OPEN_TAG>>
                /\ p.kind = "open" => Without(p.text, {CLOSE_TAG}) /\ i = Len(d.parts)

ASSUME PropertyAssumption ==
  /\ LINE_SIZE \in Nat \ {0, 1}
  /\ {OPEN_TAG, CLOSE_TAG, "=", "#", BLANK, NEWLINE} \subseteq Letters
  /\ \A k \in DOMAIN Environment : Environment[k] \in Seq(Letters)
  /\ \A f \in FileTexts : /\ f.newline \in BOOLEAN /\ f.lines \in Seq(ToSet(f.lines))
                          /\ \A i \in DOMAIN f.lines : Definition(f.lines[i])

VARIABLES
  file,           \* the file that is loaded
  input,          \* what is left of it in the stream
  eof, fail,      \* eofbit, failbit
  fullLine, partiallyRead,
  properties,     \* Properties, the map
  loading         \* load has not returned

propertyVars == <<file, input, eof, fail, fullLine, partiallyRead, properties, loading>>

---------------------------------------------------------------------------
\* string::find of one symbol; 0 for npos, positions begin at 1
Find(s, c, from) == LET at == {i \in from..Len(s) : s[i] = c} IN IF at = {} THEN 0 ELSE Min(at)

\* StringUtil::trim
TrimText(s) ==
  LET solid == {i \in DOMAIN s : s[i] # BLANK}
  IN  IF solid = {} THEN <<>> ELSE SubSeq(s, Min(solid), Max(solid))

\* What the variable between "${" and "}" stands for
Value(key) ==
  IF key = <<OPEN_TAG>> THEN <<OPEN_TAG>>
  ELSE IF key \in DOMAIN Environment THEN Environment[key]
  ELSE IF key \in DOMAIN properties THEN properties[key]
  ELSE <<>>

\* _substituteVariables: from `left` on, the text up to the next variable and
\* its value; without a close tag the rest is used literally.
Substituted(value) ==
  LET rest[left \in 1..Len(value) + 1] ==
        LET open == Find(value, OPEN_TAG, left)
            close == Find(value, CLOSE_TAG, open + 1)
        IN  IF open = 0 \/ close = 0 THEN SubSeq(value, left, Len(value))
            ELSE SubSeq(value, left, open - 1) \o Value(SubSeq(value, open + 1, close - 1)) \o rest[close + 1]
  IN  rest[1]

\* "log4j" or "log4cpp" in front of the first dot is cut.
Key(leftSide) ==
  LET dot == Find(leftSide, ".", 1)
  IN  IF dot # 0 /\ SubSeq(leftSide, 1, dot - 1) \in {<<"log4j">>, <<"log4cpp">>}
      THEN SubSeq(leftSide, dot + 1, Len(leftSide)) ELSE leftSide

\* The rest of the loop: map::insert leaves a key that is there already alone.
InsertProperty(key, value) ==
  IF key \in DOMAIN properties THEN properties
  ELSE [k \in DOMAIN properties \cup {key} |-> IF k = key THEN value ELSE properties[k]]
HandleLine(line) ==
  LET comment == Find(line, "#", 1)
      command == IF comment = 0 THEN line ELSE SubSeq(line, 1, comment - 1)
      equals == Find(command, "=", 1)
  IN  IF equals = 0 THEN properties
      ELSE InsertProperty(Key(TrimText(SubSeq(command, 1, equals - 1))),
                  Substituted(TrimText(SubSeq(command, equals + 1, Len(command)))))

---------------------------------------------------------------------------
PropertyInit ==
  /\ file \in FileTexts
  /\ input = FileText(file)
  /\ eof = FALSE /\ fail = FALSE
  /\ fullLine = <<>> /\ partiallyRead = FALSE
  /\ properties = [k \in {} |-> <<>>]
  /\ loading = TRUE

\* istream::getline (line, LINE_SIZE): the text, what is left, and the bits.
\* The end of the file is looked for first, then the delimiter, then room.
GetLine ==
  LET stop == Find(input, NEWLINE, 1)
      length == IF stop = 0 THEN Len(input) ELSE stop - 1
      room == LINE_SIZE - 1
      full == length > room
  IN  IF eof \/ input = <<>> THEN [text |-> <<>>, left |-> input, eof |-> TRUE, fail |-> TRUE]
      ELSE [text |-> SubSeq(input, 1, IF full THEN room ELSE length),
            left |-> SubSeq(input, 1 + (IF full THEN room ELSE length + 1), Len(input)),
            eof |-> ~full /\ stop = 0, fail |-> full]

\* Mutant: a piece of a line replaces the piece before it.
ReadPiece_Replaces ==
  /\ loading /\ ~fail
  /\ LET got == GetLine
         line == IF partiallyRead /\ got.eof THEN fullLine \o got.text ELSE got.text
     IN  /\ input' = got.left /\ eof' = got.eof
         /\ fullLine' = line /\ partiallyRead' = got.fail
         /\ fail' = (got.fail /\ got.eof)
         /\ properties' = IF got.fail /\ ~got.eof THEN properties ELSE HandleLine(line)
  /\ UNCHANGED <<file, loading>>

\* A turn of the loop: the failbit of a piece that fills the buffer is cleared
\* and the loop goes on to get the full line.
ReadPiece ==
  /\ loading /\ ~fail
  /\ LET got == GetLine
         line == IF partiallyRead THEN fullLine \o got.text ELSE got.text
     IN  /\ input' = got.left /\ eof' = got.eof
         /\ fullLine' = line /\ partiallyRead' = got.fail
         /\ fail' = (got.fail /\ got.eof)
         /\ properties' = IF got.fail /\ ~got.eof THEN properties ELSE HandleLine(line)
  /\ UNCHANGED <<file, loading>>

LoadEnds ==
  /\ loading /\ fail
  /\ loading' = FALSE
  /\ UNCHANGED <<file, input, eof, fail, fullLine, partiallyRead, properties>>

PropertyNext == ReadPiece \/ LoadEnds
PropertySpec == PropertyInit /\ [][PropertyNext]_propertyVars

---------------------------------------------------------------------------
\* What the writer of a file means: the first definition of a key counts, and
\* a variable is the environment's or that of a definition above.
Define(m, d) ==
  LET key == Key(d.key)
      Stands(p) == CASE p.kind = "text" -> p.text
                     [] p.kind = "escape" -> <<OPEN_TAG>>
                     [] p.kind = "open" -> <<OPEN_TAG>> \o p.text
                     [] p.kind = "variable" /\ p.text \in DOMAIN Environment -> Environment[p.text]
                     [] p.kind = "variable" /\ p.text \in DOMAIN m \ DOMAIN Environment -> m[p.text]
                     [] OTHER -> <<>>
      value == FlattenSeq([i \in DOMAIN d.parts |-> Stands(d.parts[i])])
  IN  IF d.kind # "value" \/ key \in DOMAIN m THEN m
      ELSE [k \in DOMAIN m \cup {key} |-> IF k = key THEN value ELSE m[k]]
Meant(f) ==
  LET upTo[n \in 0..Len(f.lines)] == IF n = 0 THEN [k \in {} |-> <<>>] ELSE Define(upTo[n - 1], f.lines[n])
  IN  upTo[Len(f.lines)]

\* When load returns, the properties are what the file says, wherever its
\* lines were cut by the buffer and whether or not its last line ends in a
\* newline (Properties.cpp:28-43, 111-157).
LoadedAsMeant == ~loading => properties = Meant(file)
=============================================================================
