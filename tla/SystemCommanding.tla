-------------------------- MODULE SystemCommanding --------------------------
(***************************************************************************)
(* A terminal session of src/src/system_commanding.rs: the parser that     *)
(* turns bytes into keys and the line editor with its history and its      *)
(* completion.  ingest takes a slice of bytes; as it keeps no other state  *)
(* between two bytes than the session itself, a byte is a step.            *)
(* What is sent back to the terminal is left out.                          *)
(***************************************************************************)
EXTENDS CommandRegistry

CONSTANTS
  HistoryMax,   \* HISTORY_MAX
  Typed,        \* the bytes that arrive between keys
  Escaped,      \* the bytes that arrive inside an escape sequence
  MaxLine       \* bound: the longest line that is typed, or that is completed

ASSUME SessionAssumption ==
  /\ HistoryMax \in Nat \ {0}
  /\ Typed \subseteq Byte /\ Escaped \subseteq Byte
  /\ MaxLine \in Nat

VARIABLES
  line, cursor,  \* the line as it is edited; how many bytes are left of the cursor
  lines,         \* the field history: the last lines executed
  view,          \* history_view: the row of lines shown, 0 for none
  lastCommand,   \* last_command: <<>> for None
  tabLast,       \* tab_last
  parser,        \* parser_state
  modeAuto,      \* mode_auto, set before the first byte
  open           \* no byte is ingested after one that asked to disconnect

edit == <<line, cursor, lines, view, lastCommand, tabLast>>
session == <<edit, parser, modeAuto, open>>
vars == <<commands, session>>

Space == 32

Keys == {"Char", "Enter", "Tab", "Backspace", "Delete", "Left", "Right", "Up", "Down",
         "Home", "End", "JumpLeft", "JumpRight", "CtrlC", "CtrlD", "None"}

ParserState == {"Main", "Escape", "EscapeBracket", "Escape1", "Escape3",
                "EscapeSemi", "EscapeSemi5", "Iac", "IacOption"}

SessionInit ==
  /\ line = <<>> /\ cursor = 0
  /\ lines = <<>> /\ view = 0
  /\ lastCommand = <<>>
  /\ tabLast = FALSE
  /\ parser = "Main"
  /\ modeAuto \in BOOLEAN
  /\ open = TRUE

Init == RegistryInit /\ SessionInit

-----------------------------------------------------------------------------
(* feed_byte.                                                              *)

\* <<state of the parser, bytes, next state, key>>
Decoding ==
  {<<"Main", {255}, "Iac", "None">>, <<"Main", {27}, "Escape", "None">>,
   <<"Main", {3}, "Main", "CtrlC">>, <<"Main", {4}, "Main", "CtrlD">>,
   <<"Main", {10, 13}, "Main", "Enter">>, <<"Main", {9}, "Main", "Tab">>,
   <<"Main", {8, 127}, "Main", "Backspace">>, <<"Main", 32 .. 126, "Main", "Char">>,
   <<"Escape", {91}, "EscapeBracket", "None">>,
   <<"EscapeBracket", {65}, "Main", "Up">>, <<"EscapeBracket", {66}, "Main", "Down">>,
   <<"EscapeBracket", {67}, "Main", "Right">>, <<"EscapeBracket", {68}, "Main", "Left">>,
   <<"EscapeBracket", {70, 56, 52}, "Main", "End">>,
   <<"EscapeBracket", {72, 55}, "Main", "Home">>,
   <<"EscapeBracket", {49}, "Escape1", "None">>,
   <<"EscapeBracket", {51}, "Escape3", "None">>,
   <<"Escape1", {126}, "Main", "Home">>, <<"Escape1", {59}, "EscapeSemi", "None">>,
   <<"Escape3", {126}, "Main", "Delete">>,
   <<"EscapeSemi", {53}, "EscapeSemi5", "None">>,
   <<"EscapeSemi5", {67}, "Main", "JumpRight">>,
   <<"EscapeSemi5", {68}, "Main", "JumpLeft">>,
   <<"Iac", Byte, "IacOption", "None">>}

Rows(s, b) == {row \in Decoding : row[1] = s /\ b \in row[2]}

\* What byte b does in state s: <<next state, key>>.  A byte that is not listed
\* yields no key and leads back to Main.
Decoded ==
  [s \in ParserState |-> [b \in Byte |->
     IF Rows(s, b) = {} THEN <<"Main", "None">>
     ELSE LET row == CHOOSE row \in Rows(s, b) : TRUE IN <<row[3], row[4]>>]]

\* The definitions named Mutant... are not part of the specification: each is
\* a plausible mistake in the definition after it, which some property refutes.
MutantDecodeSticks(b) ==
  IF Rows(parser, b) = {} THEN <<parser, "None">> ELSE Decoded[parser][b]

Decode(b) == Decoded[parser][b]

\* The byte b arrives in an interactive session and completes key k.
Feed(b, k) ==
  /\ open /\ ~modeAuto
  /\ b \in (IF parser = "Main" THEN Typed ELSE Escaped)
  /\ Decode(b)[2] = k
  /\ parser' = Decode(b)[1]
  /\ UNCHANGED <<commands, modeAuto>>

NoKey(b) == Feed(b, "None") /\ UNCHANGED <<edit, open>>

-----------------------------------------------------------------------------
(* Moving and editing.                                                     *)

Before(n) == SubSeq(line, 1, n)
After(n)  == SubSeq(line, n + 1, Len(line))

Alphanumeric == (48 .. 57) \cup (65 .. 90) \cup (97 .. 122)

MutantMoveTo(n) == cursor' = n /\ UNCHANGED <<line, lines, view, lastCommand, tabLast, open>>

\* The cursor moves to n, if that is a move.
MoveTo(n) ==
  /\ cursor' = n
  /\ tabLast' = (tabLast /\ n = cursor)
  /\ UNCHANGED <<line, lines, view, lastCommand, open>>

MutantLeft(b) == Feed(b, "Left") /\ MoveTo(cursor - 1)

Left(b)  == Feed(b, "Left")  /\ MoveTo(IF cursor > 0 THEN cursor - 1 ELSE 0)
Right(b) == Feed(b, "Right") /\ MoveTo(IF cursor < Len(line) THEN cursor + 1 ELSE cursor)
Home(b)  == Feed(b, "Home")  /\ MoveTo(0)
End(b)   == Feed(b, "End")   /\ MoveTo(Len(line))

\* The leftmost place from which the line up to n holds only these bytes.
SkipLeft(n, bytes) ==
  CHOOSE m \in 0 .. n : /\ \A i \in m + 1 .. n : line[i] \in bytes
                        /\ m > 0 => line[m] \notin bytes

SkipRight(n, bytes) ==
  CHOOSE m \in n .. Len(line) : /\ \A i \in n + 1 .. m : line[i] \in bytes
                                /\ m < Len(line) => line[m + 1] \notin bytes

\* jump_left: blanks first, then the word; a mark of punctuation stops it.
JumpLeft(b) ==
  Feed(b, "JumpLeft") /\ MoveTo(SkipLeft(SkipLeft(cursor, {Space}), Alphanumeric))
JumpRight(b) ==
  Feed(b, "JumpRight") /\ MoveTo(SkipRight(SkipRight(cursor, Alphanumeric), {Space}))

\* The line becomes l with the cursor at n.
Edited(l, n) ==
  /\ line' = l /\ cursor' = n
  /\ tabLast' = FALSE
  /\ UNCHANGED <<lines, view, lastCommand, open>>

Char(b) ==
  /\ Feed(b, "Char")
  /\ Len(line) < MaxLine
  /\ Edited(Before(cursor) \o <<b>> \o After(cursor), cursor + 1)

Backspace(b) ==
  /\ Feed(b, "Backspace")
  /\ IF cursor > 0 THEN Edited(Before(cursor - 1) \o After(cursor), cursor - 1)
                   ELSE UNCHANGED <<edit, open>>

Delete(b) ==
  /\ Feed(b, "Delete")
  /\ IF cursor < Len(line) THEN Edited(Before(cursor) \o After(cursor + 1), cursor)
                           ELSE UNCHANGED <<edit, open>>

-----------------------------------------------------------------------------
(* History.                                                                *)

\* The cursor stays where it was.
MutantLoad(n) ==
  /\ view' = n
  /\ line' = lines[n]
  /\ tabLast' = FALSE
  /\ UNCHANGED <<cursor, lines, lastCommand, open>>

\* load_history_view of row n.
Load(n) ==
  /\ view' = n
  /\ line' = lines[n] /\ cursor' = Len(lines[n])
  /\ tabLast' = FALSE
  /\ UNCHANGED <<lines, lastCommand, open>>

Up(b) ==
  /\ Feed(b, "Up")
  /\ IF lines = <<>> THEN UNCHANGED <<edit, open>>
     ELSE Load(IF view = 0 THEN Len(lines) ELSE IF view = 1 THEN 1 ELSE view - 1)

Down(b) ==
  /\ Feed(b, "Down")
  /\ IF view = 0 THEN UNCHANGED <<edit, open>>
     ELSE IF view < Len(lines) THEN Load(view + 1)
     ELSE /\ view' = 0
          /\ line' = <<>> /\ cursor' = 0
          /\ UNCHANGED <<lines, lastCommand, tabLast, open>>

\* Leaves out a line that is anywhere in the history.
MutantRemembered(l) ==
  IF l \in ToSet(lines) THEN lines
  ELSE LET all == Append(lines, l)
       IN  IF Len(all) > HistoryMax THEN Tail(all) ELSE all

\* history_insert
Remembered(l) ==
  IF lines # <<>> /\ lines[Len(lines)] = l THEN lines
  ELSE LET all == Append(lines, l)
       IN  IF Len(all) > HistoryMax THEN Tail(all) ELSE all

-----------------------------------------------------------------------------
(* Execution.                                                              *)

\* An automatic session may also hold tabs and the like.
Whitespace == (9 .. 13) \cup {Space}

Trim(s) ==
  LET words == {i \in DOMAIN s : s[i] \notin Whitespace}
  IN  IF words = {} THEN <<>>
      ELSE SubSeq(s, CHOOSE i \in words : \A j \in words : i <= j,
                     CHOOSE i \in words : \A j \in words : i >= j)

\* execute_line: the handler of the command that the first word names runs
\* outside the session and changes nothing in it.
Enter(b) ==
  LET trimmed == Trim(line) IN
  /\ Feed(b, "Enter")
  /\ IF trimmed = <<>> THEN UNCHANGED <<lines, lastCommand>>
     ELSE lastCommand' = trimmed /\ lines' = Remembered(trimmed)
  /\ line' = <<>> /\ cursor' = 0 /\ view' = 0 /\ tabLast' = FALSE
  /\ UNCHANGED open

CtrlC(b) ==
  /\ Feed(b, "CtrlC") \/ Feed(b, "CtrlD")
  /\ open' = FALSE
  /\ UNCHANGED edit

-----------------------------------------------------------------------------
(* Completion.                                                             *)

\* Takes the first candidate for the only one.
MutantComplete(found, common) ==
  /\ line' = CHOOSE c \in found : TRUE
  /\ cursor' = Len(line')
  /\ tabLast' = TRUE

\* Only the first word is completed; a second Tab in a row lists candidates.
Complete(found, common) ==
  /\ IF Len(common) > cursor
     THEN line' = common /\ cursor' = Len(common)
     ELSE IF found = {Before(cursor)}
     THEN line' = Append(line, Space) /\ cursor' = Len(line) + 1
     ELSE UNCHANGED <<line, cursor>>
  /\ tabLast' = TRUE

Tab(b) ==
  LET found == Candidates(commands, Before(cursor)) IN
  /\ Feed(b, "Tab")
  /\ Len(line) <= MaxLine
  /\ IF cursor = 0 \/ Space \in ToSet(Before(cursor)) \/ (found # {} /\ tabLast)
     THEN UNCHANGED <<line, cursor, tabLast>>
     ELSE IF found = {}
     THEN tabLast' = FALSE /\ UNCHANGED <<line, cursor>>
     ELSE Complete(found, LongestCommonPrefix(found))
  /\ UNCHANGED <<lines, view, lastCommand, open>>

-----------------------------------------------------------------------------
(* The automatic mode runs one line and disconnects.                       *)

AutoFeed(b) ==
  /\ open /\ modeAuto /\ b \in Typed
  /\ UNCHANGED <<commands, parser, modeAuto, cursor, lines, view, tabLast>>

AutoLine(b) ==
  LET trimmed == Trim(line) IN
  /\ AutoFeed(b) /\ b \in {0, 10, 13}
  /\ lastCommand' = IF trimmed = <<>> THEN lastCommand ELSE trimmed
  /\ line' = <<>> /\ open' = FALSE

AutoAbort(b) ==
  /\ AutoFeed(b) /\ b \in {3, 4}
  /\ line' = <<>> /\ open' = FALSE
  /\ UNCHANGED lastCommand

AutoByte(b) ==
  /\ AutoFeed(b) /\ b \notin {0, 3, 4, 10, 13}
  /\ Len(line) < MaxLine
  /\ line' = Append(line, b)
  /\ UNCHANGED <<lastCommand, open>>

-----------------------------------------------------------------------------

Ingest(b) ==
  \/ NoKey(b)
  \/ Left(b) \/ Right(b) \/ Home(b) \/ End(b) \/ JumpLeft(b) \/ JumpRight(b)
  \/ Char(b) \/ Backspace(b) \/ Delete(b)
  \/ Up(b) \/ Down(b)
  \/ Enter(b) \/ CtrlC(b) \/ Tab(b)
  \/ AutoLine(b) \/ AutoAbort(b) \/ AutoByte(b)

Next ==
  \/ \E b \in Typed \cup Escaped : Ingest(b)
  \/ RegistryNext /\ UNCHANGED session

Spec == Init /\ [][Next]_vars
-----------------------------------------------------------------------------

TypeOK ==
  /\ RegistryTypeOK
  /\ line \in Seq(Byte) /\ cursor \in Nat
  /\ lines \in Seq(Seq(Byte)) /\ view \in Nat
  /\ lastCommand \in Seq(Byte)
  /\ tabLast \in BOOLEAN /\ modeAuto \in BOOLEAN /\ open \in BOOLEAN
  /\ parser \in ParserState

\* The cursor is in the line and the row shown is in the history, after any
\* keys in any order: line.insert, line[..cursor] and history[index] panic
\* outside of them, and the panic ends the thread that drives the debugger.
IndexesValid == cursor <= Len(line) /\ view <= Len(lines)

\* The history holds the last lines executed, the newest at its end, none
\* twice in a row and no more than it may.
HistoryInOrder ==
  /\ Len(lines) <= HistoryMax
  /\ \A i \in 1 .. Len(lines) - 1 : lines[i] # lines[i + 1]
  /\ ~modeAuto /\ lastCommand # <<>> =>
       lines # <<>> /\ lines[Len(lines)] = lastCommand

\* A Tab lists the candidates only where it has nothing to complete: the word at
\* the cursor is all they have in common.  An edit, a move or a recall that left
\* tab_last set would have the next Tab list instead; history_down, which leaves
\* it alone, and a table that grows between two Tabs do not.
TabCompletesFirst ==
  tabLast /\ cursor > 0 /\ Space \notin ToSet(Before(cursor)) =>
    LET found == Candidates(commands, Before(cursor))
    IN  found # {} /\ LongestCommonPrefix(found) = Before(cursor)

\* A Tab changes the line into the beginning of every candidate there is, or
\* adds a blank to it: it never decides between two commands.
CompletionAgrees ==
  [][tabLast' /\ ~tabLast =>
       \/ line' \in {line, Append(line, Space)}
       \/ /\ IsPrefix(Before(cursor), line')
          /\ \A c \in Candidates(commands, Before(cursor)) : IsPrefix(line', c)]_vars

\* Bytes go on arriving, some of them no part of the text.
FairSpec ==
  Spec /\ WF_vars(\E b \in Escaped : parser # "Main" /\ Ingest(b))

\* An unknown or broken escape sequence does not lock the keyboard: the parser
\* takes the next bytes as keys again.
ParserRecovers == parser # "Main" ~> parser = "Main"
=============================================================================
