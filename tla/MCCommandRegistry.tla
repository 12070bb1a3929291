------------------------- MODULE MCCommandRegistry -------------------------
(* Commands for TLC: help, h = help; hd; and short names of the application. *)
EXTENDS CommandRegistry

Help == [id |-> <<104, 101>>, shortcut |-> <<104>>, group |-> 1]
HexDump == [id |-> <<104, 100>>, shortcut |-> <<>>, group |-> 1]
Both == <<Help, HexDump>>

\* No id is a shortcut; ids share prefixes, shortcuts clash with each other.
Apart ==
  [id : {<<97>>, <<97, 98>>, <<98>>, <<104, 101>>}, shortcut : {<<>>, <<120>>, <<121>>, <<104>>},
   group : 0 .. 2]

\* Ids and shortcuts are drawn from the same names, those of Both among them; the
\* groups come before and behind that of Both by name.  One joins Both's group.
LevelLog == [id |-> <<108>>, shortcut |-> <<>>, group |-> 1]
Clashing ==
  [id : {<<97>>, <<104>>}, shortcut : {<<>>, <<97>>, <<104, 101>>, <<104, 100>>},
   group : {0, 2}] \cup {LevelLog}

\* Each run keeps to the condition of its property.
ASSUME RunsAreApart ==
  /\ AppCommands = Apart => NamesApart
  /\ AppCommands = Clashing => BuiltinsApart
=============================================================================
