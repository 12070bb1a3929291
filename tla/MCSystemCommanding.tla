------------------------- MODULE MCSystemCommanding -------------------------
(* A session over a few bytes for TLC.                                     *)
EXTENDS SystemCommanding

\* "ab" and later "aa": a word to complete, then one to choose from.
Help == [id |-> <<97, 98>>, shortcut |-> <<104>>, group |-> 1]
Late == [id |-> <<97, 97>>, shortcut |-> <<>>, group |-> 2]
OnlyHelp == <<Help>>
LateOnly == {Late}

\* a, b and blank; Enter, Tab, Backspace, Escape, Ctrl-C, the telnet IAC, a byte
\* without meaning, and the end of an automatic line.
SomeTyped == {97, 98, 32, 13, 9, 127, 27, 3, 255, 1}

\* [ A B C D F H 1 3 5 ; ~ and a letter no sequence knows
SomeEscaped == {91, 65, 66, 67, 68, 70, 72, 49, 51, 53, 59, 126, 97}
=============================================================================
