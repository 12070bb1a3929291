------------------------- MODULE MCSystemDebugging -------------------------
(* Two clients of the debugging server for TLC.                            *)
EXTENDS SystemDebugging

CONSTANTS x, y, other

Client(p, sends, leaves) == [port |-> p, sends |-> sends, leaves |-> leaves]

Both(a, b) == [c \in Clients |-> IF c = x THEN a ELSE b]

Terminal == Client("cmd", <<"help", "quit", "help">>, {})
Script   == Client("auto", <<"help", "help">>, {})
Watcher  == Client("tree", <<>>, {})
Quitter  == Client("tree", <<"help", "quit">>, {"close"})
Reader   == Client("log", <<>>, {})
Tuner    == Client("cmd", <<"levelLog", "levelLogSys">>, {})
Leaving(a, leaves) == [a EXCEPT !.leaves = leaves]

\* The pairs of clients that meet: at the terminal and at the automatic port,
\* where one of them leaves; at the tree; at the log with one that tunes it.
Meetings ==
  {Both(Terminal, Terminal), Both(Script, Script),
   Both(Terminal, Leaving(Script, {"half"})), Both(Leaving(Terminal, {"close"}), Script),
   Both(Watcher, Leaving(Watcher, {"half"})), Both(Quitter, Watcher),
   Both(Tuner, Reader), Both(Reader, Leaving(Reader, {"close"}))}

\* A script that sends its line, ends its side and reads on.
OneShots == {Both(Leaving(Script, {"half"}), Script)}

Severities == {Info}
=============================================================================
