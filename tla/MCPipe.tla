------------------------------- MODULE MCPipe -------------------------------
(* Small trees of pipes for TLC.                                           *)
EXTENDS Pipe

CONSTANTS S, M, A, B, pusher, relay

\* S feeds M, which broadcasts to A and B; each has a caller of its own.
Tree == [p \in Pipes |-> CASE p = S -> <<M>> [] p = M -> <<A, B>> [] OTHER -> <<>>]
TreePushes == {<<pusher, S>>, <<relay, M>>}

\* S broadcasts to A and B.
Star == [p \in Pipes |-> IF p = S THEN <<A, B>> ELSE <<>>]
OnePusher == {<<pusher, S>>}
TwoPushers == {<<pusher, S>>, <<relay, S>>}

Small == [p \in Pipes |-> IF p = M THEN 0 ELSE IF p = A THEN 2 ELSE 1]
Two == [p \in Pipes |-> 2]
None == {}

\* A is moved between S and M by one caller; only an edge is disconnected.
Moves == {<<"connect", relay, S, A>>, <<"connect", relay, M, A>>,
          <<"parent_disconnect", relay, A, A>>}
Rewire == Moves \cup {<<"connect", relay, M, B>>, <<"disconnect", relay, M, B>>}

\* The application turns the blocking of S off and shrinks A meanwhile.
MovedTunings == {<<S, 1, FALSE>>, <<A, 1, TRUE>>}

\* Nothing is linked at first.
Loose == [p \in Pipes |-> <<>>]

\* The runs keep to what the theorems ask of the application.
ASSUME RunsAreCareful ==
  /\ OneHand /\ OwnParent /\ SourcesAreRoots /\ OneSource
  /\ OneFeed \/ Pushes = TwoPushers
  /\ Wirings # {} \/ Steady
=============================================================================
