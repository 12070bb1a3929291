---------------------------- MODULE MCHelloWorld ----------------------------
(* The example with its five processes for TLC.                            *)
EXTENDS HelloWorld

CONSTANTS D, C0, C1, C2, Flush, Unlink

Children == 0 :> C0 @@ 1 :> C1 @@ 2 :> C2

Introduction ==
  {<<Root, D, "Parent">>, <<Root, C0, "NewInternalDriver">>,
   <<Root, C1, "Parent">>, <<Root, C2, "Parent">>}

NoCalls == {}

\* The debugging server draws the tree from its root on.
DrawsRoot == {<<D, Root>>}

\* The task hides itself when it ends.
HidesItself == {<<"shutdown", C1, FALSE>>}

\* The service in its own thread and one of the root's thread race to register
\* when they are dismissed, one of them both functions.
Registering ==
  {<<"shutdown", C0, Flush>>, <<"shutdown", C0, Unlink>>, <<"shutdown", C2, Flush>>}
=============================================================================
