---------------------------- MODULE MCProcessing ----------------------------
(* Trees of three processes for TLC.                                       *)
EXTENDS Processing

CONSTANTS A, B

Internal == "NewInternalDriver"

\* The root starts a service with a thread of its own, which starts a task and
\* drives it.
ChainOfParents == {<<Root, A, Internal>>, <<A, B, "Parent">>}

\* The root starts a service that the application drives, which starts a task
\* with a thread of its own.
WithExternal == {<<Root, B, "ExternalDriver">>, <<B, A, Internal>>}

NoCalls == {}

\* The service dismisses its task, or itself.
TaskCalls == {<<"repel", A, B>>, <<"unused_set", A, A>>}

\* Every call of a ProcessContext, on the child and on the process itself.
SingleCalls ==
  {<<f, Root, A>> : f \in CallNames} \cup {<<"unused_set", A, A>>}

Single == {<<Root, A, Internal>>}
=============================================================================
