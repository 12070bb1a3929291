---------------------------- MODULE Destructors ----------------------------
(***************************************************************************)
(* The global destructors of src/src/processing.rs: a list behind a mutex  *)
(* that application_close holds until the last destructor has returned.    *)
(***************************************************************************)
EXTENDS Sequences, SequencesExt

CONSTANT Destructor   \* the functions that may be registered

VARIABLES
  destructors,   \* GLOBAL_DESTRUCTORS
  application,   \* "Open", "Closing" while application_close runs, "Closed"
  registered,    \* history: the functions in the order they were first registered
  unwound        \* history: the functions in the order they were run

ending == <<destructors, application, registered, unwound>>

DestructorsInit ==
  /\ destructors = <<>>
  /\ application = "Open"
  /\ registered = <<>>
  /\ unwound = <<>>

\* A function is taken as often as it is registered.
MutantInsert(d) == <<d>> \o destructors

Insert(d) == IF Contains(destructors, d) THEN destructors ELSE <<d>> \o destructors

\* register_global_destructor waits for the mutex that application_close holds.
RegisterGlobalDestructor(d) ==
  /\ application # "Closing"
  /\ destructors' = Insert(d)
  /\ registered' = IF Contains(registered, d) THEN registered ELSE Append(registered, d)
  /\ UNCHANGED <<application, unwound>>

ApplicationClose ==
  /\ application = "Open"
  /\ application' = "Closing"
  /\ UNCHANGED <<destructors, registered, unwound>>

RunDestructor ==
  /\ application = "Closing" /\ destructors # <<>>
  /\ unwound' = Append(unwound, Head(destructors))
  /\ destructors' = Tail(destructors)
  /\ UNCHANGED <<application, registered>>

EndClose ==
  /\ application = "Closing" /\ destructors = <<>>
  /\ application' = "Closed"
  /\ UNCHANGED <<destructors, registered, unwound>>

\* What is registered while the application runs, from any thread and however
\* often, is run once when it closes, the last one first.
UnwoundInReverse == unwound \o destructors = Reverse(registered)
=============================================================================
