------------------------------ MODULE Channel ------------------------------
(***************************************************************************)
(* What a tree of blocking pipes promises those at its two ends: whatever  *)
(* is sent, every reader gets, in order, once and in the end; and a reader *)
(* is told Closed when it has got all of it.  There are no queues, links   *)
(* or callers here; Pipe is shown to implement it.                         *)
(***************************************************************************)
EXTENDS Naturals, Sequences

CONSTANTS
  Item,
  Readers

VARIABLES
  sent,     \* what was sent, in order
  got,      \* got[r]: what reader r has got
  closed,   \* nothing more is sent
  told      \* the readers that were told Closed

channel == <<sent, got, closed, told>>

Init ==
  /\ sent = <<>>
  /\ got = [r \in Readers |-> <<>>]
  /\ closed = FALSE
  /\ told = {}

Send(e) ==
  /\ ~closed
  /\ sent' = Append(sent, e)
  /\ UNCHANGED <<got, closed, told>>

Close ==
  /\ closed' = TRUE
  /\ UNCHANGED <<sent, got, told>>

Deliver(r) ==
  /\ Len(got[r]) < Len(sent)
  /\ got' = [got EXCEPT ![r] = Append(@, sent[Len(@) + 1])]
  /\ UNCHANGED <<sent, closed, told>>

Tell(r) ==
  /\ closed /\ got[r] = sent
  /\ told' = told \cup {r}
  /\ UNCHANGED <<sent, got, closed>>

Next ==
  \/ \E e \in Item : Send(e)
  \/ Close
  \/ \E r \in Readers : Deliver(r) \/ Tell(r)

Spec == Init /\ [][Next]_channel

Fairness == \A r \in Readers : WF_channel(Deliver(r)) /\ WF_channel(Tell(r))

FairSpec == Spec /\ Fairness
=============================================================================
