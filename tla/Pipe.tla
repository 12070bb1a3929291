-------------------------------- MODULE Pipe --------------------------------
(***************************************************************************)
(* The broadcast pipes of src/src/pipe.rs: bounded queues behind a mutex,  *)
(* linked into a tree along which to_push_try copies entries.              *)
(*                                                                         *)
(* commit, get and the setters are one critical section and one action.    *)
(* to_push_try, connect, disconnect and parent_disconnect take several     *)
(* locks one after the other: each lock is a step of the caller, between   *)
(* which any other caller may run.  An entry is a number that tells when   *)
(* it was committed; its two times play no part.                           *)
(***************************************************************************)
EXTENDS Naturals, Sequences, SequencesExt, Retaining

CONSTANTS
  Pipes,
  Callers,     \* threads inside an operation that takes several locks
  NoPipe,
  SizeMax,     \* SizeMax[p]: the size_max p is created with
  Blocking,    \* the pipes with data_blocking at first (the default)
  Wiring,      \* Wiring[p]: the children p has at first, in order
  Pushes,      \* <<t, p>>: t may call p.to_push_try()
  Wirings,     \* <<f, t, p, c>>: t may call p.f(c), c.parent_disconnect() if c = p
  Sources,     \* pipes the application commits to, and then closes
  Sinks,       \* pipes the application gets from
  Quits,       \* pipes whose sink_done_set the application may call
  Tunings,     \* <<p, n, b>>: p.size_max_set(n), p.data_blocking_set(b)
  Drops,       \* pipes whose last handle the application may drop
  MaxCommits   \* bound: how many entries are committed

WiringNames == {"connect", "disconnect", "parent_disconnect"}

ASSUME PipesAssumption ==
  /\ NoPipe \notin Pipes
  /\ SizeMax \in [Pipes -> Nat]
  /\ Wiring \in [Pipes -> Seq(Pipes)]
  /\ Blocking \subseteq Pipes /\ Sources \subseteq Pipes
  /\ Sinks \subseteq Pipes /\ Quits \subseteq Pipes /\ Drops \subseteq Pipes
  /\ Pushes \subseteq Callers \X Pipes
  /\ Wirings \subseteq WiringNames \X Callers \X Pipes \X Pipes
  /\ Tunings \subseteq Pipes \X Nat \X BOOLEAN
  /\ MaxCommits \in Nat

\* The first wiring is the work of connect: a pipe hangs from one link at most.
ASSUME WiringAssumption ==
  \A p, q \in Pipes : \A i \in DOMAIN Wiring[p] : \A j \in DOMAIN Wiring[q] :
    Wiring[p][i] = Wiring[q][j] => p = q /\ i = j

VARIABLES
  pipe,       \* pipe[p]: the PipeState of p
  alive,      \* pipes to which a handle is left
  call,       \* call[t]: the operation t is in, and its local variables
  committed,  \* history: the number of the last entry an application committed
  accepted,   \* history: accepted[p], all entries ever stored in p, in order
  received,   \* history: received[p], all entries get has returned, in order
  ended       \* history: the pipes whose get has returned Closed

vars == <<pipe, alive, call, committed, accepted, received, ended>>
history == <<committed, accepted, received, ended>>

Entry == 1 .. MaxCommits

PipeState ==
  [parents : Seq(Pipes), children : Seq(Pipes), entries : Seq(Entry),
   sizeMax : Nat \ {0}, sourceDone : BOOLEAN, sinkDone : BOOLEAN,
   dataBlocking : BOOLEAN]

\* The parent of p in the first wiring, as the vector it is kept in.
ParentsOf(p) ==
  LET above == {q \in Pipes : p \in ToSet(Wiring[q])}
  IN  IF above = {} THEN <<>> ELSE <<CHOOSE q \in above : TRUE>>

\* size_max.max(1)
AtLeastOne(n) == IF n = 0 THEN 1 ELSE n

\* The definitions named Mutant... are not part of the specification: each is
\* a plausible mistake in the definition after it, which some property refutes.

\* size_max as it was asked for.
MutantNew(p) ==
  [parents |-> ParentsOf(p), children |-> Wiring[p], entries |-> <<>>,
   sizeMax |-> SizeMax[p], sourceDone |-> FALSE, sinkDone |-> FALSE,
   dataBlocking |-> p \in Blocking]

New(p) ==
  [parents |-> ParentsOf(p), children |-> Wiring[p], entries |-> <<>>,
   sizeMax |-> AtLeastOne(SizeMax[p]), sourceDone |-> FALSE, sinkDone |-> FALSE,
   dataBlocking |-> p \in Blocking]

Labels == {"Idle", "Peek", "Check", "Pop", "Push", "Close",
           "Link", "Unlink", "Orphan"}

\* children, dataBlocking, nothingLeft: the snapshot to_push_try begins with;
\* entry: the entry it has peeked; rest: the pipes still to be locked.
Call ==
  [at : Labels, self : Pipes \cup {NoPipe}, children : Seq(Pipes),
   dataBlocking : BOOLEAN, nothingLeft : BOOLEAN, entry : Entry \cup {0},
   rest : Seq(Pipes)]

NoCall ==
  [at |-> "Idle", self |-> NoPipe, children |-> <<>>, dataBlocking |-> FALSE,
   nothingLeft |-> FALSE, entry |-> 0, rest |-> <<>>]

Init ==
  /\ pipe = [p \in Pipes |-> New(p)]
  /\ alive = Pipes
  /\ call = [t \in Callers |-> NoCall]
  /\ committed = 0
  /\ accepted = [p \in Pipes |-> <<>>]
  /\ received = [p \in Pipes |-> <<>>]
  /\ ended = {}

-----------------------------------------------------------------------------
(* Operations of one critical section.                                     *)

IsFull(p) == Len(pipe[p].entries) >= pipe[p].sizeMax

\* The pipes of ps that can still be upgraded from their weak references.
Live(ps) == Retain(ps, alive)

Store(p, e) ==
  /\ pipe' = [pipe EXCEPT ![p].entries = Append(@, e)]
  /\ accepted' = [accepted EXCEPT ![p] = Append(@, e)]

\* commit that is Accepted; one that is Full or Closed changes nothing.
Commit(p) ==
  /\ p \in Sources \cap alive
  /\ committed < MaxCommits
  /\ ~pipe[p].sourceDone /\ ~pipe[p].sinkDone
  /\ ~IsFull(p)
  /\ Store(p, committed + 1)
  /\ committed' = committed + 1
  /\ UNCHANGED <<alive, call, received, ended>>

GetEntry(p) ==
  /\ p \in Sinks \cap alive
  /\ pipe[p].entries # <<>>
  /\ received' = [received EXCEPT ![p] = Append(@, Head(pipe[p].entries))]
  /\ pipe' = [pipe EXCEPT ![p].entries = Tail(@)]
  /\ UNCHANGED <<alive, call, committed, accepted, ended>>

MutantGetClosed(p) ==
  /\ p \in Sinks \cap alive
  /\ pipe[p].entries = <<>>
  /\ ended' = ended \cup {p}
  /\ UNCHANGED <<pipe, alive, call, committed, accepted, received>>

GetClosed(p) ==
  /\ p \in Sinks \cap alive
  /\ pipe[p].entries = <<>> /\ pipe[p].sourceDone
  /\ ended' = ended \cup {p}
  /\ UNCHANGED <<pipe, alive, call, committed, accepted, received>>

Set(p, s) ==
  /\ p \in alive
  /\ pipe' = [pipe EXCEPT ![p] = s]
  /\ UNCHANGED <<alive, call, history>>

SourceDoneSet(p) == p \in Sources /\ Set(p, [pipe[p] EXCEPT !.sourceDone = TRUE])

SinkDoneSet(p) == p \in Quits /\ Set(p, [pipe[p] EXCEPT !.sinkDone = TRUE])

SizeMaxSet(p, n) == Set(p, [pipe[p] EXCEPT !.sizeMax = AtLeastOne(n)])

DataBlockingSet(p, b) == Set(p, [pipe[p] EXCEPT !.dataBlocking = b])

\* t has a handle on p: it is inside an operation on p, or has upgraded it.
Holds(t, p) ==
  \/ call[t].self = p
  \/ call[t].at \in {"Check", "Pop"} /\ p \in ToSet(call[t].children)
  \/ call[t].at \in {"Push", "Close", "Link"} /\ p \in ToSet(call[t].rest)

\* The last handle of p goes.
Drop(p) ==
  /\ p \in Drops \cap alive
  /\ \A t \in Callers : ~Holds(t, p)
  /\ alive' = alive \ {p}
  /\ UNCHANGED <<pipe, call, history>>

-----------------------------------------------------------------------------
(* to_push_try.                                                            *)

BeginPush(t, p) ==
  /\ <<t, p>> \in Pushes /\ p \in alive
  /\ call[t].at = "Idle"
  /\ call' = [call EXCEPT ![t] =
       [NoCall EXCEPT !.at = "Peek", !.self = p,
                      !.children = pipe[p].children,
                      !.dataBlocking = pipe[p].dataBlocking,
                      !.nothingLeft = pipe[p].entries = <<>> /\ pipe[p].sourceDone]]
  /\ UNCHANGED <<pipe, alive, history>>

MutantEndLoop(t) == call' = [call EXCEPT ![t] = NoCall]

\* The call leaves the loop; the children it knows are closed, or it returns.
EndLoop(t) ==
  call' = [call EXCEPT ![t] =
    IF @.nothingLeft
    THEN [@ EXCEPT !.at = "Close", !.rest = Live(call[t].children)]
    ELSE NoCall]

Peek(t) ==
  LET entries == pipe[call[t].self].entries
      live    == Live(call[t].children) IN
  /\ call[t].at = "Peek"
  /\ IF entries = <<>> \/ live = <<>>
     THEN EndLoop(t)
     ELSE call' = [call EXCEPT ![t].at = "Check", ![t].entry = Head(entries),
                               ![t].children = live, ![t].rest = live]
  /\ UNCHANGED <<pipe, alive, history>>

\* would_block without regard to data_blocking.
MutantCheck(t) ==
  /\ call[t].at = "Check"
  /\ call' = IF call[t].rest = <<>> \/ IsFull(Head(call[t].rest))
             THEN [call EXCEPT ![t].at = "Pop"]
             ELSE [call EXCEPT ![t].rest = Tail(@)]
  /\ UNCHANGED <<pipe, alive, history>>

\* would_block: the children are locked in turn until one of them is full.
Check(t) ==
  /\ call[t].at = "Check"
  /\ IF call[t].rest = <<>>
     THEN call' = [call EXCEPT ![t].at = "Pop"]
     ELSE IF ~IsFull(Head(call[t].rest))
     THEN call' = [call EXCEPT ![t].rest = Tail(@)]
     ELSE IF call[t].dataBlocking
     THEN EndLoop(t)
     ELSE call' = [call EXCEPT ![t].at = "Pop"]
  /\ UNCHANGED <<pipe, alive, history>>

\* The entry that was peeked stays in the queue.
MutantPop(t) ==
  /\ call[t].at = "Pop"
  /\ call' = [call EXCEPT ![t].at = "Push", ![t].rest = call[t].children]
  /\ UNCHANGED <<pipe, alive, history>>

\* Pops whatever is the front by now, peeked or not, if there is any.
Pop(t) ==
  /\ call[t].at = "Pop"
  /\ pipe' = [pipe EXCEPT ![call[t].self].entries =
                IF @ = <<>> THEN @ ELSE Tail(@)]
  /\ call' = [call EXCEPT ![t].at = "Push", ![t].rest = call[t].children]
  /\ UNCHANGED <<alive, history>>

\* Stores without a second test for room.
MutantPushChild(t) ==
  LET c == Head(call[t].rest) IN
  /\ call[t].at = "Push" /\ call[t].rest # <<>>
  /\ Store(c, call[t].entry)
  /\ call' = [call EXCEPT ![t].rest = Tail(@)]
  /\ UNCHANGED <<alive, committed, received, ended>>

PushChild(t) ==
  LET c == Head(call[t].rest) IN
  /\ call[t].at = "Push" /\ call[t].rest # <<>>
  /\ IF IsFull(c) THEN UNCHANGED <<pipe, accepted>> ELSE Store(c, call[t].entry)
  /\ call' = [call EXCEPT ![t].rest = Tail(@)]
  /\ UNCHANGED <<alive, committed, received, ended>>

EndPush(t) ==
  /\ call[t].at = "Push" /\ call[t].rest = <<>>
  /\ call' = [call EXCEPT ![t].at = "Peek", ![t].entry = 0]
  /\ UNCHANGED <<pipe, alive, history>>

CloseChild(t) ==
  /\ call[t].at = "Close" /\ call[t].rest # <<>>
  /\ pipe' = [pipe EXCEPT ![Head(call[t].rest)].sourceDone = TRUE]
  /\ call' = [call EXCEPT ![t].rest = Tail(@)]
  /\ UNCHANGED <<alive, history>>

EndClose(t) ==
  /\ call[t].at = "Close" /\ call[t].rest = <<>>
  /\ call' = [call EXCEPT ![t] = NoCall]
  /\ UNCHANGED <<pipe, alive, history>>

-----------------------------------------------------------------------------
(* connect, disconnect and parent_disconnect.                              *)

Without(ps, c) == Retain(ps, alive \ {c})

BeginWiring(f, t, p, c) ==
  /\ <<f, t, p, c>> \in Wirings /\ {p, c} \subseteq alive
  /\ call[t].at = "Idle"

MutantConnect(t, p, c) ==
  /\ BeginWiring("connect", t, p, c)
  /\ pipe' = [pipe EXCEPT ![c].parents = <<p>>]
  /\ call' = [call EXCEPT ![t] =
                [NoCall EXCEPT !.at = "Link", !.self = p, !.rest = <<c>>]]
  /\ UNCHANGED <<alive, history>>

\* A child that has a parent is not connected again.
Connect(t, p, c) ==
  /\ BeginWiring("connect", t, p, c)
  /\ pipe[c].parents = <<>>
  /\ pipe' = [pipe EXCEPT ![c].parents = <<p>>]
  /\ call' = [call EXCEPT ![t] =
                [NoCall EXCEPT !.at = "Link", !.self = p, !.rest = <<c>>]]
  /\ UNCHANGED <<alive, history>>

Link(t) ==
  /\ call[t].at = "Link"
  /\ pipe' = [pipe EXCEPT ![call[t].self].children = @ \o call[t].rest]
  /\ call' = [call EXCEPT ![t] = NoCall]
  /\ UNCHANGED <<alive, history>>

Disconnect(t, p, c) ==
  /\ BeginWiring("disconnect", t, p, c)
  /\ pipe' = [pipe EXCEPT ![p].children = Without(@, c)]
  /\ call' = [call EXCEPT ![t] = [NoCall EXCEPT !.at = "Orphan", !.self = c]]
  /\ UNCHANGED <<alive, history>>

ParentDisconnect(t, c) ==
  /\ BeginWiring("parent_disconnect", t, c, c)
  /\ call' = [call EXCEPT ![t] =
       [NoCall EXCEPT !.at = "Unlink", !.self = c, !.rest = pipe[c].parents]]
  /\ UNCHANGED <<pipe, alive, history>>

MutantUnlink(t) ==
  /\ call[t].at = "Unlink"
  /\ call' = [call EXCEPT ![t].at = "Orphan"]
  /\ UNCHANGED <<pipe, alive, history>>

Unlink(t) ==
  LET c == call[t].self IN
  /\ call[t].at = "Unlink"
  /\ IF call[t].rest = <<>>
     THEN /\ call' = [call EXCEPT ![t].at = "Orphan"]
          /\ UNCHANGED pipe
     ELSE /\ pipe' = [pipe EXCEPT ![Head(call[t].rest)].children = Without(@, c)]
          /\ call' = [call EXCEPT ![t].rest = Tail(@)]
  /\ UNCHANGED <<alive, history>>

Orphan(t) ==
  /\ call[t].at = "Orphan"
  /\ pipe' = [pipe EXCEPT ![call[t].self].parents = <<>>]
  /\ call' = [call EXCEPT ![t] = NoCall]
  /\ UNCHANGED <<alive, history>>

-----------------------------------------------------------------------------

PushStep(t) ==
  \/ Peek(t)
  \/ Check(t)
  \/ Pop(t)
  \/ PushChild(t)
  \/ EndPush(t)
  \/ CloseChild(t)
  \/ EndClose(t)

WiringStep(t) ==
  \/ \E p, c \in Pipes : Connect(t, p, c) \/ Disconnect(t, p, c)
  \/ \E c \in Pipes : ParentDisconnect(t, c)
  \/ Link(t)
  \/ Unlink(t)
  \/ Orphan(t)

UserStep(p) ==
  \/ Commit(p)
  \/ GetEntry(p)
  \/ GetClosed(p)
  \/ SourceDoneSet(p)
  \/ SinkDoneSet(p)
  \/ \E tuning \in Tunings :
       tuning[1] = p /\ (SizeMaxSet(p, tuning[2]) \/ DataBlockingSet(p, tuning[3]))
  \/ Drop(p)

Next ==
  \/ \E t \in Callers : \/ \E p \in Pipes : BeginPush(t, p)
                        \/ PushStep(t)
                        \/ WiringStep(t)
  \/ \E p \in Pipes : UserStep(p)

Spec == Init /\ [][Next]_vars
-----------------------------------------------------------------------------
(* What the application keeps to, where a property needs it: the code asks *)
(* for none of it and tests none of it.                                    *)

\* The pipes c may ever hang from.
Above(c) ==
  {p \in Pipes : \/ c \in ToSet(Wiring[p])
                 \/ \E t \in Callers : <<"connect", t, p, c>> \in Wirings}

\* A pipe is hung and unhung by one caller.
OneHand == \A v, w \in Wirings : v[4] = w[4] => v[2] = w[2]

\* disconnect is only called for a pipe that can hang from nothing else.
OwnParent == \A w \in Wirings : w[1] = "disconnect" => Above(w[4]) \subseteq {w[3]}

\* Of all a pipe may hang from only one is pushed, and by one caller.
OneFeed ==
  \A u, v \in Pushes : \A c \in Pipes : {u[2], v[2]} \subseteq Above(c) => u = v

\* The application commits to no pipe that is fed by another.
SourcesAreRoots == \A u \in Pushes : \A s \in Sources : u[2] \notin Above(s)

\* The wiring stays as it is at first, and so do size_max and data_blocking; a
\* pipe with children blocks, nobody but the caller who pushes it reads it, and
\* nobody else commits to its children.
Steady ==
  /\ Wirings = {} /\ Tunings = {} /\ Drops = {}
  /\ \A p \in Pipes : Wiring[p] # <<>> =>
       p \in Blocking \ Sinks /\ ToSet(Wiring[p]) \cap Sources = {}

\* There is one pipe the application commits to.
OneSource == \E s \in Pipes : Sources = {s}

-----------------------------------------------------------------------------
(* Safety.                                                                 *)

TypeOK ==
  /\ pipe \in [Pipes -> PipeState]
  /\ alive \subseteq Pipes
  /\ call \in [Callers -> Call]
  /\ committed \in 0 .. MaxCommits
  /\ accepted \in [Pipes -> Seq(Entry)]
  /\ received \in [Pipes -> Seq(Entry)]
  /\ ended \subseteq Pipes

Sizes(p) ==
  {AtLeastOne(SizeMax[p])}
    \cup {AtLeastOne(tuning[2]) : tuning \in {u \in Tunings : u[1] = p}}

\* No pipe holds more than the largest size_max it was ever given, although
\* to_push_try tests for room, unlocks, pops and only then stores.
Bounded ==
  \A p \in Pipes : \E n \in Sizes(p) : Len(pipe[p].entries) <= n

\* What a caller of p.to_push_try() has popped and not stored in c yet.
InFlight(p, c) ==
  IF \E t \in Callers : /\ call[t].self = p /\ call[t].at = "Push"
                        /\ \E i \in DOMAIN call[t].rest : call[t].rest[i] = c
  THEN <<call[CHOOSE t \in Callers : call[t].self = p /\ call[t].at = "Push"].entry>>
  ELSE <<>>

\* A blocking pipe that one caller pushes loses, repeats and reorders nothing:
\* its stream is what the child has got, what is on the way, what is queued.
StreamConserved ==
  \A p \in Pipes : \A i \in DOMAIN pipe[p].children :
    LET c == pipe[p].children[i]
    IN  accepted[p] = accepted[c] \o InFlight(p, c) \o pipe[p].entries

\* Any pipe, blocking or not, hands entries on in the order of their commit
\* and none twice; what a full child misses is left out.
InOrder ==
  \A p \in Pipes : \A i, j \in DOMAIN received[p] :
    i < j => received[p][i] < received[p][j]

\* Closed is final: get returns no entry after it.
ClosedIsFinal ==
  [][\A c \in ended : received'[c] = received[c]]_vars

\* A pipe is fed by one parent and over one link, whatever is connected,
\* disconnected and connected again.
OneFeeder ==
  \A c \in alive : \A p, q \in alive :
    \A i \in DOMAIN pipe[p].children : \A j \in DOMAIN pipe[q].children :
      pipe[p].children[i] = c /\ pipe[q].children[j] = c => <<p, i>> = <<q, j>>

\* Between two wiring operations both ends of a link agree on it.
LinksAgree ==
  (\A t \in Callers : call[t].at \notin {"Link", "Unlink", "Orphan"}) =>
    \A p, c \in alive :
      (\E i \in DOMAIN pipe[p].children : pipe[p].children[i] = c)
        <=> (\E i \in DOMAIN pipe[c].parents : pipe[c].parents[i] = p)

\* broadcast_reaches_all_children: when no push is under way, every entry that
\* has left a pipe has reached each of its children.
BroadcastReachesAll ==
  (\A t \in Callers : call[t].at = "Idle") =>
    \A p \in Pipes : \A i \in DOMAIN pipe[p].children :
      LET c == pipe[p].children[i]
      IN  ToSet(accepted[p]) \ ToSet(pipe[p].entries) \subseteq ToSet(accepted[c])

-----------------------------------------------------------------------------
(* Liveness.  The callers of to_push_try call it again and again, and the  *)
(* readers go on reading.                                                  *)

Fairness ==
  /\ \A t \in Callers :
       WF_vars(PushStep(t) \/ \E p \in Pipes : BeginPush(t, p))
  /\ \A p \in Pipes : WF_vars(GetEntry(p)) /\ WF_vars(GetClosed(p))

FairSpec == Spec /\ Fairness

\* A tree of blocking pipes as those at its ends see it: the one who commits to
\* its one source and those who get from its leaves.
TheSource == CHOOSE s \in Sources : TRUE

Broadcast == INSTANCE Channel WITH
  Item    <- Entry,
  Readers <- Sinks,
  sent    <- accepted[TheSource],
  got     <- [c \in Sinks |-> received[c]],
  closed  <- pipe[TheSource].sourceDone,
  told    <- ended

\* The tree is a reliable broadcast channel: however small the queues and
\* however the callers of to_push_try run, no reader misses or repeats an entry,
\* each one arrives in the end, and Closed comes last and does come.
Delivers == Broadcast!FairSpec
=============================================================================
