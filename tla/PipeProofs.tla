----------------------------- MODULE PipeProofs -----------------------------
(***************************************************************************)
(* Theorems about Pipe, for every set of pipes and callers, every first    *)
(* wiring and all sizes: its type invariant, the bound of the queues, and  *)
(* the agreement of both ends of a link.                                   *)
(***************************************************************************)
EXTENDS Pipe, SequenceLemmas

-----------------------------------------------------------------------------
(* Types.                                                                  *)

\* A call that is under way is on a pipe; one that has peeked has an entry.
Frames ==
  {f \in Call : /\ f.at # "Idle" => f.self \in Pipes
                /\ f.at \in {"Check", "Pop", "Push"} => f.entry \in Entry}

TypeInv == TypeOK /\ call \in [Callers -> Frames]

\* What retain and filter_map leave of pipes are pipes.
LEMMA RetainType ==
  ASSUME NEW ps \in Seq(Pipes), NEW S
  PROVE  Retain(ps, S) \in Seq(Pipes)
<1>1. Retain(ps, S) \in Seq({ps[i] : i \in 1 .. Len(ps)})
  BY RetainProperties DEF RetainIs
<1>2. {ps[i] : i \in 1 .. Len(ps)} \subseteq Pipes
  BY ElementOfSeq
<1> QED BY <1>1, <1>2, SeqMonotonic

LEMMA NoCallType == NoCall \in Frames
  BY DEF NoCall, Frames, Call, Labels

LEMMA ParentsType ==
  ASSUME NEW p \in Pipes
  PROVE  ParentsOf(p) \in Seq(Pipes)
BY DEF ParentsOf

\* The pipes begin well typed: size_max is at least one.
LEMMA InitTypes ==
  ASSUME Init PROVE TypeInv
<1>1. ASSUME NEW p \in Pipes PROVE New(p) \in PipeState
  <2>1. SizeMax[p] \in Nat /\ Wiring[p] \in Seq(Pipes) /\ <<>> \in Seq(Entry)
    BY PipesAssumption
  <2>2. AtLeastOne(SizeMax[p]) \in Nat \ {0}
    BY <2>1 DEF AtLeastOne
  <2> QED BY <2>1, <2>2, ParentsType DEF New, PipeState
<1>2. NoCall \in Call
  BY NoCallType DEF Frames
<1>3. MaxCommits \in Nat
  BY PipesAssumption
<1> QED BY <1>1, <1>2, <1>3, NoCallType DEF Init, TypeInv, TypeOK

\* One field of one pipe is set.
LEMMA SetTypes ==
  ASSUME TypeInv, NEW p, NEW s \in PipeState, pipe' = [pipe EXCEPT ![p] = s]
  PROVE  pipe' \in [Pipes -> PipeState]
BY DEF TypeInv, TypeOK

\* One caller goes on.
LEMMA CallTypes ==
  ASSUME TypeInv, NEW t, NEW f \in Frames, call' = [call EXCEPT ![t] = f]
  PROVE  call' \in [Callers -> Call] /\ call' \in [Callers -> Frames]
BY DEF TypeInv, TypeOK, Frames

\* An entry is stored.
LEMMA StoreTypes ==
  ASSUME TypeInv, NEW p \in Pipes, NEW e \in Entry, Store(p, e)
  PROVE  /\ pipe' \in [Pipes -> PipeState]
         /\ accepted' \in [Pipes -> Seq(Entry)]
<1>1. pipe[p] \in PipeState /\ accepted[p] \in Seq(Entry)
  BY DEF TypeInv, TypeOK
<1>2. [pipe[p] EXCEPT !.entries = Append(@, e)] \in PipeState
  <2>1. pipe[p].entries \in Seq(Entry)
    BY <1>1 DEF PipeState
  <2>2. Append(pipe[p].entries, e) \in Seq(Entry)
    BY <2>1, AppendProperties
  <2> QED BY <1>1, <2>2 DEF PipeState
<1>3. pipe' = [pipe EXCEPT ![p] = [pipe[p] EXCEPT !.entries = Append(@, e)]]
  BY DEF Store
<1> QED BY <1>1, <1>2, <1>3, SetTypes DEF Store, TypeInv, TypeOK

\* EndLoop leads to a frame again.
LEMMA EndLoopTypes ==
  ASSUME TypeInv, NEW t \in Callers, call[t].at # "Idle", EndLoop(t)
  PROVE  call' \in [Callers -> Call] /\ call' \in [Callers -> Frames]
<1>1. call[t] \in Frames /\ call[t].children \in Seq(Pipes)
  BY DEF TypeInv, Frames, Call
<1>2. Live(call[t].children) \in Seq(Pipes)
  BY <1>1, RetainType DEF Live
<1>3. [call[t] EXCEPT !.at = "Close", !.rest = Live(call[t].children)] \in Frames
  BY <1>1, <1>2 DEF Frames, Call, Labels
<1>4. CASE call[t].nothingLeft
  BY <1>3, <1>4, CallTypes DEF EndLoop
<1>5. CASE ~call[t].nothingLeft
  BY <1>5, NoCallType, CallTypes DEF EndLoop
<1> QED BY <1>4, <1>5

\* The queue of one pipe loses its first entry.
LEMMA TailTypes ==
  ASSUME TypeInv, NEW p \in Pipes, pipe[p].entries # <<>>,
         pipe' = [pipe EXCEPT ![p].entries = Tail(@)]
  PROVE  /\ pipe' \in [Pipes -> PipeState]
         /\ Head(pipe[p].entries) \in Entry
<1>1. pipe[p] \in PipeState
  BY DEF TypeInv, TypeOK
<1>2. pipe[p].entries \in Seq(Entry)
  BY <1>1 DEF PipeState
<1>3. Tail(pipe[p].entries) \in Seq(Entry) /\ Head(pipe[p].entries) \in Entry
  BY <1>2, HeadTailProperties
<1>4. [pipe[p] EXCEPT !.entries = Tail(@)] \in PipeState
  BY <1>1, <1>3 DEF PipeState
<1>5. pipe' = [pipe EXCEPT ![p] = [pipe[p] EXCEPT !.entries = Tail(@)]]
  OBVIOUS
<1> QED BY <1>3, <1>4, <1>5, SetTypes

\* The operations of one critical section keep the types.
LEMMA UserTypes ==
  ASSUME TypeInv, NEW p \in Pipes, UserStep(p)
  PROVE  TypeInv'
<1> USE PipesAssumption
<1>1. pipe[p] \in PipeState
  BY DEF TypeInv, TypeOK
<1>2. CASE Commit(p)
  <2>1. committed + 1 \in Entry /\ committed + 1 \in 0 .. MaxCommits
    BY <1>2 DEF Commit, TypeInv, TypeOK, Entry
  <2>2. Store(p, committed + 1)
    BY <1>2 DEF Commit
  <2> QED BY <1>2, <2>1, <2>2, StoreTypes DEF Commit, TypeInv, TypeOK
<1>3. CASE GetEntry(p)
  <2>1. pipe' \in [Pipes -> PipeState] /\ Head(pipe[p].entries) \in Entry
    BY <1>3, TailTypes DEF GetEntry
  <2>2. received[p] \in Seq(Entry)
    BY DEF TypeInv, TypeOK
  <2>3. Append(received[p], Head(pipe[p].entries)) \in Seq(Entry)
    BY <2>1, <2>2, AppendProperties
  <2> QED BY <1>3, <2>1, <2>3 DEF GetEntry, TypeInv, TypeOK
<1>4. CASE GetClosed(p)
  BY <1>4 DEF GetClosed, TypeInv, TypeOK
<1>5. CASE SourceDoneSet(p)
  <2>1. [pipe[p] EXCEPT !.sourceDone = TRUE] \in PipeState
    BY <1>1 DEF PipeState
  <2> QED BY <1>5, <2>1, SetTypes DEF SourceDoneSet, Set, TypeInv, TypeOK, history
<1>6. CASE SinkDoneSet(p)
  <2>1. [pipe[p] EXCEPT !.sinkDone = TRUE] \in PipeState
    BY <1>1 DEF PipeState
  <2> QED BY <1>6, <2>1, SetTypes DEF SinkDoneSet, Set, TypeInv, TypeOK, history
<1>7. ASSUME NEW n \in Nat, SizeMaxSet(p, n) PROVE TypeInv'
  <2>0. AtLeastOne(n) \in Nat \ {0}
    BY <1>7 DEF AtLeastOne
  <2>1. [pipe[p] EXCEPT !.sizeMax = AtLeastOne(n)] \in PipeState
    BY <1>1, <2>0 DEF PipeState
  <2> QED BY <1>7, <2>1, SetTypes DEF SizeMaxSet, Set, TypeInv, TypeOK, history
<1>8. ASSUME NEW b \in BOOLEAN, DataBlockingSet(p, b) PROVE TypeInv'
  <2>1. [pipe[p] EXCEPT !.dataBlocking = b] \in PipeState
    BY <1>1 DEF PipeState
  <2> QED BY <1>8, <2>1, SetTypes DEF DataBlockingSet, Set, TypeInv, TypeOK, history
<1>9. CASE Drop(p)
  BY <1>9 DEF Drop, TypeInv, TypeOK, history
<1> QED BY <1>2, <1>3, <1>4, <1>5, <1>6, <1>7, <1>8, <1>9 DEF UserStep

\* The steps of to_push_try keep the types.
LEMMA PushTypes ==
  ASSUME TypeInv, NEW t \in Callers, PushStep(t)
  PROVE  TypeInv'
<1> USE PipesAssumption
<1> DEFINE f == call[t]
<1>1. /\ f \in Frames /\ f \in Call /\ f.children \in Seq(Pipes)
      /\ f.rest \in Seq(Pipes)
  BY DEF TypeInv, TypeOK, Call
<1>2. f.at # "Idle" => f.self \in Pipes /\ pipe[f.self] \in PipeState
  BY <1>1 DEF TypeInv, TypeOK, Frames
<1>3. f.rest # <<>> => Head(f.rest) \in Pipes /\ Tail(f.rest) \in Seq(Pipes)
  BY <1>1, HeadTailProperties
<1>4. CASE Peek(t)
  <2> DEFINE entries == pipe[f.self].entries  live == Live(f.children)
  <2>1. live \in Seq(Pipes)
    BY <1>1, RetainType DEF Live
  <2>2. CASE entries = <<>> \/ live = <<>>
    BY <1>4, <2>2, EndLoopTypes DEF Peek, TypeInv, TypeOK, history
  <2>3. CASE ~(entries = <<>> \/ live = <<>>)
    <3>1. entries \in Seq(Entry)
      BY <1>2, <1>4 DEF Peek, PipeState
    <3>2. Head(entries) \in Entry
      BY <2>3, <3>1, HeadTailProperties
    <3> DEFINE g == [f EXCEPT !.at = "Check", !.entry = Head(entries),
                              !.children = live, !.rest = live]
    <3>3. g \in Frames
      BY <1>1, <1>2, <1>4, <2>1, <3>2 DEF Peek, Frames, Call, Labels
    <3>4. call' = [call EXCEPT ![t] = g]
      BY <1>4, <2>3 DEF Peek
    <3> QED BY <1>4, <3>3, <3>4, CallTypes DEF Peek, TypeInv, TypeOK, history
  <2> QED BY <2>2, <2>3
<1>5. CASE Check(t)
  <2>1. [f EXCEPT !.at = "Pop"] \in Frames
    BY <1>1, <1>2, <1>5 DEF Check, Frames, Call, Labels
  <2>2. f.rest # <<>> => [f EXCEPT !.rest = Tail(@)] \in Frames
    BY <1>1, <1>2, <1>3, <1>5 DEF Check, Frames, Call, Labels
  <2>3. \/ call' = [call EXCEPT ![t] = [f EXCEPT !.at = "Pop"]]
        \/ f.rest # <<>> /\ call' = [call EXCEPT ![t] = [f EXCEPT !.rest = Tail(@)]]
        \/ EndLoop(t)
    BY <1>5 DEF Check
  <2>4. call' \in [Callers -> Call] /\ call' \in [Callers -> Frames]
    BY <1>5, <2>1, <2>2, <2>3, CallTypes, EndLoopTypes DEF Check
  <2> QED BY <1>5, <2>4 DEF Check, TypeInv, TypeOK, history
<1>6. CASE Pop(t)
  <2>1. [f EXCEPT !.at = "Push", !.rest = f.children] \in Frames
    BY <1>1, <1>2, <1>6 DEF Pop, Frames, Call, Labels
  <2>2. call' = [call EXCEPT ![t] = [f EXCEPT !.at = "Push", !.rest = f.children]]
    BY <1>6 DEF Pop
  <2>3. f.self \in Pipes
    BY <1>2, <1>6 DEF Pop
  <2>4. CASE pipe[f.self].entries = <<>>
    <3>1. pipe' = pipe
      BY <1>2, <1>6, <2>3, <2>4 DEF Pop, TypeInv, TypeOK, PipeState
    <3> QED BY <1>6, <2>1, <2>2, <3>1, CallTypes DEF Pop, TypeInv, TypeOK, history
  <2>5. CASE pipe[f.self].entries # <<>>
    <3>1. pipe' = [pipe EXCEPT ![f.self].entries = Tail(@)]
      BY <1>6, <2>3, <2>5 DEF Pop
    <3>2. call' \in [Callers -> Call] /\ call' \in [Callers -> Frames]
      BY <2>1, <2>2, CallTypes
    <3>3. pipe' \in [Pipes -> PipeState]
      BY <2>3, <2>5, <3>1, TailTypes DEF TypeInv, TypeOK
    <3> QED BY <1>6, <3>2, <3>3 DEF Pop, TypeInv, TypeOK, history
  <2> QED BY <2>4, <2>5
<1>7. CASE PushChild(t)
  <2>1. [f EXCEPT !.rest = Tail(@)] \in Frames /\ f.entry \in Entry
    BY <1>1, <1>2, <1>3, <1>7 DEF PushChild, Frames, Call, Labels
  <2>2. call' = [call EXCEPT ![t] = [f EXCEPT !.rest = Tail(@)]]
    BY <1>7 DEF PushChild
  <2>3. Head(f.rest) \in Pipes
    BY <1>3, <1>7 DEF PushChild
  <2>4. UNCHANGED <<pipe, accepted>> \/ Store(Head(f.rest), f.entry)
    BY <1>7 DEF PushChild
  <2>5. pipe' \in [Pipes -> PipeState] /\ accepted' \in [Pipes -> Seq(Entry)]
    BY <2>1, <2>3, <2>4, StoreTypes DEF TypeInv, TypeOK
  <2> QED BY <1>7, <2>1, <2>2, <2>5, CallTypes DEF PushChild, TypeInv, TypeOK
<1>8. CASE EndPush(t)
  <2>1. [f EXCEPT !.at = "Peek", !.entry = 0] \in Frames
    BY <1>1, <1>2, <1>8 DEF EndPush, Frames, Call, Labels
  <2>2. call' = [call EXCEPT ![t] = [f EXCEPT !.at = "Peek", !.entry = 0]]
    BY <1>8 DEF EndPush
  <2> QED BY <1>8, <2>1, <2>2, CallTypes DEF EndPush, TypeInv, TypeOK, history
<1>9. CASE CloseChild(t)
  <2>1. [f EXCEPT !.rest = Tail(@)] \in Frames
    BY <1>1, <1>2, <1>3, <1>9 DEF CloseChild, Frames, Call, Labels
  <2>2. call' = [call EXCEPT ![t] = [f EXCEPT !.rest = Tail(@)]]
    BY <1>9 DEF CloseChild
  <2> DEFINE c == Head(f.rest)
  <2>3. c \in Pipes /\ pipe[c] \in PipeState
    BY <1>3, <1>9 DEF CloseChild, TypeInv, TypeOK
  <2>4. [pipe[c] EXCEPT !.sourceDone = TRUE] \in PipeState
    BY <2>3 DEF PipeState
  <2>5. pipe' = [pipe EXCEPT ![c] = [pipe[c] EXCEPT !.sourceDone = TRUE]]
    BY <1>9 DEF CloseChild
  <2> HIDE DEF c
  <2> QED BY <1>9, <2>1, <2>2, <2>4, <2>5, CallTypes, SetTypes
          DEF CloseChild, TypeInv, TypeOK, history
<1>10. CASE EndClose(t)
  BY <1>10, NoCallType, CallTypes DEF EndClose, TypeInv, TypeOK, history
<1> QED BY <1>4, <1>5, <1>6, <1>7, <1>8, <1>9, <1>10 DEF PushStep

\* One list of one pipe is set.
LEMMA ListTypes ==
  ASSUME TypeInv, NEW p, NEW ps \in Seq(Pipes),
         \/ pipe' = [pipe EXCEPT ![p].children = ps]
         \/ pipe' = [pipe EXCEPT ![p].parents = ps]
  PROVE  pipe' \in [Pipes -> PipeState]
<1>1. CASE p \in Pipes
  <2>1. pipe[p] \in PipeState
    BY <1>1 DEF TypeInv, TypeOK
  <2>2. /\ [pipe[p] EXCEPT !.children = ps] \in PipeState
        /\ [pipe[p] EXCEPT !.parents = ps] \in PipeState
    BY <2>1 DEF PipeState
  <2>3. \/ pipe' = [pipe EXCEPT ![p] = [pipe[p] EXCEPT !.children = ps]]
        \/ pipe' = [pipe EXCEPT ![p] = [pipe[p] EXCEPT !.parents = ps]]
    OBVIOUS
  <2> QED BY <2>2, <2>3, SetTypes
<1>2. CASE p \notin Pipes
  BY <1>2 DEF TypeInv, TypeOK
<1> QED BY <1>1, <1>2

\* The steps of connect, disconnect and parent_disconnect keep the types.
LEMMA WiringTypes ==
  ASSUME TypeInv, NEW t \in Callers, WiringStep(t)
  PROVE  TypeInv'
<1> USE PipesAssumption
<1> DEFINE f == call[t]
<1>1. /\ f \in Frames /\ f \in Call /\ f.rest \in Seq(Pipes)
      /\ \A p \in Pipes : /\ pipe[p] \in PipeState
                           /\ pipe[p].children \in Seq(Pipes)
                           /\ pipe[p].parents \in Seq(Pipes)
  BY DEF TypeInv, TypeOK, Call, PipeState
<1>2. ASSUME NEW p \in Pipes, NEW c \in Pipes, Connect(t, p, c) PROVE TypeInv'
  <2>1. [NoCall EXCEPT !.at = "Link", !.self = p, !.rest = <<c>>] \in Frames
    <3>1. <<c>> \in Seq(Pipes)
      OBVIOUS
    <3> QED BY <3>1, NoCallType DEF Frames, Call, Labels
  <2>2. pipe' = [pipe EXCEPT ![c].parents = <<p>>] /\ <<p>> \in Seq(Pipes)
    BY <1>2 DEF Connect
  <2> QED BY <1>2, <2>1, <2>2, CallTypes, ListTypes DEF Connect, TypeInv, TypeOK, history
<1>3. ASSUME NEW p \in Pipes, NEW c \in Pipes, Disconnect(t, p, c) PROVE TypeInv'
  <2>1. [NoCall EXCEPT !.at = "Orphan", !.self = c] \in Frames
    BY NoCallType DEF NoCall, Frames, Call, Labels
  <2> DEFINE ps == Without(pipe[p].children, c)
  <2>2. pipe' = [pipe EXCEPT ![p].children = ps] /\ ps \in Seq(Pipes)
    BY <1>1, <1>3, RetainType DEF Disconnect, Without
  <2> HIDE DEF ps
  <2> QED BY <1>3, <2>1, <2>2, CallTypes, ListTypes DEF Disconnect, TypeInv, TypeOK, history
<1>4. ASSUME NEW c \in Pipes, ParentDisconnect(t, c) PROVE TypeInv'
  <2>1. [NoCall EXCEPT !.at = "Unlink", !.self = c, !.rest = pipe[c].parents] \in Frames
    BY <1>1, NoCallType DEF Frames, Call, Labels
  <2> QED BY <1>4, <2>1, CallTypes DEF ParentDisconnect, TypeInv, TypeOK, history
<1>5. CASE Link(t)
  <2> DEFINE ps == pipe[f.self].children \o f.rest
  <2>0. f.self \in Pipes
    BY <1>1, <1>5 DEF Link, Frames
  <2>1. pipe' = [pipe EXCEPT ![f.self].children = ps] /\ ps \in Seq(Pipes)
    BY <1>1, <1>5, <2>0, ConcatProperties DEF Link
  <2> HIDE DEF ps
  <2> QED BY <1>5, <2>1, NoCallType, CallTypes, ListTypes DEF Link, TypeInv, TypeOK, history
<1>6. CASE Unlink(t)
  <2>1. CASE f.rest = <<>>
    <3>1. [f EXCEPT !.at = "Orphan"] \in Frames
      BY <1>1, <1>6 DEF Unlink, Frames, Call, Labels
    <3>2. call' = [call EXCEPT ![t] = [f EXCEPT !.at = "Orphan"]]
      BY <1>6, <2>1 DEF Unlink
    <3> QED BY <1>6, <2>1, <3>1, <3>2, CallTypes DEF Unlink, TypeInv, TypeOK, history
  <2>2. CASE f.rest # <<>>
    <3>1. Head(f.rest) \in Pipes /\ Tail(f.rest) \in Seq(Pipes)
      BY <1>1, <2>2, HeadTailProperties
    <3> DEFINE ps == Without(pipe[Head(f.rest)].children, f.self)
    <3>2. pipe' = [pipe EXCEPT ![Head(f.rest)].children = ps] /\ ps \in Seq(Pipes)
      BY <1>1, <1>6, <2>2, <3>1, RetainType DEF Unlink, Without
    <3>3. [f EXCEPT !.rest = Tail(@)] \in Frames
      BY <1>1, <1>6, <3>1 DEF Unlink, Frames, Call, Labels
    <3>4. call' = [call EXCEPT ![t] = [f EXCEPT !.rest = Tail(@)]]
      BY <1>6, <2>2 DEF Unlink
    <3> HIDE DEF ps
    <3> QED BY <1>6, <3>2, <3>3, <3>4, CallTypes, ListTypes DEF Unlink, TypeInv, TypeOK, history
  <2> QED BY <2>1, <2>2
<1>7. CASE Orphan(t)
  <2>1. /\ <<>> \in Seq(Pipes)
        /\ pipe' = [pipe EXCEPT ![f.self].parents = <<>>]
        /\ call' = [call EXCEPT ![t] = NoCall]
    BY <1>7 DEF Orphan
  <2>2. pipe' \in [Pipes -> PipeState]
    BY <2>1, ListTypes
  <2>3. call' \in [Callers -> Call] /\ call' \in [Callers -> Frames]
    BY <2>1, NoCallType, CallTypes
  <2> QED BY <1>7, <2>2, <2>3 DEF Orphan, TypeInv, TypeOK, history
<1> QED BY <1>2, <1>3, <1>4, <1>5, <1>6, <1>7 DEF WiringStep

\* Types are kept by every step.
LEMMA NextTypes ==
  ASSUME TypeInv, [Next]_vars
  PROVE  TypeInv'
<1>1. ASSUME NEW t \in Callers, NEW p \in Pipes, BeginPush(t, p) PROVE TypeInv'
  <2> DEFINE left == pipe[p].entries = <<>> /\ pipe[p].sourceDone
             g == [NoCall EXCEPT !.at = "Peek", !.self = p,
                      !.children = pipe[p].children,
                      !.dataBlocking = pipe[p].dataBlocking,
                      !.nothingLeft = left]
  <2>1. pipe[p].children \in Seq(Pipes) /\ pipe[p].dataBlocking \in BOOLEAN
    BY DEF TypeInv, TypeOK, PipeState
  <2>3. call' = [call EXCEPT ![t] = g]
    BY <1>1 DEF BeginPush
  <2>4. left \in BOOLEAN
    OBVIOUS
  <2> HIDE DEF left
  <2>2. g \in Frames
    BY <2>1, <2>4, NoCallType DEF Frames, Call, Labels
  <2> HIDE DEF g
  <2> QED BY <1>1, <2>2, <2>3, CallTypes DEF BeginPush, TypeInv, TypeOK, history
<1>2. CASE UNCHANGED vars
  BY <1>2 DEF vars, TypeInv, TypeOK
<1> QED BY <1>1, <1>2, UserTypes, PushTypes, WiringTypes DEF Next

LEMMA TypeInvariant == Spec => []TypeInv
<1>1. Init => TypeInv
  BY InitTypes
<1>2. TypeInv /\ [Next]_vars => TypeInv'
  BY NextTypes
<1> QED BY <1>1, <1>2, PTL DEF Spec

\* TypeOK holds always, whatever the application connects, pushes or closes.
THEOREM PipesTypeCorrect == Spec => []TypeOK
<1>1. TypeInv => TypeOK
  BY DEF TypeInv
<1> QED BY <1>1, TypeInvariant, PTL

-----------------------------------------------------------------------------
(* The bound of the queues.                                                *)

\* What a step does to a queue and its limit.
QueueKept(p) ==
  /\ \/ pipe'[p].sizeMax = pipe[p].sizeMax
     \/ \E u \in Tunings : u[1] = p /\ pipe'[p].sizeMax = AtLeastOne(u[2])
  /\ \/ Len(pipe'[p].entries) <= Len(pipe[p].entries)
     \/ /\ Len(pipe[p].entries) < pipe[p].sizeMax
        /\ Len(pipe'[p].entries) = Len(pipe[p].entries) + 1

\* Everything but the two lists of a pipe is as it was.
SameQueue(p) ==
  /\ pipe'[p].entries = pipe[p].entries
  /\ pipe'[p].sizeMax = pipe[p].sizeMax
  /\ pipe'[p].sourceDone = pipe[p].sourceDone
  /\ pipe'[p].dataBlocking = pipe[p].dataBlocking

\* Wiring leaves the queues alone.
LEMMA WiringQueues ==
  ASSUME TypeInv, NEW t \in Callers, WiringStep(t)
  PROVE  (\A p \in Pipes : SameQueue(p)) /\ UNCHANGED history
<1>1. pipe \in [Pipes -> PipeState]
  BY DEF TypeInv, TypeOK
<1>2. \/ pipe' = pipe
      \/ \E x : \/ \E ps : pipe' = [pipe EXCEPT ![x].children = ps]
                \/ \E ps : pipe' = [pipe EXCEPT ![x].parents = ps]
  <2>1. ASSUME NEW p \in Pipes, NEW c \in Pipes, Connect(t, p, c) PROVE <1>2!1 \/ <1>2!2
    BY <2>1 DEF Connect
  <2>2. ASSUME NEW p \in Pipes, NEW c \in Pipes, Disconnect(t, p, c) PROVE <1>2!1 \/ <1>2!2
    BY <2>2 DEF Disconnect
  <2>3. ASSUME NEW c \in Pipes, ParentDisconnect(t, c) PROVE <1>2!1 \/ <1>2!2
    BY <2>3 DEF ParentDisconnect
  <2>4. CASE Link(t)
    BY <2>4 DEF Link
  <2>5. CASE Unlink(t)
    BY <2>5 DEF Unlink
  <2>6. CASE Orphan(t)
    BY <2>6 DEF Orphan
  <2> QED BY <2>1, <2>2, <2>3, <2>4, <2>5, <2>6 DEF WiringStep
<1>3. ASSUME NEW p \in Pipes PROVE SameQueue(p)
  <2>1. pipe[p] \in PipeState
    BY <1>1
  <2>2. ASSUME NEW x, NEW ps, pipe' = [pipe EXCEPT ![x].children = ps]
        PROVE  SameQueue(p)
    BY <1>1, <2>1, <2>2 DEF SameQueue, PipeState
  <2>3. ASSUME NEW x, NEW ps, pipe' = [pipe EXCEPT ![x].parents = ps]
        PROVE  SameQueue(p)
    BY <1>1, <2>1, <2>3 DEF SameQueue, PipeState
  <2> QED BY <1>2, <2>2, <2>3 DEF SameQueue
<1>4. UNCHANGED history
  BY DEF WiringStep, Connect, Disconnect, ParentDisconnect, Link, Unlink, Orphan
<1> QED BY <1>3, <1>4

\* Both lists of a pipe are as they were.
ListsKept(p) ==
  /\ pipe'[p].children = pipe[p].children
  /\ pipe'[p].parents = pipe[p].parents

\* An entry is stored where there is room.
LEMMA StoreQueues ==
  ASSUME TypeInv, NEW p \in Pipes, NEW e \in Entry, Store(p, e), ~IsFull(p)
  PROVE  \A q \in Pipes : QueueKept(q) /\ ListsKept(q)
<1>1. pipe \in [Pipes -> PipeState] /\ pipe[p] \in PipeState
  BY DEF TypeInv, TypeOK
<1>2. pipe[p].entries \in Seq(Entry) /\ pipe[p].sizeMax \in Nat
  BY <1>1 DEF PipeState
<1>3. Len(pipe[p].entries) \in Nat /\ Len(pipe[p].entries) < pipe[p].sizeMax
  BY <1>2, LenProperties DEF IsFull
<1>4. Len(Append(pipe[p].entries, e)) = Len(pipe[p].entries) + 1
  BY <1>2, AppendProperties
<1>5. pipe' = [pipe EXCEPT ![p].entries = Append(@, e)]
  BY DEF Store
<1>6. ASSUME NEW q \in Pipes PROVE QueueKept(q) /\ ListsKept(q)
  <2>1. pipe[q] \in PipeState
    BY <1>1
  <2>2. pipe[q].entries \in Seq(Entry)
    BY <2>1 DEF PipeState
  <2>3. Len(pipe[q].entries) \in Nat
    BY <2>2, LenProperties
  <2>4. CASE q = p
    BY <1>1, <1>3, <1>4, <1>5, <2>4 DEF QueueKept, ListsKept, PipeState
  <2>5. CASE q # p
    BY <1>1, <1>5, <2>3, <2>5 DEF QueueKept, ListsKept
  <2> QED BY <2>4, <2>5
<1> QED BY <1>6

\* A queue loses its first entry.
LEMMA TailQueues ==
  ASSUME TypeInv, NEW p \in Pipes, pipe[p].entries # <<>>,
         pipe' = [pipe EXCEPT ![p].entries = Tail(@)]
  PROVE  \A q \in Pipes : QueueKept(q) /\ ListsKept(q)
<1>1. pipe \in [Pipes -> PipeState] /\ pipe[p] \in PipeState
  BY DEF TypeInv, TypeOK
<1>2. pipe[p].entries \in Seq(Entry)
  BY <1>1 DEF PipeState
<1>3. /\ Len(pipe[p].entries) \in Nat
      /\ Len(Tail(pipe[p].entries)) = Len(pipe[p].entries) - 1
  BY <1>2, LenProperties, HeadTailProperties
<1>4. ASSUME NEW q \in Pipes PROVE QueueKept(q) /\ ListsKept(q)
  <2>1. pipe[q] \in PipeState
    BY <1>1
  <2>2. pipe[q].entries \in Seq(Entry)
    BY <2>1 DEF PipeState
  <2>3. Len(pipe[q].entries) \in Nat
    BY <2>2, LenProperties
  <2>4. CASE q = p
    BY <1>1, <1>3, <2>4 DEF QueueKept, ListsKept, PipeState
  <2>5. CASE q # p
    BY <1>1, <2>3, <2>5 DEF QueueKept, ListsKept
  <2> QED BY <2>4, <2>5
<1> QED BY <1>4

\* No other field has to do with the queues and the lists.
LEMMA QuietQueues ==
  ASSUME TypeInv,
         \/ pipe' = pipe
         \/ \E p : pipe' = [pipe EXCEPT ![p].sourceDone = TRUE]
         \/ \E p : pipe' = [pipe EXCEPT ![p] = [pipe[p] EXCEPT !.sourceDone = TRUE]]
         \/ \E p : pipe' = [pipe EXCEPT ![p] = [pipe[p] EXCEPT !.sinkDone = TRUE]]
         \/ \E p, b : pipe' = [pipe EXCEPT ![p] = [pipe[p] EXCEPT !.dataBlocking = b]]
         \/ \E u \in Tunings :
              pipe' = [pipe EXCEPT ![u[1]] = [pipe[u[1]] EXCEPT !.sizeMax = AtLeastOne(u[2])]]
  PROVE  \A q \in Pipes : QueueKept(q) /\ ListsKept(q)
<1>1. pipe \in [Pipes -> PipeState]
  BY DEF TypeInv, TypeOK
<1>2. ASSUME NEW q \in Pipes PROVE QueueKept(q) /\ ListsKept(q)
  <2>1. pipe[q] \in PipeState
    BY <1>1
  <2>2. pipe[q].entries \in Seq(Entry)
    BY <2>1 DEF PipeState
  <2>3. Len(pipe[q].entries) \in Nat
    BY <2>2, LenProperties
  <2>4. ASSUME NEW p, pipe' = [pipe EXCEPT ![p].sourceDone = TRUE] PROVE <1>2!2
    BY <1>1, <2>1, <2>3, <2>4 DEF QueueKept, ListsKept, PipeState
  <2>5. ASSUME NEW p, pipe' = [pipe EXCEPT ![p] = [pipe[p] EXCEPT !.sourceDone = TRUE]]
        PROVE  <1>2!2
    BY <1>1, <2>1, <2>3, <2>5 DEF QueueKept, ListsKept, PipeState
  <2>6. ASSUME NEW p, pipe' = [pipe EXCEPT ![p] = [pipe[p] EXCEPT !.sinkDone = TRUE]]
        PROVE  <1>2!2
    BY <1>1, <2>1, <2>3, <2>6 DEF QueueKept, ListsKept, PipeState
  <2>7. ASSUME NEW p, NEW b,
               pipe' = [pipe EXCEPT ![p] = [pipe[p] EXCEPT !.dataBlocking = b]]
        PROVE  <1>2!2
    BY <1>1, <2>1, <2>3, <2>7 DEF QueueKept, ListsKept, PipeState
  <2>8. ASSUME NEW u \in Tunings,
               pipe' = [pipe EXCEPT ![u[1]] = [pipe[u[1]] EXCEPT !.sizeMax = AtLeastOne(u[2])]]
        PROVE  <1>2!2
    BY <1>1, <2>1, <2>3, <2>8 DEF QueueKept, ListsKept, PipeState
  <2>9. CASE pipe' = pipe
    BY <2>3, <2>9 DEF QueueKept, ListsKept
  <2> QED BY <2>4, <2>5, <2>6, <2>7, <2>8, <2>9
<1> QED BY <1>2

LEMMA UserQueues ==
  ASSUME TypeInv, NEW p \in Pipes, UserStep(p)
  PROVE  \A q \in Pipes : QueueKept(q) /\ ListsKept(q)
<1>1. CASE Commit(p)
  <2>1. committed + 1 \in Entry /\ Store(p, committed + 1) /\ ~IsFull(p)
    BY <1>1, PipesAssumption DEF Commit, TypeInv, TypeOK, Entry
  <2> QED BY <2>1, StoreQueues
<1>2. CASE GetEntry(p)
  BY <1>2, TailQueues DEF GetEntry
<1>3. CASE GetClosed(p)
  BY <1>3, QuietQueues DEF GetClosed
<1>4. CASE SourceDoneSet(p)
  BY <1>4, QuietQueues DEF SourceDoneSet, Set
<1>5. CASE SinkDoneSet(p)
  BY <1>5, QuietQueues DEF SinkDoneSet, Set
<1>6. ASSUME NEW u \in Tunings, u[1] = p, SizeMaxSet(p, u[2]) PROVE \A q \in Pipes : QueueKept(q) /\ ListsKept(q)
  BY <1>6, QuietQueues DEF SizeMaxSet, Set
<1>7. ASSUME NEW b, DataBlockingSet(p, b) PROVE \A q \in Pipes : QueueKept(q) /\ ListsKept(q)
  BY <1>7, QuietQueues DEF DataBlockingSet, Set
<1>8. CASE Drop(p)
  BY <1>8, QuietQueues DEF Drop
<1> QED BY <1>1, <1>2, <1>3, <1>4, <1>5, <1>6, <1>7, <1>8 DEF UserStep

LEMMA PushQueues ==
  ASSUME TypeInv, NEW t \in Callers, PushStep(t)
  PROVE  \A q \in Pipes : QueueKept(q) /\ ListsKept(q)
<1>1. call[t] \in Frames /\ call[t].rest \in Seq(Pipes)
  BY DEF TypeInv, TypeOK, Call
<1>2. CASE Pop(t)
  <2>1. call[t].self \in Pipes
    BY <1>1, <1>2 DEF Pop, Frames
  <2>2. CASE pipe[call[t].self].entries = <<>>
    <3>1. pipe' = pipe
      BY <1>2, <2>1, <2>2 DEF Pop, TypeInv, TypeOK, PipeState
    <3> QED BY <3>1, QuietQueues
  <2>3. CASE pipe[call[t].self].entries # <<>>
    <3>1. pipe' = [pipe EXCEPT ![call[t].self].entries = Tail(@)]
      BY <1>2, <2>1, <2>3 DEF Pop
    <3> QED BY <2>1, <2>3, <3>1, TailQueues
  <2> QED BY <2>2, <2>3
<1>3. CASE PushChild(t)
  <2>1. Head(call[t].rest) \in Pipes /\ call[t].entry \in Entry
    BY <1>1, <1>3, HeadTailProperties DEF PushChild, Frames
  <2>2. \/ pipe' = pipe
        \/ ~IsFull(Head(call[t].rest)) /\ Store(Head(call[t].rest), call[t].entry)
    BY <1>3 DEF PushChild
  <2> QED BY <2>1, <2>2, StoreQueues, QuietQueues
<1>4. CASE CloseChild(t)
  BY <1>4, QuietQueues DEF CloseChild
<1>5. CASE Peek(t) \/ Check(t) \/ EndPush(t) \/ EndClose(t)
  <2>1. pipe' = pipe
    BY <1>5 DEF Peek, Check, EndPush, EndClose
  <2> QED BY <2>1, QuietQueues
<1> QED BY <1>2, <1>3, <1>4, <1>5 DEF PushStep

\* Every step keeps a queue to its limit, whoever takes it.
LEMMA NextQueues ==
  ASSUME TypeInv, [Next]_vars
  PROVE  \A p \in Pipes : QueueKept(p)
<1>1. ASSUME NEW t \in Callers, WiringStep(t) PROVE \A p \in Pipes : QueueKept(p)
  <2>1. ASSUME NEW p \in Pipes PROVE QueueKept(p)
    <3>1. SameQueue(p)
      BY <1>1, WiringQueues
    <3>2. pipe[p].entries \in Seq(Entry)
      BY DEF TypeInv, TypeOK, PipeState
    <3>3. Len(pipe[p].entries) \in Nat
      BY <3>2, LenProperties
    <3> QED BY <3>1, <3>3 DEF SameQueue, QueueKept
  <2> QED BY <2>1
<1>2. ASSUME NEW t \in Callers, NEW p \in Pipes, BeginPush(t, p)
      PROVE  \A q \in Pipes : QueueKept(q)
  BY <1>2, QuietQueues DEF BeginPush
<1>3. CASE UNCHANGED vars
  BY <1>3, QuietQueues DEF vars
<1> QED BY <1>1, <1>2, <1>3, UserQueues, PushQueues DEF Next

\* size_max is always one of those it was given: with that Bounded is inductive.
BoundInv ==
  \A p \in Pipes : /\ pipe[p].sizeMax \in Sizes(p)
                   /\ \E n \in Sizes(p) : Len(pipe[p].entries) <= n

\* Bounded holds always: to_push_try tests for room, unlocks, pops and stores
\* under another lock, and still no queue grows beyond the largest size_max it
\* was given, however many callers push and whatever is tuned meanwhile.
THEOREM QueuesAlwaysBounded == Spec => []Bounded
<1>1. ASSUME NEW p \in Pipes PROVE Sizes(p) \subseteq Nat
  BY PipesAssumption DEF Sizes, AtLeastOne
<1>2. Init => BoundInv
  <2>1. SUFFICES ASSUME Init, NEW p \in Pipes
        PROVE  /\ pipe[p].sizeMax \in Sizes(p)
               /\ \E n \in Sizes(p) : Len(pipe[p].entries) <= n
    BY DEF BoundInv
  <2>2. pipe[p].sizeMax = AtLeastOne(SizeMax[p]) /\ Len(pipe[p].entries) = 0
    BY <2>1 DEF Init, New
  <2>3. AtLeastOne(SizeMax[p]) \in Sizes(p)
    BY DEF Sizes
  <2>4. AtLeastOne(SizeMax[p]) \in Nat
    BY <1>1, <2>3
  <2> QED BY <2>2, <2>3, <2>4
<1>3. TypeInv /\ BoundInv /\ [Next]_vars => BoundInv'
  <2>1. SUFFICES ASSUME TypeInv, BoundInv, [Next]_vars, NEW p \in Pipes
        PROVE  /\ pipe'[p].sizeMax \in Sizes(p)
               /\ \E n \in Sizes(p) : Len(pipe'[p].entries) <= n
    BY DEF BoundInv
  <2>2. QueueKept(p) /\ pipe'[p] \in PipeState /\ pipe[p] \in PipeState
    BY <2>1, NextQueues, NextTypes DEF TypeInv, TypeOK
  <2>3. pipe[p].entries \in Seq(Entry) /\ pipe'[p].entries \in Seq(Entry)
    BY <2>2 DEF PipeState
  <2>4. Len(pipe[p].entries) \in Nat /\ Len(pipe'[p].entries) \in Nat
    BY <2>3, LenProperties
  <2>5. pipe'[p].sizeMax \in Sizes(p)
    BY <2>1, <2>2 DEF BoundInv, QueueKept, Sizes
  <2>6. \E n \in Sizes(p) : Len(pipe'[p].entries) <= n
    <3>1. CASE Len(pipe'[p].entries) <= Len(pipe[p].entries)
      BY <1>1, <2>1, <2>4, <3>1 DEF BoundInv
    <3>2. CASE /\ Len(pipe[p].entries) < pipe[p].sizeMax
               /\ Len(pipe'[p].entries) = Len(pipe[p].entries) + 1
      <4>1. pipe[p].sizeMax \in Sizes(p) /\ pipe[p].sizeMax \in Nat
        BY <1>1, <2>1 DEF BoundInv
      <4> QED BY <2>4, <3>2, <4>1
    <3> QED BY <2>2, <3>1, <3>2 DEF QueueKept
  <2> QED BY <2>5, <2>6
<1>4. BoundInv => Bounded
  BY DEF BoundInv, Bounded
<1> QED BY <1>2, <1>3, <1>4, TypeInvariant, PTL DEF Spec

-----------------------------------------------------------------------------
(* The links.                                                              *)

kids == [p \in Pipes |-> ToSet(pipe[p].children)]

\* The pipe a caller is about to hang or to unhang.
Target(f) == IF f.at = "Link" THEN Head(f.rest) ELSE f.self

Wires(f) == f.at \in {"Link", "Unlink", "Orphan"}

\* A pipe has one parent at most, and one it may hang from.
HangsFromOne ==
  \A c, q \in Pipes :
    q \in ToSet(pipe[c].parents) => pipe[c].parents = <<q>> /\ q \in Above(c)

\* Who has a child is its parent, and has it once.
LinksKnown ==
  /\ \A p, c \in Pipes : c \in kids[p] => pipe[c].parents = <<p>>
  /\ \A p \in Pipes : Once(pipe[p].children)

\* Whoever is inside connect or a disconnect is the one who may wire its target.
HandsOn ==
  \A t \in Callers : Wires(call[t]) =>
    /\ Target(call[t]) \in Pipes
    /\ \E w \in Wirings : w[2] = t /\ w[4] = Target(call[t])

\* Where connect and the two disconnects are between two of their locks.
HalfWired ==
  \A t \in Callers :
    /\ call[t].at = "Link" =>
         /\ call[t].rest = <<Target(call[t])>>
         /\ pipe[Target(call[t])].parents = <<call[t].self>>
         /\ Target(call[t]) \notin kids[call[t].self]
    /\ call[t].at = "Unlink" =>
         \A p \in Pipes : call[t].self \in kids[p] => p \in ToSet(call[t].rest)
    /\ call[t].at = "Orphan" => \A p \in Pipes : call[t].self \notin kids[p]

\* Who has a parent is its child, or is being wired.
ParentsKnown ==
  \A c \in alive : \A p \in Pipes : pipe[c].parents = <<p>> =>
    \/ c \in kids[p]
    \/ \E t \in Callers : Wires(call[t]) /\ Target(call[t]) = c

LinkInv == HangsFromOne /\ LinksKnown /\ HandsOn /\ HalfWired /\ ParentsKnown

Careful == OneHand /\ OwnParent

\* The first wiring agrees at both ends.
LEMMA InitLinks ==
  ASSUME Init PROVE LinkInv
<1> USE PipesAssumption
<1>1. ASSUME NEW p \in Pipes
      PROVE  /\ pipe[p].children = Wiring[p] /\ pipe[p].parents = ParentsOf(p)
             /\ Wiring[p] \in Seq(Pipes)
             /\ ToSet(Wiring[p]) = {Wiring[p][i] : i \in 1 .. Len(Wiring[p])}
  BY ToSetIs DEF Init, New
<1>2. ASSUME NEW p \in Pipes, NEW c \in ToSet(Wiring[p]), NEW q \in Pipes, c \in ToSet(Wiring[q])
      PROVE  p = q
  <2>1. PICK i \in DOMAIN Wiring[p] : Wiring[p][i] = c
    BY DEF ToSet
  <2>2. PICK j \in DOMAIN Wiring[q] : Wiring[q][j] = c
    BY <1>2 DEF ToSet
  <2> QED BY <2>1, <2>2, WiringAssumption
<1>3. ASSUME NEW p \in Pipes, NEW c \in Pipes, c \in ToSet(Wiring[p]) PROVE ParentsOf(c) = <<p>>
  BY <1>2, <1>3 DEF ParentsOf
<1>4. ASSUME NEW c \in Pipes, NEW q \in Pipes, q \in ToSet(ParentsOf(c))
      PROVE  ParentsOf(c) = <<q>> /\ c \in ToSet(Wiring[q])
  <2> DEFINE above == {p \in Pipes : c \in ToSet(Wiring[p])}
  <2>1. above # {} /\ ParentsOf(c) = <<CHOOSE p \in above : TRUE>>
    BY <1>4, ToSetSingle DEF ParentsOf
  <2>2. q = CHOOSE p \in above : TRUE
    BY <1>4, <2>1, ToSetSingle
  <2> QED BY <2>1, <2>2
<1>5. HangsFromOne
  BY <1>1, <1>4 DEF HangsFromOne, Above
<1>6. LinksKnown
  <2>1. ASSUME NEW p \in Pipes PROVE Once(pipe[p].children)
    <3>1. DOMAIN Wiring[p] = 1 .. Len(Wiring[p])
      BY <1>1, LenProperties
    <3>2. \A i, j \in DOMAIN Wiring[p] : Wiring[p][i] = Wiring[p][j] => i = j
      BY WiringAssumption
    <3>3. Once(Wiring[p])
      BY <3>1, <3>2 DEF Once
    <3> QED BY <1>1, <3>3
  <2> QED BY <1>1, <1>3, <2>1 DEF LinksKnown, kids
<1>7. HandsOn /\ HalfWired
  BY DEF Init, NoCall, HandsOn, HalfWired, Wires
<1>8. ParentsKnown
  <2>1. SUFFICES ASSUME NEW c \in Pipes, NEW p \in Pipes, pipe[c].parents = <<p>>
        PROVE  c \in kids[p]
    BY DEF ParentsKnown, Init
  <2>3. ParentsOf(c) = <<p>>
    BY <1>1, <2>1
  <2>4. p \in ToSet(<<p>>)
    BY ToSetSingle
  <2>2. p \in ToSet(ParentsOf(c))
    BY <2>3, <2>4
  <2> QED BY <1>1, <1>4, <2>2 DEF kids
<1> QED BY <1>5, <1>6, <1>7, <1>8 DEF LinkInv

\* A step in which nobody wires and nothing is linked keeps all of it.
LEMMA StillLinks ==
  ASSUME LinkInv, alive' \subseteq alive,
         \A p \in Pipes : ListsKept(p),
         \A t \in Callers : \/ call'[t] = call[t]
                            \/ ~Wires(call[t]) /\ ~Wires(call'[t]),
         TypeInv
  PROVE  LinkInv'
<1>1. \A p \in Pipes : pipe'[p].children = pipe[p].children /\ pipe'[p].parents = pipe[p].parents
  BY DEF ListsKept
<1>2. \A p \in Pipes : kids'[p] = kids[p]
  BY <1>1 DEF kids
<1>3. \A t \in Callers : Wires(call'[t]) \/ Wires(call[t]) => call'[t] = call[t]
  OBVIOUS
<1>4. HangsFromOne' /\ LinksKnown'
  BY <1>1, <1>2 DEF LinkInv, HangsFromOne, LinksKnown, kids
<1>5. HandsOn'
  BY <1>3 DEF LinkInv, HandsOn
<1>6. HalfWired'
  <2>1. ASSUME NEW t \in Callers, Wires(call'[t])
        PROVE  /\ call'[t] = call[t] /\ call[t].self \in Pipes
               /\ Target(call[t]) \in Pipes
    BY <1>3, <2>1 DEF LinkInv, HandsOn, TypeInv, Frames, Wires
  <2>2. ASSUME NEW t \in Callers, call'[t].at = "Link"
        PROVE  /\ call'[t].rest = <<Target(call'[t])>>
               /\ pipe'[Target(call'[t])].parents = <<call'[t].self>>
               /\ Target(call'[t]) \notin kids'[call'[t].self]
    <3>1. /\ call[t].at = "Link" /\ call[t].self \in Pipes
          /\ Target(call[t]) \in Pipes /\ call'[t] = call[t]
      BY <2>1, <2>2 DEF Wires
    <3>2. /\ call[t].rest = <<Target(call[t])>>
          /\ pipe[Target(call[t])].parents = <<call[t].self>>
          /\ Target(call[t]) \notin kids[call[t].self]
      BY <3>1 DEF LinkInv, HalfWired
    <3> QED BY <1>1, <1>2, <3>1, <3>2
  <2>3. ASSUME NEW t \in Callers, call'[t].at = "Unlink"
        PROVE  \A q \in Pipes : call'[t].self \in kids'[q] => q \in ToSet(call'[t].rest)
    BY <1>2, <2>1, <2>3 DEF LinkInv, HalfWired, Wires
  <2>4. ASSUME NEW t \in Callers, call'[t].at = "Orphan"
        PROVE  \A q \in Pipes : call'[t].self \notin kids'[q]
    BY <1>2, <2>1, <2>4 DEF LinkInv, HalfWired, Wires
  <2> QED BY <2>2, <2>3, <2>4 DEF HalfWired
<1>7. ParentsKnown'
  <2>1. SUFFICES ASSUME NEW c \in alive', NEW p \in Pipes, pipe'[c].parents = <<p>>
        PROVE  \/ c \in kids'[p]
               \/ \E t \in Callers : Wires(call'[t]) /\ Target(call'[t]) = c
    BY DEF ParentsKnown
  <2>2. c \in alive /\ c \in Pipes /\ pipe[c].parents = <<p>>
    BY <1>1, <2>1 DEF TypeInv, TypeOK
  <2> QED BY <1>2, <1>3, <2>2 DEF LinkInv, ParentsKnown
<1> QED BY <1>4, <1>5, <1>6, <1>7 DEF LinkInv

\* Nobody else is wiring what t may wire.
LEMMA Alone ==
  ASSUME LinkInv, Careful, NEW t \in Callers, NEW u \in Callers, Wires(call[u]),
         NEW w \in Wirings, w[2] = t, w[4] = Target(call[u])
  PROVE  t = u
BY DEF LinkInv, HandsOn, Careful, OneHand

LEMMA HeadOrTail ==
  ASSUME NEW P, NEW s \in Seq(P), s # <<>>
  PROVE  ToSet(s) = {Head(s)} \cup ToSet(Tail(s))
<1>1. /\ Tail(s) \in Seq(P) /\ Len(Tail(s)) = Len(s) - 1
      /\ \A i \in 1 .. Len(Tail(s)) : Tail(s)[i] = s[i + 1]
  BY HeadTailProperties
<1>2. Len(s) \in Nat \ {0} /\ Head(s) = s[1]
  BY EmptySeq, HeadTailProperties
<1>3. /\ ToSet(s) = {s[i] : i \in 1 .. Len(s)}
      /\ ToSet(Tail(s)) = {Tail(s)[i] : i \in 1 .. Len(Tail(s))}
  BY <1>1, ToSetIs
<1>4. ASSUME NEW i \in 1 .. Len(s) PROVE s[i] \in {Head(s)} \cup ToSet(Tail(s))
  <2>1. CASE i = 1
    BY <1>2, <2>1
  <2>2. CASE i # 1
    <3>1. i - 1 \in 1 .. Len(Tail(s)) /\ Tail(s)[i - 1] = s[i]
      BY <1>1, <1>2, <2>2
    <3> QED BY <1>3, <3>1
  <2> QED BY <2>1, <2>2
<1>5. ASSUME NEW i \in 1 .. Len(Tail(s)) PROVE Tail(s)[i] \in ToSet(s)
  <2>1. i + 1 \in 1 .. Len(s)
    BY <1>1, <1>2
  <2> QED BY <1>1, <1>3, <2>1
<1>6. Head(s) \in ToSet(s)
  BY <1>2, <1>3
<1> QED BY <1>3, <1>4, <1>5, <1>6

LEMMA SetWithLast ==
  ASSUME NEW P, NEW s \in Seq(P), NEW e \in P
  PROVE  /\ ToSet(Append(s, e)) = ToSet(s) \cup {e}
         /\ Once(s) /\ e \notin ToSet(s) => Once(Append(s, e))
<1> DEFINE r == Append(s, e)
<1>1. /\ r \in Seq(P) /\ Len(r) = Len(s) + 1 /\ r[Len(s) + 1] = e
      /\ \A i \in 1 .. Len(s) : r[i] = s[i]
      /\ Len(s) \in Nat
  BY AppendProperties, LenProperties
<1> HIDE DEF r
<1>2. /\ ToSet(s) = {s[i] : i \in 1 .. Len(s)}
      /\ ToSet(r) = {r[i] : i \in 1 .. Len(r)}
  BY <1>1, ToSetIs
<1>3. \A i : i \in 1 .. Len(r) <=> i \in 1 .. Len(s) \/ i = Len(s) + 1
  BY <1>1
<1>4. ToSet(r) = ToSet(s) \cup {e}
  BY <1>1, <1>2, <1>3
<1>5. ASSUME Once(s), e \notin ToSet(s) PROVE Once(r)
  BY <1>1, <1>2, <1>3, <1>5 DEF Once
<1> QED BY <1>4, <1>5 DEF r

\* The first half of connect: the child gets its parent.
LEMMA ConnectLinks ==
  ASSUME TypeInv, LinkInv, Careful, NEW t \in Callers, NEW p \in Pipes, NEW c \in Pipes,
         Connect(t, p, c)
  PROVE  LinkInv'
<1> DEFINE f == [NoCall EXCEPT !.at = "Link", !.self = p, !.rest = <<c>>]
           w == <<"connect", t, p, c>>
<1>1. /\ w \in Wirings /\ w[2] = t /\ w[4] = c
      /\ ~Wires(call[t]) /\ pipe[c].parents = <<>>
  BY DEF Connect, BeginWiring, Wires
<1>2. f.at = "Link" /\ f.self = p /\ f.rest = <<c>> /\ Target(f) = c /\ Wires(f)
  BY DEF NoCall, Target, Wires
<1>3. call'[t] = f /\ \A u \in Callers : u # t => call'[u] = call[u]
  BY DEF Connect, TypeInv, TypeOK
<1> HIDE DEF f, w
<1>4. /\ pipe'[c].parents = <<p>>
      /\ \A q \in Pipes : q # c => pipe'[q].parents = pipe[q].parents
      /\ \A q \in Pipes : pipe'[q].children = pipe[q].children
  BY DEF Connect, TypeInv, TypeOK, PipeState
<1>5. \A q \in Pipes : kids'[q] = kids[q]
  BY <1>4 DEF kids
<1>6. \A q \in Pipes : c \notin kids[q]
  BY <1>1 DEF LinkInv, LinksKnown
<1>7. \A u \in Callers : Wires(call[u]) => Target(call[u]) # c
  BY <1>1, Alone
<1>8. HangsFromOne'
  <2>1. p \in Above(c)
    BY <1>1 DEF Above, w
  <2>2. ToSet(<<p>>) = {p}
    BY ToSetSingle
  <2> QED BY <1>4, <2>1, <2>2 DEF LinkInv, HangsFromOne
<1>9. LinksKnown'
  BY <1>4, <1>5, <1>6 DEF LinkInv, LinksKnown
<1>10. HandsOn'
  <2>1. SUFFICES ASSUME NEW u \in Callers, Wires(call'[u])
        PROVE  /\ Target(call'[u]) \in Pipes
               /\ \E v \in Wirings : v[2] = u /\ v[4] = Target(call'[u])
    BY DEF HandsOn
  <2> QED BY <1>1, <1>2, <1>3, <2>1 DEF LinkInv, HandsOn
<1>11. HalfWired'
  <2>1. ASSUME NEW u \in Callers, call'[u].at = "Link"
        PROVE  /\ call'[u].rest = <<Target(call'[u])>>
               /\ pipe'[Target(call'[u])].parents = <<call'[u].self>>
               /\ Target(call'[u]) \notin kids'[call'[u].self]
    <3>1. CASE u = t
      BY <1>2, <1>3, <1>4, <1>5, <1>6, <3>1
    <3>2. CASE u # t
      <4>1. Wires(call[u]) /\ call'[u] = call[u] /\ call[u].self \in Pipes
        BY <1>3, <2>1, <3>2 DEF Wires, TypeInv, Frames
      <4>2. Target(call[u]) \in Pipes /\ Target(call[u]) # c
        BY <1>7, <4>1 DEF LinkInv, HandsOn
      <4> QED BY <1>4, <1>5, <2>1, <4>1, <4>2 DEF LinkInv, HalfWired
    <3> QED BY <3>1, <3>2
  <2>2. ASSUME NEW u \in Callers, call'[u].at \in {"Unlink", "Orphan"}
        PROVE  call'[u] = call[u] /\ call[u].self \in Pipes
    BY <1>2, <1>3, <2>2 DEF TypeInv, Frames
  <2> QED BY <1>5, <2>1, <2>2 DEF LinkInv, HalfWired
<1>12. ParentsKnown'
  <2>1. SUFFICES ASSUME NEW d \in alive', NEW q \in Pipes, pipe'[d].parents = <<q>>
        PROVE  \/ d \in kids'[q]
               \/ \E u \in Callers : Wires(call'[u]) /\ Target(call'[u]) = d
    BY DEF ParentsKnown
  <2>2. d \in alive /\ d \in Pipes
    BY DEF Connect, TypeInv, TypeOK
  <2>3. CASE d = c
    BY <1>2, <1>3, <2>3
  <2>4. CASE d # c
    <3>1. \/ d \in kids[q]
          \/ \E u \in Callers : Wires(call[u]) /\ Target(call[u]) = d
      BY <1>4, <2>1, <2>2, <2>4 DEF LinkInv, ParentsKnown
    <3> QED BY <1>1, <1>3, <1>5, <3>1
  <2> QED BY <2>3, <2>4
<1> QED BY <1>8, <1>9, <1>10, <1>11, <1>12 DEF LinkInv

\* The second half of connect: the parent gets its child.
LEMMA LinkLinks ==
  ASSUME TypeInv, LinkInv, Careful, NEW t \in Callers, Link(t)
  PROVE  LinkInv'
<1> DEFINE s == call[t].self  c == Target(call[t])
<1>1. /\ Wires(call[t]) /\ s \in Pipes /\ c \in Pipes /\ call[t].rest = <<c>>
      /\ pipe[c].parents = <<s>> /\ c \notin kids[s]
  BY DEF Link, LinkInv, HandsOn, HalfWired, TypeInv, Frames, Wires
<1>2. ~Wires(call'[t]) /\ \A u \in Callers : u # t => call'[u] = call[u]
  BY DEF Link, TypeInv, TypeOK, Wires, NoCall
<1>3. \A u \in Callers : Wires(call[u]) /\ Target(call[u]) = c => u = t
  <2>1. PICK w \in Wirings : w[2] = t /\ w[4] = c
    BY <1>1 DEF LinkInv, HandsOn
  <2> QED BY <2>1, Alone
<1>4. pipe[s].children \in Seq(Pipes)
  BY <1>1 DEF TypeInv, TypeOK, PipeState
<1>5. pipe[s].children \o call[t].rest = Append(pipe[s].children, c)
  BY <1>1, <1>4, AppendIsConcat
<1>6. pipe' = [pipe EXCEPT ![s].children = Append(@, c)]
  BY <1>5 DEF Link
<1> HIDE DEF s, c
<1>7. /\ pipe'[s].children = Append(pipe[s].children, c)
      /\ \A q \in Pipes : q # s => pipe'[q].children = pipe[q].children
      /\ \A q \in Pipes : pipe'[q].parents = pipe[q].parents
  BY <1>1, <1>6 DEF TypeInv, TypeOK, PipeState
<1>8. /\ kids'[s] = kids[s] \cup {c}
      /\ \A q \in Pipes : q # s => kids'[q] = kids[q]
  <2>1. ToSet(Append(pipe[s].children, c)) = ToSet(pipe[s].children) \cup {c}
    BY <1>1, <1>4, SetWithLast
  <2> QED BY <1>1, <1>7, <2>1 DEF kids
<1>9. HangsFromOne'
  BY <1>7 DEF LinkInv, HangsFromOne
<1>10. LinksKnown'
  <2>1. Once(pipe'[s].children)
    BY <1>1, <1>4, <1>7, SetWithLast DEF LinkInv, LinksKnown, kids
  <2>2. \A q \in Pipes : Once(pipe'[q].children)
    BY <1>7, <2>1 DEF LinkInv, LinksKnown
  <2>3. ASSUME NEW q \in Pipes, NEW d \in Pipes, d \in kids'[q] PROVE pipe'[d].parents = <<q>>
    BY <1>1, <1>7, <1>8, <2>3 DEF LinkInv, LinksKnown
  <2> QED BY <2>2, <2>3 DEF LinksKnown
<1>11. HandsOn'
  BY <1>2 DEF LinkInv, HandsOn
<1>12. HalfWired'
  <2>1. ASSUME NEW u \in Callers, Wires(call'[u])
        PROVE  /\ call'[u] = call[u] /\ Wires(call[u]) /\ call[u].self \in Pipes
               /\ Target(call[u]) \in Pipes /\ Target(call[u]) # c
    <3>1. u # t /\ call'[u] = call[u] /\ Wires(call[u])
      BY <1>2, <2>1
    <3> QED BY <1>3, <3>1 DEF LinkInv, HandsOn, TypeInv, Frames, Wires
  <2>2. ASSUME NEW u \in Callers, call'[u].at = "Link"
        PROVE  /\ call'[u].rest = <<Target(call'[u])>>
               /\ pipe'[Target(call'[u])].parents = <<call'[u].self>>
               /\ Target(call'[u]) \notin kids'[call'[u].self]
    <3>1. Wires(call'[u])
      BY <2>2 DEF Wires
    <3>2. /\ call[u].at = "Link" /\ call[u].self \in Pipes
          /\ Target(call[u]) \in Pipes /\ Target(call[u]) # c
          /\ call'[u] = call[u]
      BY <2>1, <2>2, <3>1
    <3>3. /\ call[u].rest = <<Target(call[u])>>
          /\ pipe[Target(call[u])].parents = <<call[u].self>>
          /\ Target(call[u]) \notin kids[call[u].self]
      BY <3>2 DEF LinkInv, HalfWired
    <3>4. Target(call[u]) \notin kids'[call[u].self]
      BY <1>8, <3>2, <3>3
    <3> QED BY <1>7, <3>2, <3>3, <3>4
  <2>3. ASSUME NEW u \in Callers, call'[u].at \in {"Unlink", "Orphan"}
        PROVE  call'[u] = call[u] /\ call[u].self \in Pipes /\ call[u].self # c
    BY <2>1, <2>3 DEF Wires, Target
  <2>4. \A q \in Pipes : \A d : d # c => (d \in kids'[q] <=> d \in kids[q])
    BY <1>8
  <2>5. ASSUME NEW u \in Callers, call'[u].at = "Unlink"
        PROVE  \A q \in Pipes : call'[u].self \in kids'[q] => q \in ToSet(call'[u].rest)
    BY <2>3, <2>4, <2>5 DEF LinkInv, HalfWired
  <2>6. ASSUME NEW u \in Callers, call'[u].at = "Orphan"
        PROVE  \A q \in Pipes : call'[u].self \notin kids'[q]
    BY <2>3, <2>4, <2>6 DEF LinkInv, HalfWired
  <2> QED BY <2>2, <2>5, <2>6 DEF HalfWired
<1>13. ParentsKnown'
  <2>1. SUFFICES ASSUME NEW d \in alive', NEW q \in Pipes, pipe'[d].parents = <<q>>
        PROVE  \/ d \in kids'[q]
               \/ \E u \in Callers : Wires(call'[u]) /\ Target(call'[u]) = d
    BY DEF ParentsKnown
  <2>2. d \in alive /\ d \in Pipes /\ pipe[d].parents = <<q>>
    BY <1>7, <2>1 DEF Link, TypeInv, TypeOK
  <2>3. CASE d = c
    BY <1>1, <1>8, <2>2, <2>3
  <2>4. CASE d # c
    <3>1. \/ d \in kids[q]
          \/ \E u \in Callers : Wires(call[u]) /\ Target(call[u]) = d
      BY <2>2 DEF LinkInv, ParentsKnown
    <3> QED BY <1>2, <1>8, <2>4, <3>1 DEF c
  <2> QED BY <2>3, <2>4
<1> QED BY <1>9, <1>10, <1>11, <1>12, <1>13 DEF LinkInv

\* One list of children loses c and whatever is dead.
LEMMA CutLinks ==
  ASSUME TypeInv, LinkInv, NEW p \in Pipes, NEW c \in Pipes,
         pipe' = [pipe EXCEPT ![p].children = Without(@, c)]
  PROVE  /\ \A q \in Pipes : pipe'[q].parents = pipe[q].parents
         /\ kids'[p] = kids[p] \cap (alive \ {c})
         /\ \A q \in Pipes : q # p => kids'[q] = kids[q]
         /\ LinksKnown'
<1>1. pipe[p].children \in Seq(Pipes) /\ pipe \in [Pipes -> PipeState]
  BY DEF TypeInv, TypeOK, PipeState
<1>2. /\ ToSet(Without(pipe[p].children, c)) = ToSet(pipe[p].children) \cap (alive \ {c})
      /\ Once(pipe[p].children) => Once(Without(pipe[p].children, c))
  BY <1>1, RetainSet DEF Without
<1>3. /\ pipe'[p].children = Without(pipe[p].children, c)
      /\ \A q \in Pipes : q # p => pipe'[q].children = pipe[q].children
      /\ \A q \in Pipes : pipe'[q].parents = pipe[q].parents
  BY <1>1 DEF PipeState
<1>4. /\ kids'[p] = kids[p] \cap (alive \ {c})
      /\ \A q \in Pipes : q # p => kids'[q] = kids[q]
  BY <1>2, <1>3 DEF kids
<1>5. \A q \in Pipes : Once(pipe'[q].children)
  BY <1>2, <1>3 DEF LinkInv, LinksKnown
<1>6. \A q, d \in Pipes : d \in kids'[q] => pipe'[d].parents = <<q>>
  BY <1>3, <1>4 DEF LinkInv, LinksKnown
<1> QED BY <1>3, <1>4, <1>5, <1>6 DEF LinksKnown

\* A step on the way to unhanging c: t wires c after it, and no pipe gets c or
\* loses a child that lives and is not c.
LEMMA UnhangLinks ==
  ASSUME TypeInv, LinkInv, NEW t \in Callers, NEW c \in Pipes,
         alive' = alive,
         \A q \in Pipes : pipe'[q].parents = pipe[q].parents,
         \A q \in Pipes : /\ kids'[q] \subseteq kids[q]
                          /\ \A d \in alive : d \in kids[q] => d \in kids'[q] \/ d = c,
         LinksKnown',
         \A u \in Callers : u # t => call'[u] = call[u],
         call'[t].at \in {"Unlink", "Orphan"}, call'[t].self = c,
         Wires(call[t]) => Target(call[t]) = c,
         \E w \in Wirings : w[2] = t /\ w[4] = c,
         call'[t].at = "Unlink" =>
           \A q \in Pipes : c \in kids'[q] => q \in ToSet(call'[t].rest),
         call'[t].at = "Orphan" => \A q \in Pipes : c \notin kids'[q]
  PROVE  LinkInv'
<1>1. Wires(call'[t]) /\ Target(call'[t]) = c
  BY DEF Wires, Target
<1>2. HangsFromOne'
  BY DEF LinkInv, HangsFromOne
<1>3. HandsOn'
  BY <1>1 DEF LinkInv, HandsOn
<1>4. HalfWired'
  <2>1. ASSUME NEW u \in Callers, u # t, Wires(call'[u])
        PROVE  /\ call'[u] = call[u] /\ call[u].self \in Pipes
               /\ Target(call[u]) \in Pipes
    BY <2>1 DEF LinkInv, HandsOn, TypeInv, Frames, Wires
  <2>2. ASSUME NEW u \in Callers, call'[u].at = "Link"
        PROVE  /\ call'[u].rest = <<Target(call'[u])>>
               /\ pipe'[Target(call'[u])].parents = <<call'[u].self>>
               /\ Target(call'[u]) \notin kids'[call'[u].self]
    <3>1. u # t /\ Wires(call'[u])
      BY <2>2 DEF Wires
    <3>2. call'[u] = call[u] /\ call[u].self \in Pipes /\ Target(call[u]) \in Pipes
      BY <2>1, <3>1
    <3>3. /\ call[u].rest = <<Target(call[u])>>
          /\ pipe[Target(call[u])].parents = <<call[u].self>>
          /\ Target(call[u]) \notin kids[call[u].self]
      BY <2>2, <3>2 DEF LinkInv, HalfWired
    <3> QED BY <3>2, <3>3
  <2>3. ASSUME NEW u \in Callers, call'[u].at = "Unlink"
        PROVE  \A q \in Pipes : call'[u].self \in kids'[q] => q \in ToSet(call'[u].rest)
    BY <2>1, <2>3 DEF LinkInv, HalfWired, Wires
  <2>4. ASSUME NEW u \in Callers, call'[u].at = "Orphan"
        PROVE  \A q \in Pipes : call'[u].self \notin kids'[q]
    BY <2>1, <2>4 DEF LinkInv, HalfWired, Wires
  <2> QED BY <2>2, <2>3, <2>4 DEF HalfWired
<1>5. ParentsKnown'
  <2>1. SUFFICES ASSUME NEW d \in alive, NEW q \in Pipes, pipe'[d].parents = <<q>>
        PROVE  \/ d \in kids'[q]
               \/ \E u \in Callers : Wires(call'[u]) /\ Target(call'[u]) = d
    BY DEF ParentsKnown
  <2>2. d \in Pipes /\ pipe[d].parents = <<q>>
    BY <2>1 DEF TypeInv, TypeOK
  <2>3. \/ d \in kids[q]
        \/ \E u \in Callers : Wires(call[u]) /\ Target(call[u]) = d
    BY <2>2 DEF LinkInv, ParentsKnown
  <2> QED BY <1>1, <2>3
<1> QED BY <1>2, <1>3, <1>4, <1>5 DEF LinkInv

LEMMA DisconnectLinks ==
  ASSUME TypeInv, LinkInv, Careful, NEW t \in Callers, NEW p \in Pipes, NEW c \in Pipes,
         Disconnect(t, p, c)
  PROVE  LinkInv'
<1> DEFINE f == [NoCall EXCEPT !.at = "Orphan", !.self = c]
           w == <<"disconnect", t, p, c>>
<1>1. /\ w \in Wirings /\ w[1] = "disconnect" /\ w[2] = t /\ w[3] = p /\ w[4] = c
      /\ ~Wires(call[t])
  BY DEF Disconnect, BeginWiring, Wires
<1>2. f.at = "Orphan" /\ f.self = c
  BY DEF NoCall
<1>3. call'[t] = f /\ \A u \in Callers : u # t => call'[u] = call[u]
  BY DEF Disconnect, TypeInv, TypeOK
<1> HIDE DEF f, w
<1>4. /\ \A q \in Pipes : pipe'[q].parents = pipe[q].parents
      /\ kids'[p] = kids[p] \cap (alive \ {c})
      /\ \A q \in Pipes : q # p => kids'[q] = kids[q]
      /\ LinksKnown'
  BY CutLinks DEF Disconnect
<1>5. ASSUME NEW q \in Pipes, c \in kids[q] PROVE q = p
  <2>1. pipe[c].parents = <<q>> /\ q \in ToSet(<<q>>)
    BY <1>5, ToSetSingle DEF LinkInv, LinksKnown
  <2>2. q \in Above(c)
    BY <2>1 DEF LinkInv, HangsFromOne
  <2> QED BY <1>1, <2>2 DEF Careful, OwnParent
<1>6. \A q \in Pipes : c \notin kids'[q]
  BY <1>4, <1>5
<1>7. alive' = alive
  BY DEF Disconnect
<1>8. \A q \in Pipes : /\ kids'[q] \subseteq kids[q]
                       /\ \A d \in alive : d \in kids[q] => d \in kids'[q] \/ d = c
  BY <1>4
<1> QED BY <1>1, <1>2, <1>3, <1>4, <1>6, <1>7, <1>8, UnhangLinks

LEMMA ParentDisconnectLinks ==
  ASSUME TypeInv, LinkInv, NEW t \in Callers, NEW c \in Pipes, ParentDisconnect(t, c)
  PROVE  LinkInv'
<1> DEFINE f == [NoCall EXCEPT !.at = "Unlink", !.self = c, !.rest = pipe[c].parents]
           w == <<"parent_disconnect", t, c, c>>
<1>1. w \in Wirings /\ w[2] = t /\ w[4] = c /\ ~Wires(call[t])
  BY DEF ParentDisconnect, BeginWiring, Wires
<1>2. f.at = "Unlink" /\ f.self = c /\ f.rest = pipe[c].parents
  BY DEF NoCall
<1>3. call'[t] = f /\ \A u \in Callers : u # t => call'[u] = call[u]
  BY DEF ParentDisconnect, TypeInv, TypeOK
<1> HIDE DEF f, w
<1>4. pipe' = pipe /\ alive' = alive
  BY DEF ParentDisconnect
<1>5. kids' = kids /\ LinksKnown'
  BY <1>4 DEF kids, LinkInv, LinksKnown
<1>6. ASSUME NEW q \in Pipes, c \in kids[q] PROVE q \in ToSet(pipe[c].parents)
  BY <1>6, ToSetSingle DEF LinkInv, LinksKnown
<1> QED BY <1>1, <1>2, <1>3, <1>4, <1>5, <1>6, UnhangLinks

LEMMA UnlinkLinks ==
  ASSUME TypeInv, LinkInv, NEW t \in Callers, Unlink(t)
  PROVE  LinkInv'
<1> DEFINE c == call[t].self
<1>1. /\ call[t].at = "Unlink" /\ c \in Pipes /\ Target(call[t]) = c
      /\ \E w \in Wirings : w[2] = t /\ w[4] = c
      /\ \A q \in Pipes : c \in kids[q] => q \in ToSet(call[t].rest)
      /\ call[t].rest \in Seq(Pipes)
  BY DEF Unlink, LinkInv, HandsOn, HalfWired, TypeInv, TypeOK, Frames, Call, Wires, Target
<1>2. alive' = alive /\ \A u \in Callers : u # t => call'[u] = call[u]
  BY DEF Unlink, TypeInv, TypeOK
<1>3. CASE call[t].rest = <<>>
  <2>1. call'[t].at = "Orphan" /\ call'[t].self = c /\ pipe' = pipe
    BY <1>3 DEF Unlink, TypeInv, TypeOK, Call
  <2>2. kids' = kids /\ LinksKnown'
    BY <2>1 DEF kids, LinkInv, LinksKnown
  <2>3. \A q \in Pipes : c \notin kids[q]
    BY <1>1, <1>3, ToSetSingle
  <2> HIDE DEF c
  <2> QED BY <1>1, <1>2, <2>1, <2>2, <2>3, UnhangLinks
<1>4. CASE call[t].rest # <<>>
  <2> DEFINE p == Head(call[t].rest)
  <2>1. p \in Pipes /\ ToSet(call[t].rest) = {p} \cup ToSet(Tail(call[t].rest))
    BY <1>1, <1>4, HeadTailProperties, HeadOrTail
  <2>2. call'[t].at = "Unlink" /\ call'[t].self = c /\ call'[t].rest = Tail(call[t].rest)
    <3>1. call'[t] = [call[t] EXCEPT !.rest = Tail(@)]
      BY <1>4 DEF Unlink, TypeInv, TypeOK
    <3>2. call[t] \in Call
      BY DEF TypeInv, TypeOK
    <3> QED BY <1>1, <3>1, <3>2 DEF Call
  <2>3. pipe' = [pipe EXCEPT ![p].children = Without(@, c)]
    BY <1>4 DEF Unlink
  <2> HIDE DEF p, c
  <2>4. /\ \A q \in Pipes : pipe'[q].parents = pipe[q].parents
        /\ kids'[p] = kids[p] \cap (alive \ {c})
        /\ \A q \in Pipes : q # p => kids'[q] = kids[q]
        /\ LinksKnown'
    BY <1>1, <2>1, <2>3, CutLinks
  <2>5. \A q \in Pipes : c \in kids'[q] => q \in ToSet(call'[t].rest)
    BY <1>1, <2>1, <2>2, <2>4
  <2>6. \A q \in Pipes : /\ kids'[q] \subseteq kids[q]
                         /\ \A d \in alive : d \in kids[q] => d \in kids'[q] \/ d = c
    BY <2>4
  <2> QED BY <1>1, <1>2, <2>2, <2>4, <2>5, <2>6, UnhangLinks
<1> QED BY <1>3, <1>4

\* The last half of a disconnect: the child loses its parent.
LEMMA OrphanLinks ==
  ASSUME TypeInv, LinkInv, Careful, NEW t \in Callers, Orphan(t)
  PROVE  LinkInv'
<1> DEFINE c == call[t].self
<1>1. /\ Wires(call[t]) /\ c \in Pipes /\ Target(call[t]) = c
      /\ \A q \in Pipes : c \notin kids[q]
  BY DEF Orphan, LinkInv, HalfWired, TypeInv, Frames, Wires, Target
<1>2. ~Wires(call'[t]) /\ \A u \in Callers : u # t => call'[u] = call[u]
  BY DEF Orphan, TypeInv, TypeOK, Wires, NoCall
<1>3. \A u \in Callers : Wires(call[u]) /\ Target(call[u]) = c => u = t
  <2>1. PICK w \in Wirings : w[2] = t /\ w[4] = c
    BY <1>1 DEF LinkInv, HandsOn
  <2> QED BY <2>1, Alone
<1>4. /\ pipe'[c].parents = <<>>
      /\ \A q \in Pipes : q # c => pipe'[q].parents = pipe[q].parents
      /\ \A q \in Pipes : pipe'[q].children = pipe[q].children
  BY <1>1 DEF Orphan, TypeInv, TypeOK, PipeState
<1>5. \A q \in Pipes : kids'[q] = kids[q]
  BY <1>4 DEF kids
<1> HIDE DEF c
<1>6. HangsFromOne'
  BY <1>1, <1>4, ToSetSingle DEF LinkInv, HangsFromOne
<1>7. LinksKnown'
  BY <1>1, <1>4, <1>5 DEF LinkInv, LinksKnown
<1>8. HandsOn'
  BY <1>2 DEF LinkInv, HandsOn
<1>9. HalfWired'
  <2>1. ASSUME NEW u \in Callers, Wires(call'[u])
        PROVE  /\ call'[u] = call[u] /\ call[u].self \in Pipes
               /\ Target(call[u]) \in Pipes /\ Target(call[u]) # c
    <3>1. u # t /\ call'[u] = call[u] /\ Wires(call[u])
      BY <1>2, <2>1
    <3> QED BY <1>3, <3>1 DEF LinkInv, HandsOn, TypeInv, Frames, Wires
  <2>2. ASSUME NEW u \in Callers, call'[u].at = "Link"
        PROVE  /\ call'[u].rest = <<Target(call'[u])>>
               /\ pipe'[Target(call'[u])].parents = <<call'[u].self>>
               /\ Target(call'[u]) \notin kids'[call'[u].self]
    <3>1. /\ call[u].at = "Link" /\ call[u].self \in Pipes
          /\ Target(call[u]) \in Pipes /\ Target(call[u]) # c
          /\ call'[u] = call[u]
      BY <2>1, <2>2 DEF Wires
    <3>2. /\ call[u].rest = <<Target(call[u])>>
          /\ pipe[Target(call[u])].parents = <<call[u].self>>
          /\ Target(call[u]) \notin kids[call[u].self]
      BY <3>1 DEF LinkInv, HalfWired
    <3> QED BY <1>4, <1>5, <3>1, <3>2
  <2>3. ASSUME NEW u \in Callers, call'[u].at = "Unlink"
        PROVE  \A q \in Pipes : call'[u].self \in kids'[q] => q \in ToSet(call'[u].rest)
    BY <1>5, <2>1, <2>3 DEF LinkInv, HalfWired, Wires
  <2>4. ASSUME NEW u \in Callers, call'[u].at = "Orphan"
        PROVE  \A q \in Pipes : call'[u].self \notin kids'[q]
    BY <1>5, <2>1, <2>4 DEF LinkInv, HalfWired, Wires
  <2> QED BY <2>2, <2>3, <2>4 DEF HalfWired
<1>10. ParentsKnown'
  <2>1. SUFFICES ASSUME NEW d \in alive', NEW q \in Pipes, pipe'[d].parents = <<q>>
        PROVE  \/ d \in kids'[q]
               \/ \E u \in Callers : Wires(call'[u]) /\ Target(call'[u]) = d
    BY DEF ParentsKnown
  <2>2. d \in alive /\ d \in Pipes /\ d # c /\ pipe[d].parents = <<q>>
    <3>1. d \in alive /\ d \in Pipes
      BY DEF Orphan, TypeInv, TypeOK
    <3>2. <<q>> # <<>>
      OBVIOUS
    <3> QED BY <1>4, <2>1, <3>1, <3>2
  <2>3. \/ d \in kids[q]
        \/ \E u \in Callers : Wires(call[u]) /\ Target(call[u]) = d
    BY <2>2 DEF LinkInv, ParentsKnown
  <2> QED BY <1>1, <1>2, <1>5, <2>2, <2>3
<1> QED BY <1>6, <1>7, <1>8, <1>9, <1>10 DEF LinkInv

\* Nothing but wiring touches the links, and nobody begins or ends it otherwise.
LEMMA PushLinks ==
  ASSUME TypeInv, LinkInv, NEW t \in Callers,
         PushStep(t) \/ \E p \in Pipes : BeginPush(t, p)
  PROVE  LinkInv'
<1>1. \A p \in Pipes : ListsKept(p)
  <2>1. CASE PushStep(t)
    BY <2>1, PushQueues
  <2>2. ASSUME NEW p \in Pipes, BeginPush(t, p) PROVE \A q \in Pipes : ListsKept(q)
    BY <2>2 DEF BeginPush, ListsKept
  <2> QED BY <2>1, <2>2
<1>2. alive' = alive
  BY DEF BeginPush, PushStep, Peek, Check, Pop, PushChild, EndPush, CloseChild, EndClose
<1>3. \A u \in Callers : u # t => call'[u] = call[u]
  BY DEF TypeInv, TypeOK, BeginPush, PushStep, Peek, Check, Pop, PushChild, EndPush,
         CloseChild, EndClose, EndLoop
<1>4. ~Wires(call[t])
  BY DEF BeginPush, PushStep, Peek, Check, Pop, PushChild, EndPush, CloseChild,
         EndClose, Wires
<1>5. ~Wires(call'[t])
  <2>1. call[t] \in Call /\ call \in [Callers -> Call]
    BY DEF TypeInv, TypeOK
  <2>2. ASSUME EndLoop(t) PROVE ~Wires(call'[t])
    <3>1. \/ call' = [call EXCEPT ![t] = NoCall]
          \/ call' = [call EXCEPT ![t].at = "Close", ![t].rest = Live(call[t].children)]
      BY <2>1, <2>2 DEF EndLoop
    <3>2. call'[t].at \in {"Idle", "Close"}
      BY <2>1, <3>1 DEF NoCall, Call
    <3> QED BY <3>2 DEF Wires
  <2>3. ASSUME NEW p \in Pipes, BeginPush(t, p) PROVE ~Wires(call'[t])
    BY <2>1, <2>3 DEF BeginPush, Wires, NoCall
  <2>4. CASE Peek(t)
    <3>1. EndLoop(t) \/ call'[t].at = "Check"
      BY <2>1, <2>4 DEF Peek, Call
    <3> QED BY <2>2, <3>1 DEF Wires
  <2>5. CASE Check(t)
    <3>1. EndLoop(t) \/ call'[t].at \in {"Check", "Pop"}
      BY <2>1, <2>5 DEF Check, Call
    <3> QED BY <2>2, <3>1 DEF Wires
  <2>6. CASE Pop(t) \/ PushChild(t) \/ EndPush(t) \/ CloseChild(t) \/ EndClose(t)
    <3>1. ASSUME Pop(t) PROVE call'[t].at = "Push"
      BY <2>1, <3>1 DEF Pop, Call
    <3>2. ASSUME PushChild(t) PROVE call'[t].at = "Push"
      BY <2>1, <3>2 DEF PushChild, Call
    <3>3. ASSUME EndPush(t) PROVE call'[t].at = "Peek"
      BY <2>1, <3>3 DEF EndPush, Call
    <3>4. ASSUME CloseChild(t) PROVE call'[t].at = "Close"
      BY <2>1, <3>4 DEF CloseChild, Call
    <3>5. ASSUME EndClose(t) PROVE call'[t].at = "Idle"
      BY <2>1, <3>5 DEF EndClose, NoCall
    <3> QED BY <2>6, <3>1, <3>2, <3>3, <3>4, <3>5 DEF Wires
  <2> QED BY <2>3, <2>4, <2>5, <2>6 DEF PushStep
<1> QED BY <1>1, <1>2, <1>3, <1>4, <1>5, StillLinks

LEMMA NextLinks ==
  ASSUME TypeInv, LinkInv, Careful, [Next]_vars
  PROVE  LinkInv'
<1>1. ASSUME NEW t \in Callers, WiringStep(t) PROVE LinkInv'
  BY <1>1, ConnectLinks, LinkLinks, DisconnectLinks, ParentDisconnectLinks,
     UnlinkLinks, OrphanLinks DEF WiringStep
<1>2. ASSUME NEW p \in Pipes, UserStep(p) PROVE LinkInv'
  <2>1. \A q \in Pipes : ListsKept(q)
    BY <1>2, UserQueues
  <2>2. alive' \subseteq alive /\ call' = call
    BY <1>2 DEF UserStep, Commit, GetEntry, GetClosed, SourceDoneSet, SinkDoneSet,
                SizeMaxSet, DataBlockingSet, Drop, Set
  <2> QED BY <2>1, <2>2, StillLinks
<1>3. CASE UNCHANGED vars
  <2>1. \A q \in Pipes : ListsKept(q)
    BY <1>3 DEF vars, ListsKept
  <2> QED BY <1>3, <2>1, StillLinks DEF vars
<1> QED BY <1>1, <1>2, <1>3, PushLinks DEF Next

LEMMA LinkInvariant == Careful => (Spec => []LinkInv)
<1>1. Init => LinkInv
  BY InitLinks
<1>2. Careful /\ TypeInv /\ LinkInv /\ [Next]_vars => LinkInv'
  BY NextLinks
<1>3. SUFFICES ASSUME Careful PROVE Spec => []LinkInv
  OBVIOUS
<1>4. TypeInv /\ LinkInv /\ [Next]_vars => LinkInv'
  BY <1>2, <1>3
<1> QED BY <1>1, <1>4, TypeInvariant, PTL DEF Spec

\* OneFeeder holds always: connect and the two disconnects take the locks of
\* parent and child one after the other, and still no pipe is ever fed over two
\* links, if each is wired by one caller and only disconnected from its own.
THEOREM AlwaysOneFeeder == ASSUME OneHand, OwnParent PROVE Spec => []OneFeeder
<1>1. TypeInv /\ LinkInv => OneFeeder
  <2>1. SUFFICES ASSUME TypeInv, LinkInv, NEW c \in alive, NEW p \in alive, NEW q \in alive,
                        NEW i \in DOMAIN pipe[p].children,
                        NEW j \in DOMAIN pipe[q].children,
                        pipe[p].children[i] = c, pipe[q].children[j] = c
        PROVE  p = q /\ i = j
    BY DEF OneFeeder
  <2>2. c \in Pipes /\ p \in Pipes /\ q \in Pipes
    BY <2>1 DEF TypeInv, TypeOK
  <2>3. c \in kids[p] /\ c \in kids[q]
    BY <2>1, <2>2 DEF kids, ToSet
  <2>4. <<p>> = <<q>>
    BY <2>1, <2>2, <2>3 DEF LinkInv, LinksKnown
  <2>5. p = q
    BY <2>4
  <2>6. pipe[p].children \in Seq(Pipes)
    BY <2>1, <2>2 DEF TypeInv, TypeOK, PipeState
  <2>7. i \in 1 .. Len(pipe[p].children) /\ j \in 1 .. Len(pipe[p].children)
    BY <2>5, <2>6, LenProperties
  <2> QED BY <2>1, <2>2, <2>5, <2>7 DEF LinkInv, LinksKnown, Once
<1> QED BY <1>1, TypeInvariant, LinkInvariant, PTL DEF Careful

\* LinksAgree holds always: whenever nobody is inside a wiring operation, the
\* list of children and the list of parents tell the same of every living pair.
THEOREM LinksAlwaysAgree == ASSUME OneHand, OwnParent PROVE Spec => []LinksAgree
<1>1. TypeInv /\ LinkInv => LinksAgree
  <2>1. SUFFICES ASSUME TypeInv, LinkInv, \A t \in Callers : ~Wires(call[t]),
                        NEW p \in alive, NEW c \in alive
        PROVE  (\E i \in DOMAIN pipe[p].children : pipe[p].children[i] = c)
                 <=> (\E i \in DOMAIN pipe[c].parents : pipe[c].parents[i] = p)
    BY DEF LinksAgree, Wires
  <2>2. c \in Pipes /\ p \in Pipes
    BY <2>1 DEF TypeInv, TypeOK
  <2>3. c \in kids[p] <=> \E i \in DOMAIN pipe[p].children : pipe[p].children[i] = c
    BY <2>2 DEF kids, ToSet
  <2>4. p \in ToSet(pipe[c].parents) <=> \E i \in DOMAIN pipe[c].parents : pipe[c].parents[i] = p
    BY DEF ToSet
  <2>5. ASSUME c \in kids[p] PROVE p \in ToSet(pipe[c].parents)
    <3>1. pipe[c].parents = <<p>>
      BY <2>1, <2>2, <2>5 DEF LinkInv, LinksKnown
    <3> QED BY <3>1, ToSetSingle
  <2>6. ASSUME p \in ToSet(pipe[c].parents) PROVE c \in kids[p]
    <3>1. pipe[c].parents = <<p>>
      BY <2>1, <2>2, <2>6 DEF LinkInv, HangsFromOne
    <3> QED BY <2>1, <2>2, <3>1 DEF LinkInv, ParentsKnown
  <2> QED BY <2>3, <2>4, <2>5, <2>6
<1> QED BY <1>1, TypeInvariant, LinkInvariant, PTL DEF Careful

=============================================================================
