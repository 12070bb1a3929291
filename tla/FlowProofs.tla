----------------------------- MODULE FlowProofs -----------------------------
(* What goes through the broadcast pipes of src/src/pipe.rs, for every set *)
(* of pipes and every wiring: that Closed is final, that entries keep      *)
(* their order, that a blocking pipe loses none, and that a tree of such   *)
(* pipes is the channel of Channel.                                        *)
(*                                                                         *)
(* to_push_try locks its pipe, each child, its pipe and each child again,  *)
(* and what it found under one lock it uses under the next.  That it still *)
(* holds there rests on who else may touch the two pipes in between: a     *)
(* child hangs from one pipe (LinkInv of PipeProofs), that pipe is pushed  *)
(* by one caller (OneFeed), and the application commits to roots only.     *)
EXTENDS PipeProofs

-----------------------------------------------------------------------------
(* What is known of a call of to_push_try that is under way.               *)

Pushing == {"Peek", "Check", "Pop", "Push", "Close"}
Busy == {"Check", "Pop", "Push"}

\* t may push what it pushes, and what it knows are pipes that hang from there.
GoodFrame(t, f) ==
  f.at \in Pushing =>
    /\ <<t, f.self>> \in Pushes
    /\ \A c \in ToSet(f.children) : f.self \in Above(c)
    /\ ToSet(f.rest) \subseteq ToSet(f.children)
    /\ Once(f.children) /\ Once(f.rest)

FramesKnown == \A t \in Callers : GoodFrame(t, call[t])

LEMMA OnceTail ==
  ASSUME NEW P, NEW s \in Seq(P), s # <<>>, Once(s)
  PROVE  /\ Once(Tail(s)) /\ Head(s) \notin ToSet(Tail(s))
         /\ ToSet(s) = {Head(s)} \cup ToSet(Tail(s))
         /\ Tail(s) \in Seq(P) /\ Head(s) \in P
<1>1. /\ Tail(s) \in Seq(P) /\ Len(Tail(s)) = Len(s) - 1
      /\ \A i \in 1 .. Len(Tail(s)) : Tail(s)[i] = s[i + 1]
      /\ Head(s) \in P
  BY HeadTailProperties
<1>2. Len(s) \in Nat \ {0} /\ Head(s) = s[1]
  BY EmptySeq
<1>3. ToSet(Tail(s)) = {Tail(s)[i] : i \in 1 .. Len(Tail(s))}
  BY <1>1, ToSetIs
<1>4. \A i \in 1 .. Len(Tail(s)) : i + 1 \in 1 .. Len(s) /\ i + 1 # 1
  BY <1>1, <1>2
<1>5. Once(Tail(s))
  BY <1>1, <1>4 DEF Once
<1>6. Head(s) \notin ToSet(Tail(s))
  BY <1>1, <1>2, <1>3, <1>4 DEF Once
<1> QED BY <1>1, <1>5, <1>6, HeadOrTail

LEMMA EmptyOnce == Once(<<>>) /\ ToSet(<<>>) = {} /\ <<>> \in Seq(Pipes)
<1>1. ASSUME NEW i \in 1 .. Len(<<>>) PROVE FALSE
  OBVIOUS
<1>2. Once(<<>>)
  BY <1>1 DEF Once
<1>3. ToSet(<<>>) = {}
  BY ToSetSingle
<1> QED BY <1>2, <1>3

\* What hangs from p may hang from p.
LEMMA KidsAbove ==
  ASSUME LinkInv, NEW p \in Pipes, NEW c \in Pipes, c \in kids[p]
  PROVE  p \in Above(c)
<1>1. pipe[c].parents = <<p>> /\ p \in ToSet(<<p>>)
  BY ToSetSingle DEF LinkInv, LinksKnown
<1> QED BY <1>1 DEF LinkInv, HangsFromOne

LEMMA CallStep ==
  ASSUME TypeInv, FramesKnown, NEW t \in Callers, NEW f, GoodFrame(t, f),
         call' = [call EXCEPT ![t] = f]
  PROVE  /\ FramesKnown' /\ call'[t] = f
         /\ \A u \in Callers : u # t => call'[u] = call[u]
BY DEF FramesKnown, TypeInv, TypeOK

LEMMA LiveFrames ==
  ASSUME TypeInv, NEW ps \in Seq(Pipes), Once(ps)
  PROVE  /\ Live(ps) \in Seq(Pipes) /\ Once(Live(ps))
         /\ ToSet(Live(ps)) = ToSet(ps) \cap alive
BY RetainSet DEF Live

\* The frame EndLoop leaves.
LEMMA EndLoopFrame ==
  ASSUME TypeInv, FramesKnown, NEW t \in Callers, call[t].at \in Pushing, EndLoop(t)
  PROVE  /\ \A u \in Callers : u # t => call'[u] = call[u]
         /\ FramesKnown'
         /\ \/ ~call[t].nothingLeft /\ call'[t] = NoCall
            \/ /\ call[t].nothingLeft /\ call'[t].nothingLeft
               /\ call'[t].at = "Close" /\ call'[t].self = call[t].self
               /\ call'[t].rest = Live(call[t].children)
               /\ call'[t].children = call[t].children
<1> DEFINE f == call[t]  g == [f EXCEPT !.at = "Close", !.rest = Live(f.children)]
<1>1. f \in Call /\ f.children \in Seq(Pipes) /\ f.nothingLeft \in BOOLEAN
  BY DEF TypeInv, TypeOK, Call
<1>2. GoodFrame(t, f) /\ f.at \in Pushing
  BY DEF FramesKnown
<1>3. CASE f.nothingLeft
  <2>1. /\ g.at = "Close" /\ g.self = f.self /\ g.rest = Live(f.children)
        /\ g.children = f.children /\ g.nothingLeft
    BY <1>1, <1>3 DEF Call
  <2>2. call' = [call EXCEPT ![t] = g]
    BY <1>3 DEF EndLoop
  <2> HIDE DEF g
  <2>3. GoodFrame(t, g)
    BY <1>1, <1>2, <2>1, LiveFrames DEF GoodFrame, Pushing
  <2> HIDE DEF f
  <2>4. FramesKnown' /\ call'[t] = g /\ \A u \in Callers : u # t => call'[u] = call[u]
    BY <2>2, <2>3, CallStep
  <2> QED BY <1>3, <2>1, <2>4 DEF f
<1>4. CASE ~f.nothingLeft
  <2>1. call' = [call EXCEPT ![t] = NoCall]
    BY <1>4 DEF EndLoop
  <2>2. GoodFrame(t, NoCall)
    BY DEF GoodFrame, NoCall, Pushing
  <2>3. FramesKnown' /\ call'[t] = NoCall /\ \A u \in Callers : u # t => call'[u] = call[u]
    BY <2>1, <2>2, CallStep
  <2> QED BY <1>4, <2>3
<1> QED BY <1>1, <1>3, <1>4

\* f with another label, entry, children and rest; all else as in g.
Goes(f, g, at, entry, children, rest) ==
  /\ g.at = at /\ g.entry = entry /\ g.children = children /\ g.rest = rest
  /\ g.self = f.self /\ g.dataBlocking = f.dataBlocking
  /\ g.nothingLeft = f.nothingLeft

Alike(t) == \A u \in Callers : u # t => call'[u] = call[u]

LEMMA PeekFrame ==
  ASSUME TypeInv, FramesKnown, NEW t \in Callers, Peek(t),
         ~(pipe[call[t].self].entries = <<>> \/ Live(call[t].children) = <<>>)
  PROVE  /\ FramesKnown' /\ Alike(t)
         /\ Goes(call[t], call'[t], "Check", Head(pipe[call[t].self].entries),
                 Live(call[t].children), Live(call[t].children))
<1> DEFINE f == call[t]  live == Live(f.children)  e == Head(pipe[f.self].entries)
           g == [f EXCEPT !.at = "Check", !.entry = e, !.children = live, !.rest = live]
<1>1. f \in Call /\ f.children \in Seq(Pipes)
  BY DEF TypeInv, TypeOK, Call
<1>2. GoodFrame(t, f) /\ f.at = "Peek"
  BY DEF FramesKnown, Peek
<1>3. call' = [call EXCEPT ![t] = g]
  BY DEF Peek
<1> HIDE DEF live, e
<1>4. Goes(f, g, "Check", e, live, live)
  BY <1>1 DEF Goes, Call
<1> HIDE DEF g
<1>5. GoodFrame(t, g)
  BY <1>1, <1>2, <1>4, LiveFrames DEF GoodFrame, Pushing, Goes, live
<1>6. FramesKnown' /\ call'[t] = g /\ \A u \in Callers : u # t => call'[u] = call[u]
  BY <1>3, <1>5, CallStep
<1> QED BY <1>4, <1>6 DEF live, e, Alike

\* The frames the other steps of to_push_try leave, apart from those of EndLoop.
LEMMA OtherFrames ==
  ASSUME TypeInv, FramesKnown, NEW t \in Callers,
         NEW g, call' = [call EXCEPT ![t] = g],
         NEW at \in Pushing, call[t].at \in Pushing, NEW e,
         NEW rest \in Seq(Pipes), Once(rest), ToSet(rest) \subseteq ToSet(call[t].children),
         Goes(call[t], g, at, e, call[t].children, rest)
  PROVE  /\ FramesKnown' /\ Alike(t)
         /\ Goes(call[t], call'[t], at, e, call[t].children, rest)
<1>1. GoodFrame(t, call[t])
  BY DEF FramesKnown
<1>2. GoodFrame(t, g)
  BY <1>1 DEF GoodFrame, Pushing, Goes
<1>3. FramesKnown' /\ call'[t] = g /\ \A u \in Callers : u # t => call'[u] = call[u]
  BY <1>2, CallStep
<1> QED BY <1>3 DEF Alike

LEMMA AtFrame ==
  ASSUME TypeInv, FramesKnown, NEW t \in Callers, call[t].at \in Pushing,
         NEW at \in Pushing, call' = [call EXCEPT ![t].at = at]
  PROVE  /\ FramesKnown' /\ Alike(t)
         /\ Goes(call[t], call'[t], at, call[t].entry, call[t].children, call[t].rest)
<1> DEFINE f == call[t]  g == [f EXCEPT !.at = at]
<1>1. f \in Call /\ f.rest \in Seq(Pipes) /\ GoodFrame(t, f)
  BY DEF TypeInv, TypeOK, Call, FramesKnown
<1>2. Goes(f, g, at, f.entry, f.children, f.rest) /\ call' = [call EXCEPT ![t] = g]
  BY <1>1 DEF Goes, Call
<1> HIDE DEF g
<1>3. Once(f.rest) /\ ToSet(f.rest) \subseteq ToSet(f.children)
  BY <1>1 DEF GoodFrame
<1> QED BY <1>1, <1>2, <1>3, OtherFrames

LEMMA TailFrame ==
  ASSUME TypeInv, FramesKnown, NEW t \in Callers, call[t].at \in Pushing,
         call[t].rest # <<>>, call' = [call EXCEPT ![t].rest = Tail(@)]
  PROVE  /\ FramesKnown' /\ Alike(t)
         /\ Goes(call[t], call'[t], call[t].at, call[t].entry, call[t].children,
                 Tail(call[t].rest))
<1> DEFINE f == call[t]  g == [f EXCEPT !.rest = Tail(@)]
<1>1. f \in Call /\ f.rest \in Seq(Pipes) /\ GoodFrame(t, f)
  BY DEF TypeInv, TypeOK, Call, FramesKnown
<1>2. Goes(f, g, f.at, f.entry, f.children, Tail(f.rest)) /\ call' = [call EXCEPT ![t] = g]
  BY <1>1 DEF Goes, Call
<1> HIDE DEF g
<1>3. Once(f.rest) /\ ToSet(f.rest) \subseteq ToSet(f.children)
  BY <1>1 DEF GoodFrame
<1>4. /\ Once(Tail(f.rest)) /\ Tail(f.rest) \in Seq(Pipes)
      /\ ToSet(Tail(f.rest)) \subseteq ToSet(f.children)
  BY <1>1, <1>3, OnceTail
<1> QED BY <1>1, <1>2, <1>4, OtherFrames

LEMMA PopFrame ==
  ASSUME TypeInv, FramesKnown, NEW t \in Callers, Pop(t)
  PROVE  /\ FramesKnown' /\ Alike(t)
         /\ Goes(call[t], call'[t], "Push", call[t].entry, call[t].children, call[t].children)
<1> DEFINE f == call[t]  g == [f EXCEPT !.at = "Push", !.rest = f.children]
<1>1. f \in Call /\ f.children \in Seq(Pipes) /\ GoodFrame(t, f) /\ f.at \in Pushing
  BY DEF TypeInv, TypeOK, Call, FramesKnown, Pop, Pushing
<1>2. Goes(f, g, "Push", f.entry, f.children, f.children) /\ call' = [call EXCEPT ![t] = g]
  BY <1>1 DEF Goes, Call, Pop
<1> HIDE DEF g
<1>3. Once(f.children) /\ "Push" \in Pushing
  BY <1>1 DEF GoodFrame, Pushing
<1> QED BY <1>1, <1>2, <1>3, OtherFrames

LEMMA EndPushFrame ==
  ASSUME TypeInv, FramesKnown, NEW t \in Callers, EndPush(t)
  PROVE  /\ FramesKnown' /\ Alike(t)
         /\ Goes(call[t], call'[t], "Peek", 0, call[t].children, <<>>)
<1> DEFINE f == call[t]  g == [f EXCEPT !.at = "Peek", !.entry = 0]
<1>1. f \in Call /\ f.rest = <<>> /\ f.at \in Pushing /\ <<>> \in Seq(Pipes)
  BY DEF TypeInv, TypeOK, Call, EndPush, Pushing
<1>2. Goes(f, g, "Peek", 0, f.children, <<>>) /\ call' = [call EXCEPT ![t] = g]
  BY <1>1 DEF Goes, Call, EndPush
<1> HIDE DEF g
<1>3. Once(<<>>) /\ ToSet(<<>>) = {} /\ "Peek" \in Pushing
  BY EmptyOnce DEF Pushing
<1> QED BY <1>1, <1>2, <1>3, OtherFrames

LEMMA BeginFrame ==
  ASSUME TypeInv, LinkInv, FramesKnown, NEW t \in Callers, NEW p \in Pipes, BeginPush(t, p)
  PROVE  /\ FramesKnown' /\ Alike(t)
         /\ call'[t].at = "Peek" /\ call'[t].self = p
         /\ call'[t].children = pipe[p].children
         /\ call'[t].dataBlocking = pipe[p].dataBlocking
         /\ call'[t].nothingLeft <=> pipe[p].entries = <<>> /\ pipe[p].sourceDone
<1> DEFINE left == pipe[p].entries = <<>> /\ pipe[p].sourceDone
           g == [NoCall EXCEPT !.at = "Peek", !.self = p,
                      !.children = pipe[p].children,
                      !.dataBlocking = pipe[p].dataBlocking,
                      !.nothingLeft = left]
<1>1. call' = [call EXCEPT ![t] = g]
  BY DEF BeginPush
<1>2. left \in BOOLEAN
  OBVIOUS
<1> HIDE DEF left
<1>3. /\ g.at = "Peek" /\ g.self = p /\ g.children = pipe[p].children
      /\ g.dataBlocking = pipe[p].dataBlocking /\ g.nothingLeft = left /\ g.rest = <<>>
  BY DEF NoCall
<1> HIDE DEF g
<1>4. pipe[p].children \in Seq(Pipes) /\ Once(pipe[p].children)
  BY DEF TypeInv, TypeOK, PipeState, LinkInv, LinksKnown
<1>5. ASSUME NEW c \in ToSet(pipe[p].children) PROVE p \in Above(c)
  <2>1. c \in Pipes /\ c \in kids[p]
    BY <1>4, ToSetIs DEF kids
  <2> QED BY <2>1, KidsAbove
<1>6. GoodFrame(t, g)
  BY <1>3, <1>4, <1>5, EmptyOnce DEF GoodFrame, BeginPush
<1>7. FramesKnown' /\ call'[t] = g /\ \A u \in Callers : u # t => call'[u] = call[u]
  BY <1>1, <1>6, CallStep
<1> QED BY <1>2, <1>3, <1>7 DEF Alike, left

\* t is not pushing before a step, and has the frame g after it.
Unpushed(t, g) ==
  /\ call' = [call EXCEPT ![t] = g] /\ call[t].at \notin Pushing
  /\ g.at \in {"Idle", "Link", "Unlink", "Orphan"}
  /\ ~call[t].nothingLeft => ~g.nothingLeft

\* Whoever wires pushes nothing.
LEMMA WiringFrame ==
  ASSUME TypeInv, FramesKnown, NEW t \in Callers, WiringStep(t)
  PROVE  /\ FramesKnown' /\ Alike(t)
         /\ call[t].at \notin Pushing /\ call'[t].at \notin Pushing
         /\ ~call[t].nothingLeft => ~call'[t].nothingLeft
<1>1. call[t] \in Call /\ call \in [Callers -> Call]
  BY DEF TypeInv, TypeOK
<1>2. PICK g : Unpushed(t, g)
  <2>1. ASSUME NEW p \in Pipes, NEW c \in Pipes, Connect(t, p, c) PROVE \E g : Unpushed(t, g)
    <3>1. Unpushed(t, [NoCall EXCEPT !.at = "Link", !.self = p, !.rest = <<c>>])
      BY <2>1 DEF Unpushed, Connect, BeginWiring, NoCall, Pushing
    <3> QED BY <3>1
  <2>2. ASSUME NEW p \in Pipes, NEW c \in Pipes, Disconnect(t, p, c) PROVE \E g : Unpushed(t, g)
    <3>1. Unpushed(t, [NoCall EXCEPT !.at = "Orphan", !.self = c])
      BY <2>2 DEF Unpushed, Disconnect, BeginWiring, NoCall, Pushing
    <3> QED BY <3>1
  <2>3. ASSUME NEW c \in Pipes, ParentDisconnect(t, c) PROVE \E g : Unpushed(t, g)
    <3>1. Unpushed(t, [NoCall EXCEPT !.at = "Unlink", !.self = c, !.rest = pipe[c].parents])
      BY <2>3 DEF Unpushed, ParentDisconnect, BeginWiring, NoCall, Pushing
    <3> QED BY <3>1
  <2>4. CASE Link(t) \/ Orphan(t)
    <3>1. Unpushed(t, NoCall)
      BY <2>4 DEF Unpushed, Link, Orphan, NoCall, Pushing
    <3> QED BY <3>1
  <2>5. CASE Unlink(t)
    <3>1. CASE call[t].rest = <<>>
      <4>1. Unpushed(t, [call[t] EXCEPT !.at = "Orphan"])
        BY <1>1, <2>5, <3>1 DEF Unpushed, Unlink, Pushing, Call
      <4> QED BY <4>1
    <3>2. CASE call[t].rest # <<>>
      <4>1. Unpushed(t, [call[t] EXCEPT !.rest = Tail(@)])
        BY <1>1, <2>5, <3>2 DEF Unpushed, Unlink, Pushing, Call
      <4> QED BY <4>1
    <3> QED BY <3>1, <3>2
  <2> QED BY <2>1, <2>2, <2>3, <2>4, <2>5 DEF WiringStep
<1>3. GoodFrame(t, g)
  BY <1>2 DEF GoodFrame, Pushing, Unpushed
<1>4. FramesKnown' /\ call'[t] = g /\ \A u \in Callers : u # t => call'[u] = call[u]
  BY <1>2, <1>3, CallStep DEF Unpushed
<1> QED BY <1>2, <1>4 DEF Alike, Pushing, Unpushed

-----------------------------------------------------------------------------
(* Closing.                                                                *)

Feeding == OneFeed /\ SourcesAreRoots

\* Nothing comes any more from the pipe that the caller u[1] pushes.
Finished(u) ==
  /\ pipe[u[2]].sourceDone /\ pipe[u[2]].entries = <<>>
  /\ ~(call[u[1]].at \in Busy /\ call[u[1]].self = u[2])

DoneInv ==
  /\ \A t \in Callers :
       /\ call[t].nothingLeft =>
            /\ call[t].at \in {"Peek", "Close"}
            /\ pipe[call[t].self].sourceDone /\ pipe[call[t].self].entries = <<>>
       /\ call[t].at = "Close" => call[t].nothingLeft
  /\ \A c \in Pipes : pipe[c].sourceDone =>
       \A u \in Pushes : u[2] \in Above(c) => Finished(u)
  /\ \A c \in ended : pipe[c].sourceDone /\ pipe[c].entries = <<>>

\* A step of t that closes nothing but what its pipe has nothing left for.
FrameFine(t) ==
  /\ call'[t].nothingLeft =>
       /\ call'[t].at \in {"Peek", "Close"}
       /\ pipe[call'[t].self].sourceDone /\ pipe[call'[t].self].entries = <<>>
  /\ call'[t].at = "Close" => call'[t].nothingLeft
  /\ call'[t].at \in Busy =>
       \/ call[t].at \in Busy /\ call'[t].self = call[t].self
       \/ pipe[call'[t].self].entries # <<>>

\* A pipe that is done stays done, and empty if it is.
DoneStays(q) ==
  pipe[q].sourceDone =>
    pipe'[q].sourceDone /\ (pipe[q].entries = <<>> => pipe'[q].entries = <<>>)

LEMMA DoneKept ==
  ASSUME TypeInv, TypeInv', DoneInv,
         \A q \in Pipes : DoneStays(q),
         \A t \in Callers : call'[t] = call[t] \/ FrameFine(t),
         \A c \in Pipes : pipe'[c].sourceDone /\ ~pipe[c].sourceDone =>
           \A u \in Pushes : u[2] \in Above(c) => Finished(u),
         \A c \in ended' : c \in ended \/ (pipe[c].sourceDone /\ pipe[c].entries = <<>>)
  PROVE  DoneInv'
<1>1. ASSUME NEW t \in Callers PROVE FrameFine(t)
  BY DEF DoneInv, FrameFine
<1>2. ASSUME NEW t \in Callers
      PROVE  /\ call'[t].nothingLeft =>
                  /\ call'[t].at \in {"Peek", "Close"}
                  /\ pipe'[call'[t].self].sourceDone /\ pipe'[call'[t].self].entries = <<>>
             /\ call'[t].at = "Close" => call'[t].nothingLeft
  <2>1. FrameFine(t)
    BY <1>1
  <2>2. call'[t].at # "Idle" => call'[t].self \in Pipes
    BY DEF TypeInv, Frames
  <2> QED BY <2>1, <2>2 DEF FrameFine, DoneStays
<1>3. ASSUME NEW u \in Pushes, Finished(u) PROVE Finished(u)'
  <2>1. u[1] \in Callers /\ u[2] \in Pipes
    BY PipesAssumption
  <2>2. FrameFine(u[1]) /\ DoneStays(u[2])
    BY <1>1, <2>1
  <2>3. pipe'[u[2]].sourceDone /\ pipe'[u[2]].entries = <<>>
    BY <1>3, <2>2 DEF Finished, DoneStays
  <2>4. ~(call'[u[1]].at \in Busy /\ call'[u[1]].self = u[2])
    BY <1>3, <2>2 DEF Finished, FrameFine
  <2> QED BY <2>3, <2>4 DEF Finished
<1>4. ASSUME NEW c \in Pipes, pipe'[c].sourceDone, NEW u \in Pushes, u[2] \in Above(c)
      PROVE  Finished(u)'
  BY <1>3, <1>4 DEF DoneInv
<1>5. ASSUME NEW c \in ended' PROVE pipe'[c].sourceDone /\ pipe'[c].entries = <<>>
  <2>1. c \in Pipes /\ DoneStays(c)
    BY DEF TypeInv, TypeOK
  <2>2. pipe[c].sourceDone /\ pipe[c].entries = <<>>
    BY DEF DoneInv
  <2> QED BY <2>1, <2>2 DEF DoneStays
<1> QED BY <1>2, <1>4, <1>5 DEF DoneInv

\* What Store does, field by field.
Stored(p, e) ==
  /\ pipe'[p].entries = Append(pipe[p].entries, e)
  /\ accepted'[p] = Append(accepted[p], e)
  /\ \A q \in Pipes : q # p => /\ pipe'[q].entries = pipe[q].entries
                               /\ accepted'[q] = accepted[q]
  /\ \A q \in Pipes : /\ pipe'[q].sourceDone = pipe[q].sourceDone
                      /\ pipe'[q].sizeMax = pipe[q].sizeMax
                      /\ pipe'[q].dataBlocking = pipe[q].dataBlocking

LEMMA StoreFields ==
  ASSUME TypeInv, NEW p \in Pipes, NEW e, Store(p, e)
  PROVE  Stored(p, e)
<1>1. pipe \in [Pipes -> PipeState] /\ accepted \in [Pipes -> Seq(Entry)]
  BY DEF TypeInv, TypeOK
<1>2. \A q \in Pipes : pipe[q] \in PipeState
  BY <1>1
<1> QED BY <1>1, <1>2 DEF Store, Stored, PipeState

\* What taking the first entry of p does, field by field.
Taken(p) ==
  /\ pipe[p].entries # <<>> /\ pipe'[p].entries = Tail(pipe[p].entries)
  /\ \A q \in Pipes : q # p => pipe'[q].entries = pipe[q].entries
  /\ \A q \in Pipes : /\ pipe'[q].sourceDone = pipe[q].sourceDone
                      /\ pipe'[q].sizeMax = pipe[q].sizeMax
                      /\ pipe'[q].dataBlocking = pipe[q].dataBlocking

LEMMA TakeFields ==
  ASSUME TypeInv, NEW p \in Pipes, pipe[p].entries # <<>>,
         pipe' = [pipe EXCEPT ![p].entries = Tail(@)]
  PROVE  Taken(p)
<1>1. pipe \in [Pipes -> PipeState]
  BY DEF TypeInv, TypeOK
<1>2. \A q \in Pipes : pipe[q] \in PipeState
  BY <1>1
<1> QED BY <1>1, <1>2 DEF Taken, PipeState

\* A pipe is done, or nothing is.
Closed(p) ==
  /\ \A q \in Pipes : pipe'[q].entries = pipe[q].entries
  /\ \A q \in Pipes : q # p => pipe'[q].sourceDone = pipe[q].sourceDone
  /\ pipe'[p].sourceDone

LEMMA CloseFields ==
  ASSUME TypeInv, NEW p \in Pipes,
         \/ pipe' = [pipe EXCEPT ![p].sourceDone = TRUE]
         \/ pipe' = [pipe EXCEPT ![p] = [pipe[p] EXCEPT !.sourceDone = TRUE]]
  PROVE  Closed(p)
<1>1. pipe \in [Pipes -> PipeState]
  BY DEF TypeInv, TypeOK
<1>2. \A q \in Pipes : pipe[q] \in PipeState
  BY <1>1
<1>3. CASE pipe' = [pipe EXCEPT ![p].sourceDone = TRUE]
  BY <1>1, <1>2, <1>3 DEF Closed, PipeState
<1>4. CASE pipe' = [pipe EXCEPT ![p] = [pipe[p] EXCEPT !.sourceDone = TRUE]]
  BY <1>1, <1>2, <1>4 DEF Closed, PipeState
<1> QED BY <1>3, <1>4

\* The queues and what is done are as they were.
SameFlow == \A q \in Pipes : /\ pipe'[q].entries = pipe[q].entries
                             /\ pipe'[q].sourceDone = pipe[q].sourceDone

LEMMA SettingFlow ==
  ASSUME TypeInv, NEW p \in Pipes, SinkDoneSet(p)
             \/ (\E n \in Nat : SizeMaxSet(p, n)) \/ (\E b \in BOOLEAN : DataBlockingSet(p, b))
  PROVE  SameFlow /\ UNCHANGED <<call, alive, history>>
<1>1. pipe \in [Pipes -> PipeState]
  BY DEF TypeInv, TypeOK
<1>2. \A q \in Pipes : pipe[q] \in PipeState
  BY <1>1
<1>3. CASE SinkDoneSet(p)
  BY <1>1, <1>2, <1>3 DEF SinkDoneSet, Set, SameFlow, PipeState
<1>4. ASSUME NEW n \in Nat, SizeMaxSet(p, n) PROVE SameFlow /\ UNCHANGED <<call, alive, history>>
  BY <1>1, <1>2, <1>4 DEF SizeMaxSet, Set, SameFlow, PipeState
<1>5. ASSUME NEW b \in BOOLEAN, DataBlockingSet(p, b)
      PROVE  SameFlow /\ UNCHANGED <<call, alive, history>>
  BY <1>1, <1>2, <1>5 DEF DataBlockingSet, Set, SameFlow, PipeState
<1> QED BY <1>3, <1>4, <1>5

\* The application's own operations, with what each does to the queues.
LEMMA UserFlow ==
  ASSUME TypeInv, NEW p \in Pipes, UserStep(p)
  PROVE  /\ call' = call
         /\ \/ /\ p \in Sources /\ ~pipe[p].sourceDone
               /\ Stored(p, committed + 1) /\ committed' = committed + 1
               /\ received' = received /\ ended' = ended
               /\ committed + 1 \in Entry
            \/ /\ Taken(p) /\ p \in Sinks
               /\ received' = [received EXCEPT ![p] = Append(@, Head(pipe[p].entries))]
               /\ accepted' = accepted /\ committed' = committed /\ ended' = ended
            \/ /\ p \in Sinks /\ pipe[p].entries = <<>> /\ pipe[p].sourceDone
               /\ ended' = ended \cup {p}
               /\ SameFlow /\ UNCHANGED <<committed, accepted, received>>
            \/ p \in Sources /\ Closed(p) /\ UNCHANGED history
            \/ SameFlow /\ UNCHANGED history
<1>1. CASE Commit(p)
  <2>1. committed + 1 \in Entry
    BY <1>1, PipesAssumption DEF Commit, TypeInv, TypeOK, Entry
  <2> QED BY <1>1, <2>1, StoreFields DEF Commit
<1>2. CASE GetEntry(p)
  BY <1>2, TakeFields DEF GetEntry
<1>3. CASE GetClosed(p)
  BY <1>3 DEF GetClosed, SameFlow
<1>4. CASE SourceDoneSet(p)
  BY <1>4, CloseFields DEF SourceDoneSet, Set
<1>5. CASE SinkDoneSet(p)
  BY <1>5, SettingFlow
<1>6. ASSUME NEW u \in Tunings, SizeMaxSet(p, u[2]) PROVE SameFlow /\ call' = call /\ UNCHANGED history
  <2>1. u[2] \in Nat
    BY PipesAssumption
  <2> QED BY <1>6, <2>1, SettingFlow
<1>7. ASSUME NEW u \in Tunings, DataBlockingSet(p, u[3]) PROVE SameFlow /\ call' = call /\ UNCHANGED history
  <2>1. u[3] \in BOOLEAN
    BY PipesAssumption
  <2> QED BY <1>7, <2>1, SettingFlow
<1>8. CASE Drop(p)
  BY <1>8 DEF Drop, SameFlow
<1> QED BY <1>1, <1>2, <1>3, <1>4, <1>5, <1>6, <1>7, <1>8 DEF UserStep, history

\* The steps of to_push_try, with what each does to the queues and to its frame.
Ends(t) ==
  /\ call[t].at \in {"Peek", "Check"} /\ pipe' = pipe
  /\ \/ ~call[t].nothingLeft /\ call'[t] = NoCall
     \/ /\ call[t].nothingLeft /\ call'[t].nothingLeft
        /\ call'[t].at = "Close" /\ call'[t].self = call[t].self
        /\ call'[t].rest = Live(call[t].children)
        /\ call'[t].children = call[t].children

Peeks(t) ==
  LET live == Live(call[t].children) IN
  /\ call[t].at = "Peek" /\ pipe' = pipe
  /\ pipe[call[t].self].entries # <<>> /\ live # <<>>
  /\ Goes(call[t], call'[t], "Check", Head(pipe[call[t].self].entries), live, live)

Passes(t) ==
  /\ call[t].at = "Check" /\ pipe' = pipe
  /\ call[t].rest # <<>> /\ ~IsFull(Head(call[t].rest))
  /\ Goes(call[t], call'[t], "Check", call[t].entry, call[t].children, Tail(call[t].rest))

Decides(t) ==
  /\ call[t].at = "Check" /\ pipe' = pipe
  /\ call[t].rest = <<>> \/ ~call[t].dataBlocking
  /\ Goes(call[t], call'[t], "Pop", call[t].entry, call[t].children, call[t].rest)

Pops(t) ==
  /\ call[t].at = "Pop"
  /\ Taken(call[t].self) \/ (pipe[call[t].self].entries = <<>> /\ pipe' = pipe)
  /\ Goes(call[t], call'[t], "Push", call[t].entry, call[t].children, call[t].children)

Pushes1(t) ==
  /\ call[t].at = "Push" /\ call[t].rest # <<>>
  /\ ~IsFull(Head(call[t].rest)) /\ Stored(Head(call[t].rest), call[t].entry)
  /\ Goes(call[t], call'[t], "Push", call[t].entry, call[t].children, Tail(call[t].rest))

Skips(t) ==
  /\ call[t].at = "Push" /\ call[t].rest # <<>>
  /\ IsFull(Head(call[t].rest)) /\ pipe' = pipe
  /\ Goes(call[t], call'[t], "Push", call[t].entry, call[t].children, Tail(call[t].rest))

Rounds(t) ==
  /\ call[t].at = "Push" /\ call[t].rest = <<>> /\ pipe' = pipe
  /\ Goes(call[t], call'[t], "Peek", 0, call[t].children, <<>>)

Closes(t) ==
  /\ call[t].at = "Close" /\ call[t].rest # <<>> /\ Closed(Head(call[t].rest))
  /\ Goes(call[t], call'[t], "Close", call[t].entry, call[t].children, Tail(call[t].rest))

Leaves(t) ==
  call[t].at = "Close" /\ call[t].rest = <<>> /\ pipe' = pipe /\ call'[t] = NoCall

LEMMA PushFlow ==
  ASSUME TypeInv, FramesKnown, NEW t \in Callers, PushStep(t)
  PROVE  /\ FramesKnown' /\ Alike(t)
         /\ UNCHANGED <<alive, committed, received, ended>>
         /\ \/ Pushes1(t)
            \/ /\ accepted' = accepted
               /\ \/ Ends(t) \/ Peeks(t) \/ Passes(t) \/ Decides(t) \/ Pops(t)
                  \/ Skips(t) \/ Rounds(t) \/ Closes(t) \/ Leaves(t)
<1>1. /\ call[t] \in Frames /\ call[t].rest \in Seq(Pipes)
      /\ call[t].at \in Pushing /\ call[t].self \in Pipes
  BY DEF TypeInv, TypeOK, Call, Frames, Pushing, PushStep, Peek, Check, Pop, PushChild,
         EndPush, CloseChild, EndClose
<1>2. call[t].rest # <<>> => Head(call[t].rest) \in Pipes
  BY <1>1, HeadTailProperties
<1>3. ASSUME EndLoop(t), pipe' = pipe, call[t].at \in {"Peek", "Check"}
      PROVE  FramesKnown' /\ Alike(t) /\ Ends(t)
  BY <1>1, <1>3, EndLoopFrame DEF Ends, Alike
<1>4. CASE Peek(t)
  <2>1. CASE pipe[call[t].self].entries = <<>> \/ Live(call[t].children) = <<>>
    <3>1. EndLoop(t) /\ pipe' = pipe /\ call[t].at = "Peek" /\ UNCHANGED <<alive, history>>
      BY <1>4, <2>1 DEF Peek
    <3> QED BY <1>3, <3>1 DEF history
  <2>2. CASE ~(pipe[call[t].self].entries = <<>> \/ Live(call[t].children) = <<>>)
    <3>1. FramesKnown' /\ Alike(t) /\ Peeks(t)
      BY <1>4, <2>2, PeekFrame DEF Peeks, Peek
    <3> QED BY <1>4, <3>1 DEF Peek, history
  <2> QED BY <2>1, <2>2
<1>5. CASE Check(t)
  <2>0. /\ pipe' = pipe /\ UNCHANGED <<alive, history>> /\ call[t].at = "Check"
        /\ "Pop" \in Pushing
    BY <1>5 DEF Check, Pushing
  <2>1. CASE EndLoop(t)
    BY <1>3, <2>0, <2>1 DEF history
  <2>2. CASE /\ call' = [call EXCEPT ![t].at = "Pop"]
             /\ call[t].rest = <<>> \/ ~call[t].dataBlocking
    <3>1. FramesKnown' /\ Alike(t) /\ Decides(t)
      BY <1>1, <2>0, <2>2, AtFrame DEF Decides
    <3> QED BY <2>0, <3>1 DEF history
  <2>3. CASE /\ call' = [call EXCEPT ![t].rest = Tail(@)]
             /\ call[t].rest # <<>> /\ ~IsFull(Head(call[t].rest))
    <3>1. FramesKnown' /\ Alike(t) /\ Passes(t)
      BY <1>1, <2>0, <2>3, TailFrame DEF Passes
    <3> QED BY <2>0, <3>1 DEF history
  <2> QED BY <1>5, <2>1, <2>2, <2>3 DEF Check
<1>6. CASE Pop(t)
  <2>1. Taken(call[t].self) \/ (pipe[call[t].self].entries = <<>> /\ pipe' = pipe)
    <3>1. CASE pipe[call[t].self].entries = <<>>
      <4>1. pipe' = pipe
        BY <1>1, <1>6, <3>1 DEF Pop, TypeInv, TypeOK, PipeState
      <4> QED BY <3>1, <4>1
    <3>2. CASE pipe[call[t].self].entries # <<>>
      <4>1. pipe' = [pipe EXCEPT ![call[t].self].entries = Tail(@)]
        BY <1>1, <1>6, <3>2 DEF Pop
      <4> QED BY <1>1, <3>2, <4>1, TakeFields
    <3> QED BY <3>1, <3>2
  <2>2. FramesKnown' /\ Alike(t) /\ Pops(t)
    BY <1>6, <2>1, PopFrame DEF Pops, Pop
  <2> QED BY <1>6, <2>2 DEF Pop, history
<1>7. CASE PushChild(t)
  <2>0. /\ call[t].at = "Push" /\ call[t].rest # <<>>
        /\ call' = [call EXCEPT ![t].rest = Tail(@)]
        /\ UNCHANGED <<alive, committed, received, ended>>
    BY <1>7 DEF PushChild
  <2>1. FramesKnown' /\ Alike(t)
        /\ Goes(call[t], call'[t], "Push", call[t].entry, call[t].children, Tail(call[t].rest))
    BY <1>1, <2>0, TailFrame
  <2>2. CASE IsFull(Head(call[t].rest))
    BY <1>7, <2>0, <2>1, <2>2 DEF PushChild, Skips
  <2>3. CASE ~IsFull(Head(call[t].rest))
    <3>1. Stored(Head(call[t].rest), call[t].entry)
      BY <1>2, <1>7, <2>0, <2>3, StoreFields DEF PushChild
    <3> QED BY <2>0, <2>1, <2>3, <3>1 DEF Pushes1
  <2> QED BY <2>2, <2>3
<1>8. CASE EndPush(t)
  <2>1. FramesKnown' /\ Alike(t) /\ Rounds(t)
    BY <1>8, EndPushFrame DEF Rounds, EndPush
  <2> QED BY <1>8, <2>1 DEF EndPush, history
<1>9. CASE CloseChild(t)
  <2>1. /\ call[t].at = "Close" /\ call[t].rest # <<>>
        /\ pipe' = [pipe EXCEPT ![Head(call[t].rest)].sourceDone = TRUE]
        /\ call' = [call EXCEPT ![t].rest = Tail(@)]
    BY <1>9 DEF CloseChild
  <2>2. Closed(Head(call[t].rest))
    BY <1>2, <2>1, CloseFields
  <2>3. FramesKnown' /\ Alike(t) /\ Closes(t)
    BY <1>1, <2>1, <2>2, TailFrame DEF Closes
  <2> QED BY <1>9, <2>3 DEF CloseChild, history
<1>10. CASE EndClose(t)
  <2>1. GoodFrame(t, NoCall)
    BY DEF GoodFrame, NoCall, Pushing
  <2>2. FramesKnown' /\ Alike(t) /\ call'[t] = NoCall
    BY <1>10, <2>1, CallStep DEF EndClose, Alike
  <2> QED BY <1>10, <2>2 DEF EndClose, Leaves, history
<1> QED BY <1>4, <1>5, <1>6, <1>7, <1>8, <1>9, <1>10 DEF PushStep

\* What a caller has taken out of a pipe goes to no pipe that is done.
LEMMA FedNotDone ==
  ASSUME TypeInv, FramesKnown, DoneInv, NEW t \in Callers, call[t].at \in Busy,
         NEW c \in Pipes, c \in ToSet(call[t].children)
  PROVE  ~pipe[c].sourceDone
<1> DEFINE u == <<t, call[t].self>>
<1>1. u \in Pushes /\ u[2] \in Above(c) /\ u[1] = t /\ u[2] = call[t].self
  BY DEF FramesKnown, GoodFrame, Busy, Pushing
<1>2. ~Finished(u)
  BY <1>1 DEF Finished
<1> QED BY <1>1, <1>2 DEF DoneInv

\* The next pipe a caller is about to lock.
LEMMA NextPipe ==
  ASSUME TypeInv, FramesKnown, NEW t \in Callers, call[t].at \in Pushing, call[t].rest # <<>>
  PROVE  /\ Head(call[t].rest) \in Pipes /\ Head(call[t].rest) \in ToSet(call[t].children)
         /\ call[t].self \in Above(Head(call[t].rest))
         /\ Head(call[t].rest) \notin ToSet(Tail(call[t].rest))
         /\ ToSet(call[t].rest) = {Head(call[t].rest)} \cup ToSet(Tail(call[t].rest))
         /\ <<t, call[t].self>> \in Pushes /\ call[t].self \in Pipes
<1>1. call[t].rest \in Seq(Pipes) /\ GoodFrame(t, call[t])
  BY DEF TypeInv, TypeOK, Call, FramesKnown
<1>2. Once(call[t].rest) /\ ToSet(call[t].rest) \subseteq ToSet(call[t].children)
  BY <1>1 DEF GoodFrame
<1>3. call[t].self \in Pipes
  BY DEF TypeInv, Frames, Pushing
<1> QED BY <1>1, <1>2, <1>3, OnceTail DEF GoodFrame

\* Closing is kept by the steps of to_push_try.
LEMMA PushDone ==
  ASSUME TypeInv, TypeInv', FramesKnown, DoneInv, Feeding, NEW t \in Callers, PushStep(t)
  PROVE  DoneInv'
<1> DEFINE f == call[t]
<1>1. /\ Alike(t) /\ ended' = ended
      /\ \/ Pushes1(t) \/ Ends(t) \/ Peeks(t) \/ Passes(t) \/ Decides(t) \/ Pops(t)
         \/ Skips(t) \/ Rounds(t) \/ Closes(t) \/ Leaves(t)
  BY PushFlow
<1>2. /\ f.nothingLeft =>
           f.at \in {"Peek", "Close"} /\ pipe[f.self].sourceDone /\ pipe[f.self].entries = <<>>
      /\ f.at = "Close" => f.nothingLeft
  BY DEF DoneInv
<1>3. ASSUME pipe' = pipe, FrameFine(t) PROVE DoneInv'
  <2>1. \A q \in Pipes : DoneStays(q)
    BY <1>3 DEF DoneStays
  <2> QED BY <1>1, <1>3, <2>1, DoneKept DEF Alike
<1>4. CASE Pushes1(t)
  <2> DEFINE c == Head(f.rest)
  <2>1. c \in Pipes /\ c \in ToSet(f.children) /\ f.at \in Busy /\ Stored(c, f.entry)
    BY <1>4, NextPipe DEF Pushes1, Pushing, Busy
  <2>2. ~pipe[c].sourceDone
    BY <2>1, FedNotDone
  <2>3. \A q \in Pipes : DoneStays(q)
    BY <2>1, <2>2 DEF DoneStays, Stored
  <2>4. FrameFine(t)
    BY <1>2, <1>4 DEF FrameFine, Pushes1, Goes, Busy
  <2>5. \A q \in Pipes : pipe'[q].sourceDone = pipe[q].sourceDone
    BY <2>1 DEF Stored
  <2> QED BY <1>1, <2>3, <2>4, <2>5, DoneKept DEF Alike
<1>5. CASE Ends(t)
  <2>1. FrameFine(t)
    BY <1>2, <1>5 DEF FrameFine, Ends, NoCall, Busy
  <2> QED BY <1>3, <1>5, <2>1 DEF Ends
<1>6. CASE Peeks(t)
  <2>1. FrameFine(t)
    BY <1>2, <1>6 DEF FrameFine, Peeks, Goes, Busy
  <2> QED BY <1>3, <1>6, <2>1 DEF Peeks
<1>7. CASE Passes(t)
  <2>1. FrameFine(t)
    BY <1>2, <1>7 DEF FrameFine, Passes, Goes, Busy
  <2> QED BY <1>3, <1>7, <2>1 DEF Passes
<1>8. CASE Decides(t)
  <2>1. FrameFine(t)
    BY <1>2, <1>8 DEF FrameFine, Decides, Goes, Busy
  <2> QED BY <1>3, <1>8, <2>1 DEF Decides
<1>9. CASE Pops(t)
  <2>1. FrameFine(t)
    BY <1>2, <1>9 DEF FrameFine, Pops, Goes, Busy
  <2>2. CASE pipe' = pipe
    BY <1>3, <2>1, <2>2
  <2>3. CASE Taken(f.self)
    <3>1. \A q \in Pipes : pipe'[q].sourceDone = pipe[q].sourceDone
      BY <2>3 DEF Taken
    <3>2. \A q \in Pipes : DoneStays(q)
      BY <2>3 DEF Taken, DoneStays
    <3> QED BY <1>1, <2>1, <3>1, <3>2, DoneKept DEF Alike
  <2> QED BY <1>9, <2>2, <2>3 DEF Pops
<1>10. CASE Skips(t)
  <2>1. FrameFine(t)
    BY <1>2, <1>10 DEF FrameFine, Skips, Goes, Busy
  <2> QED BY <1>3, <1>10, <2>1 DEF Skips
<1>11. CASE Rounds(t)
  <2>1. FrameFine(t)
    BY <1>2, <1>11 DEF FrameFine, Rounds, Goes, Busy
  <2> QED BY <1>3, <1>11, <2>1 DEF Rounds
<1>12. CASE Closes(t)
  <2> DEFINE c == Head(f.rest)
  <2>1. FrameFine(t)
    BY <1>2, <1>12 DEF FrameFine, Closes, Goes, Busy
  <2>2. /\ c \in Pipes /\ f.self \in Above(c) /\ Closed(c) /\ <<t, f.self>> \in Pushes
        /\ f.at = "Close"
    BY <1>12, NextPipe DEF Closes, Pushing
  <2>3. Finished(<<t, f.self>>)
    BY <1>2, <2>2 DEF Finished, Busy
  <2>4. ASSUME NEW u \in Pushes, u[2] \in Above(c) PROVE Finished(u)
    <3>1. u = <<t, f.self>>
      BY <2>2, <2>4 DEF Feeding, OneFeed
    <3> QED BY <2>3, <3>1
  <2>5. \A q \in Pipes : pipe'[q].sourceDone /\ ~pipe[q].sourceDone => q = c
    BY <2>2 DEF Closed
  <2>6. \A q \in Pipes : DoneStays(q)
    BY <2>2 DEF DoneStays, Closed
  <2> HIDE DEF c
  <2> QED BY <1>1, <2>1, <2>4, <2>5, <2>6, DoneKept DEF Alike
<1>13. CASE Leaves(t)
  <2>1. FrameFine(t)
    BY <1>13 DEF FrameFine, Leaves, NoCall, Busy
  <2> QED BY <1>3, <1>13, <2>1 DEF Leaves
<1> QED BY <1>1, <1>4, <1>5, <1>6, <1>7, <1>8, <1>9, <1>10, <1>11, <1>12, <1>13

\* Closing is kept by the application's own operations.
LEMMA UserDone ==
  ASSUME TypeInv, TypeInv', DoneInv, Feeding, NEW p \in Pipes, UserStep(p)
  PROVE  DoneInv'
<1>1. call' = call
  BY UserFlow
<1>2. CASE p \in Sources /\ ~pipe[p].sourceDone /\ Stored(p, committed + 1) /\ ended' = ended
  <2>1. \A q \in Pipes : DoneStays(q) /\ pipe'[q].sourceDone = pipe[q].sourceDone
    BY <1>2 DEF Stored, DoneStays
  <2> QED BY <1>1, <1>2, <2>1, DoneKept
<1>3. CASE Taken(p) /\ ended' = ended
  <2>1. \A q \in Pipes : DoneStays(q) /\ pipe'[q].sourceDone = pipe[q].sourceDone
    BY <1>3 DEF Taken, DoneStays
  <2> QED BY <1>1, <1>3, <2>1, DoneKept
<1>4. CASE SameFlow
  <2>1. \A q \in Pipes : DoneStays(q) /\ pipe'[q].sourceDone = pipe[q].sourceDone
    BY <1>4 DEF SameFlow, DoneStays
  <2>2. \A c \in ended' : c \in ended \/ (pipe[c].sourceDone /\ pipe[c].entries = <<>>)
    BY UserFlow, <1>4 DEF history, Stored, Taken, Closed, SameFlow
  <2> QED BY <1>1, <2>1, <2>2, DoneKept
<1>5. CASE p \in Sources /\ Closed(p) /\ ended' = ended
  <2>1. \A u \in Pushes : u[2] \notin Above(p)
    BY <1>5 DEF Feeding, SourcesAreRoots
  <2>2. \A q \in Pipes : DoneStays(q)
    BY <1>5 DEF Closed, DoneStays
  <2>3. \A q \in Pipes : pipe'[q].sourceDone /\ ~pipe[q].sourceDone => q = p
    BY <1>5 DEF Closed
  <2> QED BY <1>1, <1>5, <2>1, <2>2, <2>3, DoneKept
<1> QED BY <1>2, <1>3, <1>4, <1>5, UserFlow DEF history

\* Every step keeps what is known of frames and of closing.
LEMMA NextDone ==
  ASSUME TypeInv, LinkInv, FramesKnown, DoneInv, Feeding, [Next]_vars
  PROVE  FramesKnown' /\ DoneInv'
<1>1. TypeInv'
  BY NextTypes
<1>2. ASSUME NEW t \in Callers, PushStep(t) PROVE FramesKnown' /\ DoneInv'
  BY <1>1, <1>2, PushFlow, PushDone
<1>3. ASSUME NEW t \in Callers, NEW p \in Pipes, BeginPush(t, p) PROVE FramesKnown' /\ DoneInv'
  <2>1. /\ FramesKnown' /\ Alike(t) /\ call'[t].at = "Peek" /\ call'[t].self = p
        /\ call'[t].nothingLeft <=> pipe[p].entries = <<>> /\ pipe[p].sourceDone
    BY <1>3, BeginFrame
  <2>2. pipe' = pipe /\ ended' = ended
    BY <1>3 DEF BeginPush, history
  <2>3. FrameFine(t)
    BY <2>1 DEF FrameFine, Busy
  <2>4. \A q \in Pipes : DoneStays(q)
    BY <2>2 DEF DoneStays
  <2> QED BY <1>1, <2>1, <2>2, <2>3, <2>4, DoneKept DEF Alike
<1>4. ASSUME NEW t \in Callers, WiringStep(t) PROVE FramesKnown' /\ DoneInv'
  <2>1. /\ FramesKnown' /\ Alike(t)
        /\ call[t].at \notin Pushing /\ call'[t].at \notin Pushing
        /\ ~call[t].nothingLeft => ~call'[t].nothingLeft
    BY <1>4, WiringFrame
  <2>2. (\A q \in Pipes : SameQueue(q)) /\ ended' = ended
    BY <1>4, WiringQueues DEF history
  <2>3. ~call[t].nothingLeft
    BY <2>1 DEF DoneInv, Pushing
  <2>4. FrameFine(t)
    BY <2>1, <2>3 DEF FrameFine, Busy, Pushing
  <2>5. \A q \in Pipes : DoneStays(q) /\ pipe'[q].sourceDone = pipe[q].sourceDone
    BY <2>2 DEF DoneStays, SameQueue
  <2> QED BY <1>1, <2>1, <2>2, <2>4, <2>5, DoneKept DEF Alike
<1>5. ASSUME NEW p \in Pipes, UserStep(p) PROVE FramesKnown' /\ DoneInv'
  <2>1. call' = call
    BY <1>5, UserFlow
  <2> QED BY <1>1, <1>5, <2>1, UserDone DEF FramesKnown
<1>6. CASE UNCHANGED vars
  BY <1>6 DEF vars, FramesKnown, DoneInv, Finished
<1> QED BY <1>2, <1>3, <1>4, <1>5, <1>6 DEF Next

LEMMA DoneInvariant == Careful /\ Feeding => (Spec => [](FramesKnown /\ DoneInv))
<1> SUFFICES ASSUME Careful, Feeding PROVE Spec => [](FramesKnown /\ DoneInv)
  OBVIOUS
<1>1. Init => FramesKnown /\ DoneInv
  <2>1. SUFFICES ASSUME Init PROVE FramesKnown /\ DoneInv
    OBVIOUS
  <2>2. \A t \in Callers : call[t] = NoCall
    BY <2>1 DEF Init
  <2>3. \A p \in Pipes : ~pipe[p].sourceDone
    BY <2>1 DEF Init, New
  <2> QED BY <2>1, <2>2, <2>3 DEF Init, FramesKnown, DoneInv, GoodFrame, NoCall, Pushing
<1>2. TypeInv /\ LinkInv /\ (FramesKnown /\ DoneInv) /\ [Next]_vars => (FramesKnown /\ DoneInv)'
  BY NextDone
<1> QED BY <1>1, <1>2, TypeInvariant, LinkInvariant, PTL DEF Spec

\* ClosedIsFinal: after get has told its reader that a pipe is closed it returns
\* no entry to it, though to_push_try closes the children of a pipe without the
\* lock of the pipe.  What it rests on: nothing comes any more from a pipe whose
\* children are closed, neither from its queue nor from a caller inside a push.
THEOREM ClosedAlwaysFinal ==
  ASSUME OneHand, OwnParent, OneFeed, SourcesAreRoots PROVE Spec => ClosedIsFinal
<1>1. TypeInv /\ DoneInv /\ [Next]_vars => [\A c \in ended : received'[c] = received[c]]_vars
  <2>1. SUFFICES ASSUME TypeInv, DoneInv, Next, NEW c \in ended
        PROVE  received'[c] = received[c]
    BY DEF vars
  <2>2. pipe[c].entries = <<>> /\ c \in Pipes
    BY <2>1 DEF DoneInv, TypeInv, TypeOK
  <2>3. ASSUME NEW t \in Callers,
               PushStep(t) \/ WiringStep(t) \/ \E p \in Pipes : BeginPush(t, p)
        PROVE  received'[c] = received[c]
    BY <2>1, <2>3, WiringQueues DEF PushStep, Peek, Check, Pop, PushChild, EndPush,
       CloseChild, EndClose, BeginPush, history
  <2>4. ASSUME NEW p \in Pipes, UserStep(p) PROVE received'[c] = received[c]
    BY <2>1, <2>2, <2>4, UserFlow DEF Taken, TypeInv, TypeOK, history
  <2> QED BY <2>1, <2>3, <2>4 DEF Next
<1> QED BY <1>1, TypeInvariant, DoneInvariant, PTL DEF Careful, Feeding, ClosedIsFinal, Spec

-----------------------------------------------------------------------------
(* Order.                                                                  *)

Rising(s) == \A i, j \in 1 .. Len(s) : i < j => s[i] < s[j]

\* All of S comes before all of T.
Before(S, T) == \A x \in S : \A y \in T : x < y

\* A queue and what has been got from it are in order, and were accepted.
QueueInOrder(p) ==
  /\ Rising(received[p]) /\ Rising(pipe[p].entries)
  /\ Before(ToSet(received[p]), ToSet(pipe[p].entries))
  /\ ToSet(received[p]) \cup ToSet(pipe[p].entries) \subseteq ToSet(accepted[p])
  /\ ToSet(accepted[p]) \subseteq 1 .. committed

\* A caller with the frame f will store in c what it has taken out of p.
Waits(f, p, c) ==
  /\ f.self = p
  /\ f.at \in {"Check", "Pop"} \/ (f.at = "Push" /\ c \in ToSet(f.rest))

\* What u[1] has handed on from u[2] to c comes before what it will hand on.
FeedInOrder(u, c) ==
  /\ ToSet(accepted[c]) \subseteq ToSet(accepted[u[2]])
  /\ Before(ToSet(accepted[c]), ToSet(pipe[u[2]].entries))
  /\ Waits(call[u[1]], u[2], c) => Before(ToSet(accepted[c]), {call[u[1]].entry})

\* The entry a caller has peeked was in the queue, and is not behind the others.
PeekInOrder(f) ==
  f.at \in Busy =>
    /\ f.entry \in ToSet(accepted[f.self])
    /\ \A y \in ToSet(pipe[f.self].entries) :
         f.entry <= y /\ (f.at = "Push" => f.entry < y)

OrderInv ==
  /\ \A p \in Pipes : QueueInOrder(p)
  /\ \A u \in Pushes : \A c \in Pipes : u[2] \in Above(c) => FeedInOrder(u, c)
  /\ \A t \in Callers : PeekInOrder(call[t])

LEMMA RisingTail ==
  ASSUME NEW s \in Seq(Nat), s # <<>>, Rising(s)
  PROVE  /\ Rising(Tail(s)) /\ Before({Head(s)}, ToSet(Tail(s)))
         /\ ToSet(s) = {Head(s)} \cup ToSet(Tail(s))
         /\ Head(s) \in Nat /\ Tail(s) \in Seq(Nat)
<1>1. /\ Tail(s) \in Seq(Nat) /\ Len(Tail(s)) = Len(s) - 1
      /\ \A i \in 1 .. Len(Tail(s)) : Tail(s)[i] = s[i + 1]
      /\ Head(s) \in Nat
  BY HeadTailProperties
<1>2. Len(s) \in Nat \ {0} /\ Head(s) = s[1]
  BY EmptySeq
<1>3. ToSet(Tail(s)) = {Tail(s)[i] : i \in 1 .. Len(Tail(s))}
  BY <1>1, ToSetIs
<1>4. \A i \in 1 .. Len(Tail(s)) : i + 1 \in 1 .. Len(s) /\ 1 < i + 1
  BY <1>1, <1>2
<1>5. Rising(Tail(s))
  <2>1. SUFFICES ASSUME NEW i \in 1 .. Len(Tail(s)), NEW j \in 1 .. Len(Tail(s)), i < j
        PROVE  Tail(s)[i] < Tail(s)[j]
    BY DEF Rising
  <2>2. i + 1 < j + 1 /\ i + 1 \in 1 .. Len(s) /\ j + 1 \in 1 .. Len(s)
    BY <1>4, <2>1
  <2> QED BY <1>1, <2>2 DEF Rising
<1>6. Before({Head(s)}, ToSet(Tail(s)))
  <2>1. SUFFICES ASSUME NEW i \in 1 .. Len(Tail(s)) PROVE Head(s) < Tail(s)[i]
    BY <1>3 DEF Before
  <2>2. 1 \in 1 .. Len(s)
    BY <1>2
  <2> QED BY <1>1, <1>2, <1>4, <2>2 DEF Rising
<1> QED BY <1>1, <1>5, <1>6, HeadOrTail

LEMMA RisingAppend ==
  ASSUME NEW s \in Seq(Nat), NEW e \in Nat, Rising(s), Before(ToSet(s), {e})
  PROVE  Rising(Append(s, e)) /\ ToSet(Append(s, e)) = ToSet(s) \cup {e}
<1> DEFINE r == Append(s, e)
<1>1. /\ r \in Seq(Nat) /\ Len(r) = Len(s) + 1 /\ r[Len(s) + 1] = e
      /\ \A i \in 1 .. Len(s) : r[i] = s[i]
      /\ Len(s) \in Nat
  BY AppendProperties, LenProperties
<1> HIDE DEF r
<1>2. \A i : i \in 1 .. Len(r) <=> i \in 1 .. Len(s) \/ i = Len(s) + 1
  BY <1>1
<1>3. \A i \in 1 .. Len(s) : s[i] < e
  <2>1. ToSet(s) = {s[i] : i \in 1 .. Len(s)}
    BY ToSetIs
  <2> QED BY <2>1 DEF Before
<1>4. Rising(r)
  <2>1. SUFFICES ASSUME NEW i \in 1 .. Len(r), NEW j \in 1 .. Len(r), i < j
        PROVE  r[i] < r[j]
    BY DEF Rising
  <2>2. i \in 1 .. Len(s)
    BY <1>1, <2>1
  <2>3. CASE j = Len(s) + 1
    BY <1>1, <1>3, <2>2, <2>3
  <2>4. CASE j \in 1 .. Len(s)
    BY <1>1, <2>1, <2>2, <2>4 DEF Rising
  <2> QED BY <1>2, <2>3, <2>4
<1> QED BY <1>4, SetWithLast DEF r

\* The first of a queue in order is before the others; one can be taken away.
LEMMA TypesOfFlow ==
  ASSUME TypeInv, NEW p \in Pipes
  PROVE  /\ pipe[p].entries \in Seq(Nat) /\ received[p] \in Seq(Nat)
         /\ accepted[p] \in Seq(Nat)
         /\ pipe[p].entries \in Seq(Entry) /\ received[p] \in Seq(Entry)
         /\ accepted[p] \in Seq(Entry)
<1>1. Entry \subseteq Nat
  BY PipesAssumption DEF Entry
<1>2. /\ pipe[p].entries \in Seq(Entry) /\ received[p] \in Seq(Entry)
      /\ accepted[p] \in Seq(Entry)
  BY DEF TypeInv, TypeOK, PipeState
<1> QED BY <1>1, <1>2, SeqMonotonic

\* An entry is stored behind all that were stored there before.
LEMMA StoredOrder ==
  ASSUME TypeInv, OrderInv, NEW d \in Pipes, NEW z \in Entry, Stored(d, z),
         committed' \in Nat, z <= committed', committed <= committed', received' = received,
         Before(ToSet(accepted[d]), {z}),
         \A u \in Pushes : u[2] \in Above(d) =>
           z \in ToSet(accepted[u[2]]) /\ Before({z}, ToSet(pipe[u[2]].entries)),
         \A u \in Pushes : \A c \in Pipes :
           u[2] \in Above(c) /\ Waits(call'[u[1]], u[2], c) =>
             /\ c # d /\ Waits(call[u[1]], u[2], c)
             /\ call'[u[1]].entry = call[u[1]].entry,
         \A t \in Callers : call'[t].at \in Busy =>
           /\ call[t].at \in Busy /\ call'[t].self = call[t].self
           /\ call'[t].entry = call[t].entry
           /\ call'[t].at = "Push" => call[t].at = "Push"
  PROVE  OrderInv'
<1>0. z \in Nat /\ committed \in Nat
  BY PipesAssumption DEF Entry, TypeInv, TypeOK
<1>1. /\ ToSet(accepted'[d]) = ToSet(accepted[d]) \cup {z}
      /\ ToSet(pipe'[d].entries) = ToSet(pipe[d].entries) \cup {z}
  <2>1. pipe[d].entries \in Seq(Nat)
    BY TypesOfFlow
  <2>2. ToSet(Append(accepted[d], z)) = ToSet(accepted[d]) \cup {z}
    <3>1. accepted[d] \in Seq(Entry)
      BY TypesOfFlow
    <3> HIDE DEF Entry
    <3> QED BY <3>1, SetWithLast
  <2>3. ToSet(Append(pipe[d].entries, z)) = ToSet(pipe[d].entries) \cup {z}
    BY <1>0, <2>1, SetWithLast
  <2> QED BY <2>2, <2>3 DEF Stored
<1>2. \A q \in Pipes : q # d => accepted'[q] = accepted[q] /\ pipe'[q].entries = pipe[q].entries
  BY DEF Stored
<1>3. ASSUME NEW p \in Pipes PROVE QueueInOrder(p)'
  <2>1. QueueInOrder(p)
    BY DEF OrderInv
  <2>2. ToSet(accepted[p]) \subseteq 1 .. committed'
    BY <1>0, <2>1 DEF QueueInOrder
  <2>3. CASE p # d
    BY <1>2, <2>1, <2>2, <2>3 DEF QueueInOrder
  <2>4. CASE p = d
    <3>1. pipe[d].entries \in Seq(Nat) /\ Rising(pipe[d].entries)
      BY <2>1, <2>4, TypesOfFlow DEF QueueInOrder
    <3>2. Before(ToSet(pipe[d].entries), {z}) /\ Before(ToSet(received[d]), {z})
      BY <2>1, <2>4 DEF QueueInOrder, Before
    <3>3. Rising(Append(pipe[d].entries, z))
      BY <1>0, <3>1, <3>2, RisingAppend
    <3>4. z \in 1 .. committed'
      BY <1>0 DEF Entry
    <3>5. Before(ToSet(received[d]), ToSet(pipe'[d].entries))
      BY <1>1, <2>1, <2>4, <3>2 DEF QueueInOrder, Before
    <3>6. /\ ToSet(received[d]) \cup ToSet(pipe'[d].entries) \subseteq ToSet(accepted'[d])
          /\ ToSet(accepted'[d]) \subseteq 1 .. committed'
      BY <1>1, <2>1, <2>2, <2>4, <3>4 DEF QueueInOrder
    <3> QED BY <2>1, <2>4, <3>3, <3>5, <3>6 DEF QueueInOrder, Stored
  <2> QED BY <2>3, <2>4
<1>4. ASSUME NEW u \in Pushes, NEW c \in Pipes, u[2] \in Above(c) PROVE FeedInOrder(u, c)'
  <2>1. u[2] \in Pipes /\ u[1] \in Callers
    BY PipesAssumption
  <2>2. FeedInOrder(u, c)
    BY <1>4 DEF OrderInv
  <2>3. c = d => u[2] # d
    BY <1>0, <1>4 DEF Before
  <2>4. ToSet(accepted'[c]) \subseteq ToSet(accepted'[u[2]])
    <3>1. CASE c = d
      BY <1>1, <1>2, <1>4, <2>1, <2>2, <2>3, <3>1 DEF FeedInOrder
    <3>2. CASE c # d
      BY <1>1, <1>2, <2>1, <2>2, <3>2 DEF FeedInOrder
    <3> QED BY <3>1, <3>2
  <2>5. Before(ToSet(accepted'[c]), ToSet(pipe'[u[2]].entries))
    <3>1. CASE c = d
      BY <1>1, <1>2, <1>4, <2>1, <2>2, <2>3, <3>1 DEF FeedInOrder, Before
    <3>2. CASE u[2] = d
      BY <1>1, <1>2, <2>2, <2>3, <3>2 DEF FeedInOrder, Before
    <3>3. CASE c # d /\ u[2] # d
      BY <1>2, <2>1, <2>2, <3>3 DEF FeedInOrder
    <3> QED BY <3>1, <3>2, <3>3
  <2>6. ASSUME Waits(call'[u[1]], u[2], c)
        PROVE  Before(ToSet(accepted'[c]), {call'[u[1]].entry})
    BY <1>2, <1>4, <2>2, <2>6 DEF FeedInOrder
  <2> QED BY <2>4, <2>5, <2>6 DEF FeedInOrder
<1>5. ASSUME NEW t \in Callers PROVE PeekInOrder(call[t])'
  <2>1. SUFFICES ASSUME call'[t].at \in Busy
        PROVE  /\ call'[t].entry \in ToSet(accepted'[call'[t].self])
               /\ \A y \in ToSet(pipe'[call'[t].self].entries) :
                    /\ call'[t].entry <= y
                    /\ call'[t].at = "Push" => call'[t].entry < y
    BY DEF PeekInOrder
  <2> DEFINE e == call[t].entry  p == call[t].self
  <2>2. /\ call[t].at \in Busy /\ call'[t].self = p /\ call'[t].entry = e
        /\ call'[t].at = "Push" => call[t].at = "Push"
        /\ p \in Pipes
    BY <2>1 DEF TypeInv, Frames, Busy
  <2>3. /\ e \in ToSet(accepted[p])
        /\ \A y \in ToSet(pipe[p].entries) : e <= y /\ (call[t].at = "Push" => e < y)
    BY <2>2 DEF OrderInv, PeekInOrder
  <2>4. CASE p # d
    BY <1>2, <2>2, <2>3, <2>4
  <2>5. CASE p = d
    <3>1. e < z
      BY <2>3, <2>5 DEF Before
    <3>2. e \in Nat
      <4>1. accepted[p] \in Seq(Nat)
        BY <2>2, TypesOfFlow
      <4> QED BY <2>3, <4>1, ToSetIs
    <3>3. e <= z
      BY <1>0, <3>1, <3>2
    <3> QED BY <1>1, <2>2, <2>3, <2>5, <3>1, <3>3
  <2> QED BY <2>4, <2>5
<1> QED BY <1>3, <1>4, <1>5 DEF OrderInv

\* Nothing is stored, and whoever peeks an entry peeks one that is queued.
LEMMA ShrunkOrder ==
  ASSUME TypeInv, OrderInv, accepted' = accepted,
         \A p \in Pipes : QueueInOrder(p)',
         \A p \in Pipes : ToSet(pipe'[p].entries) \subseteq ToSet(pipe[p].entries),
         \A u \in Pushes : \A c \in Pipes : Waits(call'[u[1]], u[2], c) =>
           \/ call'[u[1]].entry \in ToSet(pipe[u[2]].entries)
           \/ Waits(call[u[1]], u[2], c) /\ call'[u[1]].entry = call[u[1]].entry,
         \A t \in Callers : PeekInOrder(call[t])'
  PROVE  OrderInv'
<1>1. ASSUME NEW u \in Pushes, NEW c \in Pipes, u[2] \in Above(c) PROVE FeedInOrder(u, c)'
  <2>1. u[2] \in Pipes
    BY PipesAssumption
  <2>2. FeedInOrder(u, c)
    BY <1>1 DEF OrderInv
  <2>3. Before(ToSet(accepted[c]), ToSet(pipe'[u[2]].entries))
    BY <2>1, <2>2 DEF FeedInOrder, Before
  <2>4. ASSUME Waits(call'[u[1]], u[2], c)
        PROVE  Before(ToSet(accepted[c]), {call'[u[1]].entry})
    BY <2>2, <2>4 DEF FeedInOrder, Before
  <2> QED BY <2>2, <2>3, <2>4 DEF FeedInOrder
<1> QED BY <1>1 DEF OrderInv

\* The caller t takes nothing new in hand.
Carries(t) ==
  call'[t].at \in Busy =>
    /\ call[t].at \in Busy
    /\ call'[t].self = call[t].self /\ call'[t].entry = call[t].entry
    /\ call'[t].at = "Push" <=> call[t].at = "Push"
    /\ call'[t].at = "Push" => ToSet(call'[t].rest) \subseteq ToSet(call[t].rest)

\* A queue that is as it was is in order as it was.
LEMMA StillOrder ==
  ASSUME OrderInv, NEW p \in Pipes, accepted' = accepted, committed' = committed,
         received'[p] = received[p], pipe'[p].entries = pipe[p].entries
  PROVE  QueueInOrder(p)'
BY DEF OrderInv, QueueInOrder

LEMMA CarryPeek ==
  ASSUME TypeInv, OrderInv, accepted' = accepted, NEW t \in Callers, Carries(t),
         \A p \in Pipes : ToSet(pipe'[p].entries) \subseteq ToSet(pipe[p].entries)
  PROVE  PeekInOrder(call[t])'
<1>1. SUFFICES ASSUME call'[t].at \in Busy
      PROVE  /\ call'[t].entry \in ToSet(accepted'[call'[t].self])
             /\ \A y \in ToSet(pipe'[call'[t].self].entries) :
                  /\ call'[t].entry <= y
                  /\ call'[t].at = "Push" => call'[t].entry < y
  BY DEF PeekInOrder
<1>2. /\ call[t].at \in Busy /\ call'[t].self = call[t].self /\ call'[t].entry = call[t].entry
      /\ call'[t].at = "Push" => call[t].at = "Push"
  BY <1>1 DEF Carries
<1>3. call[t].self \in Pipes
  BY <1>2 DEF TypeInv, Frames, Busy
<1>4. PeekInOrder(call[t])
  BY DEF OrderInv
<1> QED BY <1>2, <1>3, <1>4 DEF PeekInOrder

LEMMA CarryWaits ==
  ASSUME NEW t \in Callers, Carries(t), NEW p, NEW c, Waits(call'[t], p, c)
  PROVE  Waits(call[t], p, c) /\ call'[t].entry = call[t].entry
BY DEF Carries, Waits, Busy

\* A step that leaves the queues alone and in which nobody peeks.
LEMMA QuietOrder ==
  ASSUME TypeInv, OrderInv, UNCHANGED <<accepted, committed, received>>,
         \A p \in Pipes : pipe'[p].entries = pipe[p].entries,
         \A t \in Callers : Carries(t)
  PROVE  OrderInv'
<1>1. \A p \in Pipes : QueueInOrder(p)'
  BY StillOrder
<1>2. \A t \in Callers : PeekInOrder(call[t])'
  BY CarryPeek
<1>3. ASSUME NEW u \in Pushes, NEW c \in Pipes, Waits(call'[u[1]], u[2], c)
      PROVE  Waits(call[u[1]], u[2], c) /\ call'[u[1]].entry = call[u[1]].entry
  <2>1. u[1] \in Callers
    BY PipesAssumption
  <2> QED BY <1>3, <2>1, CarryWaits
<1> QED BY <1>1, <1>2, <1>3, ShrunkOrder

LEMMA PushChildOrder ==
  ASSUME TypeInv, FramesKnown, OrderInv, Feeding, NEW t \in Callers, Pushes1(t),
         Alike(t), UNCHANGED <<committed, received>>
  PROVE  OrderInv'
<1> DEFINE f == call[t]  d == Head(f.rest)  z == f.entry  v == <<t, f.self>>
<1>1. /\ d \in Pipes /\ d \notin ToSet(Tail(f.rest))
      /\ ToSet(f.rest) = {d} \cup ToSet(Tail(f.rest))
      /\ v \in Pushes /\ v[1] = t /\ v[2] = f.self /\ f.self \in Above(d) /\ f.self \in Pipes
  BY NextPipe DEF Pushes1, Pushing
<1>2. /\ f.at = "Push" /\ Stored(d, z)
      /\ Goes(f, call'[t], "Push", z, f.children, Tail(f.rest))
  BY DEF Pushes1
<1>3. /\ z \in ToSet(accepted[f.self])
      /\ \A y \in ToSet(pipe[f.self].entries) : z < y
  BY <1>2 DEF OrderInv, PeekInOrder, Busy
<1>4. z \in Entry /\ committed \in Nat /\ z <= committed
  <2>1. accepted[f.self] \in Seq(Entry)
    BY <1>1, TypesOfFlow
  <2>2. z \in Entry
    BY <1>3, <2>1, ToSetIs
  <2>3. z \in 1 .. committed
    BY <1>1, <1>3 DEF OrderInv, QueueInOrder
  <2> QED BY <2>2, <2>3 DEF TypeInv, TypeOK
<1>5. Before(ToSet(accepted[d]), {z})
  <2>1. Waits(call[v[1]], v[2], d)
    BY <1>1, <1>2 DEF Waits
  <2> QED BY <1>1, <2>1 DEF OrderInv, FeedInOrder
<1>6. ASSUME NEW u \in Pushes, u[2] \in Above(d) PROVE u = v
  BY <1>1, <1>6 DEF Feeding, OneFeed
<1>7. ASSUME NEW u \in Pushes, u[2] \in Above(d)
      PROVE  z \in ToSet(accepted[u[2]]) /\ Before({z}, ToSet(pipe[u[2]].entries))
  BY <1>1, <1>3, <1>6, <1>7 DEF Before
<1>8. ASSUME NEW u \in Pushes, NEW c \in Pipes, u[2] \in Above(c), Waits(call'[u[1]], u[2], c)
      PROVE  c # d /\ Waits(call[u[1]], u[2], c) /\ call'[u[1]].entry = call[u[1]].entry
  <2>1. u[1] \in Callers
    BY PipesAssumption
  <2>2. CASE u[1] = t
    BY <1>1, <1>2, <1>8, <2>2 DEF Waits, Goes
  <2>3. CASE u[1] # t
    <3>1. call'[u[1]] = call[u[1]]
      BY <2>1, <2>3 DEF Alike
    <3>2. c # d
      BY <1>1, <1>6, <1>8, <2>3
    <3> QED BY <1>8, <3>1, <3>2
  <2> QED BY <2>2, <2>3
<1>9. ASSUME NEW s \in Callers, call'[s].at \in Busy
      PROVE  /\ call[s].at \in Busy /\ call'[s].self = call[s].self
             /\ call'[s].entry = call[s].entry
             /\ call'[s].at = "Push" => call[s].at = "Push"
  BY <1>2, <1>9 DEF Alike, Goes, Busy
<1> HIDE DEF f, d, z, v
<1>10. committed' \in Nat /\ z <= committed' /\ committed <= committed' /\ received' = received
  BY <1>4
<1> QED BY <1>1, <1>2, <1>4, <1>5, <1>7, <1>8, <1>9, <1>10, StoredOrder, ZenonT(60)

LEMMA PopOrder ==
  ASSUME TypeInv, FramesKnown, OrderInv, NEW t \in Callers, Pops(t), Alike(t),
         UNCHANGED <<accepted, committed, received>>
  PROVE  OrderInv'
<1> DEFINE f == call[t]  g == call'[t]
<1>0. PICK q \in Pipes : q = f.self
  BY DEF Pops, TypeInv, Frames
<1> DEFINE x == pipe[q].entries
<1>1. /\ f.at = "Pop" /\ g.at = "Push" /\ g.self = q /\ f.self = q /\ g.entry = f.entry
  BY <1>0 DEF Pops, Goes
<1>2. \A p \in Pipes : p # q => pipe'[p].entries = pipe[p].entries
  BY <1>1 DEF Pops, Taken
<1>3. /\ QueueInOrder(q)' /\ ToSet(pipe'[q].entries) \subseteq ToSet(x)
      /\ \A y \in ToSet(pipe'[q].entries) : f.entry < y
  <2>1. /\ QueueInOrder(q) /\ x \in Seq(Nat)
    BY <1>1, TypesOfFlow DEF OrderInv
  <2>2. f.entry \in ToSet(accepted[q]) /\ \A y \in ToSet(x) : f.entry <= y
    BY <1>1 DEF OrderInv, PeekInOrder, Busy
  <2>3. CASE x = <<>> /\ pipe' = pipe
    <3>1. ToSet(x) = {}
      BY <2>3, EmptyOnce
    <3> QED BY <1>1, <2>3, <3>1, StillOrder
  <2>4. CASE Taken(q)
    <3>1. x # <<>> /\ pipe'[q].entries = Tail(x) /\ Rising(x)
      BY <2>1, <2>4 DEF Taken, QueueInOrder
    <3>2. /\ Rising(Tail(x)) /\ Before({Head(x)}, ToSet(Tail(x)))
          /\ ToSet(x) = {Head(x)} \cup ToSet(Tail(x))
          /\ Head(x) \in Nat /\ Tail(x) \in Seq(Nat)
      BY <2>1, <3>1, RisingTail
    <3>3. QueueInOrder(q)'
      BY <2>1, <3>1, <3>2 DEF QueueInOrder, Before
    <3>4. f.entry \in Nat
      <4>1. accepted[q] \in Seq(Nat)
        BY <1>1, TypesOfFlow
      <4> QED BY <2>2, <4>1, ToSetIs
    <3>5. ASSUME NEW y \in ToSet(Tail(x)) PROVE f.entry < y
      <4>1. y \in Nat
        BY <3>2, ToSetIs
      <4>2. f.entry <= Head(x) /\ Head(x) < y
        BY <2>2, <3>2 DEF Before
      <4> QED BY <3>2, <3>4, <4>1, <4>2
    <3> QED BY <3>1, <3>2, <3>3, <3>5
  <2> QED BY <1>1, <2>3, <2>4 DEF Pops
<1> HIDE DEF x
<1>4. \A p \in Pipes : QueueInOrder(p)' /\ ToSet(pipe'[p].entries) \subseteq ToSet(pipe[p].entries)
  <2>1. SUFFICES ASSUME NEW p \in Pipes
        PROVE  QueueInOrder(p)' /\ ToSet(pipe'[p].entries) \subseteq ToSet(pipe[p].entries)
    OBVIOUS
  <2>2. CASE p = q
    BY <1>3, <2>2 DEF x
  <2>3. CASE p # q
    BY <1>2, <2>3, StillOrder
  <2> QED BY <2>2, <2>3
<1>5. ASSUME NEW u \in Pushes, NEW c \in Pipes, Waits(call'[u[1]], u[2], c)
      PROVE  Waits(call[u[1]], u[2], c) /\ call'[u[1]].entry = call[u[1]].entry
  <2>1. u[1] \in Callers
    BY PipesAssumption
  <2> QED BY <1>1, <1>5, <2>1 DEF Waits, Alike
<1>6. ASSUME NEW s \in Callers PROVE PeekInOrder(call[s])'
  <2>1. CASE s = t
    <3>1. f.entry \in ToSet(accepted'[q])
      BY <1>1 DEF OrderInv, PeekInOrder, Busy
    <3>2. \A y \in ToSet(pipe'[q].entries) : f.entry <= y /\ f.entry < y
      <4>1. \A y \in ToSet(pipe[q].entries) : f.entry <= y
        BY <1>1 DEF OrderInv, PeekInOrder, Busy
      <4> QED BY <1>3, <4>1 DEF x
    <3> QED BY <1>1, <2>1, <3>1, <3>2 DEF PeekInOrder
  <2>2. CASE s # t
    <3>1. Carries(s)
      BY <2>2 DEF Carries, Alike
    <3> QED BY <1>4, <3>1, CarryPeek
  <2> QED BY <2>1, <2>2
<1> QED BY <1>4, <1>5, <1>6, ShrunkOrder

LEMMA PeekOrder ==
  ASSUME TypeInv, FramesKnown, OrderInv, NEW t \in Callers, Peeks(t), Alike(t),
         UNCHANGED <<accepted, committed, received>>
  PROVE  OrderInv'
<1> DEFINE f == call[t]  g == call'[t]  x == pipe[f.self].entries
<1>1. /\ pipe' = pipe /\ x # <<>> /\ g.at = "Check" /\ g.self = f.self
      /\ g.entry = Head(x) /\ f.self \in Pipes
  BY DEF Peeks, Goes, TypeInv, Frames
<1>2. x \in Seq(Nat) /\ Rising(x) /\ ToSet(x) \subseteq ToSet(accepted[f.self])
  BY <1>1, TypesOfFlow DEF OrderInv, QueueInOrder
<1>3. /\ Before({Head(x)}, ToSet(Tail(x))) /\ ToSet(x) = {Head(x)} \cup ToSet(Tail(x))
      /\ Head(x) \in Nat /\ Tail(x) \in Seq(Nat)
  BY <1>1, <1>2, RisingTail
<1> HIDE DEF x
<1>4. \A p \in Pipes : QueueInOrder(p)' /\ ToSet(pipe'[p].entries) \subseteq ToSet(pipe[p].entries)
  BY <1>1, StillOrder
<1>5. ASSUME NEW u \in Pushes, NEW c \in Pipes, Waits(call'[u[1]], u[2], c)
      PROVE  \/ call'[u[1]].entry \in ToSet(pipe[u[2]].entries)
             \/ Waits(call[u[1]], u[2], c) /\ call'[u[1]].entry = call[u[1]].entry
  <2>1. u[1] \in Callers
    BY PipesAssumption
  <2>2. CASE u[1] = t
    BY <1>1, <1>3, <1>5, <2>2 DEF Waits, x
  <2>3. CASE u[1] # t
    BY <1>5, <2>1, <2>3 DEF Alike
  <2> QED BY <2>2, <2>3
<1>6. ASSUME NEW s \in Callers PROVE PeekInOrder(call[s])'
  <2>1. CASE s = t
    <3>1. Head(x) \in ToSet(accepted[f.self])
      BY <1>2, <1>3
    <3>2. ASSUME NEW y \in ToSet(x) PROVE Head(x) <= y
      <4>1. CASE y = Head(x)
        BY <1>3, <4>1
      <4>2. CASE y \in ToSet(Tail(x))
        <5>1. y \in Nat
          BY <1>3, <4>2, ToSetIs
        <5>2. Head(x) < y
          BY <1>3, <4>2 DEF Before
        <5> QED BY <1>3, <5>1, <5>2
      <4> QED BY <1>3, <4>1, <4>2
    <3> QED BY <1>1, <2>1, <3>1, <3>2 DEF PeekInOrder, x
  <2>2. CASE s # t
    <3>1. Carries(s)
      BY <2>2 DEF Carries, Alike
    <3> QED BY <1>4, <3>1, CarryPeek
  <2> QED BY <2>1, <2>2
<1> QED BY <1>4, <1>5, <1>6, ShrunkOrder

LEMMA PushOrder ==
  ASSUME TypeInv, FramesKnown, OrderInv, Feeding, NEW t \in Callers, PushStep(t)
  PROVE  OrderInv'
<1>1. /\ Alike(t) /\ UNCHANGED <<committed, received>>
      /\ \/ Pushes1(t)
         \/ /\ accepted' = accepted
            /\ \/ Ends(t) \/ Peeks(t) \/ Passes(t) \/ Decides(t) \/ Pops(t)
               \/ Skips(t) \/ Rounds(t) \/ Closes(t) \/ Leaves(t)
  BY PushFlow
<1>2. ASSUME accepted' = accepted, Carries(t),
             \A p \in Pipes : pipe'[p].entries = pipe[p].entries
      PROVE  OrderInv'
  <2>1. \A s \in Callers : Carries(s)
    BY <1>1, <1>2 DEF Carries, Alike
  <2> QED BY <1>1, <1>2, <2>1, QuietOrder
<1>3. ASSUME call[t].at \in Pushing, call[t].rest # <<>>
      PROVE  ToSet(Tail(call[t].rest)) \subseteq ToSet(call[t].rest)
  BY <1>3, NextPipe
<1>4. CASE accepted' = accepted /\ Ends(t)
  BY <1>2, <1>4 DEF Ends, Carries, Busy, NoCall
<1>5. CASE accepted' = accepted /\ Passes(t)
  BY <1>2, <1>5 DEF Passes, Goes, Carries
<1>6. CASE accepted' = accepted /\ Decides(t)
  BY <1>2, <1>6 DEF Decides, Goes, Carries, Busy
<1>7. CASE accepted' = accepted /\ Skips(t)
  BY <1>2, <1>3, <1>7 DEF Skips, Goes, Carries, Busy, Pushing
<1>8. CASE accepted' = accepted /\ Rounds(t)
  BY <1>2, <1>8 DEF Rounds, Goes, Carries, Busy
<1>9. CASE accepted' = accepted /\ Closes(t)
  BY <1>2, <1>9 DEF Closes, Closed, Goes, Carries, Busy
<1>10. CASE accepted' = accepted /\ Leaves(t)
  BY <1>2, <1>10 DEF Leaves, NoCall, Carries, Busy
<1> QED BY <1>1, <1>4, <1>5, <1>6, <1>7, <1>8, <1>9, <1>10,
           PushChildOrder, PeekOrder, PopOrder

\* What get returns comes after all that it has returned before.
LEMMA GetOrder ==
  ASSUME TypeInv, OrderInv, NEW p \in Pipes, Taken(p), call' = call,
         received' = [received EXCEPT ![p] = Append(@, Head(pipe[p].entries))],
         UNCHANGED <<accepted, committed>>
  PROVE  OrderInv'
<1> DEFINE x == pipe[p].entries  r == received[p]
<1>1. x # <<>> /\ pipe'[p].entries = Tail(x) /\ received'[p] = Append(r, Head(x))
  BY DEF Taken, TypeInv, TypeOK
<1>2. \A q \in Pipes : q # p => pipe'[q].entries = pipe[q].entries /\ received'[q] = received[q]
  BY DEF Taken, TypeInv, TypeOK
<1>3. x \in Seq(Nat) /\ r \in Seq(Nat)
  BY TypesOfFlow
<1>4. /\ Rising(x) /\ Rising(r) /\ Before(ToSet(r), ToSet(x))
      /\ ToSet(r) \cup ToSet(x) \subseteq ToSet(accepted[p])
      /\ ToSet(accepted[p]) \subseteq 1 .. committed
  BY DEF OrderInv, QueueInOrder
<1>5. /\ Rising(Tail(x)) /\ Before({Head(x)}, ToSet(Tail(x)))
      /\ ToSet(x) = {Head(x)} \cup ToSet(Tail(x)) /\ Head(x) \in Nat
  BY <1>1, <1>3, <1>4, RisingTail
<1> HIDE DEF x, r
<1>6. Rising(Append(r, Head(x))) /\ ToSet(Append(r, Head(x))) = ToSet(r) \cup {Head(x)}
  <2>1. Before(ToSet(r), {Head(x)})
    BY <1>4, <1>5 DEF Before
  <2> QED BY <1>3, <1>4, <1>5, <2>1, RisingAppend
<1>7. Before(ToSet(received'[p]), ToSet(pipe'[p].entries))
  BY <1>1, <1>4, <1>5, <1>6 DEF Before
<1>8. QueueInOrder(p)'
  BY <1>1, <1>4, <1>5, <1>6, <1>7 DEF QueueInOrder
<1>9. \A q \in Pipes : QueueInOrder(q)'
  BY <1>2, <1>8, StillOrder
<1>10. \A q \in Pipes : ToSet(pipe'[q].entries) \subseteq ToSet(pipe[q].entries)
  BY <1>1, <1>2, <1>5 DEF x
<1>11. \A t \in Callers : Carries(t)
  BY DEF Carries
<1>12. \A t \in Callers : PeekInOrder(call[t])'
  BY <1>10, <1>11, CarryPeek
<1> QED BY <1>9, <1>10, <1>12, ShrunkOrder

\* The application's own operations.
LEMMA UserOrder ==
  ASSUME TypeInv, TypeInv', OrderInv, Feeding, NEW p \in Pipes, UserStep(p)
  PROVE  OrderInv'
<1>1. call' = call /\ \A t \in Callers : Carries(t)
  BY UserFlow DEF Carries
<1>2. CASE /\ p \in Sources /\ Stored(p, committed + 1) /\ committed' = committed + 1
           /\ received' = received /\ committed + 1 \in Entry
  <2>1. \A u \in Pushes : u[2] \notin Above(p)
    BY <1>2 DEF Feeding, SourcesAreRoots
  <2>2. committed \in Nat /\ committed' \in Nat
    BY <1>2, PipesAssumption DEF TypeInv, TypeOK
  <2>3. Before(ToSet(accepted[p]), {committed + 1})
    <3>1. ToSet(accepted[p]) \subseteq 1 .. committed
      BY DEF OrderInv, QueueInOrder
    <3> QED BY <2>2, <3>1 DEF Before
  <2>4. committed + 1 <= committed' /\ committed <= committed'
    BY <1>2, <2>2
  <2>5. \A u \in Pushes : \A c \in Pipes : u[2] \in Above(c) => c # p
    BY <2>1
  <2> DEFINE z == committed + 1
  <2>6. z \in Entry /\ z <= committed' /\ Stored(p, z) /\ Before(ToSet(accepted[p]), {z})
    BY <1>2, <2>3, <2>4
  <2> HIDE DEF z
  <2> QED BY <1>1, <1>2, <2>1, <2>2, <2>4, <2>5, <2>6, StoredOrder
<1>3. CASE /\ Taken(p) /\ accepted' = accepted /\ committed' = committed
           /\ received' = [received EXCEPT ![p] = Append(@, Head(pipe[p].entries))]
  BY <1>1, <1>3, GetOrder
<1>4. CASE SameFlow /\ UNCHANGED <<committed, accepted, received>>
  BY <1>1, <1>4, QuietOrder DEF SameFlow
<1>5. CASE Closed(p) /\ UNCHANGED <<committed, accepted, received>>
  BY <1>1, <1>5, QuietOrder DEF Closed
<1> QED BY <1>2, <1>3, <1>4, <1>5, UserFlow DEF history

LEMMA NextOrder ==
  ASSUME TypeInv, FramesKnown, LinkInv, OrderInv, Feeding, [Next]_vars
  PROVE  OrderInv'
<1>1. ASSUME NEW t \in Callers, PushStep(t) PROVE OrderInv'
  BY <1>1, PushOrder
<1>2. ASSUME NEW t \in Callers, NEW p \in Pipes, BeginPush(t, p) PROVE OrderInv'
  <2>1. Alike(t) /\ call'[t].at = "Peek"
    BY <1>2, BeginFrame
  <2>2. \A s \in Callers : Carries(s)
    BY <2>1 DEF Alike, Carries, Busy
  <2> QED BY <1>2, <2>2, QuietOrder DEF BeginPush, history
<1>3. ASSUME NEW t \in Callers, WiringStep(t) PROVE OrderInv'
  <2>1. Alike(t) /\ call'[t].at \notin Pushing
    BY <1>3, WiringFrame
  <2>2. \A s \in Callers : Carries(s)
    BY <2>1 DEF Alike, Carries, Busy, Pushing
  <2>3. (\A p \in Pipes : SameQueue(p)) /\ UNCHANGED history
    BY <1>3, WiringQueues
  <2> QED BY <2>2, <2>3, QuietOrder DEF SameQueue, history
<1>4. ASSUME NEW p \in Pipes, UserStep(p) PROVE OrderInv'
  <2>1. TypeInv'
    BY NextTypes
  <2> QED BY <1>4, <2>1, UserOrder
<1>5. CASE UNCHANGED vars
  BY <1>5, QuietOrder DEF vars, Carries
<1> QED BY <1>1, <1>2, <1>3, <1>4, <1>5 DEF Next

LEMMA OrderInvariant == Careful /\ Feeding => (Spec => []OrderInv)
<1> SUFFICES ASSUME Careful, Feeding PROVE Spec => []OrderInv
  OBVIOUS
<1>1. Init => OrderInv
  <2>1. SUFFICES ASSUME Init PROVE OrderInv
    OBVIOUS
  <2>2. \A t \in Callers : call[t].at = "Idle"
    BY <2>1 DEF Init, NoCall
  <2>3. ASSUME NEW p \in Pipes
        PROVE  pipe[p].entries = <<>> /\ received[p] = <<>> /\ accepted[p] = <<>>
    BY <2>1 DEF Init, New
  <2>4. Rising(<<>>) /\ ToSet(<<>>) = {}
    BY EmptyOnce DEF Rising
  <2>5. ASSUME NEW p \in Pipes PROVE QueueInOrder(p)
    BY <2>3, <2>4 DEF QueueInOrder, Before
  <2>6. ASSUME NEW u \in Pushes, NEW c \in Pipes PROVE FeedInOrder(u, c)
    <3>1. u[1] \in Callers /\ u[2] \in Pipes
      BY PipesAssumption
    <3> QED BY <2>2, <2>3, <2>4, <3>1 DEF FeedInOrder, Before, Waits
  <2>7. ASSUME NEW t \in Callers PROVE PeekInOrder(call[t])
    BY <2>2 DEF PeekInOrder, Busy
  <2> QED BY <2>5, <2>6, <2>7 DEF OrderInv
<1>2. TypeInv /\ FramesKnown /\ LinkInv /\ OrderInv /\ [Next]_vars => OrderInv'
  BY NextOrder
<1> QED BY <1>1, <1>2, TypeInvariant, LinkInvariant, DoneInvariant, PTL DEF Spec

\* InOrder: a reader gets the entries in the order of their commit and none
\* twice, though pushes, connects and disconnects run between the locks of a
\* push.  What it rests on: whatever a pipe was ever given comes before what is
\* still queued above it, and before what a caller carries to it.
THEOREM AlwaysInOrder ==
  ASSUME OneHand, OwnParent, OneFeed, SourcesAreRoots PROVE Spec => []InOrder
<1>1. TypeInv /\ OrderInv => InOrder
  <2> SUFFICES ASSUME TypeInv, OrderInv PROVE InOrder
    OBVIOUS
  <2>1. ASSUME NEW p \in Pipes
        PROVE  Rising(received[p]) /\ DOMAIN received[p] = 1 .. Len(received[p])
    <3>1. received[p] \in Seq(Entry)
      BY DEF TypeInv, TypeOK
    <3> QED BY <3>1, LenProperties DEF OrderInv, QueueInOrder
  <2> QED BY <2>1 DEF InOrder, Rising
<1> QED BY <1>1, TypeInvariant, OrderInvariant, PTL DEF Careful, Feeding

-----------------------------------------------------------------------------
(* The stream, where the wiring and the settings stay as they are at first. *)

\* Nothing of a pipe has changed but its queue and what is done.
Static ==
  /\ alive = Pipes
  /\ \A p \in Pipes : /\ pipe[p].children = Wiring[p]
                      /\ pipe[p].sizeMax = AtLeastOne(SizeMax[p])
                      /\ pipe[p].dataBlocking <=> p \in Blocking
  /\ \A t \in Callers : call[t].at \in Pushing \cup {"Idle"}

\* A caller knows all the children of its pipe, and whether it blocks.
KnowsAll(f) ==
  /\ f.at \in Pushing => ToSet(f.children) = ToSet(Wiring[f.self])
  /\ f.at \in Busy \cup {"Peek"} => (f.dataBlocking <=> f.self \in Blocking)
  /\ f.at \in Busy => Wiring[f.self] # <<>>

\* The children a caller has found to have room, and has not given its entry yet.
Seen(f) ==
  {c \in ToSet(f.children) : \/ f.at = "Check" /\ c \notin ToSet(f.rest)
                             \/ f.at = "Pop"
                             \/ f.at = "Push" /\ c \in ToSet(f.rest)}

HasRoom(f) == \A c \in Seen(f) : ~IsFull(c)

\* What a caller has peeked is still the front of the queue when it pops.
PeeksFront(f) ==
  f.at \in {"Check", "Pop"} =>
    pipe[f.self].entries # <<>> /\ f.entry = Head(pipe[f.self].entries)

InHand(t, p, c) ==
  call[t].self = p /\ call[t].at = "Push" /\ c \in ToSet(call[t].rest)

\* The stream of p, as it has come to c, is in the hand of t, or is queued in p.
Streams(p, c) ==
  /\ (\A t \in Callers : ~InHand(t, p, c)) => accepted[p] = accepted[c] \o pipe[p].entries
  /\ \A t \in Callers : InHand(t, p, c) =>
       accepted[p] = Append(accepted[c], call[t].entry) \o pipe[p].entries

StreamInv ==
  /\ \A t \in Callers : KnowsAll(call[t]) /\ HasRoom(call[t]) /\ PeeksFront(call[t])
  /\ \A p \in Pipes : \A c \in ToSet(Wiring[p]) : Streams(p, c)

Still == Steady /\ OneFeed

LEMMA StillIsCareful == Still => Careful /\ Feeding
<1> SUFFICES ASSUME Still PROVE Careful /\ Feeding
  OBVIOUS
<1>1. Wirings = {}
  BY DEF Still, Steady
<1>2. Careful
  BY <1>1 DEF Careful, OneHand, OwnParent
<1>3. ASSUME NEW u \in Pushes, NEW s \in Sources, u[2] \in Above(s) PROVE FALSE
  <2>1. u[2] \in Pipes /\ s \in ToSet(Wiring[u[2]])
    BY <1>1, <1>3 DEF Above
  <2>2. Wiring[u[2]] # <<>>
    BY <2>1, EmptyOnce
  <2> QED BY <2>1, <2>2 DEF Still, Steady
<1> QED BY <1>2, <1>3 DEF Feeding, SourcesAreRoots, Still

\* A pipe hangs from no more than one, and that one only one caller pushes.
LEMMA OnePusherOnly ==
  ASSUME Still, NEW u \in Pushes, NEW v \in Pushes, u[2] = v[2], Wiring[u[2]] # <<>>
  PROVE  u = v
<1>1. u[2] \in Pipes /\ Wiring[u[2]] \in Seq(Pipes)
  BY PipesAssumption
<1> DEFINE p == u[2]  c == Wiring[p][1]
<1>2. 1 \in 1 .. Len(Wiring[p])
  BY <1>1, EmptySeq, LenProperties
<1>3. c \in Pipes /\ c \in ToSet(Wiring[p])
  BY <1>1, <1>2, ToSetIs, ElementOfSeq
<1>4. p \in Above(c)
  BY <1>1, <1>3 DEF Above
<1> QED BY <1>3, <1>4 DEF Still, OneFeed

LEMMA HangsOnce ==
  ASSUME NEW p \in Pipes, NEW q \in Pipes, NEW c, c \in ToSet(Wiring[p]), c \in ToSet(Wiring[q])
  PROVE  p = q
<1>1. Wiring[p] \in Seq(Pipes) /\ Wiring[q] \in Seq(Pipes)
  BY PipesAssumption
<1> QED BY <1>1, WiringAssumption DEF ToSet

LEMMA KidsArePipes ==
  ASSUME NEW p \in Pipes
  PROVE  /\ ToSet(Wiring[p]) \subseteq Pipes
         /\ ToSet(Wiring[p]) # {} <=> Wiring[p] # <<>>
<1>1. Wiring[p] \in Seq(Pipes)
  BY PipesAssumption
<1>2. ToSet(Wiring[p]) \subseteq Pipes
  BY <1>1, ToSetIs, ElementOfSeq
<1>3. ASSUME Wiring[p] # <<>> PROVE ToSet(Wiring[p]) # {}
  BY <1>1, <1>3, HeadOrTail
<1> QED BY <1>2, <1>3, EmptyOnce

LEMMA StaticFields ==
  ASSUME TypeInv, Static, NEW x, NEW y,
         \/ pipe' = pipe
         \/ pipe' = [pipe EXCEPT ![x].entries = y]
         \/ pipe' = [pipe EXCEPT ![x].sourceDone = y]
         \/ pipe' = [pipe EXCEPT ![x] = [pipe[x] EXCEPT !.sourceDone = TRUE]]
         \/ pipe' = [pipe EXCEPT ![x] = [pipe[x] EXCEPT !.sinkDone = TRUE]],
         alive' = alive, \A t \in Callers : call'[t].at \in Pushing \cup {"Idle"}
  PROVE  Static'
<1>1. pipe \in [Pipes -> PipeState] /\ \A p \in Pipes : pipe[p] \in PipeState
  BY DEF TypeInv, TypeOK
<1>2. ASSUME NEW p \in Pipes
      PROVE  /\ pipe'[p].children = pipe[p].children
             /\ pipe'[p].sizeMax = pipe[p].sizeMax
             /\ pipe'[p].dataBlocking = pipe[p].dataBlocking
  <2>1. CASE pipe' = [pipe EXCEPT ![x].entries = y]
    BY <1>1, <2>1 DEF PipeState
  <2>2. CASE pipe' = [pipe EXCEPT ![x].sourceDone = y]
    BY <1>1, <2>2 DEF PipeState
  <2>3. CASE pipe' = [pipe EXCEPT ![x] = [pipe[x] EXCEPT !.sourceDone = TRUE]]
    BY <1>1, <2>3 DEF PipeState
  <2>4. CASE pipe' = [pipe EXCEPT ![x] = [pipe[x] EXCEPT !.sinkDone = TRUE]]
    BY <1>1, <2>4 DEF PipeState
  <2> QED BY <2>1, <2>2, <2>3, <2>4
<1> QED BY <1>2 DEF Static

LEMMA NoWiring == ASSUME Still, Static, NEW t \in Callers PROVE ~WiringStep(t)
BY DEF Still, Steady, Static, Pushing, WiringStep, Connect, Disconnect, ParentDisconnect,
       BeginWiring, Link, Unlink, Orphan

LEMMA PushStatic ==
  ASSUME TypeInv, FramesKnown, Static, NEW t \in Callers, PushStep(t)
  PROVE  Static'
<1>1. /\ Alike(t) /\ alive' = alive
      /\ \/ Pushes1(t) \/ Ends(t) \/ Peeks(t) \/ Passes(t) \/ Decides(t) \/ Pops(t)
         \/ Skips(t) \/ Rounds(t) \/ Closes(t) \/ Leaves(t)
  BY PushFlow
<1>2. call'[t].at \in Pushing \cup {"Idle"}
  BY <1>1 DEF Pushes1, Ends, Peeks, Passes, Decides, Pops, Skips, Rounds, Closes, Leaves,
     Goes, NoCall, Pushing
<1>3. \A s \in Callers : call'[s].at \in Pushing \cup {"Idle"}
  BY <1>1, <1>2 DEF Alike, Static
<1>4. \E x, y : \/ pipe' = pipe
                \/ pipe' = [pipe EXCEPT ![x].entries = y]
                \/ pipe' = [pipe EXCEPT ![x].sourceDone = y]
  BY DEF PushStep, Peek, Check, Pop, PushChild, EndPush, CloseChild, EndClose, Store
<1> QED BY <1>1, <1>3, <1>4, StaticFields

LEMMA UserStatic ==
  ASSUME TypeInv, Static, Still, NEW p \in Pipes, UserStep(p)
  PROVE  Static'
<1>1. alive' = alive /\ call' = call
  BY DEF Still, Steady, UserStep, Commit, GetEntry, GetClosed, SourceDoneSet, SinkDoneSet, Set, Drop
<1>2. \A s \in Callers : call'[s].at \in Pushing \cup {"Idle"}
  BY <1>1 DEF Static
<1>3. \E x, y : \/ pipe' = pipe
                \/ pipe' = [pipe EXCEPT ![x].entries = y]
                \/ pipe' = [pipe EXCEPT ![x] = [pipe[x] EXCEPT !.sourceDone = TRUE]]
                \/ pipe' = [pipe EXCEPT ![x] = [pipe[x] EXCEPT !.sinkDone = TRUE]]
  BY DEF Still, Steady, UserStep, Commit, GetEntry, GetClosed, SourceDoneSet, SinkDoneSet,
         Set, Drop, Store
<1> QED BY <1>1, <1>2, <1>3, StaticFields

LEMMA NextStatic ==
  ASSUME TypeInv, LinkInv, FramesKnown, Static, Still, [Next]_vars
  PROVE  Static'
<1>1. ASSUME NEW t \in Callers, NEW p \in Pipes, BeginPush(t, p) PROVE Static'
  <2>1. Alike(t) /\ call'[t].at = "Peek"
    BY <1>1, BeginFrame
  <2>2. \A s \in Callers : call'[s].at \in Pushing \cup {"Idle"}
    BY <2>1 DEF Alike, Static, Pushing
  <2> QED BY <1>1, <2>2, StaticFields DEF BeginPush
<1>2. CASE UNCHANGED vars
  BY <1>2 DEF vars, Static
<1> QED BY <1>1, <1>2, PushStatic, UserStatic, NoWiring DEF Next

RoomKept(c) == Len(pipe'[c].entries) <= Len(pipe[c].entries)

FrontKept(p) ==
  pipe[p].entries # <<>> =>
    pipe'[p].entries # <<>> /\ Head(pipe'[p].entries) = Head(pipe[p].entries)

LEMMA RoomStays ==
  ASSUME TypeInv, TypeInv', Static, Static', NEW c \in Pipes, ~IsFull(c), RoomKept(c)
  PROVE  ~(IsFull(c))'
<1>1. pipe'[c].sizeMax = pipe[c].sizeMax
  BY DEF Static
<1>2. pipe[c] \in PipeState /\ pipe'[c] \in PipeState
  BY DEF TypeInv, TypeOK
<1>3. pipe[c].entries \in Seq(Entry) /\ pipe'[c].entries \in Seq(Entry) /\ pipe[c].sizeMax \in Nat
  BY <1>2 DEF PipeState
<1>4. Len(pipe[c].entries) \in Nat /\ Len(pipe'[c].entries) \in Nat
  BY <1>3, LenProperties
<1> QED BY <1>1, <1>3, <1>4 DEF IsFull, RoomKept

\* The children a caller has in mind are those of its pipe.
LEMMA SeenKids ==
  ASSUME TypeInv, StreamInv, NEW t \in Callers, NEW c \in Seen(call[t])
  PROVE  /\ call[t].self \in Pipes /\ c \in ToSet(Wiring[call[t].self]) /\ c \in Pipes
         /\ call[t].at \in Busy
<1>1. call[t].at \in Pushing /\ call[t].at \in Busy /\ c \in ToSet(call[t].children)
  BY DEF Seen, Pushing, Busy
<1>2. call[t].self \in Pipes
  BY <1>1 DEF TypeInv, Frames, Pushing
<1>3. c \in ToSet(Wiring[call[t].self])
  BY <1>1 DEF StreamInv, KnowsAll
<1> QED BY <1>1, <1>2, <1>3, KidsArePipes

\* A caller that stays where it is, while others run.
LEMMA OthersKept ==
  ASSUME TypeInv, TypeInv', Static, Static', StreamInv, NEW s \in Callers, call'[s] = call[s],
         \A c \in Seen(call[s]) : RoomKept(c),
         call[s].at \in {"Check", "Pop"} => FrontKept(call[s].self)
  PROVE  KnowsAll(call[s])' /\ HasRoom(call[s])' /\ PeeksFront(call[s])'
<1>1. KnowsAll(call[s]) /\ HasRoom(call[s]) /\ PeeksFront(call[s])
  BY DEF StreamInv
<1>2. KnowsAll(call[s])'
  BY <1>1 DEF KnowsAll
<1>3. HasRoom(call[s])'
  <2>1. SUFFICES ASSUME NEW c \in Seen(call[s]) PROVE ~(IsFull(c))'
    BY DEF HasRoom, Seen
  <2> QED BY <1>1, <2>1, SeenKids, RoomStays DEF HasRoom
<1>4. PeeksFront(call[s])'
  BY <1>1 DEF PeeksFront, FrontKept
<1> QED BY <1>2, <1>3, <1>4

\* What a caller does that neither stores nor takes.
Minds(t) ==
  LET f == call'[t] IN
  /\ KnowsAll(f) /\ HasRoom(f) /\ PeeksFront(f)
  /\ f.at = "Push" => /\ call[t].at = "Push" /\ f.self = call[t].self
                      /\ f.entry = call[t].entry /\ ToSet(f.rest) = ToSet(call[t].rest)
  /\ call[t].at = "Push" => f.at = "Push" \/ call[t].rest = <<>>

LEMMA QuietStream ==
  ASSUME TypeInv, TypeInv', Static, Static', StreamInv, accepted' = accepted,
         \A p \in Pipes : pipe'[p].entries = pipe[p].entries,
         \A t \in Callers : call'[t] = call[t] \/ Minds(t)
  PROVE  StreamInv'
<1>1. \A p \in Pipes : RoomKept(p) /\ FrontKept(p)
  <2>1. ASSUME NEW p \in Pipes PROVE Len(pipe[p].entries) \in Nat
    <3>1. pipe[p].entries \in Seq(Nat)
      BY TypesOfFlow
    <3> QED BY <3>1, LenProperties
  <2> QED BY <2>1 DEF RoomKept, FrontKept
<1>2. ASSUME NEW t \in Callers
      PROVE  KnowsAll(call[t])' /\ HasRoom(call[t])' /\ PeeksFront(call[t])'
  <2>1. CASE call'[t] = call[t]
    <3>1. \A c \in Seen(call[t]) : RoomKept(c)
      BY <1>1, SeenKids
    <3>2. call[t].at \in {"Check", "Pop"} => FrontKept(call[t].self)
      BY <1>1 DEF TypeInv, Frames
    <3> QED BY <2>1, <3>1, <3>2, OthersKept
  <2>2. CASE Minds(t)
    <3>1. KnowsAll(call[t])'
      BY <2>2 DEF Minds, KnowsAll
    <3>2. HasRoom(call[t])'
      <4>1. SUFFICES ASSUME NEW c \in Seen(call'[t]) PROVE ~(IsFull(c))'
        BY DEF HasRoom, Seen
      <4>2. ~IsFull(c)
        BY <2>2, <4>1 DEF Minds, HasRoom
      <4>3. c \in Pipes
        <5>1. call'[t].children \in Seq(Pipes) /\ c \in ToSet(call'[t].children)
          BY <4>1 DEF TypeInv, TypeOK, Call, Seen
        <5> QED BY <5>1, ToSetIs
      <4> QED BY <1>1, <4>2, <4>3, RoomStays
    <3>3. PeeksFront(call[t])'
      <4>1. call'[t].at \in {"Check", "Pop"} => call'[t].self \in Pipes
        BY DEF TypeInv, Frames
      <4> QED BY <2>2, <4>1 DEF Minds, PeeksFront
    <3> QED BY <3>1, <3>2, <3>3
  <2> QED BY <2>1, <2>2
<1>3. ASSUME NEW p \in Pipes, NEW c \in ToSet(Wiring[p]) PROVE Streams(p, c)'
  <2>1. c \in Pipes
    BY KidsArePipes
  <2>2. ASSUME NEW t \in Callers
        PROVE  /\ InHand(t, p, c)' <=> InHand(t, p, c)
               /\ InHand(t, p, c) => call'[t].entry = call[t].entry
    BY EmptyOnce DEF Minds, InHand
  <2>3. Streams(p, c)
    BY DEF StreamInv
  <2> QED BY <2>1, <2>2, <2>3 DEF Streams
<1> QED BY <1>2, <1>3 DEF StreamInv

\* An entry behind a and b is behind b alone.
Associates(a, b, e) == Append(a \o b, e) = a \o Append(b, e)

LEMMA AppendRight ==
  ASSUME NEW P, NEW a \in Seq(P), NEW b \in Seq(P), NEW e \in P
  PROVE  Associates(a, b, e)
<1>1. /\ Append(a \o b, e) = (a \o b) \o <<e>> /\ Append(b, e) = b \o <<e>>
      /\ <<e>> \in Seq(P)
  BY AppendIsConcat, ConcatProperties
<1> QED BY <1>1, ConcatAssociative DEF Associates

LEMMA HeadMoves ==
  ASSUME NEW P, NEW a \in Seq(P), NEW b \in Seq(P), b # <<>>
  PROVE  Append(a, Head(b)) \o Tail(b) = a \o b
<1>1. Head(b) \in P /\ Tail(b) \in Seq(P) /\ b = <<Head(b)>> \o Tail(b)
  BY HeadTailProperties
<1>2. Append(a, Head(b)) = a \o <<Head(b)>> /\ <<Head(b)>> \in Seq(P)
  BY <1>1, AppendIsConcat
<1>3. (a \o <<Head(b)>>) \o Tail(b) = a \o (<<Head(b)>> \o Tail(b))
  BY <1>1, <1>2, ConcatAssociative
<1> QED BY <1>1, <1>2, <1>3

LEMMA AppendGrows ==
  ASSUME NEW P, NEW a \in Seq(P), NEW b \in Seq(P), NEW e \in P
  PROVE  Append(a, e) \o b # a
<1>1. Append(a, e) \in Seq(P) /\ Len(Append(a, e)) = Len(a) + 1
  BY AppendProperties
<1>2. Len(Append(a, e) \o b) = Len(a) + 1 + Len(b) /\ Len(a) \in Nat /\ Len(b) \in Nat
  BY <1>1, ConcatProperties, LenProperties
<1> QED BY <1>2

LEMMA TakenRoom ==
  ASSUME TypeInv, NEW p \in Pipes, Taken(p)
  PROVE  /\ \A q \in Pipes : RoomKept(q)
         /\ \A q \in Pipes : q # p => FrontKept(q)
<1>1. ASSUME NEW q \in Pipes PROVE Len(pipe[q].entries) \in Nat
  <2>1. pipe[q].entries \in Seq(Nat)
    BY TypesOfFlow
  <2> QED BY <2>1, LenProperties
<1>2. RoomKept(p)
  <2>1. pipe[p].entries \in Seq(Nat) /\ pipe[p].entries # <<>>
    BY TypesOfFlow DEF Taken
  <2>2. Len(Tail(pipe[p].entries)) = Len(pipe[p].entries) - 1
    BY <2>1, HeadTailProperties
  <2>3. Len(pipe'[p].entries) = Len(pipe[p].entries) - 1
    BY <2>2 DEF Taken
  <2> QED BY <1>1, <2>3 DEF RoomKept
<1>3. ASSUME NEW q \in Pipes, q # p PROVE RoomKept(q) /\ FrontKept(q)
  BY <1>1, <1>3 DEF RoomKept, FrontKept, Taken
<1> QED BY <1>2, <1>3

\* What stands between a pipe and another child than the one that is stored in.
LEMMA StoredElsewhere ==
  ASSUME TypeInv, NEW d \in Pipes, NEW z \in Entry, Stored(d, z),
         NEW q \in Pipes, NEW c \in Pipes, c # d, Streams(q, c),
         \A t \in Callers : /\ InHand(t, q, c)' <=> InHand(t, q, c)
                            /\ InHand(t, q, c) => call'[t].entry = call[t].entry
  PROVE  Streams(q, c)'
<1>1. accepted'[c] = accepted[c]
  BY DEF Stored
<1>2. CASE q # d
  BY <1>1, <1>2 DEF Streams, Stored
<1>3. CASE q = d
  <2>1. /\ accepted'[d] = Append(accepted[d], z)
        /\ pipe'[d].entries = Append(pipe[d].entries, z)
    BY DEF Stored
  <2>2. ASSUME \A t \in Callers : ~InHand(t, q, c)
        PROVE  accepted'[d] = accepted[c] \o pipe'[d].entries
    <3>1. accepted[d] = accepted[c] \o pipe[d].entries
      BY <1>3, <2>2 DEF Streams
    <3>2. accepted[c] \in Seq(Entry) /\ pipe[d].entries \in Seq(Entry)
      BY TypesOfFlow
    <3> HIDE DEF Entry
    <3>3. Associates(accepted[c], pipe[d].entries, z)
      BY <3>2, AppendRight
    <3> QED BY <2>1, <3>1, <3>3 DEF Associates
  <2>3. ASSUME NEW t \in Callers, InHand(t, q, c)
        PROVE  accepted'[d] = Append(accepted[c], call[t].entry) \o pipe'[d].entries
    <3> DEFINE a == Append(accepted[c], call[t].entry)  b == pipe[d].entries
    <3>1. call[t].entry \in Nat /\ z \in Nat
      <4>1. call[t] \in Call
        BY DEF TypeInv, TypeOK
      <4>2. Entry \subseteq Nat
        BY PipesAssumption DEF Entry
      <4>3. call[t].entry \in Entry \cup {0}
        BY <4>1, Zenon DEF Call
      <4>4. 0 \in Nat
        OBVIOUS
      <4> QED BY <4>2, <4>3, <4>4
    <3>2. a \in Seq(Nat)
      <4>1. accepted[c] \in Seq(Nat)
        BY TypesOfFlow
      <4> QED BY <3>1, <4>1, AppendProperties
    <3>3. b \in Seq(Nat)
      BY TypesOfFlow
    <3>4. accepted[d] = a \o b
      BY <1>3, <2>3 DEF Streams
    <3>5. accepted'[d] = Append(accepted[d], z) /\ pipe'[d].entries = Append(b, z)
      BY <2>1
    <3> HIDE DEF a, b
    <3>6. Associates(a, b, z)
      BY <3>1, <3>2, <3>3, AppendRight
    <3> QED BY <3>4, <3>5, <3>6 DEF a, Associates
  <2> QED BY <1>1, <1>3, <2>2, <2>3 DEF Streams
<1> QED BY <1>2, <1>3

\* Whoever waits for a queue that is stored in finds the same front.
LEMMA StoredFronts ==
  ASSUME TypeInv, NEW d \in Pipes, NEW z \in Entry, Stored(d, z)
  PROVE  /\ \A p \in Pipes : FrontKept(p)
         /\ \A p \in Pipes : p # d => RoomKept(p)
<1>1. pipe[d].entries \in Seq(Entry)
  BY TypesOfFlow
<1>2. FrontKept(d)
  <2>1. ASSUME pipe[d].entries # <<>>
        PROVE  Head(Append(pipe[d].entries, z)) = Head(pipe[d].entries)
    BY <1>1, <2>1, HeadTailAppend
  <2>2. Append(pipe[d].entries, z) # <<>>
    BY <1>1, AppendProperties
  <2> QED BY <2>1, <2>2 DEF FrontKept, Stored
<1>3. ASSUME NEW p \in Pipes, p # d PROVE FrontKept(p) /\ RoomKept(p)
  <2>1. pipe[p].entries \in Seq(Nat)
    BY TypesOfFlow
  <2>2. Len(pipe[p].entries) \in Nat
    BY <2>1, LenProperties
  <2> QED BY <1>3, <2>2 DEF FrontKept, RoomKept, Stored
<1> QED BY <1>2, <1>3

\* The application commits to a pipe that nobody feeds.
LEMMA CommitStream ==
  ASSUME TypeInv, TypeInv', Static, Static', Still, StreamInv, NEW p \in Sources,
         NEW z \in Entry, Stored(p, z), call' = call
  PROVE  StreamInv'
<1>1. p \in Pipes
  BY PipesAssumption
<1>2. ASSUME NEW q \in Pipes, p \in ToSet(Wiring[q]) PROVE FALSE
  BY <1>2, KidsArePipes DEF Still, Steady
<1>3. ASSUME NEW t \in Callers
      PROVE  KnowsAll(call[t])' /\ HasRoom(call[t])' /\ PeeksFront(call[t])'
  <2>1. \A c \in Seen(call[t]) : RoomKept(c)
    BY <1>1, <1>2, SeenKids, StoredFronts
  <2>2. call[t].at \in {"Check", "Pop"} => FrontKept(call[t].self)
    BY <1>1, StoredFronts DEF TypeInv, Frames
  <2> QED BY <2>1, <2>2, OthersKept
<1>4. ASSUME NEW q \in Pipes, NEW c \in ToSet(Wiring[q]) PROVE Streams(q, c)'
  <2>1. c \in Pipes /\ c # p /\ Streams(q, c)
    BY <1>2, KidsArePipes DEF StreamInv
  <2>2. \A t \in Callers : /\ InHand(t, q, c)' <=> InHand(t, q, c)
                           /\ InHand(t, q, c) => call'[t].entry = call[t].entry
    BY DEF InHand
  <2> QED BY <1>1, <2>1, <2>2, StoredElsewhere
<1> QED BY <1>3, <1>4 DEF StreamInv

\* A reader takes entries from a pipe that has no children.
LEMMA GetStream ==
  ASSUME TypeInv, TypeInv', Static, Static', Still, StreamInv, NEW p \in Sinks,
         Taken(p), call' = call, accepted' = accepted
  PROVE  StreamInv'
<1>1. p \in Pipes /\ Wiring[p] = <<>>
  BY PipesAssumption DEF Still, Steady
<1>2. /\ \A q \in Pipes : RoomKept(q)
      /\ \A q \in Pipes : q # p => FrontKept(q)
  BY <1>1, TakenRoom
<1>3. ASSUME NEW t \in Callers
      PROVE  KnowsAll(call[t])' /\ HasRoom(call[t])' /\ PeeksFront(call[t])'
  <2>1. \A c \in Seen(call[t]) : RoomKept(c)
    BY <1>2, SeenKids
  <2>2. call[t].at \in {"Check", "Pop"} => FrontKept(call[t].self)
    BY <1>1, <1>2 DEF TypeInv, Frames, StreamInv, KnowsAll, Busy
  <2> QED BY <2>1, <2>2, OthersKept
<1>4. ASSUME NEW q \in Pipes, NEW c \in ToSet(Wiring[q]) PROVE Streams(q, c)'
  <2>1. q # p /\ Streams(q, c)
    BY <1>1, EmptyOnce DEF StreamInv
  <2>2. pipe'[q].entries = pipe[q].entries
    BY <2>1 DEF Taken
  <2> QED BY <2>1, <2>2 DEF Streams, InHand
<1> QED BY <1>3, <1>4 DEF StreamInv

LEMMA PopStream ==
  ASSUME TypeInv, TypeInv', FramesKnown, Static, Static', Still, StreamInv,
         NEW t \in Callers, Pops(t), Alike(t), accepted' = accepted
  PROVE  StreamInv'
<1> DEFINE f == call[t]  g == call'[t]
<1>0. PICK p \in Pipes : p = f.self
  BY DEF Pops, TypeInv, Frames
<1> DEFINE x == pipe[p].entries
<1>1. /\ f.at = "Pop" /\ f.self = p /\ <<t, p>> \in Pushes /\ Wiring[p] # <<>>
      /\ ToSet(f.children) = ToSet(Wiring[p]) /\ (f.dataBlocking <=> p \in Blocking)
      /\ x # <<>> /\ f.entry = Head(x)
      /\ \A c \in ToSet(f.children) : ~IsFull(c)
  BY <1>0 DEF Pops, FramesKnown, GoodFrame, StreamInv, KnowsAll, PeeksFront, HasRoom, Seen,
     Pushing, Busy
<1>2. /\ g.at = "Push" /\ g.self = p /\ g.entry = f.entry /\ g.children = f.children
      /\ g.rest = f.children /\ (g.dataBlocking <=> p \in Blocking)
      /\ Taken(p)
  BY <1>0, <1>1 DEF Pops, Goes
<1>3. ASSUME NEW s \in Callers, s # t, call[s].self = p, call[s].at \in Pushing PROVE FALSE
  <2>1. <<s, p>> \in Pushes /\ <<s, p>>[2] = <<t, p>>[2] /\ <<t, p>>[2] = p
    BY <1>3 DEF FramesKnown, GoodFrame
  <2>2. <<s, p>> = <<t, p>>
    BY <1>1, <2>1, OnePusherOnly
  <2> QED BY <1>3, <2>2
<1>4. /\ \A q \in Pipes : RoomKept(q)
      /\ \A q \in Pipes : q # p => FrontKept(q)
  BY <1>2, TakenRoom
<1>5. ASSUME NEW s \in Callers
      PROVE  KnowsAll(call[s])' /\ HasRoom(call[s])' /\ PeeksFront(call[s])'
  <2>1. CASE s = t
    <3>1. KnowsAll(g)
      BY <1>1, <1>2 DEF KnowsAll, Pushing, Busy
    <3>2. KnowsAll(call[s])' /\ PeeksFront(call[s])'
      BY <1>2, <2>1, <3>1 DEF KnowsAll, PeeksFront
    <3>3. HasRoom(call[s])'
      <4>1. SUFFICES ASSUME NEW c \in ToSet(f.children) PROVE ~(IsFull(c))'
        BY <1>2, <2>1 DEF HasRoom, Seen
      <4>2. c \in Pipes /\ ~IsFull(c)
        BY <1>1, KidsArePipes
      <4> QED BY <1>4, <4>2, RoomStays
    <3> QED BY <3>2, <3>3
  <2>2. CASE s # t
    <3>1. call'[s] = call[s]
      BY <2>2 DEF Alike
    <3>2. \A c \in Seen(call[s]) : RoomKept(c)
      BY <1>4, SeenKids
    <3>3. call[s].at \in {"Check", "Pop"} => FrontKept(call[s].self)
      BY <1>3, <1>4, <2>2 DEF TypeInv, Frames, Pushing
    <3> QED BY <3>1, <3>2, <3>3, OthersKept
  <2> QED BY <2>1, <2>2
<1>6. ASSUME NEW q \in Pipes, NEW c \in ToSet(Wiring[q]) PROVE Streams(q, c)'
  <2>1. c \in Pipes /\ Streams(q, c)
    BY KidsArePipes DEF StreamInv
  <2>2. CASE q # p
    <3>1. pipe'[q].entries = pipe[q].entries
      BY <1>2, <2>2 DEF Taken
    <3>2. \A s \in Callers : /\ InHand(s, q, c)' <=> InHand(s, q, c)
                             /\ InHand(s, q, c) => call'[s].entry = call[s].entry
      BY <1>1, <1>2, <2>2 DEF InHand, Alike
    <3> QED BY <2>1, <3>1, <3>2 DEF Streams
  <2>3. CASE q = p
    <3>1. \A s \in Callers : ~InHand(s, p, c)
      BY <1>1, <1>3 DEF InHand, Pushing
    <3>2. accepted[p] = accepted[c] \o x
      BY <2>1, <2>3, <3>1 DEF Streams
    <3>3. Append(accepted[c], Head(x)) \o Tail(x) = accepted[c] \o x
      <4>1. accepted[c] \in Seq(Nat) /\ x \in Seq(Nat)
        BY <2>1, TypesOfFlow
      <4> HIDE DEF x
      <4> QED BY <1>1, <4>1, HeadMoves
    <3>4. InHand(t, p, c)'
      BY <1>1, <1>2, <2>3 DEF InHand
    <3>5. ASSUME NEW s \in Callers, InHand(s, p, c)' PROVE s = t
      BY <1>3, <3>5 DEF InHand, Alike, Pushing
    <3> QED BY <1>1, <1>2, <2>3, <3>2, <3>3, <3>4, <3>5 DEF Streams, Taken
  <2> QED BY <2>2, <2>3
<1> QED BY <1>5, <1>6 DEF StreamInv

LEMMA StoredIsEntry ==
  ASSUME TypeInv, TypeInv', NEW d \in Pipes, NEW z \in Nat, Stored(d, z)
  PROVE  z \in Entry
<1>1. accepted'[d] = Append(accepted[d], z)
  BY DEF Stored
<1>2. accepted'[d] \in Seq(Entry)
  BY DEF TypeInv, TypeOK
<1>3. accepted[d] \in Seq(Nat)
  BY TypesOfFlow
<1>4. /\ Append(accepted[d], z)[Len(accepted[d]) + 1] = z
      /\ Len(Append(accepted[d], z)) = Len(accepted[d]) + 1 /\ Len(accepted[d]) \in Nat
  BY <1>3, AppendProperties, LenProperties
<1> HIDE DEF Entry
<1>5. Len(accepted[d]) + 1 \in 1 .. Len(accepted'[d])
  BY <1>1, <1>4
<1> QED BY <1>1, <1>2, <1>4, <1>5, ElementOfSeq

\* A caller stores what it has in its hand in the next child.
LEMMA PushChildStream ==
  ASSUME TypeInv, TypeInv', FramesKnown, Static, Static', Still, StreamInv,
         NEW t \in Callers, Pushes1(t), Alike(t)
  PROVE  StreamInv'
<1> DEFINE f == call[t]  g == call'[t]
<1>0. PICK p \in Pipes : p = f.self
  BY DEF Pushes1, TypeInv, Frames
<1>1. PICK d \in Pipes : d = Head(f.rest)
  BY NextPipe DEF Pushes1, Pushing
<1>2. PICK z \in Nat : z = f.entry
  <2>1. f.entry \in Entry \cup {0}
    BY DEF TypeInv, TypeOK, Call
  <2>2. f.entry \in Nat
    BY <2>1, PipesAssumption DEF Entry
  <2> QED BY <2>2
<1>3. /\ f.at = "Push" /\ f.self = p /\ f.entry = z /\ <<t, p>> \in Pushes
      /\ d \notin ToSet(Tail(f.rest)) /\ ToSet(f.rest) = {d} \cup ToSet(Tail(f.rest))
      /\ d \in ToSet(f.children) /\ f.rest # <<>>
  BY <1>0, <1>1, <1>2, NextPipe DEF Pushes1, Pushing
<1>4. /\ g.at = "Push" /\ g.self = p /\ g.entry = z /\ g.children = f.children
      /\ g.rest = Tail(f.rest) /\ g.dataBlocking = f.dataBlocking /\ Stored(d, z)
  BY <1>0, <1>1, <1>2 DEF Pushes1, Goes
<1>5. /\ ToSet(f.children) = ToSet(Wiring[p]) /\ Wiring[p] # <<>>
      /\ \A c \in ToSet(f.children) : c \in ToSet(f.rest) => ~IsFull(c)
  BY <1>3 DEF StreamInv, KnowsAll, HasRoom, Seen, Pushing, Busy
<1>6. d \in ToSet(Wiring[p]) /\ Streams(p, d) /\ InHand(t, p, d)
  BY <1>3, <1>5 DEF StreamInv, InHand
<1>7. p # d
  <2>1. accepted[p] = Append(accepted[d], z) \o pipe[p].entries
    BY <1>3, <1>6 DEF Streams
  <2>2. accepted[d] \in Seq(Nat)
    BY TypesOfFlow
  <2>3. pipe[p].entries \in Seq(Nat)
    BY TypesOfFlow
  <2>4. Append(accepted[d], z) \o pipe[p].entries # accepted[d]
    BY <2>2, <2>3, AppendGrows
  <2> QED BY <2>1, <2>4
<1>8. z \in Entry
  BY <1>4, StoredIsEntry
<1>9. ASSUME NEW s \in Callers, s # t, call[s].self = p, call[s].at \in Pushing PROVE FALSE
  <2>1. <<s, p>> \in Pushes /\ <<s, p>>[2] = <<t, p>>[2] /\ <<t, p>>[2] = p
    BY <1>9 DEF FramesKnown, GoodFrame
  <2>2. <<s, p>> = <<t, p>>
    BY <1>3, <1>5, <2>1, OnePusherOnly
  <2> QED BY <1>9, <2>2
<1>10. (\A q \in Pipes : FrontKept(q)) /\ (\A q \in Pipes : q # d => RoomKept(q))
  BY <1>4, <1>8, StoredFronts
<1>11. ASSUME NEW s \in Callers
       PROVE  KnowsAll(call[s])' /\ HasRoom(call[s])' /\ PeeksFront(call[s])'
  <2>1. CASE s = t
    <3>1. KnowsAll(f)
      BY DEF StreamInv
    <3>2. KnowsAll(call[s])' /\ PeeksFront(call[s])'
      BY <1>3, <1>4, <2>1, <3>1 DEF KnowsAll, PeeksFront, Pushing, Busy
    <3>3. HasRoom(call[s])'
      <4>1. SUFFICES ASSUME NEW c \in ToSet(f.children), c \in ToSet(Tail(f.rest))
            PROVE  ~(IsFull(c))'
        BY <1>4, <2>1 DEF HasRoom, Seen
      <4>2. c \in Pipes /\ c # d /\ ~IsFull(c)
        BY <1>3, <1>5, <4>1, KidsArePipes
      <4> QED BY <1>10, <4>2, RoomStays
    <3> QED BY <3>2, <3>3
  <2>2. CASE s # t
    <3>1. call'[s] = call[s]
      BY <2>2 DEF Alike
    <3>2. ASSUME NEW c \in Seen(call[s]) PROVE RoomKept(c)
      <4>1. /\ call[s].self \in Pipes /\ c \in ToSet(Wiring[call[s].self]) /\ c \in Pipes
            /\ call[s].at \in Pushing
        BY <3>2, SeenKids DEF Pushing, Busy
      <4>2. c # d
        BY <1>6, <1>9, <2>2, <4>1, HangsOnce
      <4> QED BY <1>10, <4>1, <4>2
    <3>3. call[s].at \in {"Check", "Pop"} => FrontKept(call[s].self)
      BY <1>10 DEF TypeInv, Frames
    <3> QED BY <3>1, <3>2, <3>3, OthersKept
  <2> QED BY <2>1, <2>2
<1>12. ASSUME NEW q \in Pipes, NEW c \in ToSet(Wiring[q]) PROVE Streams(q, c)'
  <2>1. c \in Pipes /\ Streams(q, c)
    BY <1>12, KidsArePipes DEF StreamInv
  <2>2. CASE c # d
    <3>1. ASSUME NEW s \in Callers
          PROVE  /\ InHand(s, q, c)' <=> InHand(s, q, c)
                 /\ InHand(s, q, c) => call'[s].entry = call[s].entry
      <4>1. CASE s = t
        BY <1>3, <1>4, <2>2, <4>1 DEF InHand
      <4>2. CASE s # t
        BY <4>2 DEF InHand, Alike
      <4> QED BY <4>1, <4>2
    <3> QED BY <1>4, <1>8, <2>1, <2>2, <3>1, StoredElsewhere
  <2>3. CASE c = d
    <3>1. q = p
      BY <1>6, <1>12, <2>3, HangsOnce
    <3>2. accepted[p] = Append(accepted[d], z) \o pipe[p].entries
      BY <1>3, <1>6 DEF Streams
    <3>3. accepted'[p] = accepted'[d] \o pipe'[p].entries
      BY <1>4, <1>7, <3>2 DEF Stored
    <3>4. ASSUME NEW s \in Callers, InHand(s, p, d)' PROVE FALSE
      <4>1. s = t
        BY <1>9, <3>4 DEF InHand, Alike, Pushing
      <4> QED BY <1>3, <1>4, <3>4, <4>1 DEF InHand
    <3> QED BY <2>3, <3>1, <3>3, <3>4 DEF Streams
  <2> QED BY <2>2, <2>3
<1> QED BY <1>11, <1>12 DEF StreamInv

LEMMA PushStream ==
  ASSUME TypeInv, TypeInv', FramesKnown, Static, Static', Still, StreamInv,
         NEW t \in Callers, PushStep(t)
  PROVE  StreamInv'
<1> DEFINE f == call[t]  g == call'[t]
<1>1. /\ Alike(t)
      /\ \/ Pushes1(t)
         \/ /\ accepted' = accepted
            /\ \/ Ends(t) \/ Peeks(t) \/ Passes(t) \/ Decides(t) \/ Pops(t)
               \/ Skips(t) \/ Rounds(t) \/ Closes(t) \/ Leaves(t)
  BY PushFlow
<1>2. KnowsAll(f) /\ HasRoom(f) /\ PeeksFront(f) /\ f \in Call
  BY DEF StreamInv, TypeInv, TypeOK
<1>3. ASSUME accepted' = accepted, Minds(t),
             \A p \in Pipes : pipe'[p].entries = pipe[p].entries
      PROVE  StreamInv'
  <2>1. \A s \in Callers : call'[s] = call[s] \/ Minds(s)
    BY <1>1, <1>3 DEF Alike
  <2> QED BY <1>3, <2>1, QuietStream
<1>4. f.children \in Seq(Pipes) /\ f.rest \in Seq(Pipes)
  BY <1>2 DEF Call
<1>5. Live(f.children) \in Seq(Pipes) /\ ToSet(Live(f.children)) = ToSet(f.children)
  <2>1. ToSet(f.children) \subseteq Pipes
    BY <1>4, ToSetIs
  <2>2. /\ ToSet(Retain(f.children, alive)) = ToSet(f.children) \cap alive
        /\ Retain(f.children, alive) \in Seq(Pipes)
    BY <1>4, RetainSet
  <2> QED BY <2>1, <2>2 DEF Live, Static
<1>6. CASE accepted' = accepted /\ Ends(t)
  <2>1. CASE g = NoCall
    <3>1. Minds(t)
      BY <1>6, <2>1 DEF Minds, Ends, NoCall, KnowsAll, HasRoom, Seen, PeeksFront, Pushing, Busy
    <3> QED BY <1>3, <1>6, <3>1 DEF Ends
  <2>2. CASE g.at = "Close" /\ g.self = f.self /\ g.children = f.children
    <3>1. Minds(t)
      BY <1>2, <1>6, <2>2 DEF Minds, Ends, KnowsAll, HasRoom, Seen, PeeksFront, Pushing, Busy
    <3> QED BY <1>3, <1>6, <3>1 DEF Ends
  <2> QED BY <1>6, <2>1, <2>2 DEF Ends
<1>7. CASE accepted' = accepted /\ Peeks(t)
  <2> DEFINE live == Live(f.children)  e == Head(pipe[f.self].entries)
  <2>1. /\ f.at = "Peek" /\ pipe' = pipe /\ pipe[f.self].entries # <<>> /\ live # <<>>
        /\ Goes(f, g, "Check", e, live, live)
    BY <1>7 DEF Peeks
  <2>2. ToSet(live) = ToSet(Wiring[f.self]) /\ f.self \in Pipes /\ Wiring[f.self] # <<>>
    <3>1. ToSet(f.children) = ToSet(Wiring[f.self]) /\ f.self \in Pipes
      BY <1>2, <2>1 DEF KnowsAll, Pushing, TypeInv, Frames
    <3>2. ToSet(live) # {}
      BY <1>5, <2>1, HeadOrTail
    <3> QED BY <1>5, <3>1, <3>2, KidsArePipes
  <2> HIDE DEF live, e
  <2>3. KnowsAll(g) /\ HasRoom(g)
    BY <1>2, <2>1, <2>2 DEF Goes, KnowsAll, HasRoom, Seen, Pushing, Busy
  <2>4. PeeksFront(g)
    BY <2>1 DEF Goes, PeeksFront, e
  <2>5. Minds(t)
    BY <2>1, <2>3, <2>4 DEF Minds, Goes
  <2> QED BY <1>3, <1>7, <2>1, <2>5
<1>8. CASE accepted' = accepted /\ Passes(t)
  <2> DEFINE d == Head(f.rest)
  <2>1. /\ f.at = "Check" /\ pipe' = pipe /\ f.rest # <<>> /\ ~IsFull(d)
        /\ Goes(f, g, "Check", f.entry, f.children, Tail(f.rest))
        /\ ToSet(f.rest) = {d} \cup ToSet(Tail(f.rest))
    BY <1>8, NextPipe DEF Passes, Pushing
  <2> HIDE DEF d
  <2>2. KnowsAll(g)
    BY <1>2, <2>1 DEF Goes, KnowsAll
  <2>3. HasRoom(g)
    BY <1>2, <2>1 DEF Goes, HasRoom, Seen
  <2>4. PeeksFront(g)
    BY <1>2, <2>1 DEF Goes, PeeksFront
  <2>5. Minds(t)
    BY <2>1, <2>2, <2>3, <2>4 DEF Minds, Goes
  <2> QED BY <1>3, <1>8, <2>1, <2>5
<1>9. CASE accepted' = accepted /\ Decides(t)
  <2>1. /\ f.at = "Check" /\ pipe' = pipe /\ (f.rest = <<>> \/ ~f.dataBlocking)
        /\ Goes(f, g, "Pop", f.entry, f.children, f.rest)
    BY <1>9 DEF Decides
  <2>2. f.rest = <<>>
    <3>1. f.self \in Pipes /\ Wiring[f.self] # <<>> /\ (f.dataBlocking <=> f.self \in Blocking)
      BY <1>2, <2>1 DEF KnowsAll, Busy, TypeInv, Frames
    <3>2. f.self \in Blocking
      BY <3>1 DEF Still, Steady
    <3> QED BY <2>1, <3>1, <3>2
  <2>3. ToSet(f.rest) = {}
    BY <2>2, EmptyOnce
  <2>4. KnowsAll(g)
    BY <1>2, <2>1 DEF Goes, KnowsAll, Pushing, Busy
  <2>5. HasRoom(g)
    BY <1>2, <2>1, <2>3 DEF Goes, HasRoom, Seen
  <2>6. PeeksFront(g)
    BY <1>2, <2>1 DEF Goes, PeeksFront
  <2>7. Minds(t)
    BY <2>1, <2>4, <2>5, <2>6 DEF Minds, Goes
  <2> QED BY <1>3, <1>9, <2>1, <2>7
<1>10. CASE Skips(t)
  <2> DEFINE d == Head(f.rest)
  <2>1. f.at = "Push" /\ IsFull(d) /\ d \in ToSet(f.rest) /\ d \in ToSet(f.children)
    BY <1>10, NextPipe DEF Skips, Pushing
  <2> HIDE DEF d
  <2> QED BY <1>2, <2>1 DEF HasRoom, Seen
<1>11. CASE accepted' = accepted /\ Rounds(t)
  <2>1. /\ f.at = "Push" /\ f.rest = <<>> /\ pipe' = pipe
        /\ Goes(f, g, "Peek", 0, f.children, <<>>)
    BY <1>11 DEF Rounds
  <2>2. KnowsAll(g)
    BY <1>2, <2>1 DEF Goes, KnowsAll, Pushing, Busy
  <2>3. Minds(t)
    BY <2>1, <2>2 DEF Minds, Goes, HasRoom, Seen, PeeksFront
  <2> QED BY <1>3, <1>11, <2>1, <2>3
<1>12. CASE accepted' = accepted /\ Closes(t)
  <2>1. f.at = "Close" /\ Goes(f, g, "Close", f.entry, f.children, Tail(f.rest))
        /\ \A p \in Pipes : pipe'[p].entries = pipe[p].entries
    BY <1>12 DEF Closes, Closed
  <2>2. KnowsAll(g)
    BY <1>2, <2>1 DEF Goes, KnowsAll, Pushing, Busy
  <2>3. Minds(t)
    BY <2>1, <2>2 DEF Minds, Goes, HasRoom, Seen, PeeksFront
  <2> QED BY <1>3, <1>12, <2>1, <2>3
<1>13. CASE accepted' = accepted /\ Leaves(t)
  <2>1. f.at = "Close" /\ g = NoCall /\ pipe' = pipe
    BY <1>13 DEF Leaves
  <2>2. Minds(t)
    BY <2>1 DEF Minds, NoCall, KnowsAll, HasRoom, Seen, PeeksFront, Pushing, Busy
  <2> QED BY <1>3, <1>13, <2>1, <2>2
<1> QED BY <1>1, <1>6, <1>7, <1>8, <1>9, <1>10, <1>11, <1>12, <1>13,
           PushChildStream, PopStream

LEMMA UserStream ==
  ASSUME TypeInv, TypeInv', Static, Static', Still, StreamInv, NEW p \in Pipes, UserStep(p)
  PROVE  StreamInv'
<1>1. call' = call
  BY UserFlow
<1>2. CASE p \in Sources /\ Stored(p, committed + 1) /\ committed + 1 \in Entry
  BY <1>1, <1>2, CommitStream
<1>3. CASE Taken(p) /\ p \in Sinks /\ accepted' = accepted
  BY <1>1, <1>3, GetStream
<1>4. CASE SameFlow /\ accepted' = accepted
  BY <1>1, <1>4, QuietStream DEF SameFlow
<1>5. CASE Closed(p) /\ accepted' = accepted
  BY <1>1, <1>5, QuietStream DEF Closed
<1> QED BY <1>2, <1>3, <1>4, <1>5, UserFlow DEF history

LEMMA BeginStream ==
  ASSUME TypeInv, TypeInv', LinkInv, FramesKnown, Static, Static', StreamInv,
         NEW t \in Callers, NEW p \in Pipes, BeginPush(t, p)
  PROVE  StreamInv'
<1>1. /\ Alike(t) /\ call'[t].at = "Peek" /\ call'[t].self = p
      /\ call'[t].children = pipe[p].children
      /\ call'[t].dataBlocking = pipe[p].dataBlocking
  BY BeginFrame
<1>2. KnowsAll(call'[t])
  BY <1>1 DEF KnowsAll, Static, Busy, Pushing
<1>3. call[t].at = "Idle" /\ pipe' = pipe /\ accepted' = accepted
  BY DEF BeginPush, history
<1>4. Minds(t)
  BY <1>1, <1>2, <1>3 DEF Minds, HasRoom, Seen, PeeksFront
<1>5. \A s \in Callers : call'[s] = call[s] \/ Minds(s)
  BY <1>1, <1>4 DEF Alike
<1> QED BY <1>3, <1>5, QuietStream

LEMMA NextStream ==
  ASSUME TypeInv, LinkInv, FramesKnown, Static, Still, StreamInv, [Next]_vars
  PROVE  Static' /\ StreamInv'
<1>1. TypeInv' /\ Static'
  BY NextTypes, NextStatic
<1>2. CASE UNCHANGED vars
  BY <1>1, <1>2, QuietStream DEF vars
<1> QED BY <1>1, <1>2, NoWiring, BeginStream, PushStream, UserStream DEF Next

LEMMA StreamInvariant == Still => (Spec => [](Static /\ StreamInv))
<1> SUFFICES ASSUME Still PROVE Spec => [](Static /\ StreamInv)
  OBVIOUS
<1>1. Init => Static /\ StreamInv
  <2>1. SUFFICES ASSUME Init PROVE Static /\ StreamInv
    OBVIOUS
  <2>2. \A t \in Callers : call[t].at = "Idle"
    BY <2>1 DEF Init, NoCall
  <2>3. ASSUME NEW p \in Pipes
        PROVE  /\ pipe[p].children = Wiring[p] /\ pipe[p].sizeMax = AtLeastOne(SizeMax[p])
               /\ pipe[p].dataBlocking <=> p \in Blocking
               /\ pipe[p].entries = <<>> /\ accepted[p] = <<>>
    BY <2>1 DEF Init, New
  <2>4. Static
    BY <2>1, <2>2, <2>3 DEF Static, Init
  <2>5. ASSUME NEW p \in Pipes, NEW c \in ToSet(Wiring[p]) PROVE Streams(p, c)
    <3>1. c \in Pipes /\ <<>> \o <<>> = <<>>
      BY KidsArePipes, EmptyOnce, ConcatEmptySeq
    <3>2. \A t \in Callers : ~InHand(t, p, c)
      BY <2>2 DEF InHand
    <3> QED BY <2>3, <3>1, <3>2 DEF Streams
  <2>6. ASSUME NEW t \in Callers
        PROVE  KnowsAll(call[t]) /\ HasRoom(call[t]) /\ PeeksFront(call[t])
    BY <2>2 DEF KnowsAll, HasRoom, Seen, PeeksFront, Pushing, Busy
  <2> QED BY <2>4, <2>5, <2>6 DEF StreamInv
<1>2. TypeInv /\ LinkInv /\ FramesKnown /\ (Static /\ StreamInv) /\ [Next]_vars
        => (Static /\ StreamInv)'
  BY NextStream
<1>3. Careful /\ Feeding
  BY StillIsCareful
<1>4. Spec => []LinkInv
  BY <1>3, LinkInvariant
<1>5. Spec => [](FramesKnown /\ DoneInv)
  BY <1>3, DoneInvariant
<1> QED BY <1>1, <1>2, <1>4, <1>5, TypeInvariant, PTL DEF Spec

\* StreamConserved: between a pipe that blocks and each of its children nothing
\* is lost, repeated or reordered, though to_push_try tests for room, pops and
\* stores under one lock after the other.  What it rests on: what a caller has
\* seen to have room still has it, and what it has peeked is still the front.
THEOREM StreamAlwaysConserved ==
  ASSUME Steady, OneFeed PROVE Spec => []StreamConserved
<1>1. Still
  BY DEF Still
<1>2. TypeInv /\ FramesKnown /\ Static /\ StreamInv => StreamConserved
  <2>1. SUFFICES ASSUME TypeInv, FramesKnown, Static, StreamInv, NEW p \in Pipes,
                        NEW i \in DOMAIN pipe[p].children
        PROVE  accepted[p] = accepted[pipe[p].children[i]]
                               \o InFlight(p, pipe[p].children[i]) \o pipe[p].entries
    BY DEF StreamConserved
  <2> DEFINE c == pipe[p].children[i]  x == pipe[p].entries
  <2>2. c \in ToSet(Wiring[p]) /\ c \in Pipes /\ Wiring[p] # <<>> /\ Streams(p, c)
    <3>1. c \in ToSet(Wiring[p])
      BY <2>1 DEF Static, ToSet
    <3> QED BY <2>1, <3>1, KidsArePipes, EmptyOnce DEF StreamInv
  <2>3. accepted[c] \in Seq(Nat) /\ x \in Seq(Nat)
    BY <2>1, <2>2, TypesOfFlow
  <2> HIDE DEF c, x
  <2>4. \A t \in Callers : InHand(t, p, c) <=>
          call[t].self = p /\ call[t].at = "Push" /\ \E j \in DOMAIN call[t].rest : call[t].rest[j] = c
    BY DEF InHand, ToSet
  <2>5. CASE \A t \in Callers : ~InHand(t, p, c)
    <3>1. InFlight(p, c) = <<>>
      BY <2>4, <2>5 DEF InFlight
    <3>2. accepted[c] \o <<>> = accepted[c]
      BY <2>3, ConcatEmptySeq
    <3> QED BY <2>2, <2>5, <3>1, <3>2 DEF Streams, c, x
  <2>6. ASSUME NEW t \in Callers, InHand(t, p, c)
        PROVE  accepted[p] = accepted[c] \o InFlight(p, c) \o x
    <3> DEFINE s == CHOOSE s \in Callers : call[s].self = p /\ call[s].at = "Push"
    <3>1. InFlight(p, c) = <<call[s].entry>>
      BY <2>4, <2>6 DEF InFlight
    <3>2. s \in Callers /\ call[s].self = p /\ call[s].at = "Push"
      BY <2>6 DEF InHand
    <3> HIDE DEF s
    <3>3. <<s, p>> \in Pushes /\ <<t, p>> \in Pushes
      BY <2>1, <2>6, <3>2 DEF FramesKnown, GoodFrame, InHand, Pushing
    <3>4. s = t
      <4>1. <<s, p>>[2] = <<t, p>>[2] /\ <<s, p>>[2] = p
        OBVIOUS
      <4>2. <<s, p>> = <<t, p>>
        BY <1>1, <2>2, <3>3, <4>1, OnePusherOnly
      <4> QED BY <4>2
    <3>5. accepted[p] = Append(accepted[c], call[t].entry) \o x
      BY <2>2, <2>6 DEF Streams, x
    <3>6. call[t].entry \in Nat
      BY <2>1, PipesAssumption DEF TypeInv, TypeOK, Call, Entry
    <3>7. Append(accepted[c], call[t].entry) = accepted[c] \o <<call[t].entry>>
      BY <2>3, <3>6, AppendIsConcat
    <3> QED BY <3>1, <3>4, <3>5, <3>7
  <2> QED BY <2>5, <2>6 DEF c, x
<1>3. Spec => []LinkInv /\ [](FramesKnown /\ DoneInv) /\ [](Static /\ StreamInv)
  BY <1>1, StillIsCareful, LinkInvariant, DoneInvariant, StreamInvariant
<1> QED BY <1>2, <1>3, TypeInvariant, PTL

-----------------------------------------------------------------------------
(* The refinement of Channel.                                              *)

Source == TheSource

\* a is what b begins with.
Begins(a, b) == Len(a) <= Len(b) /\ \A i \in 1 .. Len(a) : a[i] = b[i]

SourceInv ==
  /\ \A c \in Pipes : Begins(accepted[c], accepted[Source])
  /\ \A c \in Pipes : pipe[c].sourceDone =>
       pipe[Source].sourceDone /\ accepted[c] = accepted[Source]
  /\ \A c \in Sinks : accepted[c] = received[c] \o pipe[c].entries

LEMMA SourceIsRoot ==
  ASSUME Still, OneSource
  PROVE  /\ Sources = {Source} /\ Source \in Pipes
         /\ \A p \in Pipes : Source \notin ToSet(Wiring[p])
<1>1. PICK s \in Pipes : Sources = {s}
  BY DEF OneSource
<1>2. Source = s
  BY <1>1 DEF Source, TheSource
<1>3. \A p \in Pipes : Source \notin ToSet(Wiring[p])
  BY <1>1, <1>2, KidsArePipes DEF Still, Steady
<1> QED BY <1>1, <1>2, <1>3

LEMMA BeginsTrans ==
  ASSUME NEW a \in Seq(Nat), NEW b \in Seq(Nat), NEW c \in Seq(Nat), Begins(a, b), Begins(b, c)
  PROVE  Begins(a, c)
<1>1. Len(a) \in Nat /\ Len(b) \in Nat /\ Len(c) \in Nat
  BY LenProperties
<1>2. Len(a) <= Len(b) /\ Len(b) <= Len(c)
  BY DEF Begins
<1>3. ASSUME NEW i \in 1 .. Len(a) PROVE a[i] = c[i]
  <2>1. i \in 1 .. Len(b)
    BY <1>1, <1>2
  <2> QED BY <2>1 DEF Begins
<1>4. Len(a) <= Len(c)
  BY <1>1, <1>2
<1> QED BY <1>3, <1>4 DEF Begins

LEMMA BeginsConcat ==
  ASSUME NEW a \in Seq(Nat), NEW b \in Seq(Nat)
  PROVE  Begins(a, a \o b)
<1>1. /\ Len(a \o b) = Len(a) + Len(b) /\ Len(a) \in Nat /\ Len(b) \in Nat
      /\ \A i \in 1 .. Len(a) + Len(b) :
           (a \o b)[i] = IF i <= Len(a) THEN a[i] ELSE b[i - Len(a)]
  BY ConcatProperties, LenProperties
<1> QED BY <1>1 DEF Begins

LEMMA BeginsAppend ==
  ASSUME NEW a \in Seq(Nat), NEW e \in Nat
  PROVE  Begins(a, Append(a, e)) /\ Append(a, e) \in Seq(Nat)
<1>1. /\ Len(Append(a, e)) = Len(a) + 1 /\ Len(a) \in Nat
      /\ \A i \in 1 .. Len(a) : Append(a, e)[i] = a[i]
      /\ Append(a, e) \in Seq(Nat)
  BY AppendProperties, LenProperties
<1> QED BY <1>1 DEF Begins

\* What a sink has got and what is queued there, after a store.
LEMMA StoredSinks ==
  ASSUME TypeInv, SourceInv, NEW d \in Pipes, NEW z \in Entry, Stored(d, z),
         received' = received, NEW c \in Sinks
  PROVE  accepted'[c] = received'[c] \o pipe'[c].entries
<1>1. c \in Pipes /\ accepted[c] = received[c] \o pipe[c].entries
  BY PipesAssumption DEF SourceInv
<1>2. CASE c # d
  BY <1>1, <1>2 DEF Stored
<1>3. CASE c = d
  <2>1. received[c] \in Seq(Entry)
    BY <1>1, TypesOfFlow
  <2>2. pipe[c].entries \in Seq(Entry)
    BY <1>1, TypesOfFlow
  <2> HIDE DEF Entry
  <2>3. Associates(received[c], pipe[c].entries, z)
    BY <2>1, <2>2, AppendRight
  <2> QED BY <1>1, <1>3, <2>3 DEF Associates, Stored
<1> QED BY <1>2, <1>3

\* A step that stores nothing and hands nothing out.
LEMMA QuietSource ==
  ASSUME SourceInv, UNCHANGED <<accepted, received>>,
         \A p \in Sinks : pipe'[p].entries = pipe[p].entries,
         pipe[Source].sourceDone => pipe'[Source].sourceDone,
         \A c \in Pipes : pipe'[c].sourceDone /\ ~pipe[c].sourceDone =>
           pipe'[Source].sourceDone /\ accepted[c] = accepted[Source]
  PROVE  SourceInv'
<1>1. Source' = Source
  BY DEF Source, TheSource
<1> QED BY <1>1 DEF SourceInv

LEMMA PushChildSource ==
  ASSUME TypeInv, TypeInv', FramesKnown, DoneInv, Static, Still, OneSource, StreamInv,
         SourceInv, NEW t \in Callers, Pushes1(t), received' = received
  PROVE  /\ SourceInv' /\ accepted'[Source] = accepted[Source]
         /\ pipe'[Source].sourceDone = pipe[Source].sourceDone
<1> DEFINE f == call[t]
<1>0. PICK p \in Pipes : p = f.self
  BY DEF Pushes1, TypeInv, Frames
<1>1. PICK d \in Pipes : d = Head(f.rest)
  BY NextPipe DEF Pushes1, Pushing
<1>2. PICK z \in Nat : z = f.entry
  <2>1. f.entry \in Entry \cup {0}
    BY DEF TypeInv, TypeOK, Call
  <2>2. f.entry \in Nat
    BY <2>1, PipesAssumption DEF Entry
  <2> QED BY <2>2
<1>3. /\ f.at = "Push" /\ f.self = p /\ f.entry = z /\ Stored(d, z)
      /\ d \in ToSet(f.rest) /\ d \in ToSet(f.children)
  BY <1>0, <1>1, <1>2, NextPipe DEF Pushes1, Pushing
<1>4. /\ d \in ToSet(Wiring[p]) /\ InHand(t, p, d) /\ Streams(p, d)
  BY <1>3 DEF StreamInv, KnowsAll, Pushing, InHand
<1>5. d # Source /\ ~pipe[d].sourceDone /\ Source \in Pipes
  BY <1>3, <1>4, SourceIsRoot, FedNotDone DEF Busy
<1>6. accepted[p] = Append(accepted[d], z) \o pipe[p].entries
  BY <1>3, <1>4 DEF Streams
<1>7. /\ accepted'[d] = Append(accepted[d], z)
      /\ \A q \in Pipes : q # d => accepted'[q] = accepted[q]
      /\ \A q \in Pipes : pipe'[q].sourceDone = pipe[q].sourceDone
  BY <1>3 DEF Stored
<1>8. Begins(accepted'[d], accepted[Source])
  <2>1. accepted[d] \in Seq(Nat)
    BY TypesOfFlow
  <2>2. pipe[p].entries \in Seq(Nat)
    BY TypesOfFlow
  <2>3. accepted[p] \in Seq(Nat)
    BY TypesOfFlow
  <2>4. accepted[Source] \in Seq(Nat)
    BY <1>5, TypesOfFlow
  <2>5. accepted'[d] \in Seq(Nat) /\ accepted[p] = accepted'[d] \o pipe[p].entries
    BY <1>6, <1>7, <2>1, BeginsAppend
  <2>6. Begins(accepted'[d], accepted[p])
    BY <2>2, <2>5, BeginsConcat
  <2>7. Begins(accepted[p], accepted[Source])
    BY DEF SourceInv
  <2> QED BY <2>3, <2>4, <2>5, <2>6, <2>7, BeginsTrans
<1>9. z \in Entry
  BY <1>3, StoredIsEntry
<1>10. Source' = Source
  BY DEF Source, TheSource
<1>11. \A c \in Sinks : accepted'[c] = received'[c] \o pipe'[c].entries
  BY <1>3, <1>9, StoredSinks
<1>12. \A c \in Pipes : Begins(accepted'[c], accepted'[Source])
  BY <1>5, <1>7, <1>8 DEF SourceInv
<1>13. \A c \in Pipes : pipe'[c].sourceDone =>
         pipe'[Source].sourceDone /\ accepted'[c] = accepted'[Source]
  BY <1>5, <1>7 DEF SourceInv
<1> QED BY <1>5, <1>7, <1>10, <1>11, <1>12, <1>13 DEF SourceInv

LEMMA PopSource ==
  ASSUME TypeInv, Still, OneSource, StreamInv, SourceInv,
         NEW t \in Callers, Pops(t), UNCHANGED <<accepted, received>>
  PROVE  SourceInv' /\ \A c \in Pipes : pipe'[c].sourceDone = pipe[c].sourceDone
<1>1. PICK p \in Pipes : p = call[t].self
  BY DEF Pops, TypeInv, Frames
<1>2. p \notin Sinks
  BY <1>1 DEF Pops, StreamInv, KnowsAll, Busy, Still, Steady
<1>3. \A c \in Pipes : pipe'[c].sourceDone = pipe[c].sourceDone
  BY <1>1 DEF Pops, Taken
<1>4. \A c \in Sinks : pipe'[c].entries = pipe[c].entries
  BY <1>1, <1>2, PipesAssumption DEF Pops, Taken
<1>5. Source \in Pipes
  BY SourceIsRoot
<1> QED BY <1>3, <1>4, <1>5, QuietSource

\* A child is told that nothing more comes when it has been given everything.
LEMMA CloseSource ==
  ASSUME TypeInv, FramesKnown, DoneInv, Still, OneSource, StreamInv, SourceInv,
         NEW t \in Callers, Closes(t), UNCHANGED <<accepted, received>>
  PROVE  SourceInv' /\ pipe'[Source].sourceDone = pipe[Source].sourceDone
<1> DEFINE f == call[t]
<1>0. PICK p \in Pipes : p = f.self
  BY DEF Closes, TypeInv, Frames
<1>1. PICK d \in Pipes : d = Head(f.rest)
  BY NextPipe DEF Closes, Pushing
<1>2. /\ f.at = "Close" /\ f.self = p /\ Closed(d) /\ d \in ToSet(f.children)
      /\ <<t, p>> \in Pushes
  BY <1>0, <1>1, NextPipe DEF Closes, Pushing
<1>3. d \in ToSet(Wiring[p]) /\ Streams(p, d) /\ Wiring[p] # <<>>
  <2>1. d \in ToSet(Wiring[p]) /\ Streams(p, d)
    BY <1>2 DEF StreamInv, KnowsAll, Pushing
  <2> QED BY <2>1, EmptyOnce
<1>4. pipe[p].sourceDone /\ pipe[p].entries = <<>>
  BY <1>2 DEF DoneInv
<1>5. ASSUME NEW s \in Callers, InHand(s, p, d) PROVE FALSE
  <2>1. <<s, p>> \in Pushes /\ <<s, p>>[2] = <<t, p>>[2] /\ <<t, p>>[2] = p
    BY <1>5 DEF FramesKnown, GoodFrame, InHand, Pushing
  <2>2. <<s, p>> = <<t, p>>
    BY <1>2, <1>3, <2>1, OnePusherOnly
  <2> QED BY <1>2, <1>5, <2>2 DEF InHand
<1>6. accepted[p] = accepted[d]
  <2>1. accepted[p] = accepted[d] \o <<>>
    BY <1>3, <1>4, <1>5 DEF Streams
  <2>2. accepted[d] \in Seq(Nat)
    BY TypesOfFlow
  <2> QED BY <2>1, <2>2, ConcatEmptySeq
<1>7. d # Source /\ Source \in Pipes
  BY <1>3, SourceIsRoot
<1>8. pipe[Source].sourceDone /\ accepted[d] = accepted[Source]
  BY <1>4, <1>6 DEF SourceInv
<1>9. /\ \A c \in Pipes : c # d => pipe'[c].sourceDone = pipe[c].sourceDone
      /\ \A c \in Pipes : pipe'[c].entries = pipe[c].entries
  BY <1>2 DEF Closed
<1>10. \A c \in Sinks : pipe'[c].entries = pipe[c].entries
  BY <1>9, PipesAssumption
<1>11. pipe'[Source].sourceDone = pipe[Source].sourceDone
  BY <1>7, <1>9
<1>12. \A c \in Pipes : pipe'[c].sourceDone /\ ~pipe[c].sourceDone =>
         pipe'[Source].sourceDone /\ accepted[c] = accepted[Source]
  BY <1>8, <1>9, <1>11
<1> QED BY <1>10, <1>11, <1>12, QuietSource

LEMMA CommitSource ==
  ASSUME TypeInv, Still, OneSource, SourceInv, NEW z \in Entry,
         Stored(Source, z), ~pipe[Source].sourceDone, received' = received
  PROVE  SourceInv'
<1>1. Source \in Pipes /\ Source' = Source
  BY SourceIsRoot DEF Source, TheSource
<1>2. /\ accepted'[Source] = Append(accepted[Source], z)
      /\ \A q \in Pipes : q # Source => accepted'[q] = accepted[q]
      /\ \A q \in Pipes : pipe'[q].sourceDone = pipe[q].sourceDone
  BY DEF Stored
<1>3. ASSUME NEW c \in Pipes PROVE Begins(accepted'[c], accepted'[Source])
  <2>1. accepted[Source] \in Seq(Nat)
    BY <1>1, TypesOfFlow
  <2>2. accepted[c] \in Seq(Nat)
    BY TypesOfFlow
  <2>3. z \in Nat
    BY PipesAssumption DEF Entry
  <2>4. Begins(accepted[Source], accepted'[Source]) /\ accepted'[Source] \in Seq(Nat)
    BY <1>2, <2>1, <2>3, BeginsAppend
  <2>5. CASE c = Source
    <3>1. Len(accepted'[Source]) \in Nat
      BY <2>4, LenProperties
    <3> QED BY <2>5, <3>1 DEF Begins
  <2>6. CASE c # Source
    <3>1. Begins(accepted[c], accepted[Source])
      BY DEF SourceInv
    <3>2. Begins(accepted[c], accepted'[Source])
      BY <2>1, <2>2, <2>4, <3>1, BeginsTrans
    <3> QED BY <1>2, <2>6, <3>2
  <2> QED BY <2>5, <2>6
<1>4. \A c \in Pipes : ~pipe'[c].sourceDone
  BY <1>2 DEF SourceInv
<1>5. \A c \in Sinks : accepted'[c] = received'[c] \o pipe'[c].entries
  BY <1>1, StoredSinks
<1> QED BY <1>1, <1>3, <1>4, <1>5 DEF SourceInv

LEMMA GetSource ==
  ASSUME TypeInv, OneSource, Still, SourceInv, NEW p \in Sinks, Taken(p), accepted' = accepted,
         received' = [received EXCEPT ![p] = Append(@, Head(pipe[p].entries))]
  PROVE  SourceInv' /\ pipe'[Source].sourceDone = pipe[Source].sourceDone
<1>1. p \in Pipes /\ Source \in Pipes /\ Source' = Source /\ Sinks \subseteq Pipes
  BY PipesAssumption, SourceIsRoot DEF Source, TheSource
<1>2. /\ pipe[p].entries # <<>> /\ pipe'[p].entries = Tail(pipe[p].entries)
      /\ received'[p] = Append(received[p], Head(pipe[p].entries))
  BY <1>1 DEF Taken, TypeInv, TypeOK
<1>3. \A q \in Pipes : q # p => pipe'[q].entries = pipe[q].entries /\ received'[q] = received[q]
  BY <1>1 DEF Taken, TypeInv, TypeOK
<1>4. received'[p] \o pipe'[p].entries = received[p] \o pipe[p].entries
  <2>1. pipe[p].entries \in Seq(Nat)
    BY <1>1, TypesOfFlow
  <2>2. received[p] \in Seq(Nat)
    BY <1>1, TypesOfFlow
  <2> QED BY <1>2, <2>1, <2>2, HeadMoves
<1>5. \A c \in Sinks : accepted'[c] = received'[c] \o pipe'[c].entries
  BY <1>1, <1>3, <1>4 DEF SourceInv
<1>6. \A c \in Pipes : pipe'[c].sourceDone = pipe[c].sourceDone
  BY DEF Taken
<1> QED BY <1>1, <1>5, <1>6 DEF SourceInv

\* What a step is to those at the two ends.
Nothing ==
  /\ accepted'[Source] = accepted[Source] /\ received' = received
  /\ pipe'[Source].sourceDone = pipe[Source].sourceDone /\ ended' = ended

Sends(e) ==
  /\ ~pipe[Source].sourceDone /\ accepted'[Source] = Append(accepted[Source], e)
  /\ pipe'[Source].sourceDone = pipe[Source].sourceDone
  /\ received' = received /\ ended' = ended

Shuts ==
  /\ pipe'[Source].sourceDone
  /\ accepted'[Source] = accepted[Source] /\ received' = received /\ ended' = ended

Gets(p) ==
  /\ pipe[p].entries # <<>>
  /\ received' = [received EXCEPT ![p] = Append(@, Head(pipe[p].entries))]
  /\ accepted'[Source] = accepted[Source]
  /\ pipe'[Source].sourceDone = pipe[Source].sourceDone /\ ended' = ended

Hears(p) ==
  /\ pipe[p].entries = <<>> /\ pipe[p].sourceDone /\ ended' = ended \cup {p}
  /\ accepted'[Source] = accepted[Source] /\ received' = received
  /\ pipe'[Source].sourceDone = pipe[Source].sourceDone

Happens ==
  \/ Nothing
  \/ \E e \in Entry : Sends(e)
  \/ Shuts
  \/ \E p \in Sinks : Gets(p) \/ Hears(p)

LEMMA PushSource ==
  ASSUME TypeInv, TypeInv', FramesKnown, DoneInv, Static, Still, OneSource, StreamInv,
         SourceInv, NEW t \in Callers, PushStep(t)
  PROVE  SourceInv' /\ Nothing
<1>1. /\ UNCHANGED <<received, ended>>
      /\ \/ Pushes1(t)
         \/ /\ accepted' = accepted
            /\ \/ Ends(t) \/ Peeks(t) \/ Passes(t) \/ Decides(t) \/ Pops(t)
               \/ Skips(t) \/ Rounds(t) \/ Closes(t) \/ Leaves(t)
  BY PushFlow
<1>2. Source \in Pipes
  BY SourceIsRoot
<1>3. CASE Pushes1(t)
  BY <1>1, <1>3, PushChildSource DEF Nothing
<1>4. CASE accepted' = accepted /\ Pops(t)
  BY <1>1, <1>2, <1>4, PopSource DEF Nothing
<1>5. CASE accepted' = accepted /\ Closes(t)
  BY <1>1, <1>5, CloseSource DEF Nothing
<1>6. CASE accepted' = accepted /\ pipe' = pipe
  BY <1>1, <1>6, QuietSource DEF Nothing
<1> QED BY <1>1, <1>3, <1>4, <1>5, <1>6
           DEF Ends, Peeks, Passes, Decides, Skips, Rounds, Leaves

LEMMA UserSource ==
  ASSUME TypeInv, Static, Still, OneSource, SourceInv, NEW p \in Pipes, UserStep(p)
  PROVE  SourceInv' /\ Happens
<1>1. Source \in Pipes /\ Sources = {Source}
  BY SourceIsRoot
<1>2. CASE /\ p \in Sources /\ ~pipe[p].sourceDone
           /\ Stored(p, committed + 1) /\ received' = received /\ ended' = ended
           /\ committed + 1 \in Entry
  <2> DEFINE e == committed + 1
  <2>1. /\ p = Source /\ ~pipe[Source].sourceDone /\ Stored(Source, e)
        /\ received' = received /\ ended' = ended /\ e \in Entry
    BY <1>1, <1>2
  <2> HIDE DEF e
  <2>2. Sends(e)
    BY <1>1, <2>1 DEF Sends, Stored
  <2> QED BY <2>1, <2>2, CommitSource DEF Happens
<1>3. CASE /\ Taken(p) /\ p \in Sinks
           /\ received' = [received EXCEPT ![p] = Append(@, Head(pipe[p].entries))]
           /\ accepted' = accepted /\ ended' = ended
  <2>1. SourceInv' /\ pipe'[Source].sourceDone = pipe[Source].sourceDone
    BY <1>3, GetSource
  <2>2. Gets(p)
    BY <1>3, <2>1 DEF Gets, Taken
  <2> QED BY <1>3, <2>1, <2>2 DEF Happens
<1>4. CASE SameFlow /\ UNCHANGED <<accepted, received>>
  <2>1. SourceInv'
    BY <1>1, <1>4, PipesAssumption, QuietSource DEF SameFlow
  <2> QED BY <1>1, <1>4, <2>1, UserFlow DEF SameFlow, Happens, Hears, Nothing, Stored, Taken,
             Closed, history
<1>5. CASE p \in Sources /\ Closed(p) /\ UNCHANGED history
  <2>1. p = Source
    BY <1>1, <1>5
  <2>2. /\ \A q \in Pipes : pipe'[q].entries = pipe[q].entries
        /\ \A q \in Pipes : q # Source => pipe'[q].sourceDone = pipe[q].sourceDone
        /\ pipe'[Source].sourceDone /\ accepted' = accepted /\ received' = received
        /\ ended' = ended
    BY <1>5, <2>1 DEF Closed, history
  <2>3. \A q \in Sinks : pipe'[q].entries = pipe[q].entries
    BY <2>2, PipesAssumption
  <2>4. \A q \in Pipes : pipe'[q].sourceDone /\ ~pipe[q].sourceDone =>
          pipe'[Source].sourceDone /\ accepted[q] = accepted[Source]
    BY <2>2
  <2>5. SourceInv'
    BY <2>2, <2>3, <2>4, QuietSource
  <2> QED BY <2>2, <2>5 DEF Happens, Shuts
<1> QED BY <1>2, <1>3, <1>4, <1>5, UserFlow DEF history

LEMMA NextSource ==
  ASSUME TypeInv, LinkInv, FramesKnown, DoneInv, Static, Still, OneSource, StreamInv,
         SourceInv, [Next]_vars
  PROVE  SourceInv' /\ Happens
<1>1. TypeInv'
  BY NextTypes
<1>2. ASSUME pipe' = pipe, accepted' = accepted, received' = received, ended' = ended
      PROVE  SourceInv' /\ Happens
  BY <1>2, QuietSource DEF Happens, Nothing
<1>3. ASSUME NEW t \in Callers, NEW p \in Pipes, BeginPush(t, p) PROVE SourceInv' /\ Happens
  BY <1>2, <1>3 DEF BeginPush, history
<1>4. CASE UNCHANGED vars
  BY <1>2, <1>4 DEF vars
<1> QED BY <1>1, <1>3, <1>4, NoWiring, PushSource, UserSource DEF Next, Happens

\* The channel, as the pipes are seen through the mapping.
Got == [c \in Sinks |-> received[c]]

LEMMA ChannelActions ==
  /\ Broadcast!Init <=>
       /\ accepted[Source] = <<>> /\ Got = [c \in Sinks |-> <<>>]
       /\ pipe[Source].sourceDone = FALSE /\ ended = {}
  /\ \A e : Broadcast!Send(e) <=>
       /\ ~pipe[Source].sourceDone
       /\ accepted'[Source] = Append(accepted[Source], e)
       /\ Got' = Got /\ pipe'[Source].sourceDone = pipe[Source].sourceDone /\ ended' = ended
  /\ Broadcast!Close <=>
       /\ pipe'[Source].sourceDone = TRUE
       /\ accepted'[Source] = accepted[Source] /\ Got' = Got /\ ended' = ended
  /\ \A p : Broadcast!Deliver(p) <=>
       /\ Len(Got[p]) < Len(accepted[Source])
       /\ Got' = [Got EXCEPT ![p] = Append(@, accepted[Source][Len(@) + 1])]
       /\ accepted'[Source] = accepted[Source]
       /\ pipe'[Source].sourceDone = pipe[Source].sourceDone /\ ended' = ended
  /\ \A p : Broadcast!Tell(p) <=>
       /\ pipe[Source].sourceDone /\ Got[p] = accepted[Source]
       /\ ended' = ended \cup {p}
       /\ accepted'[Source] = accepted[Source] /\ Got' = Got
       /\ pipe'[Source].sourceDone = pipe[Source].sourceDone
BY DEF Broadcast!Init, Broadcast!Send, Broadcast!Close, Broadcast!Deliver, Broadcast!Tell,
       Source, TheSource, Got

\* What a reader takes next is what was sent next.
LEMMA GetsNext ==
  ASSUME TypeInv, OneSource, Still, SourceInv, NEW p \in Sinks, Gets(p)
  PROVE  Broadcast!Deliver(p)
<1> DEFINE r == received[p]  x == pipe[p].entries  a == accepted[p]  s == accepted[Source]
<1>1. p \in Pipes /\ Source \in Pipes /\ received \in [Pipes -> Seq(Entry)]
  BY PipesAssumption, SourceIsRoot DEF TypeInv, TypeOK
<1>2. r \in Seq(Nat)
  BY <1>1, TypesOfFlow
<1>3. x \in Seq(Nat) /\ x # <<>>
  BY <1>1, TypesOfFlow DEF Gets
<1>4. a = r \o x /\ Begins(a, s)
  BY <1>1 DEF SourceInv
<1>5. s \in Seq(Nat)
  BY <1>1, TypesOfFlow
<1>6. Got[p] = r /\ Got' = [Got EXCEPT ![p] = Append(r, Head(x))]
  BY <1>1, PipesAssumption DEF Got, Gets
<1> HIDE DEF r, x, a, s
<1>7. Len(r) \in Nat /\ Len(x) \in Nat \ {0} /\ Head(x) = x[1] /\ Len(s) \in Nat
  BY <1>2, <1>3, <1>5, LenProperties, EmptySeq
<1>8. /\ Len(a) = Len(r) + Len(x)
      /\ \A i \in 1 .. Len(r) + Len(x) : a[i] = IF i <= Len(r) THEN r[i] ELSE x[i - Len(r)]
  BY <1>2, <1>3, <1>4, ConcatProperties
<1>9. Len(r) + 1 \in 1 .. Len(a) /\ a[Len(r) + 1] = Head(x)
  <2>1. Len(r) + 1 \in 1 .. Len(r) + Len(x) /\ ~(Len(r) + 1 <= Len(r))
        /\ (Len(r) + 1) - Len(r) = 1
    BY <1>7
  <2> QED BY <1>7, <1>8, <2>1
<1>10. s[Len(r) + 1] = Head(x) /\ Len(r) < Len(s)
  <2>1. Len(a) <= Len(s)
    BY <1>4 DEF Begins
  <2>2. Len(a) \in Nat
    BY <1>7, <1>8
  <2> QED BY <1>4, <1>7, <1>9, <2>1, <2>2 DEF Begins
<1>11. Got' = [Got EXCEPT ![p] = Append(@, s[Len(@) + 1])]
  BY <1>6, <1>10
<1> QED BY <1>6, <1>10, <1>11, ChannelActions DEF Gets, s

\* A reader is told Closed when it has got all that was sent.
LEMMA HearsLast ==
  ASSUME TypeInv, OneSource, Still, SourceInv, NEW p \in Sinks, Hears(p)
  PROVE  Broadcast!Tell(p)
<1>1. p \in Pipes
  BY PipesAssumption
<1>2. received[p] \in Seq(Nat)
  BY <1>1, TypesOfFlow
<1>3. accepted[p] = received[p]
  <2>1. accepted[p] = received[p] \o <<>>
    BY DEF SourceInv, Hears
  <2> QED BY <1>2, <2>1, ConcatEmptySeq
<1>4. pipe[Source].sourceDone /\ Got[p] = accepted[Source]
  BY <1>1, <1>3 DEF SourceInv, Hears, Got
<1> QED BY <1>4, ChannelActions DEF Hears, Got

LEMMA ChannelStep ==
  ASSUME TypeInv, TypeInv', OneSource, Still, SourceInv, Happens
  PROVE  [Broadcast!Next]_(Broadcast!channel)
<1>0. Source \in Pipes
  BY SourceIsRoot
<1>1. CASE Nothing
  BY <1>1 DEF Nothing, Broadcast!channel, Source, TheSource
<1>2. ASSUME NEW e \in Entry, Sends(e) PROVE Broadcast!Next
  <2>1. Broadcast!Send(e)
    BY <1>2, ChannelActions DEF Sends, Got
  <2> QED BY <1>2, <2>1 DEF Broadcast!Next
<1>3. CASE Shuts
  <2>1. pipe'[Source].sourceDone = TRUE
    <3>1. pipe'[Source] \in PipeState
      BY <1>0 DEF TypeInv, TypeOK
    <3>2. pipe'[Source].sourceDone \in BOOLEAN
      BY <3>1 DEF PipeState
    <3> QED BY <1>3, <3>2 DEF Shuts
  <2>2. Broadcast!Close
    BY <1>3, <2>1, ChannelActions DEF Shuts, Got
  <2> QED BY <2>2 DEF Broadcast!Next
<1>4. ASSUME NEW p \in Sinks, Gets(p) PROVE Broadcast!Next
  BY <1>4, GetsNext DEF Broadcast!Next
<1>5. ASSUME NEW p \in Sinks, Hears(p) PROVE Broadcast!Next
  BY <1>5, HearsLast DEF Broadcast!Next
<1> QED BY <1>1, <1>2, <1>3, <1>4, <1>5 DEF Happens

LEMMA InitSource ==
  ASSUME Init, Still, OneSource
  PROVE  SourceInv /\ Broadcast!Init
<1>1. Source \in Pipes /\ Sinks \subseteq Pipes
  BY SourceIsRoot, PipesAssumption
<1>2. ASSUME NEW p \in Pipes
      PROVE  /\ pipe[p].entries = <<>> /\ received[p] = <<>> /\ accepted[p] = <<>>
             /\ pipe[p].sourceDone = FALSE
  BY DEF Init, New
<1>3. Len(<<>>) = 0 /\ <<>> \o <<>> = <<>>
  BY EmptyOnce, ConcatEmptySeq
<1>4. Begins(<<>>, <<>>)
  BY <1>3 DEF Begins
<1>5. SourceInv
  BY <1>1, <1>2, <1>3, <1>4 DEF SourceInv
<1>6. Got = [c \in Sinks |-> <<>>]
  BY <1>1, <1>2 DEF Got
<1>7. ended = {}
  BY DEF Init
<1>8. accepted[Source] = <<>> /\ pipe[Source].sourceDone = FALSE
  BY <1>1, <1>2
<1> QED BY <1>5, <1>6, <1>7, <1>8, ChannelActions

\* A tree of blocking pipes is the channel of Channel (the safety half of
\* Delivers): whatever steps its callers take between their locks, each reader
\* gets the next entry that was sent and is told Closed when it has got them all.
THEOREM TreeIsChannel ==
  ASSUME Steady, OneFeed, OneSource PROVE Spec => Broadcast!Spec
<1>1. Still
  BY DEF Still
<1>2. Careful /\ Feeding
  BY <1>1, StillIsCareful
<1>3. Spec => []LinkInv /\ [](FramesKnown /\ DoneInv) /\ [](Static /\ StreamInv)
  BY <1>1, <1>2, LinkInvariant, DoneInvariant, StreamInvariant
<1>4. Init => SourceInv /\ Broadcast!Init
  BY <1>1, InitSource
<1>5. TypeInv /\ LinkInv /\ (FramesKnown /\ DoneInv) /\ (Static /\ StreamInv)
      /\ SourceInv /\ [Next]_vars => SourceInv' /\ [Broadcast!Next]_(Broadcast!channel)
  BY <1>1, NextTypes, NextSource, ChannelStep
<1>6. Broadcast!Spec <=> Broadcast!Init /\ [][Broadcast!Next]_(Broadcast!channel)
  BY PTL DEF Broadcast!Spec
<1> QED BY <1>3, <1>4, <1>5, <1>6, TypeInvariant, PTL DEF Spec
=============================================================================
