----------------------------- MODULE ExampleProofs -----------------------------
(* The example: what is registered is run once and in reverse              *)
(* (UnwoundInReverse), and main exits with success (ExitSucceeds),         *)
(* whatever the number of behaviours that render or register.              *)
(*                                                                         *)
(* A step of the example is one of the tree, of which the invariants of    *)
(* LifeProofs hold, or one that moves nothing of the tree but the mutex of *)
(* a behaviour (MutexStep), which they do not mention.  The rest relates   *)
(* the tree to the rendering and to the destructors.                       *)
EXTENDS HelloWorld, LifeProofs, SequenceTheorems

TreeHolds == TypeInv /\ DriverInv /\ LifeInv /\ TreeInv

MutexStep ==
  /\ behavior' \in [Procs -> Procs \cup {NoProc}]
  /\ UNCHANGED <<rt, frames, loop, left>>

LEMMA InitTreeHolds == Init => TreeHolds
  BY InitTypes, InitDriven, InitLife, InitTree DEF TreeHolds

LEMMA MutexStepKeeps ==
  ASSUME TreeHolds, MutexStep
  PROVE  TreeHolds'
<1> USE DEF TreeHolds, MutexStep, frames
<1>1. TypeInv'
  BY DEF TypeInv, TypeOK, Framed
<1>2. DriverInv'
  <2>1. QuietStep
    BY DEF QuietStep, Kept, Active
  <2> QED
    BY <2>1, QuietStepKeeps
<1>3. LifeInv'
  <2>1. Calm
    BY DEF Calm, LivesStay, FramesCalm, ChildrenCalm, SameLife, SameFlags
  <2> QED
    BY <2>1, CalmKeepsLife
<1>4. TreeInv'
  <2>1. SettledStay
    BY DEF SettledStay, Progress
  <2>2. TreesStay
    BY DEF TreesStay, SameTree
  <2>3. TreeKept
    BY <2>1, <2>2, SameLoops, StillTree DEF Ticking
  <2> QED
    BY <2>3, TreeKeptKeeps
<1> QED
  BY <1>1, <1>2, <1>3, <1>4

LEMMA ThreadStepKeeps ==
  ASSUME ~Retries, TreeHolds, NEW t \in Procs, ThreadStep(t)
  PROVE  TreeHolds'
<1>1. [Next]_vars
  BY DEF Next
<1> QED
  BY <1>1, NextTypes, NextDriven, NextLife, NextTree DEF TreeHolds

\* No thread has a loop once that of the root is over.
LEMMA NobodyWorks ==
  ASSUME TreeHolds, loop[Root] = "Exited"
  PROVE  \A t \in Procs : loop[t] \in {"None", "Exited"}
<1>1. \A t \in Procs : ~Active(t)
  BY NobodyBusy DEF TreeHolds, Busy, DriverInv, LoopStarted, Active
<1> QED
  BY <1>1 DEF TreeHolds, TypeInv, TypeOK, LoopLabels, Active

-----------------------------------------------------------------------------
(* Rendering.                                                              *)

Inside(t, p) == pc[t][p] \in Callbacks

\* A step of thread t in the tree enters one callback, leaves one, or neither;
\* the mutex of a behaviour is taken and given back with it.
SameInside(t, p) == Inside(t, p)' <=> Inside(t, p)

Enters(t, p) ==
  /\ behavior[p] = NoProc /\ behavior' = [behavior EXCEPT ![p] = t]
  /\ Inside(t, p)' /\ \A q \in Procs \ {p} : SameInside(t, q)

Exits(t, p) ==
  /\ Inside(t, p) /\ behavior' = [behavior EXCEPT ![p] = NoProc]
  /\ ~Inside(t, p)' /\ \A q \in Procs \ {p} : SameInside(t, q)

Remains(t) == behavior' = behavior /\ \A q \in Procs : SameInside(t, q)

Mutexes(t) ==
  /\ \A u \in Procs \ {t} : pc'[u] = pc[u]
  /\ Remains(t) \/ \E p \in Procs : Enters(t, p) \/ Exits(t, p)

LEMMA GotoOutside ==
  ASSUME TypeInv, NEW t \in Procs, NEW p \in Procs, NEW label,
         Goto(t, p, label), ~Inside(t, p), label \notin Callbacks, behavior' = behavior
  PROVE  Mutexes(t)
<1>1. /\ \A u \in Procs \ {t} : pc'[u] = pc[u]
      /\ \A q \in Procs \ {p} : pc'[t][q] = pc[t][q]
      /\ pc'[t][p] = label
  BY DEF Goto, TypeInv, TypeOK
<1> QED
  BY <1>1 DEF Mutexes, Remains, SameInside, Inside

LEMMA TickMutexes ==
  ASSUME TypeInv, DriverInv, NEW t \in Procs, NEW p \in Procs, TickStep(t, p)
  PROVE  Mutexes(t)
<1>1. ASSUME NEW label \in {"Idle", "Children", "Join", "LockInitialize", "LockProcess",
                            "Unuse"},
             Goto(t, p, label), ~Inside(t, p), behavior' = behavior
      PROVE  Mutexes(t)
  BY <1>1, GotoOutside DEF Callbacks
<1>2. ASSUME NEW c \in Procs, ParentalDrive(t, p, c)
      PROVE  Mutexes(t)
  <2>1. p # c /\ ~Inside(t, c)
    BY <1>2, DrivenIsIdle DEF Ticking, Inside, Callbacks
  <2>2. /\ \A u \in Procs \ {t} : pc'[u] = pc[u]
        /\ \A q \in Procs \ {p, c} : pc'[t][q] = pc[t][q]
        /\ pc[t][p] = "Children" /\ pc'[t][p] = "Drive" /\ pc'[t][c] = "Children"
        /\ behavior' = behavior
    BY <1>2, <2>1 DEF ParentalDrive, TypeInv, TypeOK
  <2> QED
    BY <2>1, <2>2 DEF Mutexes, Remains, SameInside, Inside, Callbacks
<1>3. CASE DriveReturn(t, p) \/ (\E c \in Procs : PassChild(t, p, c)) \/ JoinWorker(t, p)
  <2>1. /\ ~Inside(t, p) /\ behavior' = behavior
        /\ Goto(t, p, "Join") \/ Goto(t, p, "Children")
    BY <1>3 DEF DriveReturn, PassChild, JoinWorker, SettleChild, Inside, Callbacks
  <2> QED
    BY <1>1, <2>1
<1>4. CASE \/ LeaveExistent(t, p) \/ SeeCanceled(t, p) \/ SeeNotCanceled(t, p)
           \/ ReleaseChildren(t, p) \/ EndRelease(t, p) \/ Finish(t, p)
           \/ TickFinished(t, p)
  <2>1. /\ ~Inside(t, p) /\ behavior' = behavior
        /\ \/ Goto(t, p, "Idle") \/ Goto(t, p, "Unuse")
           \/ Goto(t, p, "LockInitialize") \/ Goto(t, p, "LockProcess")
    BY <1>4 DEF LeaveExistent, SeeCanceled, SeeNotCanceled, ReleaseChildren, EndRelease,
       Finish, TickFinished, AtArm, EndTick, Inside, Callbacks
  <2> QED
    BY <1>1, <2>1
<1>5. CASE EnterInitialize(t, p) \/ EnterProcess(t, p) \/ EnterShutdown(t, p)
  <2>1. PICK f \in Callbacks : Enter(t, p, f)
    BY <1>5 DEF EnterInitialize, EnterProcess, EnterShutdown, Callbacks
  <2>2. Enters(t, p) /\ \A u \in Procs \ {t} : pc'[u] = pc[u]
    BY <2>1 DEF Enter, Goto, Enters, SameInside, Inside, TypeInv, TypeOK
  <2> QED
    BY <2>2 DEF Mutexes
<1>6. ASSUME NEW f \in Callbacks, NEW r, Return(t, p, f, r)
      PROVE  Mutexes(t)
  <2>1. Exits(t, p) /\ \A u \in Procs \ {t} : pc'[u] = pc[u]
    BY <1>6 DEF Return, EndTick, Goto, Exits, SameInside, Inside, Callbacks, TypeInv, TypeOK
  <2> QED
    BY <2>1 DEF Mutexes
<1>7. CASE \/ ReturnPending(t, p) \/ ReturnInitialize(t, p)
           \/ ReturnProcess(t, p) \/ ReturnShutdown(t, p)
  BY <1>6, <1>7 DEF ReturnPending, ReturnInitialize, ReturnProcess, ReturnShutdown, Callbacks
<1>8. ASSUME NEW c \in Procs, ReleaseChild(t, p, c)
      PROVE  Mutexes(t)
  BY <1>8 DEF ReleaseChild, Mutexes, Remains, SameInside, Inside
<1> QED
  BY <1>2, <1>3, <1>4, <1>5, <1>7, <1>8 DEF TickStep

LEMMA ThreadMutexes ==
  ASSUME TypeInv, DriverInv, NEW t \in Procs, ThreadStep(t)
  PROVE  Mutexes(t)
<1>1. ASSUME UNCHANGED <<behavior, pc>>
      PROVE  Mutexes(t)
  BY <1>1 DEF Mutexes, Remains, SameInside, Inside
<1>2. CASE FirstTick(t) \/ NextTick(t)
  <2>1. ~Inside(t, t)
    BY <1>2, LoopIsIdle DEF Ticking, Inside, Callbacks
  <2>2. Goto(t, t, "Children") /\ behavior' = behavior
    BY <1>2 DEF FirstTick, NextTick, LoopTick
  <2> QED
    BY <2>1, <2>2, GotoOutside DEF Callbacks
<1>3. CASE LoopCheck(t) \/ LoopMark(t)
  BY <1>1, <1>3 DEF LoopCheck, LoopMark, frames
<1>4. CASE \E p \in Procs : StoreWorker(t, p)
  BY <1>1, <1>4 DEF StoreWorker
<1>5. CASE CallStep(t)
  <2>1. PICK p \in Procs : CallOf(t, p)
    BY <1>5, CallStepIsCall
  <2> QED
    BY <1>1, <2>1
    DEF CallOf, StartChild, SpawnWorker, SpawnFails, Call, Cancel, Repel,
        WhenFinishedRepel, UnusedSet, frames
<1> QED
  BY <1>2, <1>3, <1>4, <1>5, TickMutexes DEF ThreadStep, LoopStep
Rendering == [toDraw : SUBSET Procs, details : Procs \cup {NoProc}, drawn : BOOLEAN]

\* A thread only draws in a callback, once in it, and not with a mutex that it
\* already has.
DrawsInside ==
  \A t \in Procs :
    /\ Drawing(t) => render[t].drawn /\ \E p \in Procs : Inside(t, p)
    /\ \A p \in Procs : Inside(t, p) => render[t].details # p

\* Who has the mutex of a behaviour is in a callback of it or copies its details.
MutexHeld ==
  \A t, p \in Procs :
    behavior[p] = t <=> pc[t][p] \in Callbacks \/ render[t].details = p

RenderInv == render \in [Procs -> Rendering] /\ MutexHeld /\ DrawsInside

LEMMA InitRender == HWInit => RenderInv
  BY ProcsAssumption
  DEF HWInit, Init, RenderingInit, RenderInv, Rendering, NoRender, MutexHeld,
      DrawsInside, Drawing, Inside, Callbacks

LEMMA TreeStepRender ==
  ASSUME TypeInv, DriverInv, RenderInv, NEW t \in Procs, TreeStep(t)
  PROVE  RenderInv'
<1> USE DEF RenderInv
<1>1. Mutexes(t)
  BY ThreadMutexes DEF TreeStep
<1>2. /\ render' \in [Procs -> Rendering]
      /\ render'[t] = NoRender /\ \A u \in Procs \ {t} : render'[u] = render[u]
  BY DEF TreeStep, Rendering, NoRender
<1>3. \A p \in Procs : p # NoProc
  BY ProcsAssumption
<1>4. render[t].details = NoProc
  BY DEF TreeStep, Drawing
<1>5. \A u \in Procs \ {t}, p \in Procs : SameInside(u, p)
  BY <1>1 DEF Mutexes, SameInside, Inside
<1>6. \A u, p \in Procs : render'[u].details = p <=> render[u].details = p
  BY <1>2, <1>3, <1>4 DEF NoRender
<1>7. MutexHeld'
  <2>1. \A u, p \in Procs : behavior[p] = u <=> Inside(u, p) \/ render[u].details = p
    BY DEF MutexHeld, Inside
  <2>2. SUFFICES ASSUME NEW u \in Procs, NEW p \in Procs
                 PROVE  behavior'[p] = u <=> Inside(u, p)' \/ render[u].details = p
    BY <1>6 DEF MutexHeld, Inside
  <2>3. CASE Remains(t)
    BY <1>5, <2>1, <2>3 DEF Remains, SameInside, Inside
  <2>4. ASSUME NEW q \in Procs, Enters(t, q)
        PROVE  behavior'[p] = u <=> Inside(u, p)' \/ render[u].details = p
    <3>1. CASE p = q
      <4>1. behavior'[p] = t /\ Inside(t, p)' /\ behavior[p] = NoProc
        BY <2>4, <3>1 DEF Enters, TypeInv, TypeOK
      <4>2. ~Inside(u, p) /\ render[u].details # p
        BY <1>3, <2>1, <4>1
      <4> QED
        BY <1>5, <4>1, <4>2 DEF SameInside, Inside
    <3>2. CASE p # q
      <4>1. behavior'[p] = behavior[p]
        BY <2>4, <3>2 DEF Enters, TypeInv, TypeOK
      <4>2. SameInside(u, p)
        BY <1>5, <2>4, <3>2 DEF Enters
      <4> QED
        BY <2>1, <4>1, <4>2 DEF SameInside, Inside
    <3> QED
      BY <3>1, <3>2
  <2>5. ASSUME NEW q \in Procs, Exits(t, q)
        PROVE  behavior'[p] = u <=> Inside(u, p)' \/ render[u].details = p
    <3>1. CASE p = q
      <4>1. behavior'[p] = NoProc /\ ~Inside(t, p)' /\ Inside(t, p)
        BY <2>5, <3>1 DEF Exits, TypeInv, TypeOK
      <4>2. u # t => ~Inside(u, p) /\ render[u].details # p
        BY <2>1, <4>1
      <4> QED
        BY <1>3, <1>4, <1>5, <4>1, <4>2 DEF SameInside, Inside
    <3>2. CASE p # q
      <4>1. behavior'[p] = behavior[p]
        BY <2>5, <3>2 DEF Exits, TypeInv, TypeOK
      <4>2. SameInside(u, p)
        BY <1>5, <2>5, <3>2 DEF Exits
      <4> QED
        BY <2>1, <4>1, <4>2 DEF SameInside, Inside
    <3> QED
      BY <3>1, <3>2
  <2> QED
    BY <1>1, <2>3, <2>4, <2>5 DEF Mutexes
<1>8. DrawsInside'
  BY <1>2, <1>3, <1>5 DEF DrawsInside, Drawing, NoRender, SameInside, Inside
<1> QED
  BY <1>2, <1>7, <1>8

LEMMA SameRender ==
  ASSUME TypeInv, RenderInv, UNCHANGED <<render, vars>>
  PROVE  RenderInv' /\ MutexStep
<1>1. RenderInv'
  <2>1. MutexHeld'
    BY DEF RenderInv, MutexHeld, vars
  <2>2. DrawsInside'
    BY DEF RenderInv, DrawsInside, Drawing, Inside, vars
  <2> QED
    BY <2>1, <2>2 DEF RenderInv
<1>2. MutexStep
  BY DEF MutexStep, TypeInv, TypeOK, vars, frames
<1> QED
  BY <1>1, <1>2

\* The drawing of t changes to r; the behaviours have their mutexes as r says.
DrawingIs(t, r) ==
  /\ render' = [render EXCEPT ![t] = r] /\ MutexStep
  /\ r \in Rendering /\ r.drawn = TRUE /\ \E p \in Procs : Inside(t, p)
  /\ \A p \in Procs : behavior'[p] = t <=> Inside(t, p) \/ r.details = p
  /\ \A p \in Procs, u \in Procs \ {t} : behavior'[p] = u <=> behavior[p] = u
  /\ \A p \in Procs : Inside(t, p) => r.details # p

LEMMA DrawingKeeps ==
  ASSUME TypeInv, RenderInv, NEW t \in Procs, NEW r, DrawingIs(t, r)
  PROVE  RenderInv' /\ MutexStep
<1> USE DEF RenderInv, DrawingIs, MutexStep
<1>1. /\ render' \in [Procs -> Rendering]
      /\ render'[t] = r /\ \A u \in Procs \ {t} : render'[u] = render[u]
  OBVIOUS
<1>2. pc' = pc
  BY DEF frames
<1>3. MutexHeld'
  BY <1>1, <1>2 DEF MutexHeld, Inside
<1>4. DrawsInside'
  BY <1>1, <1>2 DEF DrawsInside, Drawing, Inside
<1> QED
  BY <1>1, <1>3, <1>4

\* A drawing moves nothing of the tree but a mutex.
LEMMA RenderStepRender ==
  ASSUME TypeInv, RenderInv, NEW t \in Procs, RenderStep(t)
  PROVE  RenderInv' /\ MutexStep
<1>0. /\ \A p \in Procs : p # NoProc
      /\ render[t] \in Rendering
      /\ behavior \in [Procs -> Procs \cup {NoProc}]
      /\ \A u, p \in Procs : behavior[p] = u <=> Inside(u, p) \/ render[u].details = p
      /\ Drawing(t) => render[t].drawn = TRUE /\ \E p \in Procs : Inside(t, p)
      /\ \A p \in Procs : Inside(t, p) => render[t].details # p
  BY ProcsAssumption DEF RenderInv, TypeInv, TypeOK, MutexHeld, DrawsInside, Inside, Rendering
<1>1. ASSUME NEW q \in Renderers, BeginRender(t, q[1], q[2])
      PROVE  RenderInv' /\ MutexStep
  <2> DEFINE r == [NoRender EXCEPT !.drawn = TRUE, !.toDraw = {q[2]}]
  <2>1. q[1] \in Procs /\ q[2] \in Procs
    BY RenderingAssumption
  <2>2. r \in Rendering /\ r.drawn = TRUE /\ r.details = NoProc
    BY <2>1 DEF Rendering, NoRender
  <2>3. Inside(t, q[1]) /\ render' = [render EXCEPT ![t] = r]
    BY <1>1 DEF BeginRender, Inside, Callbacks
  <2>4. render[t].details = NoProc
    BY <1>0, <1>1 DEF BeginRender, Drawing
  <2> HIDE DEF r
  <2>5. UNCHANGED <<rt, frames, loop, left, behavior>>
    BY <1>1 DEF BeginRender, vars, frames
  <2>6. \A p \in Procs : behavior'[p] = t <=> Inside(t, p) \/ r.details = p
    BY <1>0, <2>2, <2>4, <2>5
  <2>7. DrawingIs(t, r)
    BY <1>0, <2>1, <2>2, <2>3, <2>5, <2>6 DEF DrawingIs, MutexStep
  <2> QED
    BY <2>7, DrawingKeeps
<1>2. ASSUME NEW p \in Procs, DrawProcess(t, p)
      PROVE  RenderInv' /\ MutexStep
  <2> DEFINE d == IF HasDetails(p) /\ behavior[p] = NoProc THEN p ELSE NoProc
             ds == (render[t].toDraw \ {p})
                     \cup (IF p \in treeHidden THEN {} ELSE rt[p].children)
             r == [render[t] EXCEPT !.toDraw = ds, !.details = d]
  <2>1. Draw(t, p, d)
    BY <1>2 DEF DrawProcess
  <2>2. d = NoProc \/ (d = p /\ behavior[p] = NoProc)
    OBVIOUS
  <2>3. rt[p].children \subseteq Procs
    BY DEF TypeInv, TypeOK, RuntimeState
  <2> HIDE DEF d
  <2>4. Drawing(t) /\ render[t].details = NoProc
    BY <2>1 DEF Draw
  <2>5. /\ ds \subseteq Procs /\ d \in Procs \cup {NoProc}
        /\ render[t].drawn = TRUE
    BY <1>0, <2>2, <2>3, <2>4 DEF Rendering
  <2>6. render' = [render EXCEPT ![t] = r]
    BY <2>1 DEF Draw, RenderInv
  <2> HIDE DEF ds
  <2>7. r \in Rendering /\ r.drawn = TRUE /\ r.details = d
    BY <1>0, <2>5 DEF Rendering
  <2> HIDE DEF r
  <2>8. /\ UNCHANGED <<rt, frames, loop, left>>
        /\ behavior' = IF d = NoProc THEN behavior ELSE [behavior EXCEPT ![d] = t]
    BY <2>1 DEF Draw
  <2>9. /\ behavior' \in [Procs -> Procs \cup {NoProc}]
        /\ \A q \in Procs : behavior'[q] = t <=> Inside(t, q) \/ r.details = q
        /\ \A q \in Procs, u \in Procs \ {t} : behavior'[q] = u <=> behavior[q] = u
        /\ \A q \in Procs : Inside(t, q) => r.details # q
    <3>1. CASE d = NoProc
      BY <1>0, <2>4, <2>7, <2>8, <3>1
    <3>2. CASE d = p /\ behavior[p] = NoProc
      BY <1>0, <2>4, <2>7, <2>8, <3>2
    <3> QED
      BY <2>2, <3>1, <3>2
  <2>10. DrawingIs(t, r)
    BY <1>0, <2>4, <2>6, <2>7, <2>8, <2>9 DEF DrawingIs, MutexStep
  <2> QED
    BY <2>10, DrawingKeeps
<1>3. ASSUME Unlock(t)
      PROVE  RenderInv' /\ MutexStep
  <2> DEFINE d == render[t].details
             r == [render[t] EXCEPT !.details = NoProc]
  <2>1. d \in Procs /\ Drawing(t)
    BY <1>0, <1>3 DEF Unlock, Rendering, Drawing
  <2>2. /\ behavior' = [behavior EXCEPT ![d] = NoProc]
        /\ render' = [render EXCEPT ![t] = r]
        /\ UNCHANGED <<rt, frames, loop, left>>
    BY <1>3 DEF Unlock, RenderInv
  <2>3. r \in Rendering /\ r.drawn = TRUE /\ r.details = NoProc
    BY <1>0, <2>1 DEF Rendering
  <2>4. behavior[d] = t /\ ~Inside(t, d)
    BY <1>0, <2>1
  <2> HIDE DEF r
  <2>5. /\ behavior' \in [Procs -> Procs \cup {NoProc}]
        /\ \A q \in Procs : behavior'[q] = t <=> Inside(t, q)
        /\ \A q \in Procs, u \in Procs \ {t} : behavior'[q] = u <=> behavior[q] = u
    BY <1>0, <2>1, <2>2, <2>4
  <2>6. DrawingIs(t, r)
    BY <1>0, <2>1, <2>2, <2>3, <2>5 DEF DrawingIs, MutexStep
  <2> QED
    BY <2>6, DrawingKeeps
<1>4. ASSUME NEW d \in Displays, DisplaySet(t, d[1], d[2], d[3])
      PROVE  RenderInv' /\ MutexStep
  BY <1>4, SameRender DEF DisplaySet
<1> QED
  BY <1>1, <1>2, <1>3, <1>4 DEF RenderStep
\* The tree and the drawings of it through any step of the example.
LEMMA NextWorld ==
  ASSUME ~Retries
  PROVE  TreeHolds /\ RenderInv /\ [HWNext]_world => TreeHolds' /\ RenderInv'
<1> SUFFICES ASSUME TreeHolds, RenderInv, [HWNext]_world
             PROVE  TreeHolds' /\ RenderInv'
  OBVIOUS
<1>0. TypeInv /\ DriverInv
  BY DEF TreeHolds
<1>1. CASE UNCHANGED <<vars, rendering>>
  BY <1>0, <1>1, SameRender, MutexStepKeeps DEF rendering
<1>2. ASSUME NEW t \in Procs, BehaviorStep(t)
      PROVE  TreeHolds' /\ RenderInv'
  <2>1. TreeStep(t) /\ ThreadStep(t)
    BY <1>2 DEF BehaviorStep, TreeStep
  <2> QED
    BY <1>0, <2>1, ThreadStepKeeps, TreeStepRender
<1>3. ASSUME NEW t \in Procs, DrawStep(t)
      PROVE  TreeHolds' /\ RenderInv'
  BY <1>0, <1>3, RenderStepRender, MutexStepKeeps DEF DrawStep
<1>4. CASE Close \/ Ended \/ UNCHANGED world
  BY <1>1, <1>4 DEF Close, Ended, world
<1>5. ASSUME NEW t \in Procs, NEW f, NEW p, NEW d, Register(t, f, p, d)
      PROVE  TreeHolds' /\ RenderInv'
  BY <1>1, <1>5 DEF Register
<1> QED
  BY <1>2, <1>3, <1>4, <1>5 DEF HWNext, Work

LEMMA WorldInvariant ==
  ASSUME ~Retries
  PROVE  HWSpec => [](TreeHolds /\ RenderInv)
<1>1. HWInit => TreeHolds /\ RenderInv
  BY InitTreeHolds, InitRender DEF HWInit
<1> QED
  BY <1>1, NextWorld, PTL DEF HWSpec

-----------------------------------------------------------------------------
(* The destructors.                                                        *)

\* They are run when main has left its loop, and no thread registers any more.
EndInv ==
  /\ destructors \in Seq(Destructor) /\ registered \in Seq(Destructor)
  /\ unwound \in Seq(Destructor)
  /\ application # "Open" => loop[Root] = "Exited"
  /\ application = "Open" => unwound = <<>>
  /\ UnwoundInReverse

LEMMA ReverseProperties ==
  ASSUME NEW S, NEW s \in Seq(S)
  PROVE  /\ Reverse(s) \in Seq(S) /\ Len(Reverse(s)) = Len(s)
         /\ \A i \in 1 .. Len(s) : Reverse(s)[i] = s[Len(s) - i + 1]
         /\ \A e : Contains(Reverse(s), e) <=> Contains(s, e)
<1>1. /\ Len(s) \in Nat /\ Reverse(s) \in [1 .. Len(s) -> S]
      /\ \A i \in 1 .. Len(s) : Reverse(s)[i] = s[Len(s) - i + 1]
  BY DEF Reverse
<1>2. Reverse(s) \in Seq(S) /\ Len(Reverse(s)) = Len(s)
  BY <1>1
<1>3. ASSUME NEW e
      PROVE  Contains(Reverse(s), e) <=> Contains(s, e)
  <2>1. ASSUME NEW i \in 1 .. Len(s)
        PROVE  /\ Len(s) - i + 1 \in 1 .. Len(s)
               /\ Reverse(s)[Len(s) - i + 1] = s[i]
    BY <1>1
  <2> QED
    BY <1>1, <1>2, <2>1 DEF Contains
<1> QED
  BY <1>1, <1>2, <1>3

\* What is appended is the first when reversed.
LEMMA ReverseAppend ==
  ASSUME NEW S, NEW s \in Seq(S), NEW e \in S
  PROVE  Reverse(Append(s, e)) = <<e>> \o Reverse(s)
<1> DEFINE a == Append(s, e)
           l == Reverse(a)
           r == <<e>> \o Reverse(s)
<1>1. /\ a \in Seq(S) /\ Len(a) = Len(s) + 1 /\ Len(s) \in Nat
      /\ a[Len(s) + 1] = e /\ \A i \in 1 .. Len(s) : a[i] = s[i]
  BY AppendProperties
<1>2. Reverse(s) \in Seq(S) /\ Len(Reverse(s)) = Len(s)
  BY ReverseProperties
<1>3. l \in Seq(S) /\ Len(l) = Len(s) + 1
  BY <1>1, ReverseProperties
<1>4. /\ r \in Seq(S) /\ Len(r) = Len(s) + 1
      /\ r[1] = e
      /\ \A i \in 2 .. Len(s) + 1 : r[i] = Reverse(s)[i - 1]
  BY <1>1, <1>2
<1>5. \A i \in 1 .. Len(s) + 1 : l[i] = a[Len(s) + 1 - i + 1]
  <2>1. \A i \in 1 .. Len(a) : l[i] = a[Len(a) - i + 1]
    BY <1>1, ReverseProperties
  <2> HIDE DEF l, a
  <2> QED
    BY <1>1, <2>1
<1>6. ASSUME NEW i \in 1 .. Len(s) + 1
      PROVE  l[i] = r[i]
  <2>1. CASE i = 1
    BY <1>1, <1>4, <1>5, <2>1
  <2>2. CASE i # 1
    <3>1. i - 1 \in 1 .. Len(s) /\ i \in 2 .. Len(s) + 1
      BY <1>1, <2>2
    <3>2. Reverse(s)[i - 1] = s[Len(s) - (i - 1) + 1]
      BY <3>1, ReverseProperties
    <3>3. l[i] = s[Len(s) + 1 - i + 1]
      BY <1>1, <1>5, <3>1
    <3> QED
      BY <1>1, <1>4, <3>1, <3>2, <3>3
  <2> QED
    BY <2>1, <2>2
<1> HIDE DEF l, r
<1>7. l = r
  BY <1>1, <1>3, <1>4, <1>6, SeqEqual
<1> QED
  BY <1>7 DEF l, r
LEMMA RegisterKeepsEnd ==
  ASSUME TreeHolds, EndInv, NEW t \in Procs, loop[t] \notin {"None", "Exited"},
         NEW d \in Destructor, RegisterGlobalDestructor(d), loop' = loop
  PROVE  EndInv'
<1> USE DEF EndInv
<1>1. application = "Open" /\ unwound = <<>> /\ application' = application
  BY NobodyWorks DEF RegisterGlobalDestructor
<1>2. destructors = Reverse(registered)
  <2>1. <<>> \o destructors = destructors
    BY ConcatEmptySeq
  <2> QED
    BY <1>1, <2>1 DEF UnwoundInReverse
<1>3. Contains(destructors, d) <=> Contains(registered, d)
  BY <1>2, ReverseProperties
<1>4. /\ destructors' \in Seq(Destructor) /\ registered' \in Seq(Destructor)
      /\ destructors' = Reverse(registered') /\ unwound' = <<>>
  <2>1. CASE Contains(registered, d)
    BY <1>1, <1>2, <1>3, <2>1 DEF RegisterGlobalDestructor, Insert
  <2>2. CASE ~Contains(registered, d)
    <3>1. /\ destructors' = <<d>> \o destructors
          /\ registered' = Append(registered, d) /\ unwound' = <<>>
      BY <1>1, <1>3, <2>2 DEF RegisterGlobalDestructor, Insert
    <3>2. Reverse(Append(registered, d)) = <<d>> \o Reverse(registered)
      BY ReverseAppend
    <3>3. <<d>> \in Seq(Destructor)
      OBVIOUS
    <3> QED
      BY <1>2, <3>1, <3>2, <3>3, ConcatProperties, AppendProperties
  <2> QED
    BY <2>1, <2>2
<1>5. <<>> \o destructors' = destructors'
  BY <1>4, ConcatEmptySeq
<1> QED
  BY <1>1, <1>4, <1>5 DEF UnwoundInReverse

\* main runs the first of the list.
LEMMA RunKeepsEnd ==
  ASSUME EndInv, RunDestructor, UNCHANGED vars
  PROVE  EndInv'
<1> USE DEF EndInv
<1> DEFINE h == Head(destructors)
           rest == Tail(destructors)
<1>1. /\ h \in Destructor /\ rest \in Seq(Destructor)
      /\ destructors = <<h>> \o rest
  BY DEF RunDestructor
<1>2. /\ application # "Open" /\ UNCHANGED <<application, registered>>
      /\ unwound' = Append(unwound, h) /\ destructors' = rest
  BY DEF RunDestructor
<1> HIDE DEF h, rest
<1>3. /\ Append(unwound, h) = unwound \o <<h>> /\ <<h>> \in Seq(Destructor)
      /\ unwound \o <<h>> \in Seq(Destructor)
  BY <1>1, AppendIsConcat, ConcatProperties
<1>4. unwound' \o destructors' = unwound \o destructors
  BY <1>1, <1>2, <1>3, ConcatAssociative
<1> QED
  BY <1>1, <1>2, <1>3, <1>4 DEF UnwoundInReverse, vars

LEMMA NextEnd ==
  TreeHolds /\ EndInv /\ [HWNext]_world => EndInv'
<1> SUFFICES ASSUME TreeHolds, EndInv, [HWNext]_world
             PROVE  EndInv'
  OBVIOUS
<1>0. loop[Root] # "Exited" => application = "Open"
  BY DEF EndInv
<1>1. CASE UNCHANGED ending /\ (loop[Root] = "Exited" => loop'[Root] = "Exited")
  BY <1>1 DEF EndInv, ending, UnwoundInReverse
<1>2. ASSUME NEW t \in Procs, loop[t] \notin {"None", "Exited"},
             BehaviorStep(t) \/ DrawStep(t)
      PROVE  EndInv'
  <2>1. loop[Root] # "Exited"
    BY <1>2, NobodyWorks
  <2> QED
    BY <1>1, <1>2, <2>1 DEF BehaviorStep, DrawStep
<1>3. ASSUME NEW t \in Procs, loop[t] \notin {"None", "Exited"},
             NEW g \in Registrations, Register(t, g[1], g[2], g[3])
      PROVE  EndInv'
  <2>1. g[3] \in Destructor
    BY HelloWorldAssumption
  <2> QED
    BY <1>3, <2>1, RegisterKeepsEnd DEF Register, vars
<1>4. CASE Close
  <2>1. loop[Root] = "Exited" /\ UNCHANGED vars
    BY <1>4 DEF Close
  <2>2. CASE RunDestructor
    BY <2>1, <2>2, RunKeepsEnd
  <2>3. CASE ApplicationClose \/ EndClose
    BY <2>1, <2>3 DEF ApplicationClose, EndClose, EndInv, UnwoundInReverse, vars
  <2> QED
    BY <1>4, <2>2, <2>3 DEF Close
<1>5. CASE Ended \/ UNCHANGED world
  BY <1>1, <1>5 DEF Ended, world, vars
<1> QED
  BY <1>2, <1>3, <1>4, <1>5 DEF HWNext, Work

LEMMA InitEnd == HWInit => EndInv
<1> SUFFICES ASSUME HWInit
             PROVE  EndInv
  OBVIOUS
<1>1. /\ destructors = <<>> /\ registered = <<>> /\ unwound = <<>>
      /\ application = "Open"
  BY DEF HWInit, DestructorsInit
<1>2. <<>> \in Seq(Destructor) /\ <<>> \o <<>> = <<>> /\ Reverse(<<>>) = <<>>
  <2>1. <<>> \in Seq(Destructor) /\ <<>> \o <<>> = <<>>
    OBVIOUS
  <2>2. Reverse(<<>>) \in Seq(Destructor) /\ Len(Reverse(<<>>)) = 0
    BY <2>1, ReverseProperties
  <2> QED
    BY <2>1, <2>2
<1> QED
  BY <1>1, <1>2 DEF EndInv, UnwoundInReverse

\* What was registered, by any thread and however often, is run once and in
\* reverse order (UnwoundInReverse): no thread is left that could register
\* once main runs the destructors.
THEOREM AlwaysUnwoundInReverse ==
  ASSUME ~Retries
  PROVE  HWSpec => []UnwoundInReverse
<1>1. EndInv => UnwoundInReverse
  BY DEF EndInv
<1>2. HWSpec => []EndInv
  BY InitEnd, NextEnd, WorldInvariant, PTL DEF HWSpec
<1> QED
  BY <1>1, <1>2, PTL
-----------------------------------------------------------------------------
(* The exit.                                                               *)

\* r is not canceled, nor to be once finished, unless s was so.
SameWish(r, s) ==
  /\ r.whenFinishedUnused = s.whenFinishedUnused /\ r.canceled = s.canceled
  /\ s.started => r.started

WishesStay == \A q \in Procs : SameWish(rt'[q], rt[q])

\* Nobody asks for anything to be canceled when it has finished, and the root is
\* not canceled at all.
NeverAsked ==
  /\ \A p \in Procs : rt[p].whenFinishedUnused = FALSE
  /\ rt[Root].canceled = FALSE

LEMMA WishUpdates ==
  ASSUME NEW r \in RuntimeState
  PROVE  /\ \A v : SameWish([r EXCEPT !.children = v], r)
         /\ \A v : SameWish([r EXCEPT !.state = v], r)
         /\ \A v, s : SameWish([r EXCEPT !.success = v, !.state = s], r)
         /\ \A v, s : SameWish([r EXCEPT !.success = v, !.processDone = TRUE,
                                         !.state = s], r)
         /\ \A s : SameWish([r EXCEPT !.initDone = TRUE, !.state = s], r)
         /\ \A s : SameWish([r EXCEPT !.shutdownDone = TRUE, !.state = s], r)
         /\ \A v : SameWish([r EXCEPT !.worker = v], r)
         /\ SameWish([r EXCEPT !.undriven = TRUE], r)
         /\ \A m : SameWish([r EXCEPT !.driverMode = m], r)
         /\ \A m : SameWish([r EXCEPT !.driverMode = m, !.started = TRUE,
                                      !.undriven = FALSE], r)
         /\ SameWish(r, r)
  BY DEF SameWish, RuntimeState

LEMMA PutWish ==
  ASSUME TypeInv, NEW p \in Procs, NEW r \in RuntimeState, Put(p, r),
         SameWish(r, rt[p])
  PROVE  WishesStay
<1>1. rt'[p] = r /\ \A q \in Procs \ {p} : rt'[q] = rt[q]
  BY PutTypes DEF TypeInv, TypeOK
<1> QED
  BY <1>1 DEF WishesStay, SameWish

LEMMA PutChildWish ==
  ASSUME TypeInv, NEW p \in Procs, NEW c \in Procs, p # c,
         NEW r \in RuntimeState, NEW cs, PutChild(c, r, p, cs), SameWish(r, rt[c])
  PROVE  WishesStay
<1> DEFINE s == [rt[p] EXCEPT !.children = cs]
<1>1. rt \in [Procs -> RuntimeState] /\ rt[p] \in RuntimeState
  BY DEF TypeInv, TypeOK
<1>2. SameWish(s, rt[p])
  BY <1>1, WishUpdates
<1>3. rt' = [[rt EXCEPT ![c] = r] EXCEPT ![p] = s]
  BY <1>1 DEF PutChild
<1> HIDE DEF s
<1>4. rt'[p] = s /\ rt'[c] = r /\ \A q \in Procs \ {p, c} : rt'[q] = rt[q]
  BY <1>1, <1>3
<1> QED
  BY <1>2, <1>4 DEF WishesStay, SameWish

LEMMA SettleWish ==
  ASSUME TypeInv, NEW t \in Procs, NEW p \in Procs, NEW c \in Procs, p # c,
         NEW r \in RuntimeState, SettleChild(t, p, c, r), SameWish(r, rt[c])
  PROVE  WishesStay
<1>1. CASE CanBeRemoved(r)
  BY <1>1, PutChildWish DEF SettleChild
<1>2. CASE ~CanBeRemoved(r)
  BY <1>2, PutWish DEF SettleChild
<1> QED
  BY <1>1, <1>2

\* No tick asks, but those that release their children.
LEMMA TickWish ==
  ASSUME TypeInv, DriverInv, NeverAsked, NEW t \in Procs, NEW p \in Procs,
         TickStep(t, p)
  PROVE  WishesStay \/ \E c \in Procs : ReleaseChild(t, p, c)
<1>0. \A q \in Procs : rt[q] \in RuntimeState
  BY DEF TypeInv, TypeOK
<1>1. CASE rt' = rt
  BY <1>0, <1>1, WishUpdates DEF WishesStay
<1>2. ASSUME NEW r \in RuntimeState, SameWish(r, rt[p]), EndTick(t, p, r)
      PROVE  WishesStay
  BY <1>2, PutWish DEF EndTick
<1>3. CASE DriveReturn(t, p)
  <2> DEFINE c == cur[t][p]
             r == IF Progress(c) THEN rt[c] ELSE [rt[c] EXCEPT !.undriven = TRUE]
  <2>1. c \in Procs /\ p # c
    BY <1>3, NotItsOwnChild DEF DriveReturn
  <2>2. r \in RuntimeState /\ SameWish(r, rt[c])
    BY <1>0, <2>1, RecordTypes, WishUpdates
  <2>3. SettleChild(t, p, c, r)
    BY <1>3 DEF DriveReturn
  <2> HIDE DEF c, r
  <2> QED
    BY <2>1, <2>2, <2>3, SettleWish
<1>4. ASSUME NEW c \in Procs, PassChild(t, p, c)
      PROVE  WishesStay
  <2>1. p # c
    BY <1>4, NotItsOwnChild DEF PassChild
  <2> QED
    BY <1>0, <1>4, <2>1, WishUpdates, SettleWish DEF PassChild
<1>5. CASE JoinWorker(t, p)
  <2> DEFINE c == cur[t][p]
             r == [rt[c] EXCEPT !.worker = FALSE]
  <2>1. c \in Procs /\ Put(c, r)
    BY <1>5 DEF JoinWorker, TypeInv, Framed
  <2>2. r \in RuntimeState /\ SameWish(r, rt[c])
    BY <1>0, <2>1, RecordTypes, WishUpdates
  <2> HIDE DEF c, r
  <2> QED
    BY <2>1, <2>2, PutWish
<1>6. CASE \/ LeaveExistent(t, p) \/ SeeCanceled(t, p) \/ EndRelease(t, p)
           \/ Finish(t, p)
  <2>1. PICK v \in AbstractState : EndTick(t, p, [rt[p] EXCEPT !.state = v])
    BY <1>6 DEF LeaveExistent, SeeCanceled, EndRelease, Finish, NeverAsked, AbstractState
  <2> DEFINE s == [rt[p] EXCEPT !.state = v]
  <2>2. s \in RuntimeState /\ SameWish(s, rt[p])
    BY <1>0, RecordTypes, WishUpdates
  <2>3. EndTick(t, p, s)
    BY <2>1
  <2> HIDE DEF s
  <2> QED
    BY <1>2, <2>2, <2>3
<1>7. CASE \/ ReturnPending(t, p) \/ ReturnInitialize(t, p) \/ ReturnProcess(t, p)
           \/ ReturnShutdown(t, p)
  <2>1. PICK s \in RuntimeState : EndTick(t, p, s) /\ SameWish(s, rt[p])
    <3>1. CASE ReturnPending(t, p)
      BY <1>0, <3>1, WishUpdates DEF ReturnPending, Return
    <3>2. CASE ReturnInitialize(t, p)
      <4> DEFINE a == [rt[p] EXCEPT !.initDone = TRUE, !.state = "Processing"]
                 b == [rt[p] EXCEPT !.success = "Negative", !.state = "DownShutting"]
      <4>1. EndTick(t, p, a) \/ EndTick(t, p, b)
        BY <3>2 DEF ReturnInitialize, Return
      <4>2. a \in RuntimeState /\ SameWish(a, rt[p])
        BY <1>0, RecordTypes, WishUpdates DEF AbstractState
      <4>3. b \in RuntimeState /\ SameWish(b, rt[p])
        BY <1>0, RecordTypes, WishUpdates DEF AbstractState, Success
      <4> HIDE DEF a, b
      <4> QED
        BY <4>1, <4>2, <4>3
    <3>3. CASE ReturnProcess(t, p)
      <4>1. PICK v \in Success :
              EndTick(t, p, [rt[p] EXCEPT !.success = v, !.processDone = TRUE,
                                          !.state = "DownShutting"])
        BY <3>3 DEF ReturnProcess, Return
      <4> DEFINE a == [rt[p] EXCEPT !.success = v, !.processDone = TRUE,
                                    !.state = "DownShutting"]
      <4>2. a \in RuntimeState /\ SameWish(a, rt[p])
        BY <1>0, RecordTypes, WishUpdates DEF AbstractState
      <4>3. EndTick(t, p, a)
        BY <4>1
      <4> HIDE DEF a
      <4> QED
        BY <4>2, <4>3
    <3>4. CASE ReturnShutdown(t, p)
      BY <1>0, <3>4, RecordTypes, WishUpdates DEF ReturnShutdown, Return, AbstractState
    <3> QED
      BY <1>7, <3>1, <3>2, <3>3, <3>4
  <2> QED
    BY <1>2, <2>1
<1> QED
  BY <1>1, <1>3, <1>4, <1>5, <1>6, <1>7
  DEF TickStep, ParentalDrive, SeeNotCanceled, EnterInitialize, EnterProcess,
      EnterShutdown, Enter, ReleaseChildren, TickFinished
LEMMA AddWish ==
  ASSUME TypeInv, NEW t \in Procs, NEW p \in Procs, NEW c \in Procs, NEW m \in DriverMode,
         \/ StartChild(t, p, c, m)
         \/ SpawnWorker(t, p, c, m)
         \/ SpawnFails(t, p, c, m)
  PROVE  WishesStay
<1> DEFINE r == Driven(c, m)
           s == [r EXCEPT !.driverMode = "Parent"]
<1>1. p # c
  BY OneParent
  DEF IsChild, StartChild, SpawnWorker, SpawnFails, MayStart, InCallback
<1>2. rt[c] \in RuntimeState /\ r \in RuntimeState
  BY DrivenType DEF TypeInv, TypeOK
<1>3. SameWish(r, rt[c])
  BY <1>2, WishUpdates DEF Driven
<1>4. AddChild(p, c, r) \/ AddChild(p, c, s)
  BY DEF StartChild, SpawnWorker, SpawnFails
<1> HIDE DEF r
<1>5. s \in RuntimeState /\ SameWish(s, r)
  BY <1>2, RecordTypes, WishUpdates DEF DriverMode
<1> HIDE DEF s
<1>6. SameWish(s, rt[c])
  BY <1>3, <1>5 DEF SameWish
<1> QED
  BY <1>1, <1>2, <1>3, <1>4, <1>5, <1>6, PutChildWish DEF AddChild

\* Of the steps of the tree only the release of a child cancels anybody here.
LEMMA ThreadWish ==
  ASSUME TypeInv, DriverInv, NeverAsked, NEW t \in Procs, ThreadStep(t)
  PROVE  WishesStay \/ \E p, c \in Procs : ReleaseChild(t, p, c)
<1>0. \A q \in Procs : rt[q] \in RuntimeState
  BY DEF TypeInv, TypeOK
<1>1. CASE rt' = rt
  BY <1>0, <1>1, WishUpdates DEF WishesStay
<1>2. CASE LoopMark(t)
  <2>1. Put(t, [rt[t] EXCEPT !.undriven = TRUE])
    BY <1>2 DEF LoopMark
  <2> QED
    BY <1>0, <2>1, RecordTypes, WishUpdates, PutWish
<1>3. CASE LoopStep(t)
  BY <1>1, <1>2, <1>3 DEF LoopStep, FirstTick, NextTick, LoopTick, LoopCheck
<1>4. ASSUME NEW p \in Procs, StoreWorker(t, p)
      PROVE  WishesStay
  <2> DEFINE c == cur[t][p]
             r == [rt[c] EXCEPT !.worker = TRUE]
  <2>1. c \in Procs /\ Put(c, r)
    BY <1>4 DEF StoreWorker, TypeInv, TypeOK
  <2>2. r \in RuntimeState /\ SameWish(r, rt[c])
    BY <1>0, <2>1, RecordTypes, WishUpdates
  <2> HIDE DEF c, r
  <2> QED
    BY <2>1, <2>2, PutWish
<1>5. CASE CallStep(t)
  <2>1. PICK p \in Procs : CallOf(t, p)
    BY <1>5, CallStepIsCall
  <2>2. Calls = {}
    BY HelloWorldAssumption
  <2>3. PICK c \in Procs, m \in DriverMode :
          \/ StartChild(t, p, c, m)
          \/ SpawnWorker(t, p, c, m)
          \/ SpawnFails(t, p, c, m)
    BY <2>1, <2>2
    DEF CallOf, Cancel, Repel, WhenFinishedRepel, UnusedSet, Call
  <2> QED
    BY <2>3, AddWish
<1> QED
  BY <1>3, <1>4, <1>5, TickWish DEF ThreadStep

\* The callbacks that give a process a bad result.
Fails(t, p, f) ==
  /\ pc[t][p] = f /\ pc'[t][p] # f /\ rt'[p].state # rt[p].state
  /\ f = "initialize" => rt'[p].initDone = FALSE
  /\ f \in {"initialize", "process"}

LEMMA OnlyTheseFail ==
  ASSUME TypeInv, LifeInv, NEW t \in Procs, NEW p \in Procs, LifeStep(t, p),
         rt[p].success # "Negative", rt'[p].success = "Negative"
  PROVE  \E f \in Callbacks : Fails(t, p, f)
<1>0. /\ rt[p] \in RuntimeState /\ Story(rt[p]) /\ LabelFits(pc[t][p], rt[p].state)
      /\ pc \in [Procs -> [Procs -> Labels]]
  BY DEF TypeInv, TypeOK, LifeInv, Stories, Placed
<1>1. ASSUME NEW r \in RuntimeState, EndTick(t, p, r)
      PROVE  rt'[p] = r /\ pc'[t][p] = "Idle"
  BY <1>0, <1>1, PutTypes DEF EndTick, Goto, TypeInv, TypeOK
<1>2. rt' # rt
  OBVIOUS
<1>3. \A r \in RuntimeState :
        /\ \A v : [r EXCEPT !.state = v].success = r.success
        /\ \A v : [r EXCEPT !.shutdownDone = TRUE, !.state = v].success = r.success
        /\ Unused(r).success = r.success /\ Unused(r) \in RuntimeState
  BY DEF RuntimeState, Unused
<1>4. ASSUME LeaveExistent(t, p) \/ SeeCanceled(t, p) \/ EndRelease(t, p)
      PROVE  FALSE
  <2>1. PICK v \in AbstractState : EndTick(t, p, [rt[p] EXCEPT !.state = v])
    BY <1>4 DEF LeaveExistent, SeeCanceled, EndRelease, AbstractState
  <2> DEFINE s == [rt[p] EXCEPT !.state = v]
  <2>2. s \in RuntimeState /\ s.success = rt[p].success
    BY <1>0, <1>3, RecordTypes
  <2>3. EndTick(t, p, s)
    BY <2>1
  <2> HIDE DEF s
  <2> QED
    BY <1>1, <2>2, <2>3
<1>5. ASSUME Finish(t, p)
      PROVE  FALSE
  <2> DEFINE r == IF rt[p].whenFinishedUnused THEN Unused(rt[p]) ELSE rt[p]
             s == [r EXCEPT !.state = "Finished"]
  <2>1. EndTick(t, p, s)
    BY <1>5 DEF Finish
  <2>2. r \in RuntimeState /\ r.success = rt[p].success
    BY <1>0, <1>3
  <2> HIDE DEF r
  <2>3. s \in RuntimeState /\ s.success = r.success
    BY <1>3, <2>2, RecordTypes DEF AbstractState
  <2> HIDE DEF s
  <2> QED
    BY <1>1, <2>1, <2>2, <2>3
<1>6. ASSUME ReturnShutdown(t, p)
      PROVE  FALSE
  <2> DEFINE s == [rt[p] EXCEPT !.shutdownDone = TRUE, !.state = "ChildrenUnusedSet"]
  <2>1. EndTick(t, p, s)
    BY <1>6 DEF ReturnShutdown, Return
  <2>2. s \in RuntimeState /\ s.success = rt[p].success
    BY <1>0, <1>3, RecordTypes DEF AbstractState
  <2> HIDE DEF s
  <2> QED
    BY <1>1, <2>1, <2>2
<1>7. ASSUME ReturnPending(t, p)
      PROVE  FALSE
  BY <1>0, <1>1, <1>7 DEF ReturnPending, Return
<1>8. CASE ReturnInitialize(t, p)
  <2> DEFINE a == [rt[p] EXCEPT !.initDone = TRUE, !.state = "Processing"]
             b == [rt[p] EXCEPT !.success = "Negative", !.state = "DownShutting"]
  <2>1. /\ EndTick(t, p, a) \/ EndTick(t, p, b)
        /\ pc[t][p] = "initialize"
    BY <1>8 DEF ReturnInitialize, Return
  <2>2. rt[p].state = "Initializing" /\ rt[p].initDone = FALSE
    BY <1>0, <2>1 DEF LabelFits, Story, RuntimeState
  <2>3. a \in RuntimeState /\ a.success = rt[p].success
    BY <1>0 DEF RuntimeState, AbstractState
  <2>4. b \in RuntimeState /\ b.initDone = FALSE /\ b.state = "DownShutting"
    BY <1>0, <2>2 DEF RuntimeState, AbstractState, Success
  <2> HIDE DEF a, b
  <2>5. Fails(t, p, "initialize")
    BY <1>1, <2>1, <2>2, <2>3, <2>4 DEF Fails
  <2> QED
    BY <2>5 DEF Callbacks
<1>9. CASE ReturnProcess(t, p)
  <2>1. PICK v \in Success :
          EndTick(t, p, [rt[p] EXCEPT !.success = v, !.processDone = TRUE,
                                      !.state = "DownShutting"])
    BY <1>9 DEF ReturnProcess, Return
  <2> DEFINE a == [rt[p] EXCEPT !.success = v, !.processDone = TRUE,
                                !.state = "DownShutting"]
  <2>2. pc[t][p] = "process" /\ rt[p].state = "Processing"
    BY <1>0, <1>9 DEF ReturnProcess, Return, LabelFits
  <2>3. a \in RuntimeState /\ a.state = "DownShutting"
    BY <1>0 DEF RuntimeState, AbstractState
  <2>4. EndTick(t, p, a)
    BY <2>1
  <2> HIDE DEF a
  <2>5. Fails(t, p, "process")
    BY <1>1, <2>2, <2>3, <2>4 DEF Fails
  <2> QED
    BY <2>5 DEF Callbacks
<1> QED
  BY <1>2, <1>4, <1>5, <1>6, <1>7, <1>8, <1>9
  DEF LifeStep, SeeNotCanceled, EnterInitialize, EnterProcess, EnterShutdown, Enter,
      ReleaseChildren

\* Introducing and its second child answer neither callback with a failure, and
\* a process that was initialized is part of the tree.
ExitInv ==
  /\ NeverAsked
  /\ rt[Root].success # "Negative" /\ rt[Child[1]].success # "Negative"
  /\ \A p \in Procs : rt[p].initDone => Rooted(p)

\* The names of the example.
LEMMA NamesDiffer ==
  /\ Child[1] \in Procs /\ Child[1] # Root /\ Child[1] # Debugger /\ Debugger # Root
  /\ (CHOOSE i \in DOMAIN Child : Child[i] = Child[1]) = 1
<1>1. /\ Child \in [0 .. 2 -> Procs] /\ DOMAIN Introduced = 1 .. 4
      /\ Introduced[1] = Debugger /\ Introduced[2] = Child[0]
      /\ Introduced[3] = Child[1] /\ Introduced[4] = Child[2]
  BY HelloWorldAssumption DEF Introduced
<1>2. \A i, j \in 1 .. 4 : Introduced[i] = Introduced[j] => i = j
  BY <1>1, HelloWorldAssumption DEF IsInjective
<1>3. /\ Debugger # Child[1]
      /\ Child[0] # Child[1] /\ Child[2] # Child[1]
  BY <1>1, <1>2
<1>4. <<Root, Child[1], "Parent">> \in Starts /\ <<Root, Debugger, "Parent">> \in Starts
  BY HelloWorldAssumption
<1>5. Child[1] # Root /\ Debugger # Root
  BY <1>4, StartsAssumption
<1>6. \A i \in DOMAIN Child : Child[i] = Child[1] <=> i = 1
  BY <1>1, <1>3
<1> QED
  BY <1>1, <1>3, <1>5, <1>6
LEMMA InitExit == HWInit => ExitInv
  BY ProcsAssumption, NamesDiffer
  DEF HWInit, Init, NewRuntimeState, ExitInv, NeverAsked

\* Neither of the two fails in a callback.
LEMMA NoneFails ==
  ASSUME TypeInv, DriverInv, ExitInv, NEW t \in Procs, BehaviorStep(t),
         NEW p \in {Root, Child[1]}, NEW u \in Procs, NEW f \in Callbacks, Fails(u, p, f)
  PROVE  rt'[p].success # "Negative"
<1>1. u = t
  BY ThreadMutexes, NamesDiffer, ProcsAssumption
  DEF BehaviorStep, TreeStep, Mutexes, Fails
<1>2. Answer(p, f) \in Answers(p, f)
  <2> DEFINE g == <<p, f>>
  <2>1. g \in Procs \X Callbacks /\ pc[t][g[1]] = g[2] /\ pc'[t][g[1]] # g[2]
    BY <1>1, NamesDiffer, ProcsAssumption DEF Fails
  <2>2. Answer(g[1], g[2]) \in Answers(g[1], g[2])
    BY <2>1 DEF BehaviorStep
  <2> QED
    BY <2>2
<1>3. CASE f = "initialize"
  BY <1>2, <1>3 DEF Fails, Answer, Answers
<1>4. CASE f = "process"
  <2>1. rt'[p].success \in Answers(p, "process")
    BY <1>2, <1>4 DEF Fails, Answer
  <2>2. CASE p = Root
    BY <2>1, <2>2, NamesDiffer DEF Answers, IntroducingAnswers, ExitInv
  <2>3. CASE p = Child[1]
    BY <2>1, <2>3, NamesDiffer DEF Answers, ChildAnswers
  <2> QED
    BY <2>2, <2>3
<1> QED
  BY <1>3, <1>4 DEF Fails

LEMMA BehaviorKeepsExit ==
  ASSUME TreeHolds, ExitInv, NEW t \in Procs, BehaviorStep(t)
  PROVE  ExitInv'
<1> USE DEF TreeHolds, ExitInv
<1>0. /\ ThreadStep(t) /\ [Next]_vars
      /\ Root \in Procs /\ Child[1] \in Procs
  BY ProcsAssumption, NamesDiffer DEF BehaviorStep, TreeStep, Next
<1>1. NeverAsked' /\ \A q \in Procs : rt[q].started => rt'[q].started
  <2>1. CASE WishesStay
    BY <1>0, <2>1 DEF WishesStay, SameWish, NeverAsked
  <2>2. ASSUME NEW p \in Procs, NEW c \in Procs, ReleaseChild(t, p, c)
        PROVE  NeverAsked' /\ \A q \in Procs : rt[q].started => rt'[q].started
    <3> DEFINE r == Unused(rt[c])
    <3>1. c # Root
      BY <2>2, OneParent, <1>0 DEF ReleaseChild, DriverInv, TodoStarted, Runs
    <3>2. /\ rt[c] \in RuntimeState /\ r \in RuntimeState
          /\ r.whenFinishedUnused = rt[c].whenFinishedUnused
          /\ r.started = rt[c].started
      <4>1. rt[c] \in RuntimeState
        BY DEF TypeInv, TypeOK
      <4>2. \A s \in RuntimeState :
              /\ Unused(s).whenFinishedUnused = s.whenFinishedUnused
              /\ Unused(s).started = s.started
        BY DEF RuntimeState, Unused
      <4> QED
        BY <4>1, <4>2, RecordTypes
    <3>3. Put(c, r)
      BY <2>2 DEF ReleaseChild
    <3> HIDE DEF r
    <3>4. rt'[c] = r /\ \A q \in Procs \ {c} : rt'[q] = rt[q]
      BY <3>2, <3>3, PutTypes DEF TypeInv, TypeOK
    <3> QED
      BY <1>0, <3>1, <3>2, <3>4 DEF NeverAsked
  <2> QED
    BY <1>0, <2>1, <2>2, ThreadWish
<1>2. ASSUME \A q \in Procs : SameLife(rt'[q], rt[q])
      PROVE  ExitInv'
  BY <1>0, <1>1, <1>2 DEF SameLife, Rooted
<1>3. ASSUME NEW u \in Procs, NEW p \in Procs, LifeStep(u, p)
      PROVE  ExitInv'
  <2>1. \A q \in Procs \ {p} : rt'[q] = rt[q]
    BY <1>3, LifeStepTree DEF TurnsAlone
  <2>2. Rooted(p)
    BY <1>3, TickedIsRooted
    DEF LifeStep, LeaveExistent, SeeCanceled, SeeNotCanceled, EnterInitialize,
        EnterProcess, EnterShutdown, ReturnPending, ReturnInitialize, ReturnProcess,
        ReturnShutdown, ReleaseChildren, EndRelease, Finish, AtArm, Return, Ticking,
        Callbacks
  <2>3. p \in {Root, Child[1]} => rt'[p].success # "Negative"
    BY <1>3, OnlyTheseFail, NoneFails
  <2> QED
    BY <1>0, <1>1, <2>1, <2>2, <2>3 DEF Rooted
<1> QED
  BY <1>0, <1>2, <1>3, StepsOfLife, ReleaseRaises DEF Calm, LivesStay, Raises

LEMMA NextExit ==
  TreeHolds /\ ExitInv /\ [HWNext]_world => ExitInv'
<1> SUFFICES ASSUME TreeHolds, ExitInv, [HWNext]_world
             PROVE  ExitInv'
  OBVIOUS
<1>1. CASE UNCHANGED rt
  BY <1>1 DEF ExitInv, NeverAsked, Rooted
<1>2. ASSUME NEW t \in Procs, RenderStep(t)
      PROVE  UNCHANGED rt
  BY <1>2 DEF RenderStep, BeginRender, DrawProcess, Draw, Unlock, DisplaySet, vars
<1> QED
  BY <1>1, <1>2, BehaviorKeepsExit
  DEF HWNext, Work, DrawStep, Register, Close, Ended, world, vars

\* main exits with success (ExitSucceeds), whether or not the debugging server
\* got a port: by then every process that was initialized has been shut down,
\* and no thread is in a behaviour.
THEOREM ExitAlwaysSucceeds ==
  ASSUME ~Retries
  PROVE  HWSpec => []ExitSucceeds
<1>1. TreeHolds /\ RenderInv /\ EndInv /\ ExitInv => ExitSucceeds
  <2> SUFFICES ASSUME TreeHolds, RenderInv, EndInv, ExitInv, application # "Open"
               PROVE  /\ rt[Root].success = "Positive"
                      /\ \A p \in Procs : rt[p].initDone => rt[p].shutdownDone
                      /\ \A p \in Procs : behavior[p] = NoProc
    BY DEF ExitSucceeds
  <2>1. loop[Root] = "Exited" /\ Root \in Procs
    BY ProcsAssumption DEF EndInv
  <2>2. \A p \in Procs : Story(rt[p]) /\ rt[p] \in RuntimeState
    BY DEF TreeHolds, LifeInv, Stories, TypeInv, TypeOK
  <2>3. rt[Root].state = "Finished"
    BY <2>1 DEF TreeHolds, TreeInv, LoopSettled, Progress
  <2>4. rt[Root].success = "Positive"
    BY <2>1, <2>2, <2>3 DEF Story, ExitInv, NeverAsked, RuntimeState, Success
  <2>5. ASSUME NEW p \in Procs, rt[p].initDone
        PROVE  rt[p].shutdownDone
    <3>1. rt[p].state = "Finished"
      BY <2>1, <2>3, <2>5, NobodyBusy DEF ExitInv, Rooted, TreeHolds, Busy, Progress
    <3> QED
      BY <2>2, <2>5, <3>1 DEF Story
  <2>6. ASSUME NEW p \in Procs, behavior[p] # NoProc
        PROVE  FALSE
    <3>1. PICK t \in Procs : behavior[p] = t
      BY <2>6 DEF TreeHolds, TypeInv, TypeOK
    <3>2. \E q \in Procs : Inside(t, q)
      <4>1. Inside(t, p) \/ render[t].details = p
        BY <3>1 DEF RenderInv, MutexHeld, Inside
      <4>2. render[t].details = p => Drawing(t)
        BY ProcsAssumption DEF Drawing
      <4> QED
        BY <4>1, <4>2 DEF RenderInv, DrawsInside
    <3>3. loop[t] = "Burst"
      BY <3>2 DEF TreeHolds, DriverInv, TickJustified, Ticking, Inside, Callbacks
    <3> QED
      BY <2>1, <3>3, NobodyWorks
  <2> QED
    BY <2>4, <2>5, <2>6
<1>2. HWSpec => [](EndInv /\ ExitInv)
  <2>1. HWInit => EndInv /\ ExitInv
    BY InitEnd, InitExit
  <2>2. TreeHolds /\ EndInv /\ ExitInv /\ [HWNext]_world => EndInv' /\ ExitInv'
    BY NextEnd, NextExit
  <2> QED
    BY <2>1, <2>2, WorldInvariant, PTL DEF HWSpec
<1> QED
  BY <1>1, <1>2, WorldInvariant, PTL
=============================================================================
