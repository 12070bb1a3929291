----------------------------- MODULE LifeProofs -----------------------------
(* What a process goes through: that its result and its shutdown are       *)
(* accounted for (OutcomeJustified), that it releases its children         *)
(* (ChildrenReleased), that a verdict on them stays (VerdictStable) and    *)
(* that it implements Lifecycle (KeepsPromise), for every tree of handles. *)
(*                                                                         *)
(* Most steps leave the life of every process as it is (Calm), some raise  *)
(* canceled or unused of one of them (Raises), and thirteen actions of a   *)
(* tick take one process further (LifeStep).  StepsOfLife says so of every *)
(* step, and the other proofs only look at these three.                    *)
(*                                                                         *)
(* The second half is about the tree they live in: who leaves it, and what *)
(* is left of it when the root has returned (RemovedIsSettled,             *)
(* NoThreadOutlivesRoot, ExternalChildHoldsRoot).                          *)
EXTENDS ProcessingProofs

\* The fields of a runtime state that tell the life of a process.
SameLife(r, s) ==
  /\ r.state = s.state /\ r.success = s.success /\ r.initDone = s.initDone
  /\ r.processDone = s.processDone /\ r.shutdownDone = s.shutdownDone

SameFlags(r, s) == r.canceled = s.canceled /\ r.unused = s.unused

\* Where a frame is when it is not at the process itself.
CalmLabels == {"Idle", "Children", "Drive", "Join"}

\* The life of nobody changes; frames only move outside the arms of the match;
\* children leave when they are unused and come in a callback.
LivesStay ==
  \A q \in Procs : SameLife(rt'[q], rt[q]) /\ SameFlags(rt'[q], rt[q])

FramesCalm ==
  \A u, q \in Procs :
    \/ pc'[u][q] = pc[u][q] /\ (pc[u][q] = "Unuse" => todo'[u][q] = todo[u][q])
    \/ pc[u][q] \in CalmLabels /\ pc'[u][q] \in CalmLabels

ChildrenCalm ==
  \A q \in Procs :
    /\ \A c \in rt[q].children : c \in rt'[q].children \/ rt[c].unused
    /\ \/ rt'[q].children \subseteq rt[q].children
       \/ \E t \in Procs : pc[t][q] \in Callbacks

Calm == LivesStay /\ FramesCalm /\ ChildrenCalm

\* Somebody cancels c, or releases it as well.
Raises(c) ==
  /\ \A q \in Procs :
       SameLife(rt'[q], rt[q]) /\ rt'[q].children = rt[q].children
  /\ \A q \in Procs \ {c} : SameFlags(rt'[q], rt[q])
  /\ rt'[c].canceled
  /\ rt[c].unused => rt'[c].unused
  /\ UNCHANGED pc

LifeStep(t, p) ==
  \/ LeaveExistent(t, p)
  \/ SeeCanceled(t, p)
  \/ SeeNotCanceled(t, p)
  \/ EnterInitialize(t, p)
  \/ EnterProcess(t, p)
  \/ EnterShutdown(t, p)
  \/ ReturnPending(t, p)
  \/ ReturnInitialize(t, p)
  \/ ReturnProcess(t, p)
  \/ ReturnShutdown(t, p)
  \/ ReleaseChildren(t, p)
  \/ EndRelease(t, p)
  \/ Finish(t, p)

-----------------------------------------------------------------------------
(* Every step is one of these.                                             *)

\* Updates of a runtime state that do not touch its life.
LEMMA CalmUpdates ==
  ASSUME NEW r \in RuntimeState
  PROVE  /\ \A v : /\ SameLife([r EXCEPT !.worker = v], r)
                   /\ SameFlags([r EXCEPT !.worker = v], r)
                   /\ [r EXCEPT !.worker = v].children = r.children
         /\ \A v : /\ SameLife([r EXCEPT !.driverMode = v], r)
                   /\ SameFlags([r EXCEPT !.driverMode = v], r)
                   /\ [r EXCEPT !.driverMode = v].children = r.children
         /\ \A m : LET s == [r EXCEPT !.driverMode = m, !.started = TRUE,
                                      !.undriven = FALSE]
                   IN  SameLife(s, r) /\ SameFlags(s, r) /\ s.children = r.children
         /\ LET s == [r EXCEPT !.undriven = TRUE]
            IN  SameLife(s, r) /\ SameFlags(s, r) /\ s.children = r.children
         /\ LET s == [r EXCEPT !.whenFinishedUnused = TRUE]
            IN  SameLife(s, r) /\ SameFlags(s, r) /\ s.children = r.children
         /\ LET s == [r EXCEPT !.canceled = TRUE]
            IN  SameLife(s, r) /\ s.canceled /\ s.unused = r.unused
                  /\ s.children = r.children
         /\ SameLife(Unused(r), r) /\ Unused(r).canceled /\ Unused(r).unused
         /\ Unused(r).children = r.children
         /\ SameLife(r, r) /\ SameFlags(r, r)
  BY DEF RuntimeState, SameLife, SameFlags, Unused

\* A runtime state of the same life replaces another one.
LEMMA PutLives ==
  ASSUME TypeInv, NEW p \in Procs, NEW r \in RuntimeState, Put(p, r),
         SameLife(r, rt[p]), SameFlags(r, rt[p]), r.children = rt[p].children
  PROVE  LivesStay /\ ChildrenCalm
<1>1. rt'[p] = r /\ \A q \in Procs \ {p} : rt'[q] = rt[q]
  BY PutTypes DEF TypeInv, TypeOK
<1> QED
  BY <1>1 DEF LivesStay, ChildrenCalm, SameLife, SameFlags

LEMMA PutChildLives ==
  ASSUME TypeInv, NEW p \in Procs, NEW c \in Procs, p # c,
         NEW r \in RuntimeState, NEW cs \in SUBSET Procs, PutChild(c, r, p, cs),
         SameLife(r, rt[c]), SameFlags(r, rt[c]), r.children = rt[c].children
  PROVE  /\ LivesStay
         /\ rt'[p].children = cs
         /\ \A q \in Procs \ {p} : rt'[q].children = rt[q].children
<1> DEFINE s == [rt[p] EXCEPT !.children = cs]
<1>1. rt \in [Procs -> RuntimeState] /\ rt[p] \in RuntimeState
  BY DEF TypeInv, TypeOK
<1>2. SameLife(s, rt[p]) /\ SameFlags(s, rt[p]) /\ s.children = cs
  BY <1>1 DEF RuntimeState, SameLife, SameFlags
<1>3. rt' = [[rt EXCEPT ![c] = r] EXCEPT ![p] = s]
  BY <1>1 DEF PutChild
<1> HIDE DEF s
<1>4. rt'[p] = s /\ rt'[c] = r /\ \A q \in Procs \ {p, c} : rt'[q] = rt[q]
  BY <1>1, <1>3
<1> QED
  BY <1>2, <1>4 DEF LivesStay, SameLife, SameFlags

\* The end of the visit of a child: one that is removed was released.
LEMMA SettleCalm ==
  ASSUME TypeInv, NEW t \in Procs, NEW p \in Procs, NEW c \in Procs, p # c,
         NEW r \in RuntimeState, SameLife(r, rt[c]), SameFlags(r, rt[c]),
         r.children = rt[c].children,
         SettleChild(t, p, c, r), pc[t][p] \in CalmLabels
  PROVE  Calm
<1>1. FramesCalm
  <2>1. pc \in [Procs -> [Procs -> Labels]] /\ todo \in [Procs -> [Procs -> SUBSET Procs]]
    BY DEF TypeInv, TypeOK
  <2>2. \E label \in {"Join", "Children"} : pc' = [pc EXCEPT ![t][p] = label]
    BY DEF SettleChild, Goto
  <2>3. todo' = [todo EXCEPT ![t][p] = @ \ {c}]
    BY DEF SettleChild
  <2> QED
    BY <2>1, <2>2, <2>3 DEF FramesCalm, CalmLabels
<1>2. LivesStay /\ ChildrenCalm
  <2>1. CASE CanBeRemoved(r)
    <3> DEFINE cs == rt[p].children \ {c}
    <3>1. cs \in SUBSET Procs
      BY DEF TypeInv, TypeOK, RuntimeState
    <3>2. PutChild(c, r, p, cs)
      BY <2>1 DEF SettleChild
    <3>3. rt[c].unused
      BY <2>1 DEF CanBeRemoved, SameFlags
    <3>4. cs \subseteq rt[p].children /\ \A d \in rt[p].children : d \in cs \/ d = c
      OBVIOUS
    <3> HIDE DEF cs
    <3>5. /\ LivesStay /\ rt'[p].children = cs
          /\ \A q \in Procs \ {p} : rt'[q].children = rt[q].children
      BY <3>1, <3>2, PutChildLives
    <3> QED
      BY <3>3, <3>4, <3>5 DEF ChildrenCalm
  <2>2. CASE ~CanBeRemoved(r)
    BY <2>2, PutLives DEF SettleChild
  <2> QED
    BY <2>1, <2>2
<1> QED
  BY <1>1, <1>2 DEF Calm

LEMMA TickCalm ==
  ASSUME TypeInv, DriverInv, NEW t \in Procs, NEW p \in Procs,
         \/ \E c \in Procs : ParentalDrive(t, p, c) \/ PassChild(t, p, c)
         \/ DriveReturn(t, p) \/ JoinWorker(t, p) \/ TickFinished(t, p)
  PROVE  Calm
<1>0. \A q \in Procs : rt[q] \in RuntimeState
  BY DEF TypeInv, TypeOK
<1>1. ASSUME NEW c \in Procs, ParentalDrive(t, p, c)
      PROVE  Calm
  <2>1. pc[t][c] = "Idle" /\ p # c
    BY <1>1, DrivenIsIdle DEF Ticking
  <2>2. pc \in [Procs -> [Procs -> Labels]] /\ todo \in [Procs -> [Procs -> SUBSET Procs]]
    BY DEF TypeInv, TypeOK
  <2>3. FramesCalm
    BY <1>1, <2>1, <2>2 DEF FramesCalm, CalmLabels, ParentalDrive, BeginTick
  <2> QED
    BY <1>1, <2>3 DEF Calm, LivesStay, ChildrenCalm, SameLife, SameFlags, ParentalDrive
<1>2. CASE DriveReturn(t, p)
  <2> DEFINE c == cur[t][p]
             r == IF Progress(c) THEN rt[c] ELSE [rt[c] EXCEPT !.undriven = TRUE]
  <2>1. c \in Procs /\ p # c
    BY <1>2, NotItsOwnChild DEF TypeInv, Framed, DriveReturn
  <2>2. /\ r \in RuntimeState /\ SameLife(r, rt[c]) /\ SameFlags(r, rt[c])
        /\ r.children = rt[c].children
    BY <1>0, <2>1, RecordTypes, CalmUpdates
  <2>3. SettleChild(t, p, c, r) /\ pc[t][p] \in CalmLabels
    BY <1>2 DEF DriveReturn, CalmLabels
  <2> HIDE DEF c, r
  <2> QED
    BY <2>1, <2>2, <2>3, SettleCalm
<1>3. ASSUME NEW c \in Procs, PassChild(t, p, c)
      PROVE  Calm
  <2>1. p # c /\ pc[t][p] \in CalmLabels
    BY <1>3, NotItsOwnChild DEF PassChild, CalmLabels
  <2> QED
    BY <1>0, <1>3, <2>1, SettleCalm DEF PassChild, SameLife, SameFlags
<1>4. CASE JoinWorker(t, p)
  <2> DEFINE c == cur[t][p]
             r == [rt[c] EXCEPT !.worker = FALSE]
  <2>1. c \in Procs
    BY <1>4 DEF TypeInv, Framed, JoinWorker
  <2>2. /\ r \in RuntimeState /\ SameLife(r, rt[c]) /\ SameFlags(r, rt[c])
        /\ r.children = rt[c].children
    BY <1>0, <2>1, RecordTypes, CalmUpdates
  <2>3. Put(c, r)
    BY <1>4 DEF JoinWorker
  <2> HIDE DEF c, r
  <2>4. LivesStay /\ ChildrenCalm
    BY <2>1, <2>2, <2>3, PutLives
  <2>5. FramesCalm
    BY <1>4 DEF FramesCalm, CalmLabels, JoinWorker, Goto, TypeInv, TypeOK
  <2> QED
    BY <2>4, <2>5 DEF Calm
<1>5. CASE TickFinished(t, p)
  <2>1. FramesCalm
    BY <1>5 DEF FramesCalm, CalmLabels, TickFinished, AtArm, Goto, TypeInv, TypeOK
  <2> QED
    BY <1>5, <2>1 DEF Calm, LivesStay, ChildrenCalm, SameLife, SameFlags, TickFinished
<1> QED
  BY <1>1, <1>2, <1>3, <1>4, <1>5

\* c is started, with a runtime state of the same life.
LEMMA AddCalm ==
  ASSUME TypeInv, NEW t \in Procs, NEW p \in Procs, NEW c \in Procs, p # c,
         NEW r \in RuntimeState, SameLife(r, rt[c]), SameFlags(r, rt[c]),
         r.children = rt[c].children,
         AddChild(p, c, r), pc[t][p] \in Callbacks, UNCHANGED <<pc, todo>>
  PROVE  Calm
<1> DEFINE cs == rt[p].children \cup {c}
<1>1. cs \in SUBSET Procs /\ rt[p].children \subseteq cs
  BY DEF TypeInv, TypeOK, RuntimeState
<1>2. PutChild(c, r, p, cs)
  BY DEF AddChild
<1> HIDE DEF cs
<1>3. /\ LivesStay /\ rt'[p].children = cs
      /\ \A q \in Procs \ {p} : rt'[q].children = rt[q].children
  BY <1>1, <1>2, PutChildLives
<1> QED
  BY <1>1, <1>3 DEF Calm, FramesCalm, ChildrenCalm

LEMMA StartCalm ==
  ASSUME TypeInv, NEW t \in Procs, NEW p \in Procs, NEW c \in Procs,
         NEW m \in DriverMode,
         \/ StartChild(t, p, c, m)
         \/ SpawnWorker(t, p, c, m)
         \/ SpawnFails(t, p, c, m)
  PROVE  Calm
<1> DEFINE r == Driven(c, m)
           s == [r EXCEPT !.driverMode = "Parent"]
<1>1. pc[t][p] \in Callbacks /\ <<p, c, m>> \in Starts /\ UNCHANGED <<pc, todo>>
  BY DEF StartChild, SpawnWorker, SpawnFails, MayStart, InCallback, frames
<1>2. p # c
  BY <1>1, OneParent DEF IsChild
<1>3. rt[c] \in RuntimeState
  BY DEF TypeInv, TypeOK
<1>4. r \in RuntimeState
  BY DrivenType
<1>5. SameLife(r, rt[c]) /\ SameFlags(r, rt[c]) /\ r.children = rt[c].children
  <2>1. CASE rt[c].started
    BY <2>1, <1>3, CalmUpdates DEF Driven
  <2>2. CASE ~rt[c].started
    BY <2>2, <1>3, CalmUpdates DEF Driven
  <2> QED
    BY <2>1, <2>2
<1>6. AddChild(p, c, r) \/ AddChild(p, c, s)
  BY DEF StartChild, SpawnWorker, SpawnFails
<1> HIDE DEF r
<1>7. s \in RuntimeState /\ s.children = r.children /\ SameLife(s, r) /\ SameFlags(s, r)
  BY <1>4, RecordTypes, CalmUpdates DEF DriverMode
<1> HIDE DEF s
<1>8. SameLife(s, rt[c]) /\ SameFlags(s, rt[c])
  BY <1>5, <1>7 DEF SameLife, SameFlags
<1> QED
  BY <1>1, <1>2, <1>4, <1>5, <1>6, <1>7, <1>8, AddCalm

\* A runtime state with canceled raised replaces another one.
LEMMA PutRaises ==
  ASSUME TypeInv, NEW c \in Procs, NEW r \in RuntimeState, Put(c, r),
         SameLife(r, rt[c]), r.children = rt[c].children,
         r.canceled, rt[c].unused => r.unused, UNCHANGED pc
  PROVE  Raises(c)
<1>1. rt'[c] = r /\ \A q \in Procs \ {c} : rt'[q] = rt[q]
  BY PutTypes DEF TypeInv, TypeOK
<1> QED
  BY <1>1 DEF Raises, SameLife, SameFlags

LEMMA CallSteps ==
  ASSUME TypeInv, NEW t \in Procs, NEW p \in Procs,
         CallOf(t, p) \/ StoreWorker(t, p)
  PROVE  Calm \/ \E c \in Procs : Raises(c) /\ UNCHANGED todo
<1>0. \A q \in Procs : rt[q] \in RuntimeState
  BY DEF TypeInv, TypeOK
<1>1. ASSUME NEW c \in Procs, NEW m \in DriverMode,
             \/ StartChild(t, p, c, m)
             \/ SpawnWorker(t, p, c, m)
             \/ SpawnFails(t, p, c, m)
      PROVE  Calm
  BY <1>1, StartCalm
<1>2. ASSUME NEW c \in Procs, Cancel(t, p, c)
      PROVE  Raises(c) /\ UNCHANGED todo
  <2> DEFINE r == [rt[c] EXCEPT !.canceled = TRUE]
  <2>1. /\ r \in RuntimeState /\ SameLife(r, rt[c]) /\ r.children = rt[c].children
        /\ r.canceled /\ r.unused = rt[c].unused
    BY <1>0, RecordTypes, CalmUpdates
  <2>2. Put(c, r) /\ UNCHANGED <<pc, todo>>
    BY <1>2 DEF Cancel, Call, frames
  <2> HIDE DEF r
  <2> QED
    BY <2>1, <2>2, PutRaises
<1>3. ASSUME NEW c \in Procs, Repel(t, p, c) \/ UnusedSet(t, p, c)
      PROVE  Raises(c) /\ UNCHANGED todo
  <2>1. /\ Unused(rt[c]) \in RuntimeState /\ SameLife(Unused(rt[c]), rt[c])
        /\ Unused(rt[c]).canceled /\ Unused(rt[c]).unused
        /\ Unused(rt[c]).children = rt[c].children
    BY <1>0, RecordTypes, CalmUpdates
  <2>2. Put(c, Unused(rt[c])) /\ UNCHANGED <<pc, todo>>
    BY <1>3 DEF Repel, UnusedSet, Call, frames
  <2> QED
    BY <2>1, <2>2, PutRaises
<1>4. ASSUME NEW c \in Procs, WhenFinishedRepel(t, p, c)
      PROVE  Calm
  <2> DEFINE r == [rt[c] EXCEPT !.whenFinishedUnused = TRUE]
  <2>1. /\ r \in RuntimeState /\ SameLife(r, rt[c]) /\ SameFlags(r, rt[c])
        /\ r.children = rt[c].children
    BY <1>0, RecordTypes, CalmUpdates
  <2>2. Put(c, r) /\ UNCHANGED <<pc, todo>>
    BY <1>4 DEF WhenFinishedRepel, Call, frames
  <2> HIDE DEF r
  <2> QED
    BY <2>1, <2>2, PutLives DEF Calm, FramesCalm
<1>5. CASE StoreWorker(t, p)
  <2> DEFINE c == cur[t][p]
             r == [rt[c] EXCEPT !.worker = TRUE]
  <2>1. c \in Procs
    BY <1>5 DEF TypeInv, TypeOK, StoreWorker
  <2>2. /\ r \in RuntimeState /\ SameLife(r, rt[c]) /\ SameFlags(r, rt[c])
        /\ r.children = rt[c].children
    BY <1>0, <2>1, RecordTypes, CalmUpdates
  <2>3. Put(c, r) /\ UNCHANGED <<pc, todo>>
    BY <1>5 DEF StoreWorker
  <2> HIDE DEF c, r
  <2> QED
    BY <2>1, <2>2, <2>3, PutLives DEF Calm, FramesCalm
<1> QED
  BY <1>1, <1>2, <1>3, <1>4, <1>5 DEF CallOf

LEMMA LoopSteps ==
  ASSUME TypeInv, DriverInv,
         \/ \E t \in Procs : LoopStep(t) \/ DriveUntilFinished(t)
         \/ \E p \in Procs : AppUnusedSet(p)
  PROVE  Calm \/ \E c \in Procs : Raises(c) /\ UNCHANGED todo
<1>0. \A q \in Procs : rt[q] \in RuntimeState
  BY DEF TypeInv, TypeOK
<1>1. ASSUME NEW t \in Procs, FirstTick(t) \/ NextTick(t)
      PROVE  Calm
  <2>1. pc[t][t] = "Idle"
    BY <1>1, LoopIsIdle DEF Ticking
  <2>2. pc' = [pc EXCEPT ![t][t] = "Children"] /\ UNCHANGED rt
    BY <1>1 DEF FirstTick, NextTick, LoopTick, Goto
  <2>3. \A u, q \in Procs : u # t \/ q # t => todo'[u][q] = todo[u][q]
    BY <1>1 DEF FirstTick, NextTick, LoopTick, BeginTick, TypeInv, TypeOK
  <2>4. pc \in [Procs -> [Procs -> Labels]]
    BY DEF TypeInv, TypeOK
  <2>5. FramesCalm
    BY <2>1, <2>2, <2>3, <2>4 DEF FramesCalm, CalmLabels
  <2> QED
    BY <2>2, <2>5 DEF Calm, LivesStay, ChildrenCalm, SameLife, SameFlags
<1>2. ASSUME NEW t \in Procs, LoopCheck(t) \/ DriveUntilFinished(t)
      PROVE  Calm
  BY <1>2 DEF LoopCheck, DriveUntilFinished, frames, Calm, LivesStay, FramesCalm,
              ChildrenCalm, SameLife, SameFlags
<1>3. ASSUME NEW t \in Procs, LoopMark(t)
      PROVE  Calm
  <2> DEFINE r == [rt[t] EXCEPT !.undriven = TRUE]
  <2>1. /\ r \in RuntimeState /\ SameLife(r, rt[t]) /\ SameFlags(r, rt[t])
        /\ r.children = rt[t].children
    BY <1>0, RecordTypes, CalmUpdates
  <2>2. Put(t, r) /\ UNCHANGED <<pc, todo>>
    BY <1>3 DEF LoopMark, frames
  <2> HIDE DEF r
  <2> QED
    BY <2>1, <2>2, PutLives DEF Calm, FramesCalm
<1>4. ASSUME NEW p \in Procs, AppUnusedSet(p)
      PROVE  Raises(p) /\ UNCHANGED todo
  <2>1. /\ Unused(rt[p]) \in RuntimeState /\ SameLife(Unused(rt[p]), rt[p])
        /\ Unused(rt[p]).canceled /\ Unused(rt[p]).unused
        /\ Unused(rt[p]).children = rt[p].children
    BY <1>0, RecordTypes, CalmUpdates
  <2>2. Put(p, Unused(rt[p])) /\ UNCHANGED <<pc, todo>>
    BY <1>4 DEF AppUnusedSet, frames
  <2> QED
    BY <2>1, <2>2, PutRaises
<1> QED
  BY <1>1, <1>2, <1>3, <1>4 DEF LoopStep

\* ReleaseChild raises the flags of a child that the frame has yet to visit.
LEMMA ReleaseRaises ==
  ASSUME TypeInv, NEW t \in Procs, NEW p \in Procs, NEW c \in Procs,
         ReleaseChild(t, p, c)
  PROVE  /\ Raises(c) /\ rt'[c].unused
         /\ \A u, q \in Procs : u # t \/ q # p => todo'[u][q] = todo[u][q]
         /\ todo'[t][p] = todo[t][p] \ {c}
<1>1. rt[c] \in RuntimeState
  BY DEF TypeInv, TypeOK
<1>2. /\ Unused(rt[c]) \in RuntimeState /\ SameLife(Unused(rt[c]), rt[c])
      /\ Unused(rt[c]).canceled /\ Unused(rt[c]).unused
      /\ Unused(rt[c]).children = rt[c].children
  BY <1>1, RecordTypes, CalmUpdates
<1>3. Put(c, Unused(rt[c])) /\ UNCHANGED pc
  BY DEF ReleaseChild
<1>4. Raises(c)
  BY <1>2, <1>3, PutRaises
<1>5. rt'[c].unused
  BY <1>2, <1>3, PutTypes DEF TypeInv, TypeOK
<1> QED
  BY <1>4, <1>5 DEF ReleaseChild, TypeInv, TypeOK

\* What a step of the tree can be to the lives of its processes.
LEMMA StepsOfLife ==
  ASSUME TypeInv, DriverInv, [Next]_vars
  PROVE  \/ Calm
         \/ \E c \in Procs : Raises(c) /\ UNCHANGED todo
         \/ \E t, p, c \in Procs : ReleaseChild(t, p, c)
         \/ \E t, p \in Procs : LifeStep(t, p)
<1>1. CASE UNCHANGED vars
  BY <1>1 DEF vars, Calm, LivesStay, FramesCalm, ChildrenCalm, SameLife, SameFlags
<1>2. ASSUME NEW t \in Procs, NEW p \in Procs, TickStep(t, p)
      PROVE  Calm \/ (\E c \in Procs : ReleaseChild(t, p, c)) \/ LifeStep(t, p)
  BY <1>2, TickCalm DEF TickStep, LifeStep
<1>3. ASSUME NEW t \in Procs, ThreadStep(t)
      PROVE  \/ Calm
             \/ \E c \in Procs : Raises(c) /\ UNCHANGED todo
             \/ \E u, p, c \in Procs : ReleaseChild(u, p, c)
             \/ \E u, p \in Procs : LifeStep(u, p)
  <2>1. CASE LoopStep(t)
    BY <2>1, LoopSteps
  <2>2. CASE \E p \in Procs : TickStep(t, p)
    BY <2>2, <1>2
  <2>3. CASE CallStep(t) \/ \E p \in Procs : StoreWorker(t, p)
    BY <2>3, CallStepIsCall, CallSteps
  <2> QED
    BY <1>3, <2>1, <2>2, <2>3 DEF ThreadStep
<1> QED
  BY <1>1, <1>3, LoopSteps DEF Next, Terminated

-----------------------------------------------------------------------------
(* The inductive invariant.                                                *)

\* A frame at an arm of the match finds the process in the state of that arm.
LabelFits(label, state) ==
  /\ label \in {"LockInitialize", "initialize"} => state = "Initializing"
  /\ label \in {"LockProcess", "process"} => state = "Processing"
  /\ label = "shutdown" => state = "DownShutting"
  /\ label = "Unuse" => state = "ChildrenUnusedSet"

Placed == \A t, p \in Procs : LabelFits(pc[t][p], rt[p].state)

\* What the state of a process says of its callbacks and of its result.
Story(r) ==
  /\ r.unused => r.canceled
  /\ r.state \in {"Existent", "Initializing"} => ~r.initDone
  /\ r.state \in {"Existent", "Initializing", "Processing"} =>
       ~r.processDone /\ r.success = "Pending"
  /\ r.state = "ChildrenUnusedSet" => r.shutdownDone
  /\ r.state \in {"FinishedPrepare", "Finished"} =>
       r.shutdownDone \/ (r.canceled /\ ~r.initDone)
  /\ r.state \notin {"Existent", "Initializing", "Processing"} =>
       r.success # "Pending" \/ (r.canceled /\ ~r.processDone)
  /\ r.success = "Positive" => r.processDone

Stories == \A p \in Procs : Story(rt[p])

\* How far the release of the children has come.
ReleasedBy(p) ==
  /\ rt[p].state = "Existent" => rt[p].children = {}
  /\ rt[p].state \in {"FinishedPrepare", "Finished"} =>
       \A c \in rt[p].children : rt[c].unused
  /\ \A t \in Procs : pc[t][p] = "Unuse" =>
       \A c \in rt[p].children : c \in todo[t][p] \/ rt[c].unused

Released == \A p \in Procs : ReleasedBy(p)

LifeInv == Placed /\ Stories /\ Released

LEMMA InitLife == Init => LifeInv
  BY DEF Init, LifeInv, Placed, LabelFits, Stories, Story, Released, ReleasedBy,
         NewRuntimeState

LEMMA CalmKeepsLife ==
  ASSUME TypeInv, LifeInv, Calm
  PROVE  LifeInv'
<1> USE DEF LifeInv, Calm
<1>1. Placed'
  <2> SUFFICES ASSUME NEW t \in Procs, NEW p \in Procs
               PROVE  LabelFits(pc'[t][p], rt'[p].state)
    BY DEF Placed
  <2>1. rt'[p].state = rt[p].state /\ LabelFits(pc[t][p], rt[p].state)
    BY DEF LivesStay, SameLife, Placed
  <2>2. pc'[t][p] = pc[t][p] \/ pc'[t][p] \in CalmLabels
    BY DEF FramesCalm
  <2> QED
    BY <2>1, <2>2 DEF LabelFits, CalmLabels
<1>2. Stories'
  BY DEF Stories, Story, LivesStay, SameLife, SameFlags
<1>3. Released'
  <2> SUFFICES ASSUME NEW p \in Procs
               PROVE  ReleasedBy(p)'
    BY DEF Released
  <2>1. /\ rt'[p].state = rt[p].state /\ ReleasedBy(p)
        /\ \A c \in Procs : rt'[c].unused = rt[c].unused
        /\ rt[p].children \subseteq Procs
    BY DEF LivesStay, SameLife, SameFlags, Released, TypeInv, TypeOK, RuntimeState
  <2>2. CASE rt'[p].children \subseteq rt[p].children
    <3>1. \A t \in Procs : pc'[t][p] = "Unuse" =>
            pc[t][p] = "Unuse" /\ todo'[t][p] = todo[t][p]
      BY DEF FramesCalm, CalmLabels
    <3> QED
      BY <2>1, <2>2, <3>1 DEF ReleasedBy
  <2>3. CASE \E t \in Procs : pc[t][p] \in Callbacks
    <3>1. rt[p].state \in {"Initializing", "Processing", "DownShutting"}
      BY <2>3 DEF Placed, LabelFits, Callbacks
    <3>2. \A t \in Procs : pc'[t][p] # "Unuse"
      BY <1>1, <2>1, <3>1 DEF Placed, LabelFits
    <3> QED
      BY <2>1, <3>1, <3>2 DEF ReleasedBy
  <2> QED
    BY <2>2, <2>3 DEF ChildrenCalm
<1> QED
  BY <1>1, <1>2, <1>3

LEMMA RaisesKeepsLife ==
  ASSUME TypeInv, LifeInv, NEW c \in Procs, Raises(c),
         \A t, p \in Procs : \A d \in todo[t][p] : d \in todo'[t][p] \/ rt'[d].unused
  PROVE  LifeInv'
<1> USE DEF LifeInv, Raises
<1>1. Placed'
  BY DEF Placed, SameLife
<1>2. Stories'
  BY DEF Stories, Story, SameLife, SameFlags
<1>3. \A q \in Procs : rt[q].unused => rt'[q].unused
  BY DEF SameFlags
<1>4. \A p \in Procs : rt[p].children \subseteq Procs
  BY DEF TypeInv, TypeOK, RuntimeState
<1>5. Released'
  <2> SUFFICES ASSUME NEW p \in Procs
               PROVE  ReleasedBy(p)'
    BY DEF Released
  <2>1. /\ rt'[p].state = rt[p].state /\ rt'[p].children = rt[p].children
        /\ pc' = pc /\ ReleasedBy(p)
    BY DEF SameLife, Released
  <2> QED
    BY <1>3, <1>4, <2>1 DEF ReleasedBy
<1> QED
  BY <1>1, <1>2, <1>5

\* What a step makes of the runtime state of a process it takes further.
Tells(s, r, state) ==
  /\ s \in RuntimeState /\ Story(s) /\ s.state = state
  /\ s.children = r.children /\ (r.unused => s.unused)

LEMMA StoryUpdates ==
  ASSUME NEW r \in RuntimeState, Story(r)
  PROVE  /\ Tells(r, r, r.state)
         /\ r.state = "Existent" /\ r.canceled =>
              Tells([r EXCEPT !.state = "FinishedPrepare"], r, "FinishedPrepare")
         /\ r.state = "Existent" =>
              Tells([r EXCEPT !.state = "Initializing"], r, "Initializing")
         /\ r.state \in {"Initializing", "Processing"} /\ r.canceled =>
              Tells([r EXCEPT !.state = "DownShutting"], r, "DownShutting")
         /\ r.state = "Initializing" =>
              /\ Tells([r EXCEPT !.initDone = TRUE, !.state = "Processing"],
                       r, "Processing")
              /\ Tells([r EXCEPT !.success = "Negative", !.state = "DownShutting"],
                       r, "DownShutting")
         /\ r.state = "Processing" =>
              \A v \in Success \ {"Pending"} :
                Tells([r EXCEPT !.success = v, !.processDone = TRUE,
                                !.state = "DownShutting"], r, "DownShutting")
         /\ r.state = "DownShutting" =>
              Tells([r EXCEPT !.shutdownDone = TRUE, !.state = "ChildrenUnusedSet"],
                    r, "ChildrenUnusedSet")
         /\ r.state = "ChildrenUnusedSet" =>
              Tells([r EXCEPT !.state = "FinishedPrepare"], r, "FinishedPrepare")
         /\ r.state = "FinishedPrepare" =>
              /\ Tells([r EXCEPT !.state = "Finished"], r, "Finished")
              /\ Tells([Unused(r) EXCEPT !.state = "Finished"], r, "Finished")
<1> USE DEF Tells, Story, RuntimeState, Success, AbstractState
<1>1. Tells(r, r, r.state)
  OBVIOUS
<1>2. ASSUME r.state = "Existent"
      PROVE  /\ r.canceled =>
                  Tells([r EXCEPT !.state = "FinishedPrepare"], r, "FinishedPrepare")
             /\ Tells([r EXCEPT !.state = "Initializing"], r, "Initializing")
  BY <1>2
<1>3. ASSUME r.state \in {"Initializing", "Processing"}, r.canceled
      PROVE  Tells([r EXCEPT !.state = "DownShutting"], r, "DownShutting")
  BY <1>3
<1>4. ASSUME r.state = "Initializing"
      PROVE  /\ Tells([r EXCEPT !.initDone = TRUE, !.state = "Processing"],
                       r, "Processing")
             /\ Tells([r EXCEPT !.success = "Negative", !.state = "DownShutting"],
                       r, "DownShutting")
  BY <1>4
<1>5. ASSUME r.state = "Processing", NEW v \in Success \ {"Pending"}
      PROVE  Tells([r EXCEPT !.success = v, !.processDone = TRUE,
                             !.state = "DownShutting"], r, "DownShutting")
  BY <1>5
<1>6. ASSUME r.state = "DownShutting"
      PROVE  Tells([r EXCEPT !.shutdownDone = TRUE, !.state = "ChildrenUnusedSet"],
                   r, "ChildrenUnusedSet")
  BY <1>6
<1>7. ASSUME r.state = "ChildrenUnusedSet"
      PROVE  Tells([r EXCEPT !.state = "FinishedPrepare"], r, "FinishedPrepare")
  BY <1>7
<1>8. ASSUME r.state = "FinishedPrepare"
      PROVE  /\ Tells([r EXCEPT !.state = "Finished"], r, "Finished")
             /\ Tells([Unused(r) EXCEPT !.state = "Finished"], r, "Finished")
  <2>1. Tells([r EXCEPT !.state = "Finished"], r, "Finished")
    BY <1>8
  <2>2. Tells([Unused(r) EXCEPT !.state = "Finished"], r, "Finished")
    BY <1>8 DEF Unused
  <2> QED BY <2>1, <2>2
<1> HIDE DEF Tells, Story, RuntimeState, Success, AbstractState
<1> QED
  BY <1>1, <1>2, <1>3, <1>4, <1>5, <1>6, <1>7, <1>8, Zenon

\* The frame of p by t goes to label and leaves r; nothing else moves.
Turn(t, p, r, label) ==
  /\ Put(p, r) /\ Goto(t, p, label)
  /\ pc[t][p] # "Idle"
  /\ \A u, q \in Procs : u # t \/ q # p => todo'[u][q] = todo[u][q]

LEMMA TurnMoves ==
  ASSUME TypeInv, DriverInv, NEW t \in Procs, NEW p \in Procs,
         NEW r \in RuntimeState, NEW label, Turn(t, p, r, label)
  PROVE  /\ rt'[p] = r /\ \A q \in Procs \ {p} : rt'[q] = rt[q]
         /\ pc'[t][p] = label
         /\ \A u, q \in Procs : u # t \/ q # p => pc'[u][q] = pc[u][q]
         /\ \A u \in Procs \ {t} : pc[u][p] = "Idle" /\ pc'[u][p] = "Idle"
<1>1. rt'[p] = r /\ \A q \in Procs \ {p} : rt'[q] = rt[q]
  BY PutTypes DEF Turn, TypeInv, TypeOK
<1>2. /\ pc'[t][p] = label
      /\ \A u, q \in Procs : u # t \/ q # p => pc'[u][q] = pc[u][q]
  BY DEF Turn, Goto, TypeInv, TypeOK
<1>3. \A u \in Procs \ {t} : pc[u][p] = "Idle"
  BY DEF DriverInv, OneDriver, Ticking, Turn
<1> QED
  BY <1>1, <1>2, <1>3

LEMMA TurnKeepsLife ==
  ASSUME TypeInv, DriverInv, LifeInv, NEW t \in Procs, NEW p \in Procs,
         NEW r, NEW state, NEW label,
         Turn(t, p, r, label), Tells(r, rt[p], state), LabelFits(label, state),
         state = "Existent" => rt[p].children = {},
         state \in {"FinishedPrepare", "Finished"} =>
           \A c \in rt[p].children : rt[c].unused,
         label = "Unuse" => todo'[t][p] = rt[p].children
  PROVE  LifeInv'
<1> USE DEF LifeInv
<1>0. /\ r \in RuntimeState /\ Story(r) /\ r.state = state
      /\ r.children = rt[p].children /\ (rt[p].unused => r.unused)
  BY DEF Tells
<1>1. /\ rt'[p] = r /\ \A q \in Procs \ {p} : rt'[q] = rt[q]
      /\ pc'[t][p] = label
      /\ \A u, q \in Procs : u # t \/ q # p => pc'[u][q] = pc[u][q]
      /\ \A u \in Procs \ {t} : pc'[u][p] = "Idle"
  BY <1>0, TurnMoves
<1>2. Placed'
  BY <1>0, <1>1 DEF Placed, LabelFits
<1>3. Stories'
  BY <1>0, <1>1 DEF Stories
<1>4. Released'
  <2> SUFFICES ASSUME NEW q \in Procs
               PROVE  ReleasedBy(q)'
    BY DEF Released
  <2>1. /\ \A c \in Procs : rt[c].unused => rt'[c].unused
        /\ \A c \in rt[q].children : c \in Procs
    BY <1>0, <1>1 DEF TypeInv, TypeOK, RuntimeState
  <2>2. CASE q # p
    <3>1. /\ rt'[q] = rt[q] /\ ReleasedBy(q)
          /\ \A u \in Procs : pc'[u][q] = pc[u][q] /\ todo'[u][q] = todo[u][q]
      BY <1>1, <2>2 DEF Released, Turn
    <3> QED
      BY <2>1, <3>1 DEF ReleasedBy
  <2>3. CASE q = p
    BY <1>0, <1>1, <2>1, <2>3 DEF ReleasedBy
  <2> QED
    BY <2>2, <2>3
<1> QED
  BY <1>2, <1>3, <1>4

LEMMA LifeStepKeeps ==
  ASSUME TypeInv, DriverInv, LifeInv, NEW t \in Procs, NEW p \in Procs, LifeStep(t, p)
  PROVE  LifeInv'
<1> DEFINE r == rt[p]
<1>0. /\ r \in RuntimeState /\ Story(r) /\ ReleasedBy(p) /\ LabelFits(pc[t][p], r.state)
      /\ Put(p, r) <=> rt' = rt
  BY DEF TypeInv, TypeOK, LifeInv, Stories, Released, Placed, Put
<1>1. CASE LeaveExistent(t, p)
  <2> DEFINE state == IF r.canceled THEN "FinishedPrepare" ELSE "Initializing"
             s == [r EXCEPT !.state = state]
  <2>1. Tells(s, r, state) /\ r.children = {}
    BY <1>0, <1>1, StoryUpdates DEF LeaveExistent, AtArm, ReleasedBy
  <2>2. Turn(t, p, s, "Idle")
    BY <1>1 DEF Turn, LeaveExistent, AtArm, EndTick
  <2>3. state # "Existent" /\ LabelFits("Idle", state)
    BY DEF LabelFits
  <2> HIDE DEF s, state
  <2> QED
    BY <2>1, <2>2, <2>3, TurnKeepsLife
<1>2. CASE SeeCanceled(t, p)
  <2> DEFINE s == [r EXCEPT !.state = "DownShutting"]
  <2>1. Tells(s, r, "DownShutting")
    BY <1>0, <1>2, StoryUpdates DEF SeeCanceled, AtArm
  <2>2. Turn(t, p, s, "Idle")
    BY <1>2 DEF Turn, SeeCanceled, AtArm, EndTick
  <2> HIDE DEF s
  <2> QED
    BY <2>1, <2>2, TurnKeepsLife DEF LabelFits
<1>3. ASSUME NEW label, LabelFits(label, r.state), Goto(t, p, label), rt' = rt,
             pc[t][p] # "Idle", todo' = todo,
             r.state \in {"Initializing", "Processing", "DownShutting"}
      PROVE  LifeInv'
  <2>1. Tells(r, r, r.state) /\ Turn(t, p, r, label)
    BY <1>0, <1>3, StoryUpdates DEF Turn
  <2>2. label # "Unuse"
    BY <1>3 DEF LabelFits
  <2> QED
    BY <1>3, <2>1, <2>2, TurnKeepsLife
<1>4. CASE SeeNotCanceled(t, p)
  BY <1>3, <1>4 DEF SeeNotCanceled, AtArm, LabelFits
<1>5. CASE EnterInitialize(t, p) \/ EnterProcess(t, p) \/ EnterShutdown(t, p)
  BY <1>0, <1>3, <1>5
  DEF EnterInitialize, EnterProcess, EnterShutdown, Enter, AtArm, LabelFits
<1>6. CASE ReturnPending(t, p)
  <2>1. PICK f \in Callbacks : Return(t, p, f, r)
    BY <1>6 DEF ReturnPending
  <2>2. /\ LabelFits("Idle", r.state) /\ rt' = rt
        /\ r.state \in {"Initializing", "Processing", "DownShutting"}
    BY <1>0, <2>1 DEF Return, LabelFits, Callbacks, EndTick
  <2> QED
    BY <1>3, <2>1, <2>2 DEF Return, Callbacks, EndTick
<1>7. ASSUME NEW f \in Callbacks, NEW s, Return(t, p, f, s),
             NEW state \in {"Processing", "DownShutting", "ChildrenUnusedSet"},
             Tells(s, r, state)
      PROVE  LifeInv'
  <2>1. Turn(t, p, s, "Idle") /\ LabelFits("Idle", state)
    BY <1>7 DEF Turn, Return, EndTick, Callbacks, LabelFits
  <2> QED
    BY <1>7, <2>1, TurnKeepsLife
<1>8. CASE ReturnInitialize(t, p)
  <2> DEFINE s1 == [r EXCEPT !.initDone = TRUE, !.state = "Processing"]
             s2 == [r EXCEPT !.success = "Negative", !.state = "DownShutting"]
  <2>1. Return(t, p, "initialize", s1) \/ Return(t, p, "initialize", s2)
    BY <1>8 DEF ReturnInitialize
  <2>2. r.state = "Initializing"
    BY <1>0, <2>1 DEF Return, LabelFits
  <2>3. Tells(s1, r, "Processing") /\ Tells(s2, r, "DownShutting")
    BY <1>0, <2>2, StoryUpdates
  <2> HIDE DEF s1, s2
  <2> QED
    BY <1>7, <2>1, <2>3 DEF Callbacks
<1>9. CASE ReturnProcess(t, p)
  <2>1. PICK v \in Success \ {"Pending"} :
          Return(t, p, "process", [r EXCEPT !.success = v, !.processDone = TRUE,
                                            !.state = "DownShutting"])
    BY <1>9 DEF ReturnProcess
  <2> DEFINE s == [r EXCEPT !.success = v, !.processDone = TRUE, !.state = "DownShutting"]
  <2>2. r.state = "Processing" /\ Return(t, p, "process", s)
    BY <1>0, <2>1 DEF Return, LabelFits
  <2>3. Tells(s, r, "DownShutting")
    BY <1>0, <2>2, StoryUpdates
  <2> HIDE DEF s
  <2> QED
    BY <1>7, <2>2, <2>3 DEF Callbacks
<1>10. CASE ReturnShutdown(t, p)
  <2> DEFINE s == [r EXCEPT !.shutdownDone = TRUE, !.state = "ChildrenUnusedSet"]
  <2>1. r.state = "DownShutting" /\ Return(t, p, "shutdown", s)
    BY <1>0, <1>10 DEF ReturnShutdown, Return, LabelFits
  <2>2. Tells(s, r, "ChildrenUnusedSet")
    BY <1>0, <2>1, StoryUpdates
  <2> HIDE DEF s
  <2> QED
    BY <1>7, <2>1, <2>2 DEF Callbacks
<1>11. CASE ReleaseChildren(t, p)
  <2>1. r.state = "ChildrenUnusedSet" /\ Tells(r, r, r.state)
    BY <1>0, <1>11, StoryUpdates DEF ReleaseChildren, AtArm
  <2>2. Turn(t, p, r, "Unuse") /\ todo'[t][p] = r.children
    BY <1>0, <1>11 DEF Turn, ReleaseChildren, AtArm, TypeInv, TypeOK
  <2>3. LabelFits("Unuse", r.state)
    BY <2>1 DEF LabelFits
  <2> QED
    BY <2>1, <2>2, <2>3, TurnKeepsLife
<1>12. CASE EndRelease(t, p)
  <2> DEFINE s == [r EXCEPT !.state = "FinishedPrepare"]
  <2>1. r.state = "ChildrenUnusedSet" /\ \A c \in r.children : rt[c].unused
    BY <1>0, <1>12 DEF EndRelease, LabelFits, ReleasedBy
  <2>2. Tells(s, r, "FinishedPrepare")
    BY <1>0, <2>1, StoryUpdates
  <2>3. Turn(t, p, s, "Idle") /\ LabelFits("Idle", "FinishedPrepare")
    BY <1>12 DEF Turn, EndRelease, EndTick, LabelFits
  <2> HIDE DEF s
  <2> QED
    BY <2>1, <2>2, <2>3, TurnKeepsLife
<1>13. CASE Finish(t, p)
  <2> DEFINE s == IF r.whenFinishedUnused THEN Unused(r) ELSE r
             w == [s EXCEPT !.state = "Finished"]
  <2>1. r.state = "FinishedPrepare" /\ \A c \in r.children : rt[c].unused
    BY <1>0, <1>13 DEF Finish, AtArm, ReleasedBy
  <2>2. Tells(w, r, "Finished")
    BY <1>0, <2>1, StoryUpdates
  <2>3. Turn(t, p, w, "Idle") /\ LabelFits("Idle", "Finished")
    BY <1>13 DEF Turn, Finish, AtArm, EndTick, LabelFits
  <2> HIDE DEF w
  <2> QED
    BY <2>1, <2>2, <2>3, TurnKeepsLife
<1> QED
  BY <1>1, <1>2, <1>4, <1>5, <1>6, <1>8, <1>9, <1>10, <1>11, <1>12, <1>13
  DEF LifeStep

LEMMA NextLife ==
  TypeInv /\ DriverInv /\ LifeInv /\ [Next]_vars => LifeInv'
<1> SUFFICES ASSUME TypeInv, DriverInv, LifeInv, [Next]_vars
             PROVE  LifeInv'
  OBVIOUS
<1>1. ASSUME NEW c \in Procs, Raises(c), UNCHANGED todo
      PROVE  LifeInv'
  BY <1>1, RaisesKeepsLife
<1>2. ASSUME NEW t \in Procs, NEW p \in Procs, NEW c \in Procs, ReleaseChild(t, p, c)
      PROVE  LifeInv'
  <2>1. /\ Raises(c) /\ rt'[c].unused
        /\ \A u, q \in Procs : u # t \/ q # p => todo'[u][q] = todo[u][q]
        /\ todo'[t][p] = todo[t][p] \ {c}
    BY <1>2, ReleaseRaises
  <2>2. \A u, q \in Procs : \A d \in todo[u][q] : d \in todo'[u][q] \/ rt'[d].unused
    BY <2>1
  <2> QED
    BY <2>1, <2>2, RaisesKeepsLife
<1> QED
  BY <1>1, <1>2, StepsOfLife, CalmKeepsLife, LifeStepKeeps

LEMMA LifeInvariant ==
  ASSUME ~Retries
  PROVE  Spec => [](TypeInv /\ DriverInv /\ LifeInv)
<1>1. Init => TypeInv /\ DriverInv /\ LifeInv
  BY InitTypes, InitDriven, InitLife
<1>2. TypeInv /\ DriverInv /\ LifeInv /\ [Next]_vars
        => TypeInv' /\ DriverInv' /\ LifeInv'
  BY NextTypes, NextDriven, NextLife
<1> QED
  BY <1>1, <1>2, PTL DEF Spec

-----------------------------------------------------------------------------
(* What the invariant says.                                                *)

\* A finished process was shut down unless it was canceled before it began,
\* and has a result unless it was canceled (OutcomeJustified), whoever drove it
\* and whatever its callbacks answered.
THEOREM OutcomeAlwaysJustified ==
  ASSUME ~Retries
  PROVE  Spec => []OutcomeJustified
<1>1. LifeInv => OutcomeJustified
  BY DEF LifeInv, Stories, Story, OutcomeJustified
<1> QED
  BY <1>1, LifeInvariant, PTL

\* A process that has shut down has released every child it still has
\* (ChildrenReleased): none is added between the release of the first and the
\* end of the process.
THEOREM ChildrenAlwaysReleased ==
  ASSUME ~Retries
  PROVE  Spec => []ChildrenReleased
<1>1. TypeInv /\ LifeInv => ChildrenReleased
  <2> SUFFICES ASSUME TypeInv, LifeInv, NEW p \in Procs,
                      rt[p].state \in {"FinishedPrepare", "Finished"},
                      NEW c \in rt[p].children
               PROVE  rt[c].unused /\ rt[c].canceled
    BY DEF ChildrenReleased
  <2>1. rt[c].unused /\ c \in Procs
    BY DEF LifeInv, Released, ReleasedBy, TypeInv, TypeOK, RuntimeState
  <2> QED
    BY <2>1 DEF LifeInv, Stories, Story
<1> QED
  BY <1>1, LifeInvariant, PTL

-----------------------------------------------------------------------------
(* The verdict on the children.                                            *)

\* A result is given once, and a process only loses children that are unused.
ResultsStay ==
  /\ \A c \in Procs : rt[c].success # "Pending" => rt'[c].success = rt[c].success
  /\ \A p \in Procs : \A c \in rt[p].children : c \in rt'[p].children \/ rt[c].unused

LEMMA LifeStepResults ==
  ASSUME TypeInv, LifeInv, NEW t \in Procs, NEW p \in Procs, LifeStep(t, p)
  PROVE  ResultsStay
<1>0. /\ rt[p] \in RuntimeState /\ Story(rt[p]) /\ LabelFits(pc[t][p], rt[p].state)
      /\ rt[p].success = "Pending" \/ rt[p].state \notin {"Initializing", "Processing"}
  BY DEF TypeInv, TypeOK, LifeInv, Stories, Story, Placed
<1>1. ASSUME NEW r \in RuntimeState, EndTick(t, p, r), r.children = rt[p].children,
             rt[p].success # "Pending" => r.success = rt[p].success
      PROVE  ResultsStay
  <2>1. rt'[p] = r /\ \A q \in Procs \ {p} : rt'[q] = rt[q]
    BY <1>1, PutTypes DEF EndTick, TypeInv, TypeOK
  <2> QED
    BY <1>1, <2>1 DEF ResultsStay
<1>2. CASE rt' = rt
  BY <1>2 DEF ResultsStay
<1>3. \A r \in RuntimeState :
        /\ \A v \in AbstractState :
             /\ [r EXCEPT !.state = v].children = r.children
             /\ [r EXCEPT !.state = v].success = r.success
             /\ [r EXCEPT !.state = v] \in RuntimeState
        /\ Unused(r).children = r.children /\ Unused(r).success = r.success
        /\ Unused(r) \in RuntimeState
  BY DEF RuntimeState, Unused
<1>4. CASE LeaveExistent(t, p) \/ SeeCanceled(t, p) \/ EndRelease(t, p)
  <2>1. PICK v \in AbstractState : EndTick(t, p, [rt[p] EXCEPT !.state = v])
    BY <1>4 DEF LeaveExistent, SeeCanceled, EndRelease, AbstractState
  <2> DEFINE s == [rt[p] EXCEPT !.state = v]
  <2>2. s \in RuntimeState /\ s.children = rt[p].children /\ s.success = rt[p].success
    BY <1>0, <1>3
  <2>3. EndTick(t, p, s)
    BY <2>1
  <2> HIDE DEF s
  <2> QED
    BY <1>1, <2>2, <2>3
<1>5. CASE Finish(t, p)
  <2> DEFINE r == IF rt[p].whenFinishedUnused THEN Unused(rt[p]) ELSE rt[p]
             s == [r EXCEPT !.state = "Finished"]
  <2>1. EndTick(t, p, s)
    BY <1>5 DEF Finish
  <2>2. r \in RuntimeState /\ r.children = rt[p].children /\ r.success = rt[p].success
    BY <1>0, <1>3
  <2> HIDE DEF r
  <2>3. s \in RuntimeState /\ s.children = r.children /\ s.success = r.success
    BY <1>3, <2>2 DEF AbstractState
  <2> HIDE DEF s
  <2> QED
    BY <1>1, <2>1, <2>2, <2>3
<1>6. CASE ReturnInitialize(t, p) \/ ReturnProcess(t, p)
  <2>1. pc[t][p] \in {"initialize", "process"}
    BY <1>6 DEF ReturnInitialize, ReturnProcess, Return
  <2>2. rt[p].success = "Pending"
    BY <1>0, <2>1 DEF LabelFits
  <2>3. \A r \in RuntimeState, v \in Success :
          /\ [r EXCEPT !.initDone = TRUE, !.state = "Processing"].children = r.children
          /\ [r EXCEPT !.success = v, !.state = "DownShutting"].children = r.children
          /\ [r EXCEPT !.success = v, !.processDone = TRUE,
                       !.state = "DownShutting"].children = r.children
    BY DEF RuntimeState
  <2>4. PICK s \in RuntimeState : EndTick(t, p, s) /\ s.children = rt[p].children
    BY <1>0, <1>6, <2>3, RecordTypes
    DEF ReturnInitialize, ReturnProcess, Return, AbstractState, Success
  <2> QED
    BY <1>1, <2>2, <2>4
<1>7. CASE ReturnShutdown(t, p)
  <2> DEFINE s == [rt[p] EXCEPT !.shutdownDone = TRUE, !.state = "ChildrenUnusedSet"]
  <2>1. EndTick(t, p, s)
    BY <1>7 DEF ReturnShutdown, Return
  <2>2. s \in RuntimeState /\ s.children = rt[p].children /\ s.success = rt[p].success
    BY <1>0 DEF RuntimeState, AbstractState
  <2> HIDE DEF s
  <2> QED
    BY <1>1, <2>1, <2>2
<1>8. CASE ReturnPending(t, p)
  BY <1>2, <1>8 DEF ReturnPending, Return, EndTick, Put, TypeInv, TypeOK
<1> QED
  BY <1>2, <1>4, <1>5, <1>6, <1>7, <1>8
  DEF LifeStep, SeeNotCanceled, EnterInitialize, EnterProcess, EnterShutdown, Enter,
      ReleaseChildren

LEMMA NextResults ==
  ASSUME TypeInv, DriverInv, LifeInv, [Next]_vars
  PROVE  ResultsStay
<1>1. CASE Calm
  BY <1>1 DEF Calm, LivesStay, SameLife, ChildrenCalm, ResultsStay
<1>2. ASSUME NEW c \in Procs, Raises(c)
      PROVE  ResultsStay
  BY <1>2 DEF Raises, SameLife, ResultsStay
<1> QED
  BY <1>1, <1>2, StepsOfLife, ReleaseRaises, LifeStepResults

\* The verdict is made of the results of the children that are in use.
Results(p) == {rt[c].success : c \in {d \in rt[p].children : ~rt[d].unused}}

LEMMA VerdictStep ==
  ASSUME TypeInv, ResultsStay, NEW p \in Procs,
         ChildrenSuccess(p) # "Pending",
         rt'[p].children \subseteq rt[p].children,
         \A c \in rt[p].children : rt'[c].unused = rt[c].unused
  PROVE  ChildrenSuccess(p)' = ChildrenSuccess(p)
<1>1. \A q \in Procs : rt[q].children \subseteq Procs /\ rt[q].success \in Success
  BY DEF TypeInv, TypeOK, RuntimeState
<1>2. /\ ChildrenSuccess(p) = IF "Negative" \in Results(p) THEN "Negative"
                              ELSE IF "Pending" \in Results(p) THEN "Pending"
                              ELSE "Positive"
      /\ ChildrenSuccess(p)' = IF "Negative" \in Results(p)' THEN "Negative"
                               ELSE IF "Pending" \in Results(p)' THEN "Pending"
                               ELSE "Positive"
  BY DEF ChildrenSuccess, Results
<1>3. {d \in rt'[p].children : ~rt'[d].unused} = {d \in rt[p].children : ~rt[d].unused}
  BY DEF ResultsStay
<1>4. CASE "Negative" \in Results(p)
  <2>1. PICK c \in rt[p].children : ~rt[c].unused /\ rt[c].success = "Negative"
    BY <1>4 DEF Results
  <2>2. rt'[c].success = "Negative"
    BY <1>1, <2>1 DEF ResultsStay
  <2>3. "Negative" \in Results(p)'
    BY <1>3, <2>1, <2>2 DEF Results
  <2> QED
    BY <1>2, <1>4, <2>3
<1>5. CASE "Negative" \notin Results(p)
  <2>1. "Pending" \notin Results(p)
    BY <1>2, <1>5
  <2>2. \A c \in rt[p].children : ~rt[c].unused => rt[c].success = "Positive"
    BY <1>1, <1>5, <2>1 DEF Results, Success
  <2>3. \A c \in rt[p].children : ~rt[c].unused => rt'[c].success = "Positive"
    BY <1>1, <2>2 DEF ResultsStay
  <2>4. "Negative" \notin Results(p)' /\ "Pending" \notin Results(p)'
    BY <1>3, <2>3 DEF Results
  <2> QED
    BY <1>2, <1>5, <2>1, <2>4
<1> QED
  BY <1>4, <1>5

\* What children_success has told of a process stays true until it starts or
\* releases a child (VerdictStable): a child whose result counts is removed by
\* nobody, and no result is ever replaced.
THEOREM VerdictAlwaysStable ==
  ASSUME ~Retries
  PROVE  Spec => VerdictStable
<1> DEFINE Stays == \A p \in Procs :
             /\ ChildrenSuccess(p) # "Pending"
             /\ rt'[p].children \subseteq rt[p].children
             /\ \A c \in rt[p].children : rt'[c].unused = rt[c].unused
             => ChildrenSuccess(p)' = ChildrenSuccess(p)
<1>1. TypeInv /\ DriverInv /\ LifeInv /\ [Next]_vars => [Stays]_vars
  BY NextResults, VerdictStep
<1>2. VerdictStable <=> [][Stays]_vars
  BY PTL DEF VerdictStable
<1> HIDE DEF Stays
<1> QED
  BY <1>1, <1>2, LifeInvariant, PTL DEF Spec

-----------------------------------------------------------------------------
(* A handle implements Lifecycle.                                          *)

\* The variables of Lifecycle, as the refinement mapping gives them.
Phases  == [p \in Procs |-> PhaseOf(rt[p].state)]
Runnings == [p \in Procs |-> Running(p)]
AllResults == [p \in Procs |-> rt[p].success]
Cancels == [p \in Procs |-> rt[p].canceled]

\* A callback of p that nobody enters or leaves goes on.
LEMMA RunningStays ==
  ASSUME NEW p \in Procs,
         \A t \in Procs : \/ pc'[t][p] = pc[t][p]
                          \/ pc[t][p] \notin Callbacks /\ pc'[t][p] \notin Callbacks
  PROVE  Running(p)' = Running(p)
<1> DEFINE inside == {t \in Procs : pc[t][p] \in Callbacks}
           inside2 == {t \in Procs : pc'[t][p] \in Callbacks}
<1>1. inside2 = inside
  OBVIOUS
<1>2. /\ Running(p) = IF inside = {} THEN "none" ELSE pc[CHOOSE t \in inside : TRUE][p]
      /\ Running(p)' = IF inside2 = {} THEN "none" ELSE pc'[CHOOSE t \in inside2 : TRUE][p]
  BY DEF Running
<1>3. inside # {} => (CHOOSE t \in inside : TRUE) \in inside
  OBVIOUS
<1>4. \A t \in inside : pc'[t][p] = pc[t][p]
  OBVIOUS
<1> HIDE DEF inside, inside2
<1> QED
  BY <1>1, <1>2, <1>3, <1>4

\* Where one thread ticks p, what it is in is what p is in: of Running with the
\* labels f in place of pc.
RunningOf(f, p) ==
  LET inside == {t \in Procs : f[t][p] \in Callbacks}
  IN  IF inside = {} THEN "none" ELSE f[CHOOSE t \in inside : TRUE][p]

LEMMA RunningIs ==
  ASSUME NEW f, NEW t \in Procs, NEW p \in Procs,
         \A u \in Procs \ {t} : f[u][p] = "Idle"
  PROVE  RunningOf(f, p) = IF f[t][p] \in Callbacks THEN f[t][p] ELSE "none"
<1> DEFINE inside == {u \in Procs : f[u][p] \in Callbacks}
<1>1. inside = IF f[t][p] \in Callbacks THEN {t} ELSE {}
  BY DEF Callbacks
<1>2. RunningOf(f, p) = IF inside = {} THEN "none" ELSE f[CHOOSE u \in inside : TRUE][p]
  BY DEF RunningOf
<1> HIDE DEF inside
<1> QED
  BY <1>1, <1>2

\* What the mapping makes of a turn of p.
Mapped(t, p, r, label) ==
  /\ Phases' = [Phases EXCEPT ![p] = PhaseOf(r.state)]
  /\ AllResults' = [AllResults EXCEPT ![p] = r.success]
  /\ Cancels' = [Cancels EXCEPT ![p] = r.canceled]
  /\ Running(p) = IF pc[t][p] \in Callbacks THEN pc[t][p] ELSE "none"
  /\ Runnings' = [Runnings EXCEPT ![p] = IF label \in Callbacks THEN label ELSE "none"]

LEMMA TurnMapped ==
  ASSUME TypeInv, DriverInv, NEW t \in Procs, NEW p \in Procs,
         NEW r \in RuntimeState, NEW label, Turn(t, p, r, label)
  PROVE  Mapped(t, p, r, label)
<1>1. /\ rt'[p] = r /\ \A q \in Procs \ {p} : rt'[q] = rt[q]
      /\ pc'[t][p] = label
      /\ \A u, q \in Procs : u # t \/ q # p => pc'[u][q] = pc[u][q]
      /\ \A u \in Procs \ {t} : pc[u][p] = "Idle" /\ pc'[u][p] = "Idle"
  BY TurnMoves
<1>2. /\ Phases' = [Phases EXCEPT ![p] = PhaseOf(r.state)]
      /\ AllResults' = [AllResults EXCEPT ![p] = r.success]
      /\ Cancels' = [Cancels EXCEPT ![p] = r.canceled]
  BY <1>1 DEF Phases, AllResults, Cancels
<1>3. Running(p) = IF pc[t][p] \in Callbacks THEN pc[t][p] ELSE "none"
  BY <1>1, RunningIs DEF Running, RunningOf
<1>4. Running(p)' = IF label \in Callbacks THEN label ELSE "none"
  <2>1. Running(p)' = RunningOf(pc', p)
    BY DEF Running, RunningOf
  <2> QED
    BY <1>1, <2>1, RunningIs
<1>5. \A q \in Procs \ {p} : Running(q)' = Running(q)
  BY <1>1, RunningStays
<1>6. Runnings' = [Runnings EXCEPT ![p] = IF label \in Callbacks THEN label ELSE "none"]
  BY <1>4, <1>5 DEF Runnings
<1> QED
  BY <1>2, <1>3, <1>6 DEF Mapped

\* The actions of Lifecycle in terms of the mapping.
LEMMA PromiseActions ==
  ASSUME NEW p \in Procs
  PROVE  /\ Promise!Cancel(p) <=>
              /\ Cancels' = [Cancels EXCEPT ![p] = TRUE]
              /\ UNCHANGED <<Phases, Runnings, AllResults>>
         /\ Promise!Begin(p) <=>
              /\ Phases[p] = "Waiting"
              /\ Phases' = [Phases EXCEPT ![p] =
                             IF Cancels[p] THEN "Closed" ELSE "Initializing"]
              /\ UNCHANGED <<Runnings, AllResults, Cancels>>
         /\ Promise!Heed(p) <=>
              /\ Cancels[p] /\ Runnings[p] = "none"
              /\ Phases[p] \in {"Initializing", "Processing"}
              /\ Phases' = [Phases EXCEPT ![p] = "Closing"]
              /\ UNCHANGED <<Runnings, AllResults, Cancels>>
         /\ Promise!Enter(p) <=>
              /\ Runnings[p] = "none" /\ Promise!CallbackOf(Phases[p]) # "none"
              /\ Runnings' = [Runnings EXCEPT ![p] = Promise!CallbackOf(Phases[p])]
              /\ UNCHANGED <<Phases, AllResults, Cancels>>
         /\ Promise!Finish(p) <=>
              /\ Phases[p] = "Closed"
              /\ Phases' = [Phases EXCEPT ![p] = "Finished"]
              /\ \E late \in BOOLEAN :
                   Cancels' = [Cancels EXCEPT ![p] = Cancels[p] \/ late]
              /\ UNCHANGED <<Runnings, AllResults>>
  BY DEF Promise!Cancel, Promise!Begin, Promise!Heed, Promise!Enter, Promise!Finish,
         Promise!Becomes, Phases, Runnings, AllResults, Cancels

\* What the callback f of p may answer: the result r, to go on at next.
Answered(p, f, r, next) ==
  \/ r = AllResults[p] /\ next = Phases[p]
  \/ f = "initialize" /\ r = AllResults[p] /\ next = "Processing"
  \/ f = "initialize" /\ r = "Negative" /\ next = "Closing"
  \/ f = "process" /\ r \in {"Positive", "Negative"} /\ next = "Closing"
  \/ f = "shutdown" /\ r = AllResults[p] /\ next = "Closed"

LEMMA PromiseAnswer ==
  ASSUME NEW p \in Procs, NEW f \in Callbacks, NEW r, NEW next,
         Answered(p, f, r, next),
         Runnings[p] = f, Runnings' = [Runnings EXCEPT ![p] = "none"],
         AllResults' = [AllResults EXCEPT ![p] = r],
         Phases' = [Phases EXCEPT ![p] = next],
         UNCHANGED Cancels
  PROVE  Promise!Answer(p)
  BY DEF Promise!Answer, Promise!Return, Promise!Becomes, Answered, Callbacks,
         Phases, Runnings, AllResults, Cancels

Stutters == UNCHANGED <<Phases, Runnings, AllResults, Cancels>>

LEMMA CalmMapped == ASSUME Calm PROVE Stutters
<1>1. \A p \in Procs : /\ rt'[p].state = rt[p].state /\ rt'[p].success = rt[p].success
                       /\ rt'[p].canceled = rt[p].canceled
  BY DEF Calm, LivesStay, SameLife, SameFlags
<1>2. \A p \in Procs : Running(p)' = Running(p)
  BY RunningStays DEF Calm, FramesCalm, CalmLabels, Callbacks
<1> QED
  BY <1>1, <1>2 DEF Stutters, Phases, Runnings, AllResults, Cancels

LEMMA RaisesMapped ==
  ASSUME TypeInv, TypeInv', NEW c \in Procs, Raises(c)
  PROVE  Promise!Cancel(c)
<1>1. \A p \in Procs : rt'[p].state = rt[p].state /\ rt'[p].success = rt[p].success
  BY DEF Raises, SameLife
<1>2. \A p \in Procs : Running(p)' = Running(p)
  BY RunningStays DEF Raises
<1>3. rt'[c].canceled = TRUE /\ \A p \in Procs \ {c} : rt'[p].canceled = rt[p].canceled
  BY DEF Raises, SameFlags, TypeInv, TypeOK, RuntimeState
<1>4. /\ UNCHANGED <<Phases, Runnings, AllResults>>
      /\ Cancels' = [Cancels EXCEPT ![c] = TRUE]
  BY <1>1, <1>2, <1>3 DEF Phases, Runnings, AllResults, Cancels
<1> QED
  BY <1>4, PromiseActions

\* What of a runtime state the mapping reads.
Reads(r, state, success, canceled) ==
  /\ r \in RuntimeState
  /\ r.state = state /\ r.success = success /\ r.canceled = canceled

LEMMA MappedUpdates ==
  ASSUME NEW r \in RuntimeState
  PROVE  /\ \A v \in AbstractState :
              Reads([r EXCEPT !.state = v], v, r.success, r.canceled)
         /\ Reads([r EXCEPT !.initDone = TRUE, !.state = "Processing"],
                  "Processing", r.success, r.canceled)
         /\ \A v \in Success :
              Reads([r EXCEPT !.success = v, !.state = "DownShutting"],
                    "DownShutting", v, r.canceled)
         /\ \A v \in Success :
              Reads([r EXCEPT !.success = v, !.processDone = TRUE,
                              !.state = "DownShutting"], "DownShutting", v, r.canceled)
         /\ Reads([r EXCEPT !.shutdownDone = TRUE, !.state = "ChildrenUnusedSet"],
                  "ChildrenUnusedSet", r.success, r.canceled)
         /\ Reads(Unused(r), r.state, r.success, TRUE)
         /\ Reads(r, r.state, r.success, r.canceled)
  BY DEF Reads, RuntimeState, AbstractState, Success, Unused

LEMMA PhasesAre ==
  /\ PhaseOf("Existent") = "Waiting" /\ PhaseOf("Initializing") = "Initializing"
  /\ PhaseOf("Processing") = "Processing" /\ PhaseOf("DownShutting") = "Closing"
  /\ PhaseOf("ChildrenUnusedSet") = "Closed" /\ PhaseOf("FinishedPrepare") = "Closed"
  /\ PhaseOf("Finished") = "Finished"
  /\ Promise!CallbackOf("Initializing") = "initialize"
  /\ Promise!CallbackOf("Processing") = "process"
  /\ Promise!CallbackOf("Closing") = "shutdown"
  BY DEF PhaseOf, Promise!CallbackOf

LEMMA LifeStepMapped ==
  ASSUME TypeInv, DriverInv, LifeInv, NEW t \in Procs, NEW p \in Procs, LifeStep(t, p)
  PROVE  (\E q \in Procs : \/ Promise!Begin(q) \/ Promise!Heed(q) \/ Promise!Enter(q)
                           \/ Promise!Answer(q) \/ Promise!Finish(q))
         \/ Stutters
<1> DEFINE r == rt[p]
           Promised == Promise!Begin(p) \/ Promise!Heed(p) \/ Promise!Enter(p)
                         \/ Promise!Answer(p) \/ Promise!Finish(p)
<1>0. /\ r \in RuntimeState /\ LabelFits(pc[t][p], r.state)
      /\ r.canceled \in BOOLEAN
      /\ Put(p, r) <=> rt' = rt
      /\ Phases[p] = PhaseOf(r.state) /\ AllResults[p] = r.success
      /\ Cancels[p] = r.canceled /\ Runnings[p] = Running(p)
  BY DEF TypeInv, TypeOK, RuntimeState, LifeInv, Placed, Put,
         Phases, AllResults, Cancels, Runnings
<1>1. [AllResults EXCEPT ![p] = r.success] = AllResults
  BY <1>0 DEF AllResults
<1>2. [Cancels EXCEPT ![p] = r.canceled] = Cancels
  BY <1>0 DEF Cancels
<1>3. [Phases EXCEPT ![p] = PhaseOf(r.state)] = Phases
  BY <1>0 DEF Phases
<1>4. ASSUME NEW label, NEW s, NEW state, Turn(t, p, s, label),
             Reads(s, state, r.success, r.canceled)
      PROVE  /\ Phases' = [Phases EXCEPT ![p] = PhaseOf(state)]
             /\ UNCHANGED <<AllResults, Cancels>>
             /\ Runnings' = [Runnings EXCEPT ![p] =
                               IF label \in Callbacks THEN label ELSE "none"]
             /\ Runnings[p] = IF pc[t][p] \in Callbacks THEN pc[t][p] ELSE "none"
  <2>1. /\ s \in RuntimeState /\ s.state = state
        /\ s.success = r.success /\ s.canceled = r.canceled
    BY <1>4 DEF Reads
  <2>2. Mapped(t, p, s, label)
    BY <1>4, <2>1, TurnMapped
  <2> QED
    BY <1>0, <1>1, <1>2, <2>1, <2>2 DEF Mapped
<1>5. CASE LeaveExistent(t, p)
  <2> DEFINE state == IF r.canceled THEN "FinishedPrepare" ELSE "Initializing"
             s == [r EXCEPT !.state = state]
  <2>1. state \in AbstractState
    BY DEF AbstractState
  <2>2. Turn(t, p, s, "Idle") /\ r.state = "Existent"
    BY <1>5 DEF Turn, LeaveExistent, AtArm, EndTick
  <2>3. pc[t][p] \notin Callbacks
    BY <1>5 DEF LeaveExistent, AtArm, Callbacks
  <2>4. PhaseOf(state) = IF Cancels[p] THEN "Closed" ELSE "Initializing"
    BY <1>0, PhasesAre
  <2> HIDE DEF state
  <2>5. Reads(s, state, r.success, r.canceled)
    BY <1>0, <2>1, MappedUpdates
  <2> HIDE DEF s
  <2>6. /\ Phases' = [Phases EXCEPT ![p] = PhaseOf(state)]
        /\ UNCHANGED <<AllResults, Cancels>>
        /\ Runnings' = [Runnings EXCEPT ![p] = "none"] /\ Runnings[p] = "none"
    BY <1>4, <2>2, <2>3, <2>5 DEF Callbacks
  <2>7. UNCHANGED Runnings
    BY <2>6 DEF Runnings
  <2>8. Phases[p] = "Waiting"
    BY <1>0, <2>2, PhasesAre
  <2>9. Promise!Begin(p)
    BY <2>4, <2>6, <2>7, <2>8, PromiseActions
  <2> QED
    BY <2>9
<1>6. CASE SeeCanceled(t, p)
  <2> DEFINE s == [r EXCEPT !.state = "DownShutting"]
  <2>1. Reads(s, "DownShutting", r.success, r.canceled)
    BY <1>0, MappedUpdates DEF AbstractState
  <2>2. Turn(t, p, s, "Idle")
    BY <1>6 DEF Turn, SeeCanceled, AtArm, EndTick
  <2>3. pc[t][p] \notin Callbacks
    BY <1>6 DEF SeeCanceled, AtArm, Callbacks
  <2> HIDE DEF s
  <2>4. Phases[p] \in {"Initializing", "Processing"} /\ Cancels[p]
    BY <1>0, <1>6, PhasesAre DEF SeeCanceled, AtArm
  <2>5. /\ Phases' = [Phases EXCEPT ![p] = PhaseOf("DownShutting")]
        /\ UNCHANGED <<AllResults, Cancels>>
        /\ Runnings' = [Runnings EXCEPT ![p] = "none"] /\ Runnings[p] = "none"
    BY <1>4, <2>1, <2>2, <2>3 DEF Callbacks
  <2>6. UNCHANGED Runnings
    BY <2>5 DEF Runnings
  <2>7. Promise!Heed(p)
    BY <2>4, <2>5, <2>6, PhasesAre, PromiseActions
  <2> QED
    BY <2>7
<1>7. ASSUME NEW label, label \notin Callbacks, Goto(t, p, label), rt' = rt,
             pc[t][p] \notin Callbacks, pc[t][p] # "Idle",
             \A u, q \in Procs : u # t \/ q # p => todo'[u][q] = todo[u][q]
      PROVE  Stutters
  <2>1. Turn(t, p, r, label) /\ Reads(r, r.state, r.success, r.canceled)
    BY <1>0, <1>7, MappedUpdates DEF Turn
  <2>2. Runnings' = [Runnings EXCEPT ![p] = Runnings[p]]
    BY <1>4, <1>7, <2>1
  <2> QED
    BY <1>7, <2>2 DEF Stutters, Runnings, Phases, AllResults, Cancels
<1>8. CASE SeeNotCanceled(t, p)
  BY <1>7, <1>8 DEF SeeNotCanceled, AtArm, Callbacks
<1>9. CASE ReleaseChildren(t, p)
  BY <1>7, <1>9 DEF ReleaseChildren, AtArm, Callbacks, TypeInv, TypeOK
<1>10. CASE EnterInitialize(t, p) \/ EnterProcess(t, p) \/ EnterShutdown(t, p)
  <2>1. PICK f \in Callbacks : Enter(t, p, f) /\ Promise!CallbackOf(PhaseOf(r.state)) = f
    BY <1>0, <1>10, PhasesAre
    DEF EnterInitialize, EnterProcess, EnterShutdown, LabelFits, AtArm, Callbacks
  <2>2. Turn(t, p, r, f) /\ pc[t][p] \notin Callbacks
    BY <1>0, <1>10, <2>1
    DEF EnterInitialize, EnterProcess, EnterShutdown, Enter, Turn, AtArm, Callbacks
  <2>3. Reads(r, r.state, r.success, r.canceled)
    BY <1>0, MappedUpdates
  <2>4. /\ Runnings[p] = "none" /\ Runnings' = [Runnings EXCEPT ![p] = f]
        /\ UNCHANGED <<Phases, AllResults, Cancels>>
    BY <1>3, <1>4, <2>1, <2>2, <2>3
  <2>5. Promise!Enter(p)
    BY <1>0, <2>1, <2>4, PromiseActions DEF Callbacks
  <2> QED
    BY <2>5
<1>11. ASSUME NEW f \in Callbacks, NEW s, NEW state, NEW success,
              Return(t, p, f, s), Reads(s, state, success, r.canceled),
              Answered(p, f, success, PhaseOf(state))
       PROVE  Promise!Answer(p)
  <2>1. Turn(t, p, s, "Idle") /\ pc[t][p] = f
    BY <1>11 DEF Turn, Return, EndTick, Callbacks
  <2>2. /\ s \in RuntimeState /\ s.state = state
        /\ s.success = success /\ s.canceled = r.canceled
    BY <1>11 DEF Reads
  <2>3. Mapped(t, p, s, "Idle")
    BY <2>1, <2>2, TurnMapped
  <2>4. /\ Runnings[p] = f /\ Runnings' = [Runnings EXCEPT ![p] = "none"]
        /\ Phases' = [Phases EXCEPT ![p] = PhaseOf(state)]
        /\ AllResults' = [AllResults EXCEPT ![p] = success]
        /\ UNCHANGED Cancels
    BY <1>0, <1>2, <2>1, <2>2, <2>3 DEF Mapped, Callbacks
  <2> QED
    BY <1>11, <2>4, PromiseAnswer
<1>12. CASE ReturnPending(t, p)
  <2>1. PICK f \in Callbacks : Return(t, p, f, r)
    BY <1>12 DEF ReturnPending
  <2>2. Reads(r, r.state, r.success, r.canceled)
    BY <1>0, MappedUpdates
  <2>3. Answered(p, f, r.success, PhaseOf(r.state))
    BY <1>0 DEF Answered
  <2>4. Promise!Answer(p)
    BY <1>11, <2>1, <2>2, <2>3
  <2> QED
    BY <2>4
<1>13. CASE ReturnInitialize(t, p)
  <2> DEFINE s1 == [r EXCEPT !.initDone = TRUE, !.state = "Processing"]
             s2 == [r EXCEPT !.success = "Negative", !.state = "DownShutting"]
  <2>1. /\ Reads(s1, "Processing", r.success, r.canceled)
        /\ Reads(s2, "DownShutting", "Negative", r.canceled)
    BY <1>0, MappedUpdates DEF Success
  <2>2. Return(t, p, "initialize", s1) \/ Return(t, p, "initialize", s2)
    BY <1>13 DEF ReturnInitialize
  <2> HIDE DEF s1, s2
  <2>3. /\ Answered(p, "initialize", r.success, PhaseOf("Processing"))
        /\ Answered(p, "initialize", "Negative", PhaseOf("DownShutting"))
    BY <1>0, PhasesAre DEF Answered
  <2>4. Promise!Answer(p)
    BY <1>11, <2>1, <2>2, <2>3 DEF Callbacks
  <2> QED
    BY <2>4
<1>14. CASE ReturnProcess(t, p)
  <2>1. PICK v \in Success \ {"Pending"} :
          Return(t, p, "process", [r EXCEPT !.success = v, !.processDone = TRUE,
                                            !.state = "DownShutting"])
    BY <1>14 DEF ReturnProcess
  <2> DEFINE s == [r EXCEPT !.success = v, !.processDone = TRUE, !.state = "DownShutting"]
  <2>2. Reads(s, "DownShutting", v, r.canceled)
    BY <1>0, MappedUpdates
  <2>3. Return(t, p, "process", s)
    BY <2>1
  <2> HIDE DEF s
  <2>4. Answered(p, "process", v, PhaseOf("DownShutting"))
    BY PhasesAre DEF Answered, Success
  <2>5. Promise!Answer(p)
    BY <1>11, <2>2, <2>3, <2>4 DEF Callbacks
  <2> QED
    BY <2>5
<1>15. CASE ReturnShutdown(t, p)
  <2> DEFINE s == [r EXCEPT !.shutdownDone = TRUE, !.state = "ChildrenUnusedSet"]
  <2>1. Reads(s, "ChildrenUnusedSet", r.success, r.canceled)
    BY <1>0, MappedUpdates
  <2>2. Return(t, p, "shutdown", s)
    BY <1>15 DEF ReturnShutdown
  <2> HIDE DEF s
  <2>3. Answered(p, "shutdown", r.success, PhaseOf("ChildrenUnusedSet"))
    BY <1>0, PhasesAre DEF Answered
  <2>4. Promise!Answer(p)
    BY <1>11, <2>1, <2>2, <2>3 DEF Callbacks
  <2> QED
    BY <2>4
<1>16. CASE EndRelease(t, p)
  <2> DEFINE s == [r EXCEPT !.state = "FinishedPrepare"]
  <2>1. Reads(s, "FinishedPrepare", r.success, r.canceled)
    BY <1>0, MappedUpdates DEF AbstractState
  <2>2. Turn(t, p, s, "Idle") /\ pc[t][p] = "Unuse"
    BY <1>16 DEF Turn, EndRelease, EndTick
  <2> HIDE DEF s
  <2>3. PhaseOf("FinishedPrepare") = PhaseOf(r.state)
    BY <1>0, <2>2, PhasesAre DEF LabelFits
  <2>4. /\ UNCHANGED <<Phases, AllResults, Cancels>>
        /\ Runnings' = [Runnings EXCEPT ![p] = "none"] /\ Runnings[p] = "none"
    BY <1>3, <1>4, <2>1, <2>2, <2>3 DEF Callbacks
  <2> QED
    BY <2>4 DEF Stutters, Runnings
<1>17. CASE Finish(t, p)
  <2> DEFINE s == IF r.whenFinishedUnused THEN Unused(r) ELSE r
             w == [s EXCEPT !.state = "Finished"]
  <2>1. /\ s \in RuntimeState /\ s.success = r.success
        /\ s.canceled = r.canceled \/ s.canceled = TRUE
    BY <1>0, MappedUpdates DEF Reads
  <2>2. Turn(t, p, w, "Idle")
    BY <1>17 DEF Turn, Finish, AtArm, EndTick
  <2>3. r.state = "FinishedPrepare" /\ pc[t][p] \notin Callbacks
    BY <1>17 DEF Finish, AtArm, Callbacks
  <2> HIDE DEF s
  <2>4. Reads(w, "Finished", s.success, s.canceled)
    BY <2>1, MappedUpdates DEF AbstractState
  <2> HIDE DEF w
  <2>5. /\ w \in RuntimeState /\ w.state = "Finished" /\ w.success = r.success
        /\ w.canceled = r.canceled \/ w.canceled = TRUE
    BY <2>1, <2>4 DEF Reads
  <2>6. \E late \in BOOLEAN : w.canceled = (Cancels[p] \/ late)
    BY <1>0, <2>5
  <2>7. Mapped(t, p, w, "Idle")
    BY <2>2, <2>5, TurnMapped
  <2>8. /\ Phases' = [Phases EXCEPT ![p] = "Finished"] /\ UNCHANGED AllResults
        /\ Cancels' = [Cancels EXCEPT ![p] = w.canceled]
        /\ Runnings' = [Runnings EXCEPT ![p] = "none"] /\ Runnings[p] = "none"
    BY <1>0, <1>1, <2>3, <2>5, <2>7, PhasesAre DEF Mapped, Callbacks
  <2>9. Phases[p] = "Closed" /\ UNCHANGED Runnings
    BY <1>0, <2>3, <2>8, PhasesAre DEF Runnings
  <2>10. Promise!Finish(p)
    BY <2>6, <2>8, <2>9, PromiseActions
  <2> QED
    BY <2>10
<1> QED
  BY <1>5, <1>6, <1>8, <1>9, <1>10, <1>12, <1>13, <1>14, <1>15, <1>16, <1>17
  DEF LifeStep

LEMMA InitMapped == Init => Promise!Init
<1> SUFFICES ASSUME Init
             PROVE  Promise!Init
  OBVIOUS
<1>1. \A p \in Procs : /\ rt[p].state = "Existent" /\ rt[p].success = "Pending"
                       /\ rt[p].canceled = FALSE
                       /\ \A t \in Procs : pc[t][p] = "Idle"
  BY DEF Init, NewRuntimeState
<1>2. \A p \in Procs : Running(p) = "none"
  BY <1>1 DEF Running, Callbacks
<1> QED
  BY <1>1, <1>2, PhasesAre DEF Promise!Init

LEMMA NextMapped ==
  TypeInv /\ DriverInv /\ LifeInv /\ TypeInv' /\ [Next]_vars
    => [Promise!Next]_(Promise!lifecycle)
<1> SUFFICES ASSUME TypeInv, DriverInv, LifeInv, TypeInv', [Next]_vars
             PROVE  Promise!Next \/ UNCHANGED Promise!lifecycle
  OBVIOUS
<1>1. Stutters => UNCHANGED Promise!lifecycle
  BY DEF Stutters, Promise!lifecycle, Phases, Runnings, AllResults, Cancels
<1>2. ASSUME NEW c \in Procs, Raises(c)
      PROVE  Promise!Next
  BY <1>2, RaisesMapped DEF Promise!Next
<1>3. ASSUME NEW t \in Procs, NEW p \in Procs, LifeStep(t, p)
      PROVE  Promise!Next \/ Stutters
  BY <1>3, LifeStepMapped DEF Promise!Next
<1> QED
  BY <1>1, <1>2, <1>3, StepsOfLife, CalmMapped, ReleaseRaises

\* A handle keeps the promise of Lifecycle (KeepsPromise): whatever threads drive
\* it and whoever cancels it, every step of the tree is a step of the life of
\* one process, or of none.
THEOREM PromiseAlwaysKept ==
  ASSUME ~Retries
  PROVE  Spec => KeepsPromise
<1>1. Init => Promise!Init
  BY InitMapped
<1>2. TypeInv /\ DriverInv /\ LifeInv /\ TypeInv' /\ [Next]_vars
        => [Promise!Next]_(Promise!lifecycle)
  BY NextMapped
<1>3. Promise!Spec <=> Promise!Init /\ [][Promise!Next]_(Promise!lifecycle)
  BY PTL DEF Promise!Spec
<1> QED
  BY <1>1, <1>2, <1>3, LifeInvariant, PTL DEF Spec, KeepsPromise

-----------------------------------------------------------------------------
(* What is left of a tree: a child leaves it only when it is settled       *)
(* (RemovedIsSettled), and when drive_until_finished of the root has       *)
(* returned nothing runs any more (NoThreadOutlivesRoot), so that it does  *)
(* not return if a child was started with ExternalDriver                   *)
(* (ExternalChildHoldsRoot).  For every tree of handles.                   *)
(*                                                                         *)
(* A started process is a child of somebody until it has been marked as    *)
(* undriven and released (Held), it is marked only when it has finished    *)
(* and has no children (UndrivenSettled), and a thread that still runs     *)
(* once its process is no child is being joined (Joined).  So every        *)
(* process that is not over yet has a parent that is not over either, and  *)
(* the parents lead to the root (WellRooted).                              *)

HasParent(c) == \E p \in Procs : c \in rt[p].children
Joins(t, p, c) == pc[t][p] = "Join" /\ cur[t][p] = c

\* Nobody starts the root.
RootApart == ~rt[Root].started /\ rt[Root].driverMode = "ExternalDriver"

UndrivenSettled ==
  \A c \in Procs :
    rt[c].undriven =>
      rt[c].started /\ rt[c].driverMode # "ExternalDriver" /\ ~Progress(c)

\* A loop ends when its process has; only a worker marks it.
LoopSettled ==
  \A t \in Procs :
    /\ loop[t] \in {"Mark", "Exited"} => ~Progress(t)
    /\ loop[t] = "Mark" => rt[t].driverMode # "ExternalDriver"

\* Only its own thread, begun again, still ticks a process that is undriven.
UndrivenTick == \A t, c \in Procs : rt[c].undriven /\ Ticking(t, c) => t = c

Held ==
  \A c \in Procs : rt[c].started => HasParent(c) \/ (rt[c].undriven /\ rt[c].unused)

Joined ==
  \A c \in Procs :
    rt[c].started /\ Active(c) => HasParent(c) \/ \E t, p \in Procs : Joins(t, p, c)

\* Only a process that was started has children, or the root; the parents of any
\* set of started processes lead out of it.
Rooted(p) == p = Root \/ rt[p].started

ParentsRooted == \A p \in Procs : rt[p].children # {} => Rooted(p)

WellRooted ==
  \A S \in SUBSET Procs :
    S # {} /\ (\A c \in S : rt[c].started) =>
      \E c \in S, p \in Procs \ S : IsChild(p, c) /\ Rooted(p)

TreeInv ==
  /\ RootApart /\ UndrivenSettled /\ LoopSettled /\ UndrivenTick
  /\ Held /\ Joined /\ ParentsRooted /\ WellRooted

-----------------------------------------------------------------------------

LEMMA InitTree == Init => TreeInv
<1> SUFFICES ASSUME Init
             PROVE  TreeInv
  OBVIOUS
<1>1. /\ Root \in Procs
      /\ \A p \in Procs : /\ ~rt[p].started /\ ~rt[p].undriven
                          /\ rt[p].driverMode = "ExternalDriver"
                          /\ rt[p].children = {}
                          /\ loop[p] \notin {"Mark", "Exited"}
  BY ProcsAssumption DEF Init, NewRuntimeState
<1>2. WellRooted
  BY <1>1 DEF WellRooted
<1> QED
  BY <1>1, <1>2
  DEF TreeInv, RootApart, UndrivenSettled, LoopSettled, UndrivenTick, Held, Joined,
      ParentsRooted

\* A frame of a process is the root's or that of a started process.
LEMMA TickedIsRooted ==
  ASSUME TypeInv, DriverInv, NEW t \in Procs, NEW p \in Procs, Ticking(t, p)
  PROVE  Rooted(p)
<1>1. CASE t = p
  BY <1>1 DEF DriverInv, TickJustified, LoopStarted, Rooted
<1>2. CASE t # p
  <2>1. PICK q \in Procs : Drives(t, q, p)
    BY <1>2 DEF DriverInv, TickJustified
  <2> QED
    BY <2>1, ProcsAssumption DEF DriverInv, CurStarted, Drives, Runs, Rooted
<1> QED
  BY <1>1, <1>2

-----------------------------------------------------------------------------
(* A process that has finished and has no children stays so.               *)

LEMMA LifeStepNotFinished ==
  ASSUME TypeInv, LifeInv, NEW t \in Procs, NEW p \in Procs, LifeStep(t, p)
  PROVE  rt[p].state # "Finished"
<1>1. LabelFits(pc[t][p], rt[p].state)
  BY DEF LifeInv, Placed
<1> QED
  BY <1>1
  DEF LifeStep, LeaveExistent, SeeCanceled, SeeNotCanceled, EnterInitialize,
      EnterProcess, EnterShutdown, ReturnPending, ReturnInitialize, ReturnProcess,
      ReturnShutdown, ReleaseChildren, EndRelease, Finish, AtArm, Return, LabelFits,
      Callbacks

\* r is as much part of the tree as s.
SameTree(r, s) ==
  /\ r.started = s.started /\ r.driverMode = s.driverMode
  /\ r.undriven = s.undriven /\ r.children = s.children
  /\ s.unused => r.unused

LEMMA SameTreeUpdates ==
  ASSUME NEW r \in RuntimeState
  PROVE  /\ \A v : SameTree([r EXCEPT !.state = v], r)
         /\ \A v, s : SameTree([r EXCEPT !.success = v, !.state = s], r)
         /\ \A v, s : SameTree([r EXCEPT !.success = v, !.processDone = TRUE,
                                         !.state = s], r)
         /\ \A s : SameTree([r EXCEPT !.initDone = TRUE, !.state = s], r)
         /\ \A s : SameTree([r EXCEPT !.shutdownDone = TRUE, !.state = s], r)
         /\ \A v : SameTree([r EXCEPT !.worker = v], r)
         /\ SameTree([r EXCEPT !.canceled = TRUE], r)
         /\ SameTree([r EXCEPT !.whenFinishedUnused = TRUE], r)
         /\ SameTree(Unused(r), r)
         /\ SameTree(r, r)
  BY DEF SameTree, RuntimeState, Unused

TreesStay == \A q \in Procs : SameTree(rt'[q], rt[q])

LEMMA PutTree ==
  ASSUME TypeInv, NEW p \in Procs, NEW r \in RuntimeState, SameTree(r, rt[p]), Put(p, r)
  PROVE  TreesStay /\ \A q \in Procs \ {p} : rt'[q] = rt[q]
<1>1. rt'[p] = r /\ \A q \in Procs \ {p} : rt'[q] = rt[q]
  BY PutTypes DEF TypeInv, TypeOK
<1> QED
  BY <1>1 DEF TreesStay, SameTree

\* Nothing moves but p, and that only towards its end: no frame is entered and
\* none that joins is left.
TurnsAlone(p) ==
  /\ TreesStay /\ \A q \in Procs \ {p} : rt'[q] = rt[q]
  /\ \A u, q \in Procs : /\ Ticking(u, q)' => Ticking(u, q)
                         /\ pc[u][q] = "Join" => pc'[u][q] = "Join"

LEMMA EndTickTree ==
  ASSUME TypeInv, NEW t \in Procs, NEW p \in Procs, NEW r \in RuntimeState,
         SameTree(r, rt[p]), EndTick(t, p, r), pc[t][p] # "Join"
  PROVE  TurnsAlone(p)
<1>1. TreesStay /\ \A q \in Procs \ {p} : rt'[q] = rt[q]
  BY PutTree DEF EndTick
<1> QED
  BY <1>1 DEF TurnsAlone, EndTick, Goto, Ticking, TypeInv, TypeOK

\* A step that takes a process further leaves the tree as it is.
LEMMA LifeStepTree ==
  ASSUME TypeInv, NEW t \in Procs, NEW p \in Procs, LifeStep(t, p)
  PROVE  TurnsAlone(p)
<1>0. \A q \in Procs : rt[q] \in RuntimeState
  BY DEF TypeInv, TypeOK
<1>1. ASSUME NEW r \in RuntimeState, SameTree(r, rt[p]), EndTick(t, p, r),
             pc[t][p] # "Join"
      PROVE  TurnsAlone(p)
  BY <1>1, EndTickTree
<1>2. ASSUME NEW label, Goto(t, p, label), pc[t][p] \notin {"Idle", "Join"}, rt' = rt
      PROVE  TurnsAlone(p)
  BY <1>0, <1>2, SameTreeUpdates DEF TurnsAlone, Goto, Ticking, TreesStay, TypeInv, TypeOK
<1>3. CASE LeaveExistent(t, p) \/ SeeCanceled(t, p) \/ EndRelease(t, p)
  <2>1. PICK v \in AbstractState : EndTick(t, p, [rt[p] EXCEPT !.state = v])
    BY <1>3 DEF LeaveExistent, SeeCanceled, EndRelease, AbstractState
  <2> DEFINE s == [rt[p] EXCEPT !.state = v]
  <2>2. s \in RuntimeState /\ SameTree(s, rt[p]) /\ pc[t][p] # "Join"
    BY <1>0, <1>3, RecordTypes, SameTreeUpdates
    DEF LeaveExistent, SeeCanceled, EndRelease, AtArm
  <2>3. EndTick(t, p, s)
    BY <2>1
  <2> HIDE DEF s
  <2> QED
    BY <1>1, <2>2, <2>3
<1>4. CASE Finish(t, p)
  <2> DEFINE r == IF rt[p].whenFinishedUnused THEN Unused(rt[p]) ELSE rt[p]
             s == [r EXCEPT !.state = "Finished"]
  <2>1. EndTick(t, p, s) /\ pc[t][p] # "Join"
    BY <1>4 DEF Finish, AtArm
  <2>2. r \in RuntimeState /\ SameTree(r, rt[p])
    BY <1>0, RecordTypes, SameTreeUpdates
  <2> HIDE DEF r
  <2>3. s \in RuntimeState /\ SameTree(s, r)
    BY <2>2, RecordTypes, SameTreeUpdates DEF AbstractState
  <2> HIDE DEF s
  <2>4. SameTree(s, rt[p])
    BY <2>2, <2>3 DEF SameTree
  <2> QED
    BY <1>1, <2>1, <2>3, <2>4
<1>5. ASSUME NEW f \in Callbacks, NEW r \in RuntimeState, SameTree(r, rt[p]),
             Return(t, p, f, r)
      PROVE  TurnsAlone(p)
  BY <1>1, <1>5 DEF Return, Callbacks
<1>6. CASE ReturnPending(t, p)
  BY <1>0, <1>5, <1>6, SameTreeUpdates DEF ReturnPending
<1>7. CASE ReturnInitialize(t, p)
  <2> DEFINE s1 == [rt[p] EXCEPT !.initDone = TRUE, !.state = "Processing"]
             s2 == [rt[p] EXCEPT !.success = "Negative", !.state = "DownShutting"]
  <2>1. Return(t, p, "initialize", s1) \/ Return(t, p, "initialize", s2)
    BY <1>7 DEF ReturnInitialize
  <2>2. /\ s1 \in RuntimeState /\ SameTree(s1, rt[p])
        /\ s2 \in RuntimeState /\ SameTree(s2, rt[p])
    BY <1>0, RecordTypes, SameTreeUpdates DEF AbstractState, Success
  <2> HIDE DEF s1, s2
  <2> QED
    BY <1>5, <2>1, <2>2 DEF Callbacks
<1>8. CASE ReturnProcess(t, p)
  <2>1. PICK v \in Success :
          Return(t, p, "process", [rt[p] EXCEPT !.success = v, !.processDone = TRUE,
                                                !.state = "DownShutting"])
    BY <1>8 DEF ReturnProcess
  <2> DEFINE s == [rt[p] EXCEPT !.success = v, !.processDone = TRUE,
                                !.state = "DownShutting"]
  <2>2. s \in RuntimeState /\ SameTree(s, rt[p])
    BY <1>0, RecordTypes, SameTreeUpdates DEF AbstractState
  <2>3. Return(t, p, "process", s)
    BY <2>1
  <2> HIDE DEF s
  <2> QED
    BY <1>5, <2>2, <2>3 DEF Callbacks
<1>9. CASE ReturnShutdown(t, p)
  <2> DEFINE s == [rt[p] EXCEPT !.shutdownDone = TRUE, !.state = "ChildrenUnusedSet"]
  <2>1. s \in RuntimeState /\ SameTree(s, rt[p])
    BY <1>0, RecordTypes, SameTreeUpdates DEF AbstractState
  <2>2. Return(t, p, "shutdown", s)
    BY <1>9 DEF ReturnShutdown
  <2> HIDE DEF s
  <2> QED
    BY <1>5, <2>1, <2>2 DEF Callbacks
<1>10. CASE \/ SeeNotCanceled(t, p) \/ ReleaseChildren(t, p)
            \/ EnterInitialize(t, p) \/ EnterProcess(t, p) \/ EnterShutdown(t, p)
  BY <1>2, <1>10
  DEF SeeNotCanceled, ReleaseChildren, EnterInitialize, EnterProcess, EnterShutdown,
      Enter, AtArm
<1> QED
  BY <1>3, <1>4, <1>6, <1>7, <1>8, <1>9, <1>10 DEF LifeStep

LEMMA LifeStepStays ==
  ASSUME NEW t, NEW p, LifeStep(t, p)
  PROVE  UNCHANGED <<cur, loop>>
BY DEF LifeStep, LeaveExistent, SeeCanceled, SeeNotCanceled, EnterInitialize,
       EnterProcess, EnterShutdown, ReturnPending, ReturnInitialize, ReturnProcess,
       ReturnShutdown, ReleaseChildren, EndRelease, Finish, Return, Enter

SettledStay == \A p \in Procs : ~Progress(p) => ~Progress(p)'

LEMMA NextSettled ==
  ASSUME TypeInv, DriverInv, LifeInv, [Next]_vars
  PROVE  SettledStay
<1>1. CASE Calm
  <2> SUFFICES ASSUME NEW p \in Procs, ~Progress(p)
               PROVE  ~Progress(p)'
    BY DEF SettledStay
  <2>1. rt[p].state = "Finished" /\ rt[p].children = {} /\ rt'[p].state = "Finished"
    BY <1>1 DEF Calm, LivesStay, SameLife, Progress
  <2>2. \A t \in Procs : pc[t][p] \notin Callbacks
    BY <2>1 DEF LifeInv, Placed, LabelFits, Callbacks
  <2>3. rt'[p].children \subseteq rt[p].children
    BY <1>1, <2>2 DEF Calm, ChildrenCalm
  <2> QED
    BY <2>1, <2>3 DEF Progress
<1>2. ASSUME NEW c \in Procs, Raises(c)
      PROVE  SettledStay
  BY <1>2 DEF Raises, SameLife, SettledStay, Progress
<1>3. ASSUME NEW t \in Procs, NEW p \in Procs, LifeStep(t, p)
      PROVE  SettledStay
  BY <1>3, LifeStepNotFinished, LifeStepTree DEF TurnsAlone, SettledStay, Progress
<1> QED
  BY <1>1, <1>2, <1>3, StepsOfLife, ReleaseRaises

-----------------------------------------------------------------------------
(* The steps that start nothing.                                           *)

\* What may be marked as undriven: a process that is over, and that nobody
\* ticks but its own thread.
Over(q) ==
  /\ rt[q].started /\ rt[q].driverMode # "ExternalDriver" /\ ~Progress(q)
  /\ \A u \in Procs \ {q} : ~Ticking(u, q)'

\* Who leaves the tree is joined.
Leaves(q) ==
  /\ rt'[q].undriven /\ rt'[q].unused
  /\ \E t, p \in Procs : Joins(t, p, q)'

RuntimesKept ==
  \A q \in Procs :
    /\ rt'[q].started = rt[q].started /\ rt'[q].driverMode = rt[q].driverMode
    /\ rt[q].undriven => rt'[q].undriven
    /\ rt'[q].undriven => rt[q].undriven \/ Over(q)
    /\ rt[q].unused => rt'[q].unused
    /\ rt'[q].children \subseteq rt[q].children
    /\ \A c \in rt[q].children : c \in rt'[q].children \/ Leaves(c)

LoopsKept ==
  \A t \in Procs :
    /\ Active(t)' => Active(t) \/ rt[t].driverMode = "ExternalDriver"
    /\ loop'[t] \in {"Mark", "Exited"} => loop[t] \in {"Mark", "Exited"} \/ ~Progress(t)
    /\ loop'[t] = "Mark" => loop[t] = "Mark" \/ rt[t].driverMode # "ExternalDriver"

FramesKept ==
  \A t, p \in Procs :
    /\ Ticking(t, p)' => Ticking(t, p) \/ t = p \/ ~rt[p].undriven
    /\ \A c \in Procs : Joins(t, p, c) => Joins(t, p, c)' \/ ~Active(c)
                              \/ rt[c].driverMode = "ExternalDriver"

TreeKept == RuntimesKept /\ LoopsKept /\ FramesKept /\ SettledStay

LEMMA TreeKeptKeeps ==
  ASSUME TypeInv, TreeInv, TreeKept
  PROVE  TreeInv'
<1> USE DEF TreeInv, TreeKept
<1>1. RootApart'
  BY ProcsAssumption DEF RootApart, RuntimesKept
<1>2. UndrivenSettled'
  BY DEF UndrivenSettled, RuntimesKept, SettledStay, Over
<1>3. LoopSettled'
  BY DEF LoopSettled, LoopsKept, RuntimesKept, SettledStay
<1>4. UndrivenTick'
  <2> SUFFICES ASSUME NEW t \in Procs, NEW c \in Procs,
                      rt'[c].undriven, Ticking(t, c)', t # c
               PROVE  FALSE
    BY DEF UndrivenTick
  <2>1. rt[c].undriven
    BY DEF RuntimesKept, Over
  <2> QED
    BY <2>1 DEF FramesKept, UndrivenTick
<1>5. ASSUME NEW c \in Procs, HasParent(c)
      PROVE  HasParent(c)' \/ Leaves(c)
  BY <1>5 DEF HasParent, RuntimesKept
<1>6. Held'
  <2> SUFFICES ASSUME NEW c \in Procs, rt'[c].started
               PROVE  HasParent(c)' \/ (rt'[c].undriven /\ rt'[c].unused)
    BY DEF Held
  <2>1. HasParent(c) \/ (rt[c].undriven /\ rt[c].unused)
    BY DEF RuntimesKept, Held
  <2> QED
    BY <1>5, <2>1 DEF RuntimesKept, Leaves
<1>7. Joined'
  <2> SUFFICES ASSUME NEW c \in Procs, rt'[c].started, Active(c)'
               PROVE  HasParent(c)' \/ \E t, p \in Procs : Joins(t, p, c)'
    BY DEF Joined
  <2>1. CASE HasParent(c)
    BY <1>5, <2>1 DEF Leaves
  <2>2. CASE ~HasParent(c)
    <3>1. rt[c].started /\ rt[c].undriven
      BY <2>2 DEF RuntimesKept, Held
    <3>2. Active(c)
      BY <3>1 DEF LoopsKept, UndrivenSettled
    <3>3. PICK t \in Procs, p \in Procs : Joins(t, p, c)
      BY <2>2, <3>1, <3>2 DEF Joined
    <3> QED
      BY <3>1, <3>2, <3>3 DEF FramesKept, UndrivenSettled
  <2> QED
    BY <2>1, <2>2
<1>8. ParentsRooted' /\ WellRooted'
  BY DEF ParentsRooted, WellRooted, Rooted, RuntimesKept
<1> QED
  BY <1>1, <1>2, <1>3, <1>4, <1>6, <1>7, <1>8

\* A step that leaves trees and loops as they are, enters no frame but to a
\* driven child or to its own process, and leaves no frame that joins.
LEMMA StillTree ==
  ASSUME TreesStay, LoopsKept, SettledStay,
         \A u, q \in Procs :
           /\ Ticking(u, q)' => Ticking(u, q) \/ u = q \/ ~rt[q].undriven
           /\ pc[u][q] = "Join" => pc'[u][q] = "Join" /\ cur'[u][q] = cur[u][q]
  PROVE  TreeKept
BY DEF TreeKept, TreesStay, SameTree, RuntimesKept, FramesKept, Joins

LEMMA SameLoops == loop' = loop => LoopsKept
BY DEF LoopsKept, Active

\* Once the tick of a driven child has ended nobody ticks it.
LEMMA ReturnedIsIdle ==
  ASSUME TypeInv, DriverInv, NEW t \in Procs, NEW p \in Procs, DriveReturn(t, p)
  PROVE  LET c == cur[t][p]
         IN  /\ c \in Procs /\ Runs(p, c) /\ p # c /\ rt[c].driverMode = "Parent"
             /\ \A u \in Procs : ~Ticking(u, c)
<1> USE DEF DriverInv
<1> DEFINE c == cur[t][p]
<1>1. c \in Procs /\ Runs(p, c) /\ p # c
  BY NotItsOwnChild DEF DriveReturn
<1>2. Drives(t, p, c) /\ ~Ticking(t, c)
  BY DEF DriveReturn, Drives, Ticking
<1> HIDE DEF c
<1>3. rt[c].driverMode = "Parent"
  BY <1>1, <1>2 DEF DrivenByParents
<1>4. ASSUME NEW u \in Procs, Ticking(u, c)
      PROVE  FALSE
  <2>1. u # c
    BY <1>1, <1>3, <1>4 DEF TickJustified, LoopStarted, Active
  <2>2. PICK q \in Procs : Drives(u, q, c)
    BY <1>1, <1>4, <2>1 DEF TickJustified
  <2>3. q = p
    BY <1>1, <2>2, OneParent, ProcsAssumption DEF CurStarted, Drives, Runs
  <2>4. u = t
    BY <1>2, <2>2, <2>3 DEF OneDriver, Drives, Ticking
  <2> QED
    BY <1>2, <1>4, <2>4
<1> QED
  BY <1>1, <1>3, <1>4 DEF c

\* The end of the visit of a child, which may be over by now.
LEMMA SettleTree ==
  ASSUME TypeInv, DriverInv, SettledStay,
         NEW t \in Procs, NEW p \in Procs, NEW c \in Procs, p # c,
         NEW r \in RuntimeState, SettleChild(t, p, c, r),
         r.started = rt[c].started, r.driverMode = rt[c].driverMode,
         r.children = rt[c].children, rt[c].unused => r.unused,
         rt[c].undriven => r.undriven,
         r.undriven => rt[c].undriven
                         \/ (/\ rt[c].started /\ rt[c].driverMode # "ExternalDriver"
                             /\ ~Progress(c) /\ \A u \in Procs : ~Ticking(u, c)),
         pc[t][p] \in {"Children", "Drive"}
  PROVE  TreeKept
<1>1. /\ rt'[c] = r /\ \A q \in Procs \ {p, c} : rt'[q] = rt[q]
      /\ rt'[p].started = rt[p].started /\ rt'[p].driverMode = rt[p].driverMode
      /\ rt'[p].undriven = rt[p].undriven /\ rt'[p].unused = rt[p].unused
      /\ rt'[p].children = IF CanBeRemoved(r) THEN rt[p].children \ {c}
                                              ELSE rt[p].children
  <2> DEFINE cs == rt[p].children \ {c}
  <2>1. cs \in SUBSET Procs /\ rt \in [Procs -> RuntimeState]
    BY DEF TypeInv, TypeOK, RuntimeState
  <2>2. CASE CanBeRemoved(r)
    <3>1. PutChild(c, r, p, cs)
      BY <2>2 DEF SettleChild
    <3> HIDE DEF cs
    <3>2. /\ rt'[c] = r /\ \A q \in Procs \ {p, c} : rt'[q] = rt[q]
          /\ rt'[p].started = rt[p].started /\ rt'[p].driverMode = rt[p].driverMode
          /\ rt'[p].undriven = rt[p].undriven /\ rt'[p].unused = rt[p].unused
          /\ rt'[p].children = cs
      BY <2>1, <3>1, PutChildTypes
    <3> QED
      BY <2>2, <3>2 DEF cs
  <2>3. CASE ~CanBeRemoved(r)
    BY <2>1, <2>3, PutTypes DEF SettleChild
  <2> QED
    BY <2>2, <2>3
<1>2. /\ \A u, q \in Procs : u # t \/ q # p =>
           pc'[u][q] = pc[u][q] /\ cur'[u][q] = cur[u][q]
      /\ CanBeRemoved(r) => pc'[t][p] = "Join" /\ cur'[t][p] = c
      /\ loop' = loop
  BY DEF SettleChild, Goto, TypeInv, TypeOK
<1>3. \A u, q \in Procs : Ticking(u, q)' => Ticking(u, q)
  BY <1>2 DEF Ticking
<1>4. CanBeRemoved(r) => Leaves(c)
  BY <1>1, <1>2 DEF Leaves, CanBeRemoved, Joins
<1>5. /\ rt'[c].undriven => rt[c].undriven \/ Over(c)
      /\ \A q \in Procs : q # c => (rt'[q].undriven = rt[q].undriven)
                                   /\ (rt'[q].unused = rt[q].unused)
  BY <1>1, <1>3 DEF Over
<1>6. \A q \in Procs : \A d \in rt[q].children : d \in rt'[q].children \/ Leaves(d)
  BY <1>1, <1>4
<1>7. RuntimesKept
  BY <1>1, <1>5, <1>6 DEF RuntimesKept
<1>8. FramesKept
  BY <1>2, <1>3 DEF FramesKept, Joins
<1> QED
  BY <1>2, <1>7, <1>8, SameLoops DEF TreeKept

LEMMA TickTree ==
  ASSUME TypeInv, DriverInv, SettledStay,
         NEW t \in Procs, NEW p \in Procs, TickStep(t, p)
  PROVE  TreeKept
<1>0. \A q \in Procs : rt[q] \in RuntimeState
  BY DEF TypeInv, TypeOK
<1>1. ASSUME NEW c \in Procs, ParentalDrive(t, p, c)
      PROVE  TreeKept
  <2>0. /\ p # c /\ \A u \in Procs : ~Ticking(u, c)
        /\ DrivenByParent(c)
    BY <1>1, DrivenIsIdle DEF ParentalDrive
  <2>1. pc[t][c] = "Idle" /\ p # c /\ ~rt[c].undriven
    BY <2>0 DEF Ticking, DrivenByParent
  <2>2. TreesStay /\ LoopsKept
    BY <1>1, SameLoops DEF ParentalDrive, TreesStay, SameTree
  <2>3. \A u, q \in Procs :
          /\ Ticking(u, q)' => Ticking(u, q) \/ (u = t /\ q = c)
          /\ pc[u][q] = "Join" => pc'[u][q] = "Join" /\ cur'[u][q] = cur[u][q]
    BY <1>1, <2>1 DEF ParentalDrive, Ticking, TypeInv, TypeOK
  <2> QED
    BY <2>1, <2>2, <2>3, StillTree
<1>2. CASE DriveReturn(t, p)
  <2> DEFINE c == cur[t][p]
             r == IF Progress(c) THEN rt[c] ELSE [rt[c] EXCEPT !.undriven = TRUE]
  <2>1. /\ c \in Procs /\ Runs(p, c) /\ p # c /\ rt[c].driverMode = "Parent"
        /\ \A u \in Procs : ~Ticking(u, c)
    BY <1>2, ReturnedIsIdle
  <2>2. SettleChild(t, p, c, r) /\ pc[t][p] = "Drive"
    BY <1>2 DEF DriveReturn
  <2>3. /\ r \in RuntimeState
        /\ r.started = rt[c].started /\ r.driverMode = rt[c].driverMode
        /\ r.children = rt[c].children /\ r.unused = rt[c].unused
        /\ rt[c].undriven => r.undriven
        /\ r.undriven => rt[c].undriven \/ ~Progress(c)
    <3>1. \A s \in RuntimeState :
            LET w == [s EXCEPT !.undriven = TRUE]
            IN  /\ w \in RuntimeState /\ w.undriven
                /\ w.started = s.started /\ w.driverMode = s.driverMode
                /\ w.children = s.children /\ w.unused = s.unused
      BY DEF RuntimeState
    <3>2. rt[c] \in RuntimeState
      BY <1>0, <2>1
    <3>3. IF Progress(c) THEN r = rt[c] ELSE r = [rt[c] EXCEPT !.undriven = TRUE]
      OBVIOUS
    <3> HIDE DEF r, c
    <3> QED
      BY <3>1, <3>2, <3>3
  <2> HIDE DEF c, r
  <2> QED
    BY <2>1, <2>2, <2>3, SettleTree DEF Runs
<1>3. ASSUME NEW c \in Procs, PassChild(t, p, c)
      PROVE  TreeKept
  <2>1. p # c /\ pc[t][p] = "Children" /\ SettleChild(t, p, c, rt[c])
    BY <1>3, NotItsOwnChild DEF PassChild
  <2> QED
    BY <1>0, <2>1, SettleTree
<1>4. CASE JoinWorker(t, p)
  <2> DEFINE c == cur[t][p]
             r == [rt[c] EXCEPT !.worker = FALSE]
  <2>1. c \in Procs
    BY <1>4 DEF TypeInv, Framed, JoinWorker
  <2>2. rt[c].driverMode = "NewInternalDriver" => ~Active(c)
    <3>1. Runs(p, c) /\ pc[t][p] = "Join" /\ (rt[c].worker => loop[c] = "Exited")
      BY <1>4, <2>1, ProcsAssumption DEF JoinWorker, DriverInv, CurStarted
    <3>2. ASSUME NEW u \in Procs, NEW q \in Procs, Stores(u, q, c)
          PROVE  FALSE
      <4>1. q = p
        BY <2>1, <3>1, <3>2, OneParent, ProcsAssumption
        DEF DriverInv, CurStarted, Stores, Runs
      <4>2. u = t
        BY <3>1, <3>2, <4>1 DEF DriverInv, OneDriver, Ticking, Stores, Callbacks
      <4> QED
        BY <3>1, <3>2, <4>1, <4>2 DEF Stores, Callbacks
    <3> QED
      BY <2>1, <3>1, <3>2 DEF DriverInv, WorkerHeld, Active
  <2>3. ~Active(c) \/ rt[c].driverMode = "ExternalDriver"
    <3>1. rt[c].driverMode \in DriverMode
      BY <1>0, <2>1 DEF RuntimeState
    <3> QED
      BY <2>1, <2>2, <3>1 DEF DriverInv, LoopStarted, DriverMode
  <2>4. r \in RuntimeState /\ SameTree(r, rt[c]) /\ Put(c, r)
    BY <1>0, <1>4, <2>1, RecordTypes, SameTreeUpdates DEF JoinWorker
  <2>5. /\ pc[t][p] = "Join" /\ pc'[t][p] = "Children" /\ loop' = loop
        /\ \A u, q \in Procs : u # t \/ q # p =>
             pc'[u][q] = pc[u][q] /\ cur'[u][q] = cur[u][q]
    BY <1>4 DEF JoinWorker, Goto, TypeInv, TypeOK
  <2>6. \A d \in Procs : Joins(t, p, d) => d = c
    BY DEF Joins
  <2> HIDE DEF c, r
  <2>7. TreesStay
    BY <2>1, <2>4, PutTree
  <2>8. RuntimesKept
    BY <2>7 DEF TreesStay, SameTree, RuntimesKept
  <2>9. FramesKept
    BY <2>3, <2>5, <2>6 DEF FramesKept, Joins, Ticking
  <2> QED
    BY <2>5, <2>8, <2>9, SameLoops DEF TreeKept
<1>5. CASE LifeStep(t, p)
  <2>1. TurnsAlone(p) /\ UNCHANGED <<cur, loop>>
    BY <1>5, LifeStepTree, LifeStepStays
  <2> QED
    BY <2>1, SameLoops, StillTree DEF TurnsAlone
<1>6. CASE TickFinished(t, p)
  <2>1. TreesStay /\ LoopsKept
    BY <1>6, SameLoops DEF TickFinished, TreesStay, SameTree
  <2>2. \A u, q \in Procs :
          /\ Ticking(u, q)' => Ticking(u, q)
          /\ pc[u][q] = "Join" => pc'[u][q] = "Join" /\ cur'[u][q] = cur[u][q]
    BY <1>6 DEF TickFinished, AtArm, Goto, Ticking, TypeInv, TypeOK
  <2> QED
    BY <2>1, <2>2, StillTree
<1>7. ASSUME NEW c \in Procs, ReleaseChild(t, p, c)
      PROVE  TreeKept
  <2>1. TreesStay
    BY <1>0, <1>7, RecordTypes, SameTreeUpdates, PutTree DEF ReleaseChild
  <2> QED
    BY <1>7, <2>1, SameLoops, StillTree DEF ReleaseChild, Ticking
<1> QED
  BY <1>1, <1>2, <1>3, <1>4, <1>5, <1>6, <1>7 DEF TickStep, LifeStep

LEMMA CallTree ==
  ASSUME TypeInv, SettledStay, NEW t \in Procs, NEW p \in Procs,
         \/ StoreWorker(t, p)
         \/ \E c \in Procs : \/ Cancel(t, p, c) \/ Repel(t, p, c)
                             \/ WhenFinishedRepel(t, p, c) \/ UnusedSet(t, p, c)
  PROVE  TreeKept
<1>0. \A q \in Procs : rt[q] \in RuntimeState
  BY DEF TypeInv, TypeOK
<1>1. ASSUME NEW c \in Procs, NEW r \in RuntimeState, SameTree(r, rt[c]), Put(c, r),
             UNCHANGED <<pc, loop>>,
             \A u, q \in Procs : cur'[u][q] = cur[u][q] \/ pc[u][q] # "Join"
      PROVE  TreeKept
  BY <1>1, PutTree, SameLoops, StillTree DEF Ticking
<1>2. CASE StoreWorker(t, p)
  <2> DEFINE c == cur[t][p]
             r == [rt[c] EXCEPT !.worker = TRUE]
  <2>1. c \in Procs
    BY <1>2 DEF TypeInv, TypeOK, StoreWorker
  <2>2. r \in RuntimeState /\ SameTree(r, rt[c]) /\ Put(c, r)
    BY <1>0, <1>2, <2>1, RecordTypes, SameTreeUpdates DEF StoreWorker
  <2>3. /\ UNCHANGED <<pc, loop>>
        /\ \A u, q \in Procs : cur'[u][q] = cur[u][q] \/ pc[u][q] # "Join"
    BY <1>2 DEF StoreWorker, Callbacks, TypeInv, TypeOK
  <2> HIDE DEF c, r
  <2> QED
    BY <1>1, <2>1, <2>2, <2>3
<1>3. ASSUME NEW c \in Procs,
             \/ Cancel(t, p, c) \/ Repel(t, p, c)
             \/ WhenFinishedRepel(t, p, c) \/ UnusedSet(t, p, c)
      PROVE  TreeKept
  <2> DEFINE r1 == [rt[c] EXCEPT !.canceled = TRUE]
             r2 == [rt[c] EXCEPT !.whenFinishedUnused = TRUE]
             r3 == Unused(rt[c])
  <2>1. /\ r1 \in RuntimeState /\ SameTree(r1, rt[c])
        /\ r2 \in RuntimeState /\ SameTree(r2, rt[c])
        /\ r3 \in RuntimeState /\ SameTree(r3, rt[c])
    BY <1>0, RecordTypes, SameTreeUpdates
  <2>2. Put(c, r1) \/ Put(c, r2) \/ Put(c, r3)
    BY <1>3 DEF Cancel, Repel, WhenFinishedRepel, UnusedSet, Call
  <2>3. UNCHANGED <<pc, loop, cur>>
    BY <1>3 DEF Cancel, Repel, WhenFinishedRepel, UnusedSet, Call, frames
  <2> HIDE DEF r1, r2, r3
  <2> QED
    BY <1>1, <2>1, <2>2, <2>3
<1> QED
  BY <1>2, <1>3

\* A loop only ends when its process is over, and a worker's is marked first.
LEMMA LoopTree ==
  ASSUME TypeInv, DriverInv, TreeInv, SettledStay,
         \/ \E t \in Procs : LoopStep(t) \/ DriveUntilFinished(t)
         \/ \E p \in Procs : AppUnusedSet(p)
  PROVE  TreeKept
<1>0. \A q \in Procs : rt[q] \in RuntimeState
  BY DEF TypeInv, TypeOK
<1>1. ASSUME NEW t \in Procs, FirstTick(t) \/ NextTick(t)
      PROVE  TreeKept
  <2>1. /\ loop[t] \in {"Config", "Burst"} /\ loop'[t] = "Burst"
        /\ \A u \in Procs : ~Ticking(u, t)
    BY <1>1, LoopIsIdle
  <2>2. /\ rt' = rt /\ cur' = cur /\ Goto(t, t, "Children")
        /\ \A u \in Procs : u # t => loop'[u] = loop[u]
    BY <1>1 DEF FirstTick, NextTick, LoopTick, TypeInv, TypeOK
  <2>3. LoopsKept
    BY <2>1, <2>2 DEF LoopsKept, Active
  <2>4. \A u, q \in Procs :
          /\ Ticking(u, q)' => Ticking(u, q) \/ u = q
          /\ pc[u][q] = "Join" => pc'[u][q] = "Join" /\ cur'[u][q] = cur[u][q]
    BY <2>1, <2>2 DEF Goto, Ticking, TypeInv, TypeOK
  <2> QED
    BY <2>2, <2>3, <2>4, StillTree DEF TreesStay, SameTree
<1>2. ASSUME NEW t \in Procs, LoopCheck(t) \/ DriveUntilFinished(t)
      PROVE  TreeKept
  <2>1. LoopsKept
    BY <1>2 DEF LoopCheck, DriveUntilFinished, IsWorker, LoopsKept, Active, TypeInv, TypeOK
  <2> QED
    BY <1>2, <2>1, StillTree
    DEF LoopCheck, DriveUntilFinished, frames, TreesStay, SameTree, Ticking
<1>3. ASSUME NEW t \in Procs, LoopMark(t)
      PROVE  TreeKept
  <2> DEFINE r == [rt[t] EXCEPT !.undriven = TRUE]
  <2>1. /\ r \in RuntimeState /\ Put(t, r)
        /\ r.started = rt[t].started /\ r.driverMode = rt[t].driverMode
        /\ r.children = rt[t].children /\ r.unused = rt[t].unused /\ r.undriven
    BY <1>0, <1>3 DEF RuntimeState, LoopMark
  <2> HIDE DEF r
  <2>2. rt'[t] = r /\ \A q \in Procs \ {t} : rt'[q] = rt[q]
    BY <2>1, PutTypes DEF TypeInv, TypeOK
  <2>3. UNCHANGED frames /\ loop[t] = "Mark"
    BY <1>3 DEF LoopMark
  <2>4. /\ rt[t].driverMode \notin {"Parent", "ExternalDriver"} /\ ~Progress(t)
        /\ t # Root /\ rt[t].started
    BY <2>3, ProcsAssumption
    DEF TreeInv, RootApart, LoopSettled, DriverInv, LoopStarted, Active
  <2>5. \A u \in Procs \ {t} : ~Ticking(u, t)
    BY <2>4 DEF DriverInv, TickJustified, DrivenByParents
  <2>6. Over(t)
    BY <2>3, <2>4, <2>5 DEF Over, Ticking, frames
  <2>7. RuntimesKept
    BY <2>1, <2>2, <2>6 DEF RuntimesKept
  <2>8. LoopsKept
    BY <1>3, <2>3 DEF LoopMark, LoopsKept, Active, TypeInv, TypeOK
  <2>9. FramesKept
    BY <2>3 DEF FramesKept, Joins, Ticking, frames
  <2> QED
    BY <2>7, <2>8, <2>9 DEF TreeKept
<1>4. ASSUME NEW p \in Procs, AppUnusedSet(p)
      PROVE  TreeKept
  <2>1. TreesStay
    BY <1>0, <1>4, RecordTypes, SameTreeUpdates, PutTree DEF AppUnusedSet
  <2> QED
    BY <1>4, <2>1, SameLoops, StillTree DEF AppUnusedSet, frames, Ticking
<1> QED
  BY <1>1, <1>2, <1>3, <1>4 DEF LoopStep

-----------------------------------------------------------------------------
(* The steps that start a child.                                           *)

LEMMA AddKeepsTree ==
  ASSUME TypeInv, DriverInv, TreeInv, SettledStay,
         NEW t \in Procs, NEW p \in Procs, NEW c \in Procs, NEW r, AddStep(t, p, c, r)
  PROVE  TreeInv'
<1> USE DEF TreeInv
<1>1. p # c /\ c # Root /\ IsChild(p, c) /\ InCallback(t, p) /\ r.started
  BY OneParent DEF AddStep
<1>2. Startable(c) => ~Active(c)
  BY StartableIsIdle DEF AddStep
<1>3. /\ rt'[c] = r /\ rt'[p].children = rt[p].children \cup {c}
      /\ rt'[p].started = rt[p].started /\ rt'[p].driverMode = rt[p].driverMode
      /\ rt'[p].undriven = rt[p].undriven /\ rt'[p].unused = rt[p].unused
      /\ \A q \in Procs \ {p, c} : rt'[q] = rt[q]
  <2> DEFINE cs == rt[p].children \cup {c}
  <2>1. cs \in SUBSET Procs /\ rt \in [Procs -> RuntimeState]
    BY DEF TypeInv, TypeOK, RuntimeState
  <2>2. PutChild(c, r, p, cs) /\ r \in RuntimeState
    BY DEF AddStep, AddChild
  <2> HIDE DEF cs
  <2>3. /\ rt'[c] = r /\ rt'[p].children = cs
        /\ rt'[p].started = rt[p].started /\ rt'[p].driverMode = rt[p].driverMode
        /\ rt'[p].undriven = rt[p].undriven /\ rt'[p].unused = rt[p].unused
        /\ \A q \in Procs \ {p, c} : rt'[q] = rt[q]
    BY <1>1, <2>1, <2>2, PutChildTypes
  <2> QED
    BY <2>3 DEF cs
<1>4. /\ r.undriven <=> rt[c].started /\ rt[c].undriven
      /\ r.unused = rt[c].unused /\ r.children = rt[c].children
      /\ r.driverMode = rt[c].driverMode \/ Startable(c)
      /\ rt[c].started => r.driverMode \in {rt[c].driverMode, "Parent"}
  BY DEF AddStep
<1>5. \A q \in Procs : /\ rt[q].started => rt'[q].started
                       /\ rt'[q].undriven => rt[q].undriven
                       /\ rt[q].started /\ rt[q].undriven => rt'[q].undriven
                       /\ rt[q].unused => rt'[q].unused
                       /\ rt[q].children \subseteq rt'[q].children
                       /\ q # c => /\ rt'[q].started = rt[q].started
                                   /\ rt'[q].driverMode = rt[q].driverMode
  <2> SUFFICES ASSUME NEW q \in Procs
               PROVE  /\ rt[q].started => rt'[q].started
                      /\ rt'[q].undriven => rt[q].undriven
                      /\ rt[q].started /\ rt[q].undriven => rt'[q].undriven
                      /\ rt[q].unused => rt'[q].unused
                      /\ rt[q].children \subseteq rt'[q].children
                      /\ q # c => /\ rt'[q].started = rt[q].started
                                  /\ rt'[q].driverMode = rt[q].driverMode
    OBVIOUS
  <2>1. CASE q = c
    BY <1>1, <1>3, <1>4, <2>1
  <2>2. CASE q = p
    BY <1>1, <1>3, <2>2
  <2>3. CASE q \notin {p, c}
    BY <1>3, <2>3
  <2> QED
    BY <2>1, <2>2, <2>3
<1>6. /\ \A u \in Procs : u # c => loop'[u] = loop[u]
      /\ loop'[c] = loop[c] \/ loop'[c] = "Config"
      /\ pc' = pc
      /\ \A u, q \in Procs : pc[u][q] = "Join" => cur'[u][q] = cur[u][q]
  <2>1. pc' = pc /\ pc[t][p] # "Join"
    BY <1>1 DEF AddStep, InCallback, Callbacks
  <2>2. CASE UNCHANGED <<loop, cur>>
    BY <2>1, <2>2
  <2>3. CASE /\ loop' = [loop EXCEPT ![c] = "Config"]
             /\ cur' = [cur EXCEPT ![t][p] = c]
    BY <2>1, <2>3 DEF TypeInv, TypeOK
  <2> QED
    BY <2>2, <2>3 DEF AddStep
<1>7. RootApart'
  BY <1>1, <1>5, ProcsAssumption DEF RootApart
<1>8. UndrivenSettled'
  <2> SUFFICES ASSUME NEW q \in Procs, rt'[q].undriven
               PROVE  /\ rt'[q].started /\ rt'[q].driverMode # "ExternalDriver"
                      /\ ~Progress(q)'
    BY DEF UndrivenSettled
  <2>1. /\ rt[q].started /\ rt[q].driverMode # "ExternalDriver" /\ ~Progress(q)
    BY <1>5 DEF UndrivenSettled
  <2> QED
    BY <1>3, <1>4, <1>5, <2>1 DEF SettledStay
<1>9. LoopSettled'
  <2>1. ASSUME NEW u \in Procs, loop'[u] \in {"Mark", "Exited"}
        PROVE  loop[u] = loop'[u] /\ ~Progress(u)'
    BY <1>6, <2>1 DEF LoopSettled, SettledStay
  <2>2. ASSUME NEW u \in Procs, loop'[u] = "Mark"
        PROVE  rt'[u].driverMode # "ExternalDriver"
    <3>1. loop[u] = "Mark" /\ rt[u].driverMode # "ExternalDriver"
      BY <2>1, <2>2 DEF LoopSettled
    <3> QED
      BY <1>2, <1>3, <1>4, <1>5, <3>1 DEF Active
  <2> QED
    BY <2>1, <2>2 DEF LoopSettled
<1>10. UndrivenTick'
  BY <1>5, <1>6 DEF UndrivenTick, Ticking
<1>11. \A q \in Procs : HasParent(q) => HasParent(q)'
  BY <1>5 DEF HasParent
<1>12. HasParent(c)'
  BY <1>3 DEF HasParent
<1>13. Held'
  BY <1>5, <1>11, <1>12 DEF Held
<1>14. Joined'
  <2> SUFFICES ASSUME NEW q \in Procs, q # c, rt'[q].started, Active(q)'
               PROVE  HasParent(q)' \/ \E u, w \in Procs : Joins(u, w, q)'
    BY <1>12 DEF Joined
  <2>1. rt[q].started /\ Active(q)
    BY <1>5, <1>6 DEF Active
  <2>2. \A u, w \in Procs : Joins(u, w, q) => Joins(u, w, q)'
    BY <1>6 DEF Joins
  <2> QED
    BY <1>11, <2>1, <2>2 DEF Joined
<1>0. Rooted(p)
  BY <1>1, TickedIsRooted DEF InCallback, Ticking, Callbacks
<1>15. ParentsRooted'
  BY <1>0, <1>3, <1>4, <1>5 DEF ParentsRooted, Rooted
<1>16. WellRooted'
  <2> SUFFICES ASSUME NEW S \in SUBSET Procs, S # {}, \A q \in S : rt'[q].started
               PROVE  \E d \in S, q \in Procs \ S : IsChild(q, d) /\ Rooted(q)'
    BY DEF WellRooted
  <2>0. \A q \in Procs : Rooted(q) => Rooted(q)'
    BY <1>5 DEF Rooted
  <2>1. CASE c \notin S \/ rt[c].started
    <3>1. \A q \in S : rt[q].started
      BY <1>5, <2>1
    <3> QED
      BY <2>0, <3>1 DEF WellRooted
  <2>2. CASE c \in S /\ ~rt[c].started
    <3> DEFINE R == S \ {c}
    <3>1. CASE R = {}
      <4>1. p \notin S
        BY <1>1, <3>1
      <4> QED
        BY <1>0, <1>1, <2>0, <2>2, <4>1
    <3>2. CASE R # {}
      <4>1. \A q \in R : rt[q].started
        BY <1>5
      <4>2. PICK d \in R, q \in Procs \ R : IsChild(q, d) /\ Rooted(q)
        BY <3>2, <4>1 DEF WellRooted
      <4>3. q # c
        BY <1>1, <2>2, <4>2 DEF Rooted
      <4> QED
        BY <2>0, <4>2, <4>3
    <3> QED
      BY <3>1, <3>2
  <2> QED
    BY <2>1, <2>2
<1> QED
  BY <1>7, <1>8, <1>9, <1>10, <1>13, <1>14, <1>15, <1>16

LEMMA NextTree ==
  ASSUME ~Retries
  PROVE  TypeInv /\ DriverInv /\ LifeInv /\ TreeInv /\ [Next]_vars => TreeInv'
<1> SUFFICES ASSUME TypeInv, DriverInv, LifeInv, TreeInv, [Next]_vars
             PROVE  TreeInv'
  OBVIOUS
<1>0. SettledStay
  BY NextSettled
<1>1. CASE UNCHANGED vars
  <2>1. TreeKept
    BY <1>0, <1>1, SameLoops, StillTree DEF vars, TreesStay, SameTree, Ticking
  <2> QED
    BY <2>1, TreeKeptKeeps
<1>2. ASSUME NEW t \in Procs, NEW p \in Procs, TickStep(t, p)
      PROVE  TreeInv'
  BY <1>0, <1>2, TickTree, TreeKeptKeeps
<1>3. ASSUME NEW t \in Procs, NEW p \in Procs, CallOf(t, p) \/ StoreWorker(t, p)
      PROVE  TreeInv'
  <2>1. ASSUME NEW c \in Procs, NEW m \in DriverMode,
               \/ StartChild(t, p, c, m)
               \/ SpawnWorker(t, p, c, m)
               \/ SpawnFails(t, p, c, m)
        PROVE  TreeInv'
    BY <1>0, <2>1, StartIsAdd, AddKeepsTree
  <2> QED
    BY <1>0, <1>3, <2>1, CallTree, TreeKeptKeeps DEF CallOf
<1>4. ASSUME \/ \E t \in Procs : LoopStep(t) \/ DriveUntilFinished(t)
             \/ \E p \in Procs : AppUnusedSet(p)
      PROVE  TreeInv'
  BY <1>0, <1>4, LoopTree, TreeKeptKeeps
<1>5. ASSUME NEW t \in Procs, ThreadStep(t)
      PROVE  TreeInv'
  BY <1>2, <1>3, <1>4, <1>5, CallStepIsCall DEF ThreadStep
<1> QED
  BY <1>1, <1>4, <1>5 DEF Next, Terminated

LEMMA TreeInvariant ==
  ASSUME ~Retries
  PROVE  Spec => [](TypeInv /\ DriverInv /\ TreeInv)
<1>1. Init => TypeInv /\ DriverInv /\ LifeInv /\ TreeInv
  BY InitTypes, InitDriven, InitLife, InitTree
<1>2. TypeInv /\ DriverInv /\ LifeInv /\ TreeInv /\ [Next]_vars
        => TypeInv' /\ DriverInv' /\ LifeInv' /\ TreeInv'
  BY NextTypes, NextDriven, NextLife, NextTree
<1> QED
  BY <1>1, <1>2, PTL DEF Spec

-----------------------------------------------------------------------------
(* What the invariant says.                                                *)

\* A child leaves the tree only once it is finished, released and childless
\* (RemovedIsSettled); the last tick of a handle that was started again, if it
\* still runs, is waited for.
THEOREM RemovedAlwaysSettled ==
  ASSUME ~Retries
  PROVE  Spec => []RemovedIsSettled
<1>1. DriverInv /\ TreeInv => RemovedIsSettled
  <2> SUFFICES ASSUME DriverInv, TreeInv, NEW c \in Procs, rt[c].started, ~HasParent(c)
               PROVE  /\ rt[c].state = "Finished" /\ rt[c].children = {}
                      /\ rt[c].undriven /\ rt[c].unused
                      /\ \A t \in Procs : Ticking(t, c) =>
                           \E u, p \in Procs : Joins(u, p, c)
    BY DEF RemovedIsSettled, HasParent, Joins
  <2>1. rt[c].undriven /\ rt[c].unused
    BY DEF TreeInv, Held
  <2>2. rt[c].state = "Finished" /\ rt[c].children = {}
    BY <2>1 DEF TreeInv, UndrivenSettled, Progress
  <2>3. ASSUME NEW t \in Procs, Ticking(t, c)
        PROVE  \E u, p \in Procs : Joins(u, p, c)
    <3>1. t = c
      BY <2>1, <2>3 DEF TreeInv, UndrivenTick
    <3>2. Active(c)
      BY <2>3, <3>1 DEF DriverInv, TickJustified, Active
    <3> QED
      BY <3>2 DEF TreeInv, Joined
  <2> QED
    BY <2>1, <2>2, <2>3
<1> QED
  BY <1>1, TreeInvariant, PTL

\* Not over yet: a started process that is unfinished, has children, is ticked
\* or has a loop.
Busy(c) ==
  rt[c].started /\ (Progress(c) \/ Active(c) \/ \E t \in Procs : Ticking(t, c))

\* The parent of a process that is not over is not over either.
LEMMA ParentIsBusy ==
  ASSUME TypeInv, DriverInv, TreeInv, loop[Root] = "Exited",
         NEW c \in Procs, Busy(c), NEW p \in Procs, IsChild(p, c)
  PROVE  Busy(p)
<1> USE DEF DriverInv, TreeInv
<1>0. Root \in Procs
  BY ProcsAssumption
<1>1. /\ ~Progress(Root)
      /\ \A t \in Procs : ~Ticking(t, Root)
  <2>1. ASSUME NEW t \in Procs, Ticking(t, Root)
        PROVE  FALSE
    <3>1. CASE t = Root
      BY <2>1, <3>1 DEF TickJustified
    <3>2. CASE t # Root
      <4>1. PICK q \in Procs : Drives(t, q, Root)
        BY <1>0, <2>1, <3>2 DEF TickJustified
      <4> QED
        BY <1>0, <4>1, OneParent, ProcsAssumption DEF CurStarted, Drives, Runs
    <3> QED
      BY <3>1, <3>2
  <2> QED
    BY <1>0, <2>1 DEF LoopSettled
<1>2. ASSUME NEW t \in Procs, Ticking(t, p)
      PROVE  Busy(p)
  <2>1. rt[p].started
    BY <1>1, <1>2, TickedIsRooted DEF Rooted
  <2> QED
    BY <1>2, <2>1 DEF Busy
<1>3. CASE HasParent(c)
  <2>1. PICK q \in Procs : c \in rt[q].children
    BY <1>3 DEF HasParent
  <2>2. q = p
    BY <2>1, OneParent DEF ChildrenStarted, Runs
  <2>3. Progress(p)
    BY <2>1, <2>2 DEF Progress
  <2>4. rt[p].started
    BY <1>1, <2>1, <2>2, <2>3 DEF ParentsRooted, Rooted
  <2> QED
    BY <2>3, <2>4 DEF Busy
<1>4. CASE ~HasParent(c)
  <2>1. rt[c].started /\ ~Progress(c) /\ rt[c].undriven
    BY <1>4 DEF Busy, Held, UndrivenSettled
  <2>2. Active(c)
    <3>1. CASE \E t \in Procs : Ticking(t, c)
      BY <2>1, <3>1 DEF UndrivenTick, TickJustified, Active
    <3> QED
      BY <2>1, <3>1 DEF Busy
  <2>3. PICK t \in Procs, q \in Procs : Joins(t, q, c)
    BY <1>4, <2>1, <2>2 DEF Joined
  <2>4. q = p
    BY <2>3, OneParent, ProcsAssumption DEF CurStarted, Joins, Runs
  <2> QED
    BY <1>2, <2>3, <2>4 DEF Joins, Ticking
<1> QED
  BY <1>3, <1>4

\* Nothing is busy once drive_until_finished of the root has returned.
LEMMA NobodyBusy ==
  ASSUME TypeInv, DriverInv, TreeInv, loop[Root] = "Exited"
  PROVE  \A c \in Procs : ~Busy(c)
<1> DEFINE S == {c \in Procs : Busy(c)}
<1>1. ASSUME S # {}
      PROVE  FALSE
  <2>1. \A c \in S : rt[c].started
    BY DEF Busy
  <2>2. PICK c \in S, p \in Procs \ S : IsChild(p, c) /\ Rooted(p)
    BY <1>1, <2>1 DEF TreeInv, WellRooted
  <2>3. Busy(p)
    BY <2>2, ParentIsBusy
  <2> QED
    BY <2>2, <2>3
<1> QED
  BY <1>1

\* When drive_until_finished(root) has returned, every started process has
\* finished and no loop is left running (NoThreadOutlivesRoot), whichever
\* driver it had.
THEOREM NoThreadEverOutlivesRoot ==
  ASSUME ~Retries
  PROVE  Spec => []NoThreadOutlivesRoot
<1>1. TypeInv /\ DriverInv /\ TreeInv => NoThreadOutlivesRoot
  <2> SUFFICES ASSUME TypeInv, DriverInv, TreeInv, loop[Root] = "Exited",
                      NEW p \in Procs, rt[p].started
               PROVE  rt[p].state = "Finished" /\ loop[p] \in {"None", "Exited"}
    BY DEF NoThreadOutlivesRoot
  <2>1. ~Progress(p) /\ ~Active(p)
    BY NobodyBusy DEF Busy
  <2>2. loop[p] \in LoopLabels
    BY DEF TypeInv, TypeOK
  <2> QED
    BY <2>1, <2>2 DEF Progress, Active, LoopLabels
<1> QED
  BY <1>1, TreeInvariant, PTL

\* A child started with ExternalDriver is never marked as undriven and stays in
\* the tree, so that drive_until_finished(root) does not return any more
\* (ExternalChildHoldsRoot).
THEOREM ExternalChildAlwaysHolds ==
  ASSUME ~Retries
  PROVE  Spec => []ExternalChildHoldsRoot
<1>1. TypeInv /\ DriverInv /\ TreeInv => ExternalChildHoldsRoot
  <2> SUFFICES ASSUME TypeInv, DriverInv, TreeInv, NEW c \in Procs,
                      rt[c].started, rt[c].driverMode = "ExternalDriver"
               PROVE  ~rt[c].undriven /\ loop[Root] # "Exited"
    BY DEF ExternalChildHoldsRoot
  <2>1. ~rt[c].undriven
    BY DEF TreeInv, UndrivenSettled
  <2>2. ASSUME loop[Root] = "Exited"
        PROVE  FALSE
    <3>1. PICK p \in Procs : c \in rt[p].children
      BY <2>1 DEF TreeInv, Held, HasParent
    <3>2. Progress(p) /\ Rooted(p)
      BY <3>1 DEF Progress, TreeInv, ParentsRooted
    <3>3. CASE p = Root
      BY <2>2, <3>2, <3>3 DEF TreeInv, LoopSettled
    <3>4. CASE p # Root
      BY <2>2, <3>2, <3>4, NobodyBusy DEF Busy, Rooted
    <3> QED
      BY <3>3, <3>4
  <2> QED
    BY <2>1, <2>2
<1> QED
  BY <1>1, TreeInvariant, PTL
=============================================================================
