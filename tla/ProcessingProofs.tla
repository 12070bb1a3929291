-------------------------- MODULE ProcessingProofs --------------------------
(* Theorems about the process tree of src/src/processing.rs, for every set *)
(* of handles, every tree of them and every burst.                         *)
EXTENDS Processing, TLAPS

-----------------------------------------------------------------------------
(* Runtime states and what a step makes of them.                           *)

\* Every update the code makes of one runtime state leaves it in its type.
LEMMA RecordTypes ==
  ASSUME NEW r \in RuntimeState
  PROVE  /\ \A v \in SUBSET Procs : [r EXCEPT !.children = v] \in RuntimeState
         /\ \A v \in AbstractState : [r EXCEPT !.state = v] \in RuntimeState
         /\ \A v \in Success, s \in AbstractState :
              [r EXCEPT !.success = v, !.state = s] \in RuntimeState
         /\ \A v \in Success, s \in AbstractState :
              [r EXCEPT !.success = v, !.processDone = TRUE, !.state = s]
                \in RuntimeState
         /\ \A m \in DriverMode : [r EXCEPT !.driverMode = m] \in RuntimeState
         /\ \A m \in DriverMode :
              [r EXCEPT !.driverMode = m, !.started = TRUE, !.undriven = FALSE]
                \in RuntimeState
         /\ \A s \in AbstractState :
              [r EXCEPT !.initDone = TRUE, !.state = s] \in RuntimeState
         /\ \A s \in AbstractState :
              [r EXCEPT !.shutdownDone = TRUE, !.state = s] \in RuntimeState
         /\ \A b \in BOOLEAN : [r EXCEPT !.worker = b] \in RuntimeState
         /\ [r EXCEPT !.undriven = TRUE] \in RuntimeState
         /\ [r EXCEPT !.canceled = TRUE] \in RuntimeState
         /\ [r EXCEPT !.whenFinishedUnused = TRUE] \in RuntimeState
         /\ Unused(r) \in RuntimeState
  BY DEF RuntimeState, Unused

\* A runtime state that replaces another one with Put keeps the type of rt.
LEMMA PutTypes ==
  ASSUME rt \in [Procs -> RuntimeState],
         NEW p \in Procs, NEW r \in RuntimeState, Put(p, r)
  PROVE  /\ rt' \in [Procs -> RuntimeState]
         /\ rt'[p] = r
         /\ \A q \in Procs \ {p} : rt'[q] = rt[q]
  BY DEF Put

\* The same of PutChild.
LEMMA PutChildTypes ==
  ASSUME rt \in [Procs -> RuntimeState],
         NEW c \in Procs, NEW r \in RuntimeState,
         NEW p \in Procs, NEW cs \in SUBSET Procs, PutChild(c, r, p, cs)
  PROVE  /\ rt' \in [Procs -> RuntimeState]
         /\ p # c => rt'[c] = r
         /\ p # c => /\ rt'[p].children = cs
                     /\ rt'[p].started = rt[p].started
                     /\ rt'[p].driverMode = rt[p].driverMode
                     /\ rt'[p].worker = rt[p].worker
                     /\ rt'[p].undriven = rt[p].undriven
                     /\ rt'[p].unused = rt[p].unused
         /\ \A q \in Procs \ {p, c} : rt'[q] = rt[q]
<1> DEFINE f == [rt EXCEPT ![c] = r]
           s == [f[p] EXCEPT !.children = cs]
<1>1. f \in [Procs -> RuntimeState]
  OBVIOUS
<1>2. f[p] \in RuntimeState
  BY <1>1
<1>3. s \in RuntimeState
  BY <1>2, RecordTypes
<1>4. rt' = [f EXCEPT ![p] = s]
  BY DEF PutChild
<1>8. /\ s.children = cs
      /\ s.started = f[p].started /\ s.driverMode = f[p].driverMode
      /\ s.worker = f[p].worker /\ s.undriven = f[p].undriven
      /\ s.unused = f[p].unused
  BY <1>2 DEF RuntimeState
<1> HIDE DEF s
<1>5. rt' \in [Procs -> RuntimeState]
  BY <1>1, <1>3, <1>4
<1>6. rt'[p] = s /\ \A q \in Procs \ {p} : rt'[q] = f[q]
  BY <1>1, <1>4
<1>7. p # c => f[p] = rt[p]
  OBVIOUS
<1> QED
  BY <1>1, <1>5, <1>6, <1>7, <1>8

-----------------------------------------------------------------------------
(* The type invariant.                                                     *)

\* A frame that drives or joins a child knows which.
Framed ==
  \A t, p \in Procs : pc[t][p] \in {"Drive", "Join"} => cur[t][p] \in Procs

TypeInv == TypeOK /\ Framed

LEMMA InitTypes == Init => TypeInv
  BY ProcsAssumption
  DEF Init, TypeInv, TypeOK, Framed, NewRuntimeState, RuntimeState, Success,
      AbstractState, DriverMode, Labels, LoopLabels, Callbacks

\* Types are kept by a step that leaves r in the runtime state of p, ends the
\* tick of p and touches nothing else but the behaviour.
LEMMA EndTickTypes ==
  ASSUME TypeInv, NEW t \in Procs, NEW p \in Procs, NEW r \in RuntimeState,
         EndTick(t, p, r),
         behavior' = behavior \/ behavior' = [behavior EXCEPT ![p] = NoProc],
         UNCHANGED <<todo, cur, loop, left>>
  PROVE  TypeInv'
<1>1. rt' \in [Procs -> RuntimeState]
  BY PutTypes DEF TypeInv, TypeOK, EndTick
<1>2. pc' \in [Procs -> [Procs -> Labels]]
  BY DEF TypeInv, TypeOK, EndTick, Goto, Labels
<1>3. behavior' \in [Procs -> Procs \cup {NoProc}]
  BY DEF TypeInv, TypeOK
<1>4. Framed'
  BY DEF TypeInv, TypeOK, Framed, EndTick, Goto
<1> QED
  BY <1>1, <1>2, <1>3, <1>4 DEF TypeInv, TypeOK

\* Types are kept when the loop over the children settles one of them.
LEMMA SettleTypes ==
  ASSUME TypeInv, NEW t \in Procs, NEW p \in Procs, NEW c \in Procs,
         NEW r \in RuntimeState, SettleChild(t, p, c, r)
  PROVE  TypeInv'
<1>1. rt' \in [Procs -> RuntimeState]
  <2>1. rt[p].children \ {c} \in SUBSET Procs
    BY DEF TypeInv, TypeOK, RuntimeState
  <2>2. CASE CanBeRemoved(r)
    BY <2>1, <2>2, PutChildTypes DEF TypeInv, TypeOK, SettleChild
  <2>3. CASE ~CanBeRemoved(r)
    BY <2>3, PutTypes DEF TypeInv, TypeOK, SettleChild
  <2> QED
    BY <2>2, <2>3
<1>2. todo' \in [Procs -> [Procs -> SUBSET Procs]]
  BY DEF TypeInv, TypeOK, SettleChild
<1> DEFINE label == IF CanBeRemoved(r) THEN "Join" ELSE "Children"
           next == IF CanBeRemoved(r) THEN c ELSE NoProc
<1>3. /\ label \in Labels /\ next \in Procs \cup {NoProc}
      /\ label = "Join" => next \in Procs
      /\ label # "Drive"
  BY DEF Labels
<1>4. pc' = [pc EXCEPT ![t][p] = label] /\ cur' = [cur EXCEPT ![t][p] = next]
  BY DEF SettleChild, Goto
<1> HIDE DEF label, next
<1>5. /\ pc' \in [Procs -> [Procs -> Labels]]
      /\ pc'[t][p] = label
      /\ \A u, q \in Procs : u # t \/ q # p => pc'[u][q] = pc[u][q]
  <2>1. pc \in [Procs -> [Procs -> Labels]]
    BY DEF TypeInv, TypeOK
  <2> QED
    BY <2>1, <1>3, <1>4
<1>6. /\ cur' \in [Procs -> [Procs -> Procs \cup {NoProc}]]
      /\ cur'[t][p] = next
      /\ \A u, q \in Procs : u # t \/ q # p => cur'[u][q] = cur[u][q]
  <2>1. cur \in [Procs -> [Procs -> Procs \cup {NoProc}]]
    BY DEF TypeInv, TypeOK
  <2> QED
    BY <2>1, <1>3, <1>4
<1>7. ASSUME NEW u \in Procs, NEW q \in Procs, pc'[u][q] \in {"Drive", "Join"}
      PROVE  cur'[u][q] \in Procs
  <2>1. CASE u = t /\ q = p
    BY <2>1, <1>3, <1>5, <1>6, <1>7
  <2>2. CASE u # t \/ q # p
    BY <2>2, <1>5, <1>6, <1>7 DEF TypeInv, Framed
  <2> QED
    BY <2>1, <2>2
<1> QED
  BY <1>1, <1>2, <1>5, <1>6, <1>7 DEF TypeInv, TypeOK, Framed, SettleChild

\* Types are kept by every step of tree_tick.
LEMMA TickTypes ==
  ASSUME TypeInv, NEW t \in Procs, NEW p \in Procs, TickStep(t, p)
  PROVE  TypeInv'
<1> USE DEF TypeInv
<1>0. rt[p] \in RuntimeState
  BY DEF TypeOK
<1>1. ASSUME NEW c \in Procs, ParentalDrive(t, p, c)
      PROVE  TypeInv'
  <2>1. rt[c].children \in SUBSET Procs
    BY DEF TypeOK, RuntimeState
  <2>2. todo' \in [Procs -> [Procs -> SUBSET Procs]]
    BY <1>1, <2>1 DEF TypeOK, ParentalDrive, BeginTick
  <2> QED
    BY <1>1, <2>2 DEF TypeOK, Framed, ParentalDrive, Labels
<1>2. CASE DriveReturn(t, p)
  <2> DEFINE c == cur[t][p]
             r == IF Progress(c) THEN rt[c] ELSE [rt[c] EXCEPT !.undriven = TRUE]
  <2>1. c \in Procs
    BY <1>2 DEF Framed, DriveReturn
  <2>2. rt[c] \in RuntimeState
    BY <2>1 DEF TypeOK
  <2>3. r \in RuntimeState
    BY <2>2, RecordTypes
  <2>4. SettleChild(t, p, c, r)
    BY <1>2 DEF DriveReturn
  <2> HIDE DEF c, r
  <2> QED
    BY <2>1, <2>3, <2>4, SettleTypes
<1>3. ASSUME NEW c \in Procs, PassChild(t, p, c)
      PROVE  TypeInv'
  <2>1. rt[c] \in RuntimeState
    BY DEF TypeOK
  <2> QED
    BY <1>3, <2>1, SettleTypes DEF PassChild
<1>4. CASE JoinWorker(t, p)
  <2> DEFINE c == cur[t][p]
             r == [rt[c] EXCEPT !.worker = FALSE]
  <2>1. c \in Procs
    BY <1>4 DEF Framed, JoinWorker
  <2>2. r \in RuntimeState
    BY <2>1, RecordTypes DEF TypeOK
  <2>3. Put(c, r)
    BY <1>4 DEF JoinWorker
  <2> HIDE DEF c, r
  <2>4. rt' \in [Procs -> RuntimeState]
    BY <2>1, <2>2, <2>3, PutTypes DEF TypeOK
  <2> QED
    BY <1>4, <2>4 DEF TypeOK, Framed, JoinWorker, Goto, Labels
<1>5. CASE LeaveExistent(t, p)
  <2> DEFINE s == IF rt[p].canceled THEN "FinishedPrepare" ELSE "Initializing"
  <2>1. [rt[p] EXCEPT !.state = s] \in RuntimeState
    <3>1. s \in AbstractState
      BY DEF AbstractState
    <3> HIDE DEF s
    <3> QED
      BY <1>0, <3>1, RecordTypes
  <2> QED
    BY <1>5, <2>1, EndTickTypes DEF LeaveExistent
<1>6. CASE SeeCanceled(t, p)
  <2>1. [rt[p] EXCEPT !.state = "DownShutting"] \in RuntimeState
    BY <1>0, RecordTypes DEF AbstractState
  <2> QED
    BY <1>6, <2>1, EndTickTypes DEF SeeCanceled
<1>7. CASE SeeNotCanceled(t, p)
  <2>1. PICK label \in {"LockInitialize", "LockProcess"} : Goto(t, p, label)
    BY <1>7 DEF SeeNotCanceled
  <2>2. label \in Labels
    BY DEF Labels
  <2> QED
    BY <1>7, <2>1, <2>2 DEF TypeOK, Framed, SeeNotCanceled, Goto
<1>8. ASSUME NEW f \in Callbacks, Enter(t, p, f)
      PROVE  TypeInv'
  BY <1>8 DEF TypeOK, Framed, Enter, Goto, Labels, Callbacks
<1>9. ASSUME NEW f \in Callbacks, NEW r \in RuntimeState, Return(t, p, f, r)
      PROVE  TypeInv'
  BY <1>9, EndTickTypes DEF Return
<1>10. CASE ReturnPending(t, p)
  BY <1>0, <1>9, <1>10 DEF ReturnPending
<1>11. CASE ReturnInitialize(t, p)
  <2>1. /\ [rt[p] EXCEPT !.initDone = TRUE, !.state = "Processing"] \in RuntimeState
        /\ [rt[p] EXCEPT !.success = "Negative", !.state = "DownShutting"]
             \in RuntimeState
    BY <1>0, RecordTypes DEF AbstractState, Success
  <2> QED
    BY <1>9, <1>11, <2>1 DEF ReturnInitialize, Callbacks
<1>12. CASE ReturnProcess(t, p)
  <2>1. PICK success \in Success :
          Return(t, p, "process", [rt[p] EXCEPT !.success = success,
                                      !.processDone = TRUE, !.state = "DownShutting"])
    BY <1>12 DEF ReturnProcess
  <2>2. [rt[p] EXCEPT !.success = success, !.processDone = TRUE,
                      !.state = "DownShutting"] \in RuntimeState
    BY <1>0, RecordTypes DEF AbstractState
  <2> QED
    BY <1>9, <2>1, <2>2 DEF Callbacks
<1>13. CASE ReturnShutdown(t, p)
  <2>1. [rt[p] EXCEPT !.shutdownDone = TRUE, !.state = "ChildrenUnusedSet"]
          \in RuntimeState
    BY <1>0, RecordTypes DEF AbstractState
  <2> QED
    BY <1>9, <1>13, <2>1 DEF ReturnShutdown, Callbacks
<1>14. CASE ReleaseChildren(t, p)
  <2>1. rt[p].children \in SUBSET Procs
    BY <1>0 DEF RuntimeState
  <2>2. todo' \in [Procs -> [Procs -> SUBSET Procs]]
    BY <1>14, <2>1 DEF TypeOK, ReleaseChildren
  <2> QED
    BY <1>14, <2>2 DEF TypeOK, Framed, ReleaseChildren, Goto, Labels
<1>15. ASSUME NEW c \in Procs, ReleaseChild(t, p, c)
       PROVE  TypeInv'
  <2>1. Unused(rt[c]) \in RuntimeState
    BY RecordTypes DEF TypeOK
  <2>2. rt' \in [Procs -> RuntimeState]
    BY <1>15, <2>1, PutTypes DEF TypeOK, ReleaseChild
  <2>3. todo' \in [Procs -> [Procs -> SUBSET Procs]]
    BY <1>15 DEF TypeOK, ReleaseChild
  <2>4. TypeOK'
    BY <1>15, <2>2, <2>3 DEF TypeOK, ReleaseChild
  <2> QED
    BY <1>15, <2>4 DEF Framed, ReleaseChild
<1>16. CASE EndRelease(t, p)
  <2>1. [rt[p] EXCEPT !.state = "FinishedPrepare"] \in RuntimeState
    BY <1>0, RecordTypes DEF AbstractState
  <2> QED
    BY <1>16, <2>1, EndTickTypes DEF EndRelease
<1>17. CASE Finish(t, p)
  <2> DEFINE r == IF rt[p].whenFinishedUnused THEN Unused(rt[p]) ELSE rt[p]
  <2>1. r \in RuntimeState
    BY <1>0, RecordTypes
  <2>2. EndTick(t, p, [r EXCEPT !.state = "Finished"])
    BY <1>17 DEF Finish
  <2> HIDE DEF r
  <2>3. [r EXCEPT !.state = "Finished"] \in RuntimeState
    BY <2>1, RecordTypes DEF AbstractState
  <2> QED
    BY <1>17, <2>2, <2>3, EndTickTypes DEF Finish
<1>18. CASE TickFinished(t, p)
  BY <1>18 DEF TypeOK, Framed, TickFinished, Goto, Labels
<1> QED
  BY <1>1, <1>2, <1>3, <1>4, <1>5, <1>6, <1>7, <1>8, <1>10, <1>11, <1>12,
     <1>13, <1>14, <1>15, <1>16, <1>17, <1>18
  DEF TickStep, EnterInitialize, EnterProcess, EnterShutdown, Callbacks

\* Types are kept when a behaviour adds a child in the runtime state r.
LEMMA AddChildTypes ==
  ASSUME TypeInv, NEW p \in Procs, NEW c \in Procs, NEW r \in RuntimeState,
         AddChild(p, c, r)
  PROVE  rt' \in [Procs -> RuntimeState]
<1>1. rt[p].children \cup {c} \in SUBSET Procs
  BY DEF TypeInv, TypeOK, RuntimeState
<1> QED
  BY <1>1, PutChildTypes DEF TypeInv, TypeOK, AddChild

\* A child that is given a driver is a runtime state.
LEMMA DrivenType ==
  ASSUME TypeInv, NEW c \in Procs, NEW m \in DriverMode
  PROVE  Driven(c, m) \in RuntimeState
<1>1. rt[c] \in RuntimeState
  BY DEF TypeInv, TypeOK
<1> QED
  BY <1>1, RecordTypes DEF Driven

\* Some behaviour p makes a call for a child c.
CallOf(t, p) ==
  \E c \in Procs :
    \/ \E m \in DriverMode : \/ StartChild(t, p, c, m)
                             \/ SpawnWorker(t, p, c, m)
                             \/ SpawnFails(t, p, c, m)
    \/ Cancel(t, p, c)
    \/ Repel(t, p, c)
    \/ WhenFinishedRepel(t, p, c)
    \/ UnusedSet(t, p, c)

LEMMA CallStepIsCall ==
  ASSUME NEW t, CallStep(t)
  PROVE  \E p \in Procs : CallOf(t, p)
<1>1. \A s \in Starts : s[1] \in Procs /\ s[2] \in Procs /\ s[3] \in DriverMode
  BY StartsAssumption
<1>2. \A k \in Calls : k[2] \in Procs /\ k[3] \in Procs
  BY ProcsAssumption
<1> QED
  BY <1>1, <1>2 DEF CallStep, CallOf

\* Types are kept by the calls of a behaviour.
LEMMA CallTypes ==
  ASSUME TypeInv, NEW t \in Procs, NEW p \in Procs,
         CallOf(t, p) \/ StoreWorker(t, p)
  PROVE  TypeInv'
<1> USE DEF TypeInv
<1>1. ASSUME NEW c \in Procs, NEW m \in DriverMode, StartChild(t, p, c, m)
      PROVE  TypeInv'
  <2>1. rt' \in [Procs -> RuntimeState]
    BY <1>1, DrivenType, AddChildTypes DEF StartChild
  <2> QED
    BY <1>1, <2>1 DEF TypeOK, Framed, StartChild, frames
<1>2. ASSUME NEW c \in Procs, NEW m \in DriverMode, SpawnWorker(t, p, c, m)
      PROVE  TypeInv'
  <2>1. rt' \in [Procs -> RuntimeState]
    BY <1>2, DrivenType, AddChildTypes DEF SpawnWorker
  <2> QED
    BY <1>2, <2>1 DEF TypeOK, Framed, SpawnWorker, LoopLabels
<1>3. ASSUME NEW c \in Procs, NEW m \in DriverMode, SpawnFails(t, p, c, m)
      PROVE  TypeInv'
  <2>1. [Driven(c, m) EXCEPT !.driverMode = "Parent"] \in RuntimeState
    BY DrivenType, RecordTypes DEF DriverMode
  <2>2. rt' \in [Procs -> RuntimeState]
    BY <1>3, <2>1, AddChildTypes DEF SpawnFails
  <2> QED
    BY <1>3, <2>2 DEF TypeOK, Framed, SpawnFails, frames
<1>4. ASSUME NEW c \in Procs, NEW r \in RuntimeState, NEW f, Call(t, p, f, c, r)
      PROVE  TypeInv'
  <2>1. rt' \in [Procs -> RuntimeState]
    BY <1>4, PutTypes DEF TypeOK, Call
  <2> QED
    BY <1>4, <2>1 DEF TypeOK, Framed, Call, frames
<1>5. ASSUME NEW c \in Procs,
             \/ Cancel(t, p, c) \/ Repel(t, p, c)
             \/ WhenFinishedRepel(t, p, c) \/ UnusedSet(t, p, c)
      PROVE  TypeInv'
  <2>1. rt[c] \in RuntimeState
    BY DEF TypeOK
  <2>2. /\ [rt[c] EXCEPT !.canceled = TRUE] \in RuntimeState
        /\ [rt[c] EXCEPT !.whenFinishedUnused = TRUE] \in RuntimeState
        /\ Unused(rt[c]) \in RuntimeState
    BY <2>1, RecordTypes
  <2> QED
    BY <1>4, <1>5, <2>2 DEF Cancel, Repel, WhenFinishedRepel, UnusedSet
<1>6. CASE StoreWorker(t, p)
  <2> DEFINE c == cur[t][p]
             r == [rt[c] EXCEPT !.worker = TRUE]
  <2>1. c \in Procs
    BY <1>6 DEF TypeOK, StoreWorker
  <2>2. r \in RuntimeState
    BY <2>1, RecordTypes DEF TypeOK
  <2>3. Put(c, r)
    BY <1>6 DEF StoreWorker
  <2> HIDE DEF c, r
  <2>4. rt' \in [Procs -> RuntimeState]
    BY <2>1, <2>2, <2>3, PutTypes DEF TypeOK
  <2> QED
    BY <1>6, <2>4 DEF TypeOK, Framed, StoreWorker, Callbacks
<1> QED
  BY <1>1, <1>2, <1>3, <1>5, <1>6 DEF CallOf

\* Types are kept by the loops and by the application.
LEMMA LoopTypes ==
  ASSUME TypeInv,
         \/ \E t \in Procs : LoopStep(t) \/ DriveUntilFinished(t)
         \/ \E p \in Procs : AppUnusedSet(p)
  PROVE  TypeInv'
<1> USE DEF TypeInv
<1>1. ASSUME NEW t \in Procs, NEW n \in 0 .. MaxBurst, LoopTick(t, n),
             loop' \in [Procs -> LoopLabels]
      PROVE  TypeInv'
  <2>1. rt[t].children \in SUBSET Procs
    BY DEF TypeOK, RuntimeState
  <2>2. todo' \in [Procs -> [Procs -> SUBSET Procs]]
    BY <1>1, <2>1 DEF TypeOK, LoopTick, BeginTick
  <2> QED
    BY <1>1, <2>2 DEF TypeOK, Framed, LoopTick, Goto, Labels
<1>2. ASSUME NEW t \in Procs, FirstTick(t)
      PROVE  TypeInv'
  <2>1. PICK burst \in 1 .. MaxBurst : LoopTick(t, burst - 1)
    BY <1>2 DEF FirstTick
  <2>2. burst - 1 \in 0 .. MaxBurst
    BY ProcsAssumption
  <2>3. loop' \in [Procs -> LoopLabels]
    BY <1>2 DEF FirstTick, TypeOK, LoopLabels
  <2> QED
    BY <1>1, <2>1, <2>2, <2>3
<1>3. ASSUME NEW t \in Procs, NextTick(t)
      PROVE  TypeInv'
  <2>1. left[t] - 1 \in 0 .. MaxBurst
    BY <1>3, ProcsAssumption DEF NextTick, TypeOK
  <2> QED
    BY <1>1, <1>3, <2>1 DEF NextTick, TypeOK
<1>4. ASSUME NEW t \in Procs, LoopCheck(t)
      PROVE  TypeInv'
  BY <1>4 DEF TypeOK, Framed, LoopCheck, LoopLabels, frames
<1>5. ASSUME NEW t \in Procs, LoopMark(t)
      PROVE  TypeInv'
  <2>1. [rt[t] EXCEPT !.undriven = TRUE] \in RuntimeState
    BY RecordTypes DEF TypeOK
  <2>2. rt' \in [Procs -> RuntimeState]
    BY <1>5, <2>1, PutTypes DEF TypeOK, LoopMark
  <2> QED
    BY <1>5, <2>2 DEF TypeOK, Framed, LoopMark, LoopLabels, frames
<1>6. ASSUME NEW t \in Procs, DriveUntilFinished(t)
      PROVE  TypeInv'
  BY <1>6 DEF TypeOK, Framed, DriveUntilFinished, LoopLabels, frames
<1>7. ASSUME NEW p \in Procs, AppUnusedSet(p)
      PROVE  TypeInv'
  <2>1. Unused(rt[p]) \in RuntimeState
    BY RecordTypes DEF TypeOK
  <2>2. rt' \in [Procs -> RuntimeState]
    BY <1>7, <2>1, PutTypes DEF TypeOK, AppUnusedSet
  <2> QED
    BY <1>7, <2>2 DEF TypeOK, Framed, AppUnusedSet, frames
<1> QED
  BY <1>2, <1>3, <1>4, <1>5, <1>6, <1>7 DEF LoopStep

LEMMA NextTypes == TypeInv /\ [Next]_vars => TypeInv'
<1> SUFFICES ASSUME TypeInv, [Next]_vars
             PROVE  TypeInv'
  OBVIOUS
<1>1. CASE UNCHANGED vars
  BY <1>1 DEF TypeInv, TypeOK, Framed, vars
<1>2. ASSUME NEW t \in Procs, ThreadStep(t)
      PROVE  TypeInv'
  BY <1>2, TickTypes, CallStepIsCall, CallTypes, LoopTypes DEF ThreadStep
<1> QED
  BY <1>1, <1>2, LoopTypes DEF Next, Terminated

\* In every behaviour of the tree every variable stays in its type: TypeOK, and
\* a frame that drives or joins a child knows which.
THEOREM TypeCorrect == Spec => []TypeOK
<1>1. Spec => []TypeInv
  BY InitTypes, NextTypes, PTL DEF Spec
<1>2. TypeInv => TypeOK
  BY DEF TypeInv
<1> QED
  BY <1>1, <1>2, PTL

-----------------------------------------------------------------------------
(* A process is ticked by one thread at a time (OneDriver), for every tree *)
(* of handles and every mixture of drivers.                                *)
(*                                                                         *)
(* tree_tick takes no lock for its whole length.  That no two threads are  *)
(* in the tree_tick of one process rests on who may enter it: the loop of  *)
(* the process, or a frame of its parent.  A process whose loop runs has a *)
(* driver other than Parent (LoopStarted) and a frame only enters a child  *)
(* with the driver Parent (DrivenByParents); a handle has one parent       *)
(* (StartsAssumption), which is ticked by one thread at a time.            *)
(*                                                                         *)
(* A handle that is started again gets a second worker only if it has none *)
(* (needs_worker).  That its first loop is over by then rests on the       *)
(* handle of the thread, which is stored until it has been joined          *)
(* (WorkerHeld), and that the frames of that loop are gone, on the chain   *)
(* of drives from the process of the thread to each of them (FramesRooted).*)

IsChild(p, c) == \E m \in DriverMode : <<p, c, m>> \in Starts

Runs(p, c) == rt[c].started /\ IsChild(p, c)

\* The children of a process, of its snapshot and the one at hand were started
\* by it.
ChildrenStarted == \A p \in Procs : \A c \in rt[p].children : Runs(p, c)
TodoStarted == \A t, p \in Procs : \A c \in todo[t][p] : Runs(p, c)
CurStarted == \A t, p \in Procs : cur[t][p] # NoProc => Runs(p, cur[t][p])

\* A frame drives a child with the driver Parent.
Drives(t, p, c) == pc[t][p] = "Drive" /\ cur[t][p] = c

DrivenByParents ==
  \A t, p, c \in Procs : Drives(t, p, c) => rt[c].driverMode = "Parent"

\* A loop that has begun belongs to the root or to a started process; while it
\* runs the parent does not drive that process.
Active(t) == loop[t] \in {"Config", "Burst", "Mark"}

LoopStarted ==
  \A t \in Procs :
    /\ loop[t] # "None" => t = Root \/ rt[t].started
    /\ Active(t) => rt[t].driverMode # "Parent"

\* A frame was entered by the loop of its thread or by a frame of the parent.
TickJustified ==
  \A t, p \in Procs :
    Ticking(t, p) =>
      /\ loop[t] = "Burst"
      /\ t # p => \E q \in Procs : Drives(t, q, p)

\* The drives of a thread lead from its own process to each of its frames: any
\* set of the other frames is entered from outside of it.
FramesRooted ==
  \A t \in Procs, S \in SUBSET Procs :
    S # {} /\ t \notin S /\ (\A p \in S : Ticking(t, p)) =>
      \E p \in S, q \in Procs \ S : Drives(t, q, p)

\* The thread of a worker loop is known: its handle is stored, or about to be.
Stores(t, p, c) == pc[t][p] \in Callbacks /\ cur[t][p] = c

WorkerHeld ==
  \A c \in Procs :
    Active(c) /\ rt[c].driverMode = "NewInternalDriver" =>
      rt[c].worker \/ \E t, p \in Procs : Stores(t, p, c)

DriverInv ==
  /\ ChildrenStarted /\ TodoStarted /\ CurStarted
  /\ DrivenByParents /\ LoopStarted
  /\ TickJustified /\ FramesRooted
  /\ WorkerHeld
  /\ OneDriver

-----------------------------------------------------------------------------

\* A handle has one parent, and is not its own.
LEMMA OneParent ==
  /\ \A p, q, c \in Procs : IsChild(p, c) /\ IsChild(q, c) => p = q
  /\ \A p, c \in Procs : IsChild(p, c) => p # c /\ c # Root
<1>1. ASSUME NEW p \in Procs, NEW q \in Procs, NEW c \in Procs,
             NEW m \in DriverMode, NEW n \in DriverMode,
             <<p, c, m>> \in Starts, <<q, c, n>> \in Starts
      PROVE  p = q
  <2>1. <<p, c, m>> = <<q, c, n>>
    BY <1>1, StartsAssumption
  <2> QED
    BY <2>1
<1>2. ASSUME NEW p \in Procs, NEW c \in Procs, NEW m \in DriverMode,
             <<p, c, m>> \in Starts
      PROVE  p # c /\ c # Root
  BY <1>2, StartsAssumption
<1> QED
  BY <1>1, <1>2 DEF IsChild

\* What most steps leave of the runtime states: drivers stay, nobody starts, and
\* the handle of a thread is given up only when its loop is over.
Kept ==
  \A q \in Procs :
    /\ rt'[q].started = rt[q].started
    /\ rt'[q].driverMode = rt[q].driverMode
    /\ rt'[q].children \subseteq rt[q].children
    /\ rt[q].worker => rt'[q].worker \/ loop[q] = "Exited"

\* Thread t takes its frame of p to a label other than Drive; if it drove a
\* child, that tick has ended, and if it started a worker, that one is stored.
FrameStep(t, p) ==
  /\ Kept /\ loop' = loop
  /\ pc[t][p] # "Idle" /\ pc'[t][p] # "Drive"
  /\ pc[t][p] = "Drive" => pc[t][cur[t][p]] = "Idle"
  /\ pc[t][p] \in Callbacks /\ cur[t][p] # NoProc => rt'[cur[t][p]].worker
  /\ cur'[t][p] # NoProc => Runs(p, cur'[t][p]) /\ cur'[t][p] \in Procs
  /\ todo'[t][p] \subseteq todo[t][p] \cup rt[p].children
  /\ \A u, q \in Procs : u # t \/ q # p =>
       /\ pc'[u][q] = pc[u][q] /\ cur'[u][q] = cur[u][q]
       /\ todo'[u][q] = todo[u][q]

LEMMA KeptChildren == TypeInv /\ Kept /\ ChildrenStarted => ChildrenStarted'
<1> SUFFICES ASSUME TypeInv, Kept, ChildrenStarted,
                    NEW p \in Procs, NEW c \in rt'[p].children
             PROVE  Runs(p, c)'
  BY DEF ChildrenStarted
<1>1. c \in rt[p].children
  BY DEF Kept
<1>2. c \in Procs /\ Runs(p, c)
  BY <1>1 DEF ChildrenStarted, TypeInv, TypeOK, RuntimeState
<1> QED
  BY <1>2 DEF Kept, Runs

LEMMA FrameStepKeeps ==
  ASSUME TypeInv, DriverInv, NEW t \in Procs, NEW p \in Procs, FrameStep(t, p)
  PROVE  DriverInv'
<1> USE DEF DriverInv
<1>1. ChildrenStarted'
  BY KeptChildren DEF FrameStep
<1>2. TodoStarted'
  <2> SUFFICES ASSUME NEW u \in Procs, NEW q \in Procs, NEW c \in todo'[u][q]
               PROVE  Runs(q, c)'
    BY DEF TodoStarted
  <2>1. c \in todo[u][q] \/ c \in rt[q].children
    BY DEF FrameStep
  <2>2. Runs(q, c) /\ c \in Procs
    BY <2>1 DEF TodoStarted, ChildrenStarted, TypeInv, TypeOK, RuntimeState
  <2> QED
    BY <2>2 DEF Runs, FrameStep, Kept
<1>3. CurStarted'
  <2> SUFFICES ASSUME NEW u \in Procs, NEW q \in Procs, cur'[u][q] # NoProc
               PROVE  Runs(q, cur[u][q])'
    BY DEF CurStarted
  <2>1. Runs(q, cur'[u][q]) /\ cur'[u][q] \in Procs
    BY DEF CurStarted, FrameStep, TypeInv, TypeOK
  <2> QED
    BY <2>1 DEF Runs, FrameStep, Kept
<1>4. \A u, q, c \in Procs : Drives(u, q, c)' => Drives(u, q, c)
  BY DEF Drives, FrameStep
<1>5. DrivenByParents' /\ LoopStarted'
  BY <1>4 DEF DrivenByParents, LoopStarted, Active, FrameStep, Kept
<1>6. \A u, q \in Procs : Ticking(u, q)' => Ticking(u, q)
  BY DEF Ticking, FrameStep
<1>7. \A u, q, c \in Procs : Drives(u, q, c) /\ Ticking(u, c) => Drives(u, q, c)'
  BY DEF Drives, Ticking, FrameStep
<1>8. TickJustified'
  BY <1>6, <1>7 DEF TickJustified, FrameStep
<1>9. FramesRooted'
  <2> SUFFICES ASSUME NEW u \in Procs, NEW S \in SUBSET Procs,
                      S # {}, u \notin S, \A q \in S : Ticking(u, q)'
               PROVE  \E q \in S, w \in Procs \ S : Drives(u, w, q)'
    BY DEF FramesRooted
  <2>1. PICK q \in S, w \in Procs \ S : Drives(u, w, q)
    BY <1>6 DEF FramesRooted
  <2> QED
    BY <1>6, <1>7, <2>1
<1>10. WorkerHeld'
  <2> SUFFICES ASSUME NEW c \in Procs, Active(c)',
                      rt'[c].driverMode = "NewInternalDriver"
               PROVE  rt'[c].worker \/ \E u, q \in Procs : Stores(u, q, c)'
    BY DEF WorkerHeld
  <2>1. Active(c) /\ rt[c].driverMode = "NewInternalDriver" /\ loop[c] # "Exited"
    BY DEF Active, FrameStep, Kept
  <2>2. CASE rt[c].worker
    BY <2>1, <2>2 DEF FrameStep, Kept
  <2>3. ASSUME NEW u \in Procs, NEW q \in Procs, Stores(u, q, c)
        PROVE  rt'[c].worker \/ Stores(u, q, c)'
    <3>1. c # NoProc
      BY ProcsAssumption
    <3> QED
      BY <2>3, <3>1 DEF Stores, FrameStep
  <2> QED
    BY <2>1, <2>2, <2>3 DEF WorkerHeld
<1>11. OneDriver'
  BY <1>6 DEF OneDriver
<1> QED
  BY <1>1, <1>2, <1>3, <1>5, <1>8, <1>9, <1>10, <1>11

\* A thread that is not in its own process is in none.
LEMMA AwayFromHome ==
  ASSUME DriverInv, NEW t \in Procs, ~Ticking(t, t)
  PROVE  \A p \in Procs : ~Ticking(t, p)
<1> DEFINE S == {p \in Procs : Ticking(t, p)}
<1>1. ASSUME S # {}
      PROVE  FALSE
  <2>1. PICK p \in S, q \in Procs \ S : Drives(t, q, p)
    BY <1>1 DEF DriverInv, FramesRooted
  <2> QED
    BY <2>1 DEF Drives, Ticking
<1> QED
  BY <1>1

\* No frame moves, and a loop that moves has no frames; one that begins belongs
\* to a started process that the application drives.
QuietStep ==
  /\ Kept /\ UNCHANGED frames
  /\ \A u \in Procs :
       /\ loop[u] # "None" => loop'[u] # "None"
       /\ loop'[u] # "None" => loop[u] # "None" \/ rt[u].started
       /\ Active(u)' => Active(u) \/ rt[u].driverMode = "ExternalDriver"
       /\ loop'[u] = loop[u] \/ \A p \in Procs : ~Ticking(u, p)

LEMMA QuietStepKeeps ==
  ASSUME TypeInv, DriverInv, QuietStep
  PROVE  DriverInv'
<1> USE DEF DriverInv, QuietStep, frames
<1>1. ChildrenStarted'
  BY KeptChildren
<1>2. TodoStarted'
  <2> SUFFICES ASSUME NEW u \in Procs, NEW q \in Procs, NEW c \in todo[u][q]
               PROVE  Runs(q, c)'
    BY DEF TodoStarted
  <2>1. c \in Procs /\ Runs(q, c)
    BY DEF TodoStarted, TypeInv, TypeOK
  <2> QED
    BY <2>1 DEF Kept, Runs
<1>3. CurStarted'
  <2> SUFFICES ASSUME NEW u \in Procs, NEW q \in Procs, cur[u][q] # NoProc
               PROVE  Runs(q, cur[u][q])'
    BY DEF CurStarted
  <2>1. cur[u][q] \in Procs /\ Runs(q, cur[u][q])
    BY DEF CurStarted, TypeInv, TypeOK
  <2> QED
    BY <2>1 DEF Kept, Runs
<1>4. DrivenByParents'
  BY DEF DrivenByParents, Drives, Kept
<1>5. LoopStarted'
  BY DEF LoopStarted, Active, Kept
<1>6. TickJustified'
  BY DEF TickJustified, Ticking, Drives
<1>7. FramesRooted'
  BY DEF FramesRooted, Ticking, Drives
<1>8. WorkerHeld'
  <2> SUFFICES ASSUME NEW c \in Procs, Active(c)',
                      rt'[c].driverMode = "NewInternalDriver"
               PROVE  rt'[c].worker \/ \E u, q \in Procs : Stores(u, q, c)'
    BY DEF WorkerHeld
  <2>1. Active(c) /\ rt[c].driverMode = "NewInternalDriver"
    BY DEF Kept
  <2>2. rt[c].worker => rt'[c].worker
    BY <2>1 DEF Kept, Active
  <2> QED
    BY <2>1, <2>2 DEF WorkerHeld, Stores
<1>9. OneDriver'
  BY DEF OneDriver, Ticking
<1> QED
  BY <1>1, <1>2, <1>3, <1>4, <1>5, <1>6, <1>7, <1>8, <1>9

-----------------------------------------------------------------------------
(* The steps that enter a frame.                                           *)

\* parental_drive enters a child that nobody ticks, and that has no loop.
LEMMA DrivenIsIdle ==
  ASSUME TypeInv, DriverInv,
         NEW t \in Procs, NEW p \in Procs, NEW c \in Procs, ParentalDrive(t, p, c)
  PROVE  /\ Runs(p, c) /\ rt[c].driverMode = "Parent" /\ p # c
         /\ ~Active(c) /\ t # c
         /\ \A u \in Procs : ~Ticking(u, c)
<1> USE DEF DriverInv
<1>1. Runs(p, c) /\ rt[c].driverMode = "Parent" /\ p # c
  BY OneParent DEF ParentalDrive, DrivenByParent, TodoStarted, Runs
<1>2. ~Active(c) /\ t # c
  <2>1. Ticking(t, p)
    BY DEF ParentalDrive, Ticking
  <2> QED
    BY <1>1, <2>1 DEF LoopStarted, TickJustified, Active
<1>3. \A u \in Procs : ~Ticking(u, c)
  <2> SUFFICES ASSUME NEW u \in Procs, Ticking(u, c)
               PROVE  FALSE
    OBVIOUS
  <2>1. PICK q \in Procs : Drives(u, q, c)
    BY <1>2 DEF TickJustified, Active
  <2>2. q = p
    BY <1>1, <2>1, OneParent, ProcsAssumption DEF CurStarted, Drives, Runs
  <2>3. u = t
    BY <2>1, <2>2 DEF OneDriver, Drives, Ticking, ParentalDrive
  <2> QED
    BY <2>1, <2>2, <2>3 DEF Drives, ParentalDrive
<1> QED
  BY <1>1, <1>2, <1>3

LEMMA ParentalDriveKeeps ==
  ASSUME TypeInv, DriverInv,
         NEW t \in Procs, NEW p \in Procs, NEW c \in Procs, ParentalDrive(t, p, c)
  PROVE  DriverInv'
<1> USE DEF DriverInv
<1>1. Runs(p, c) /\ rt[c].driverMode = "Parent" /\ p # c
  BY DrivenIsIdle
<1>2. t # c
  BY DrivenIsIdle
<1>3. \A u \in Procs : ~Ticking(u, c)
  BY DrivenIsIdle
<1>4. /\ pc'[t][p] = "Drive" /\ pc'[t][c] = "Children" /\ cur'[t][p] = c
      /\ todo'[t][c] = rt[c].children
      /\ \A u, q \in Procs : u # t \/ (q # p /\ q # c) => pc'[u][q] = pc[u][q]
      /\ \A u, q \in Procs : u # t \/ q # p => cur'[u][q] = cur[u][q]
      /\ \A u, q \in Procs : u # t \/ q # c => todo'[u][q] = todo[u][q]
      /\ rt' = rt /\ loop' = loop /\ pc[t][p] = "Children"
  BY <1>1 DEF ParentalDrive, BeginTick, TypeInv, TypeOK
<1>5. \A u, q, d \in Procs :
        Drives(u, q, d)' <=> Drives(u, q, d) \/ (u = t /\ q = p /\ d = c)
  <2> SUFFICES ASSUME NEW u \in Procs, NEW q \in Procs, NEW d \in Procs
               PROVE  Drives(u, q, d)'
                        <=> Drives(u, q, d) \/ (u = t /\ q = p /\ d = c)
    OBVIOUS
  <2>1. CASE u = t /\ q = p
    <3>1. ~Drives(t, p, d) /\ (Drives(t, p, d)' <=> d = c)
      BY <1>4 DEF Drives
    <3> QED
      BY <2>1, <3>1
  <2>2. CASE u = t /\ q = c
    BY <1>1, <1>3, <1>4, <2>2 DEF Drives, Ticking
  <2>3. CASE u # t \/ (q # p /\ q # c)
    BY <1>4, <2>3 DEF Drives
  <2> QED
    BY <2>1, <2>2, <2>3
<1>6. \A u, q \in Procs : Ticking(u, q)' <=> Ticking(u, q) \/ (u = t /\ q = c)
  BY <1>1, <1>4 DEF Ticking
<1>7. ChildrenStarted' /\ LoopStarted'
  BY <1>4 DEF ChildrenStarted, LoopStarted, Active, Runs
<1>8. TodoStarted'
  BY <1>4 DEF TodoStarted, ChildrenStarted, Runs
<1>9. CurStarted'
  BY <1>1, <1>4 DEF CurStarted, Runs
<1>10. DrivenByParents'
  BY <1>1, <1>4, <1>5 DEF DrivenByParents
<1>11. TickJustified'
  <2>1. Ticking(t, p)
    BY DEF ParentalDrive, Ticking
  <2> QED
    BY <1>4, <1>5, <1>6, <2>1 DEF TickJustified
<1>12. FramesRooted'
  <2> SUFFICES ASSUME NEW u \in Procs, NEW S \in SUBSET Procs,
                      S # {}, u \notin S, \A q \in S : Ticking(u, q)'
               PROVE  \E q \in S, w \in Procs \ S : Drives(u, w, q)'
    BY DEF FramesRooted
  <2>1. CASE u # t \/ c \notin S
    <3>1. \A q \in S : Ticking(u, q)
      BY <1>6, <2>1
    <3>2. PICK q \in S, w \in Procs \ S : Drives(u, w, q)
      BY <3>1 DEF FramesRooted
    <3> QED
      BY <1>5, <3>2
  <2>2. CASE u = t /\ c \in S /\ p \notin S
    BY <1>5, <2>2
  <2>3. CASE u = t /\ c \in S /\ p \in S
    <3> DEFINE R == S \ {c}
    <3>1. R \in SUBSET Procs /\ R # {} /\ t \notin R /\ \A q \in R : Ticking(t, q)
      BY <1>1, <1>6, <2>3
    <3>2. PICK q \in R, w \in Procs \ R : Drives(t, w, q)
      BY <3>1 DEF FramesRooted
    <3>3. w # c
      BY <1>3, <3>2 DEF Drives, Ticking
    <3> QED
      BY <1>5, <2>3, <3>2, <3>3
  <2> QED
    BY <2>1, <2>2, <2>3
<1>13. WorkerHeld'
  <2>1. ASSUME NEW u \in Procs, NEW q \in Procs, NEW d \in Procs, Stores(u, q, d)
        PROVE  Stores(u, q, d)'
    <3>1. Ticking(u, q) /\ (u # t \/ q # p)
      BY <1>4, <2>1 DEF Stores, Ticking, Callbacks
    <3> QED
      BY <1>3, <1>4, <2>1, <3>1 DEF Stores
  <2> QED
    BY <1>4, <2>1 DEF WorkerHeld, Active
<1>14. OneDriver'
  BY <1>3, <1>6 DEF OneDriver
<1> QED
  BY <1>7, <1>8, <1>9, <1>10, <1>11, <1>12, <1>13, <1>14

\* Nobody ticks the process whose loop enters it.
LEMMA LoopIsIdle ==
  ASSUME TypeInv, DriverInv, NEW t \in Procs, FirstTick(t) \/ NextTick(t)
  PROVE  /\ loop[t] \in {"Config", "Burst"} /\ loop'[t] = "Burst"
         /\ \A u \in Procs : ~Ticking(u, t)
<1> USE DEF DriverInv
<1>1. loop[t] \in {"Config", "Burst"} /\ loop'[t] = "Burst"
  BY DEF FirstTick, NextTick, TypeInv, TypeOK
<1>2. \A u \in Procs : ~Ticking(u, t)
  <2> SUFFICES ASSUME NEW u \in Procs, Ticking(u, t)
               PROVE  FALSE
    OBVIOUS
  <2>1. CASE u = t
    BY <2>1 DEF TickJustified, Ticking, FirstTick, NextTick
  <2>2. CASE u # t
    BY <1>1, <2>2 DEF TickJustified, DrivenByParents, LoopStarted, Active
  <2> QED
    BY <2>1, <2>2
<1> QED
  BY <1>1, <1>2

\* The loop of a process enters its tree_tick, which no parent ticks.
LEMMA LoopTickKeeps ==
  ASSUME TypeInv, DriverInv, NEW t \in Procs, FirstTick(t) \/ NextTick(t)
  PROVE  DriverInv'
<1> USE DEF DriverInv
<1>1. loop[t] \in {"Config", "Burst"} /\ loop'[t] = "Burst"
  BY LoopIsIdle
<1>2. \A u \in Procs : ~Ticking(u, t)
  BY LoopIsIdle
<1>3. /\ pc'[t][t] = "Children" /\ todo'[t][t] = rt[t].children
      /\ \A u, q \in Procs : u # t \/ q # t =>
           pc'[u][q] = pc[u][q] /\ todo'[u][q] = todo[u][q]
      /\ rt' = rt /\ cur' = cur
      /\ \A u \in Procs : u # t => loop'[u] = loop[u]
  BY DEF FirstTick, NextTick, LoopTick, BeginTick, Goto, TypeInv, TypeOK
<1>4. \A u, q, d \in Procs : Drives(u, q, d)' <=> Drives(u, q, d)
  BY <1>2, <1>3 DEF Drives, Ticking
<1>5. \A u, q \in Procs : Ticking(u, q)' <=> Ticking(u, q) \/ (u = t /\ q = t)
  BY <1>3 DEF Ticking
<1>6. ChildrenStarted' /\ LoopStarted' /\ CurStarted'
  BY <1>1, <1>3 DEF ChildrenStarted, LoopStarted, CurStarted, Active, Runs
<1>7. TodoStarted'
  BY <1>3 DEF TodoStarted, ChildrenStarted, Runs
<1>8. DrivenByParents'
  BY <1>3, <1>4 DEF DrivenByParents
<1>9. TickJustified'
  BY <1>1, <1>3, <1>4, <1>5 DEF TickJustified
<1>10. FramesRooted'
  <2> SUFFICES ASSUME NEW u \in Procs, NEW S \in SUBSET Procs,
                      S # {}, u \notin S, \A q \in S : Ticking(u, q)'
               PROVE  \E q \in S, w \in Procs \ S : Drives(u, w, q)'
    BY DEF FramesRooted
  <2>1. \A q \in S : Ticking(u, q)
    BY <1>5
  <2>2. PICK q \in S, w \in Procs \ S : Drives(u, w, q)
    BY <2>1 DEF FramesRooted
  <2> QED
    BY <1>4, <2>2
<1>11. WorkerHeld'
  <2>1. ASSUME NEW u \in Procs, NEW q \in Procs, NEW d \in Procs, Stores(u, q, d)
        PROVE  Stores(u, q, d)'
    <3>1. Ticking(u, q)
      BY <2>1 DEF Stores, Ticking, Callbacks
    <3> QED
      BY <1>2, <1>3, <2>1, <3>1 DEF Stores
  <2>2. \A d \in Procs : Active(d)' => Active(d)
    BY <1>1, <1>3 DEF Active
  <2> QED
    BY <1>3, <2>1, <2>2 DEF WorkerHeld
<1>12. OneDriver'
  BY <1>2, <1>5 DEF OneDriver
<1> QED
  BY <1>6, <1>7, <1>8, <1>9, <1>10, <1>11, <1>12

-----------------------------------------------------------------------------
(* The steps that start a child.                                           *)

\* A handle that was never started, or that has no worker although it should.
Startable(c) ==
  ~rt[c].started \/ (rt[c].driverMode = "NewInternalDriver" /\ ~rt[c].worker)

\* The behaviour of p, called by t, starts c with the runtime state r: it is
\* given another driver, or a thread, only if it is startable.
AddStep(t, p, c, r) ==
  /\ IsChild(p, c) /\ InCallback(t, p)
  /\ r \in RuntimeState /\ r.started
  /\ r.children = rt[c].children /\ r.worker = rt[c].worker
  /\ r.unused = rt[c].unused
  /\ r.undriven <=> rt[c].started /\ rt[c].undriven
  /\ r.driverMode = rt[c].driverMode \/ Startable(c)
  /\ rt[c].started => r.driverMode \in {rt[c].driverMode, "Parent"}
  /\ AddChild(p, c, r)
  /\ UNCHANGED <<pc, todo>>
  /\ \/ UNCHANGED <<loop, cur>>
     \/ /\ Startable(c) /\ r.driverMode = "NewInternalDriver"
        /\ loop' = [loop EXCEPT ![c] = "Config"]
        /\ cur' = [cur EXCEPT ![t][p] = c]

\* Nothing of a startable child runs: neither its loop nor a frame of it.
LEMMA StartableIsIdle ==
  ASSUME TypeInv, DriverInv, NEW t \in Procs, NEW p \in Procs, NEW c \in Procs,
         IsChild(p, c), InCallback(t, p), Startable(c)
  PROVE  /\ ~Active(c)
         /\ \A u, q \in Procs : ~Drives(u, q, c)
<1> USE DEF DriverInv
<1>1. ~Active(c)
  <2>1. CASE ~rt[c].started
    BY <2>1, OneParent DEF LoopStarted, Active
  <2>2. CASE rt[c].driverMode = "NewInternalDriver" /\ ~rt[c].worker
    <3>1. ASSUME NEW u \in Procs, NEW q \in Procs, Stores(u, q, c)
          PROVE  FALSE
      <4>1. q = p
        BY <3>1, OneParent, ProcsAssumption DEF CurStarted, Stores, Runs
      <4>2. u = t
        BY <3>1, <4>1 DEF OneDriver, Ticking, Stores, InCallback, Callbacks
      <4> QED
        BY <3>1, <4>1, <4>2, ProcsAssumption DEF Stores, InCallback
    <3> QED
      BY <2>2, <3>1 DEF WorkerHeld
  <2> QED
    BY <2>1, <2>2 DEF Startable
<1>2. \A u, q \in Procs : ~Drives(u, q, c)
  BY ProcsAssumption DEF Startable, DrivenByParents, CurStarted, Drives, Runs
<1> QED
  BY <1>1, <1>2

LEMMA AddStepKeeps ==
  ASSUME TypeInv, DriverInv, NEW t \in Procs, NEW p \in Procs, NEW c \in Procs,
         NEW r, AddStep(t, p, c, r)
  PROVE  DriverInv'
<1> USE DEF DriverInv
<1>1. p # c /\ c # Root /\ c # NoProc /\ InCallback(t, p)
  BY OneParent, ProcsAssumption DEF AddStep
<1>2. Startable(c) => ~Active(c) /\ \A u, q \in Procs : ~Drives(u, q, c)
  BY StartableIsIdle DEF AddStep
<1>3. /\ rt'[c] = r
      /\ rt'[p].children = rt[p].children \cup {c}
      /\ rt'[p].started = rt[p].started /\ rt'[p].driverMode = rt[p].driverMode
      /\ rt'[p].worker = rt[p].worker
      /\ \A q \in Procs \ {p, c} : rt'[q] = rt[q]
  <2> DEFINE cs == rt[p].children \cup {c}
  <2>1. rt[p] \in RuntimeState
    BY DEF TypeInv, TypeOK
  <2>2. cs \in SUBSET Procs
    BY <2>1 DEF RuntimeState
  <2>3. PutChild(c, r, p, cs) /\ r \in RuntimeState
    BY DEF AddStep, AddChild
  <2> HIDE DEF cs
  <2>4. rt \in [Procs -> RuntimeState]
    BY DEF TypeInv, TypeOK
  <2>5. /\ rt'[c] = r /\ rt'[p].children = cs
        /\ rt'[p].started = rt[p].started /\ rt'[p].driverMode = rt[p].driverMode
        /\ rt'[p].worker = rt[p].worker
        /\ \A q \in Procs \ {p, c} : rt'[q] = rt[q]
    BY <1>1, <2>2, <2>3, <2>4, PutChildTypes
  <2> QED
    BY <2>5 DEF cs
<1>4. /\ \A q \in Procs : rt[q].started => rt'[q].started
      /\ \A q \in Procs : q # c => rt'[q].driverMode = rt[q].driverMode
      /\ \A q \in Procs : q # p => rt'[q].children = rt[q].children
      /\ \A q \in Procs : rt'[q].worker = rt[q].worker
      /\ rt'[c].driverMode = rt[c].driverMode \/ Startable(c)
  BY <1>3 DEF AddStep
<1>5. \/ loop' = loop /\ cur' = cur
      \/ /\ Startable(c) /\ rt'[c].driverMode = "NewInternalDriver"
         /\ loop'[c] = "Config" /\ cur'[t][p] = c
         /\ \A u \in Procs : u # c => loop'[u] = loop[u]
         /\ \A u, q \in Procs : u # t \/ q # p => cur'[u][q] = cur[u][q]
  BY <1>3 DEF AddStep, TypeInv, TypeOK
<1>6. \A q, d \in Procs : Runs(q, d) => Runs(q, d)'
  BY <1>4 DEF Runs
<1>7. ChildrenStarted'
  <2> SUFFICES ASSUME NEW q \in Procs, NEW d \in rt'[q].children
               PROVE  Runs(q, d)'
    BY DEF ChildrenStarted
  <2>1. CASE d \in rt[q].children
    BY <1>6, <2>1 DEF ChildrenStarted, TypeInv, TypeOK, RuntimeState
  <2>2. CASE q = p /\ d = c
    BY <1>3, <2>2 DEF Runs, AddStep
  <2> QED
    BY <1>3, <1>4, <2>1, <2>2
<1>8. TodoStarted'
  BY <1>6 DEF TodoStarted, AddStep, TypeInv, TypeOK
<1>9. CurStarted'
  <2> SUFFICES ASSUME NEW u \in Procs, NEW q \in Procs, cur'[u][q] # NoProc
               PROVE  Runs(q, cur[u][q])'
    BY DEF CurStarted
  <2>1. CASE cur'[u][q] = cur[u][q]
    BY <1>6, <2>1 DEF CurStarted, TypeInv, TypeOK
  <2>2. CASE u = t /\ q = p /\ cur'[u][q] = c
    BY <1>3, <2>2 DEF Runs, AddStep
  <2> QED
    BY <1>5, <2>1, <2>2
<1>10. \A u, q, d \in Procs :
         /\ Drives(u, q, d)' <=> Drives(u, q, d)
         /\ Stores(u, q, d) => Stores(u, q, d)'
  BY <1>1, <1>5, ProcsAssumption DEF Drives, Stores, AddStep, InCallback, Callbacks
<1>11. DrivenByParents'
  BY <1>2, <1>4, <1>10 DEF DrivenByParents
<1>12. LoopStarted'
  <2>1. ASSUME NEW u \in Procs, u # c
        PROVE  /\ loop'[u] # "None" => u = Root \/ rt'[u].started
               /\ Active(u)' => rt'[u].driverMode # "Parent"
    BY <1>4, <1>5, <2>1 DEF LoopStarted, Active
  <2>2. Active(c)' => rt'[c].driverMode # "Parent"
    BY <1>2, <1>4, <1>5 DEF LoopStarted, Active
  <2> QED
    BY <1>3, <2>1, <2>2 DEF LoopStarted, AddStep
<1>13. \A u, q \in Procs :
         /\ Ticking(u, q)' <=> Ticking(u, q)
         /\ Ticking(u, q) => loop'[u] = loop[u]
  BY <1>2, <1>5 DEF Ticking, AddStep, TickJustified, Active
<1>14. TickJustified'
  BY <1>10, <1>13 DEF TickJustified
<1>15. FramesRooted'
  BY <1>10, <1>13 DEF FramesRooted
<1>16. WorkerHeld'
  <2> SUFFICES ASSUME NEW d \in Procs, Active(d)',
                      rt'[d].driverMode = "NewInternalDriver"
               PROVE  rt'[d].worker \/ \E u, q \in Procs : Stores(u, q, d)'
    BY DEF WorkerHeld
  <2>1. CASE loop'[d] = loop[d]
    <3>1. Active(d) /\ rt[d].driverMode = "NewInternalDriver"
      BY <1>2, <1>4, <2>1 DEF Active
    <3> QED
      BY <1>4, <1>10, <3>1 DEF WorkerHeld
  <2>2. CASE d = c /\ cur'[t][p] = c
    BY <2>2 DEF Stores, AddStep, InCallback
  <2> QED
    BY <1>5, <2>1, <2>2
<1>17. OneDriver'
  BY <1>13 DEF OneDriver
<1> QED
  BY <1>7, <1>8, <1>9, <1>11, <1>12, <1>14, <1>15, <1>16, <1>17

-----------------------------------------------------------------------------
(* Each action is one of these steps.                                      *)

\* r is driven and started as s, has the same children and forgets no worker.
Same(r, s) ==
  /\ r.started = s.started /\ r.driverMode = s.driverMode
  /\ r.children = s.children
  /\ s.worker => r.worker

\* The code's updates of one runtime state, but those of start_child, change
\* nothing of it that DriverInv reads.
LEMMA SameUpdates ==
  ASSUME NEW r \in RuntimeState
  PROVE  /\ \A v : Same([r EXCEPT !.state = v], r)
         /\ \A v, s : Same([r EXCEPT !.success = v, !.state = s], r)
         /\ \A v, s : Same([r EXCEPT !.success = v, !.processDone = TRUE,
                                     !.state = s], r)
         /\ \A s : Same([r EXCEPT !.initDone = TRUE, !.state = s], r)
         /\ \A s : Same([r EXCEPT !.shutdownDone = TRUE, !.state = s], r)
         /\ Same([r EXCEPT !.worker = TRUE], r)
         /\ Same([r EXCEPT !.undriven = TRUE], r)
         /\ Same([r EXCEPT !.canceled = TRUE], r)
         /\ Same([r EXCEPT !.whenFinishedUnused = TRUE], r)
         /\ Same(Unused(r), r)
         /\ Same(r, r)
  BY DEF Same, RuntimeState, Unused

LEMMA PutKept ==
  ASSUME TypeInv, NEW p \in Procs, NEW r \in RuntimeState, Same(r, rt[p]), Put(p, r)
  PROVE  Kept
<1>1. rt'[p] = r /\ \A q \in Procs \ {p} : rt'[q] = rt[q]
  BY PutTypes DEF TypeInv, TypeOK
<1> QED
  BY <1>1 DEF Kept, Same

LEMMA RemoveKept ==
  ASSUME TypeInv, NEW p \in Procs, NEW c \in Procs, p # c,
         NEW r \in RuntimeState, Same(r, rt[c]),
         PutChild(c, r, p, rt[p].children \ {c})
  PROVE  Kept
<1> DEFINE cs == rt[p].children \ {c}
<1>1. cs \in SUBSET Procs /\ rt \in [Procs -> RuntimeState]
  BY DEF TypeInv, TypeOK, RuntimeState
<1>2. PutChild(c, r, p, cs)
  OBVIOUS
<1> HIDE DEF cs
<1>3. /\ rt'[c] = r /\ rt'[p].children = cs
      /\ rt'[p].started = rt[p].started /\ rt'[p].driverMode = rt[p].driverMode
      /\ rt'[p].worker = rt[p].worker
      /\ \A q \in Procs \ {p, c} : rt'[q] = rt[q]
  BY <1>1, <1>2, PutChildTypes
<1>4. cs \subseteq rt[p].children
  BY DEF cs
<1> QED
  BY <1>3, <1>4 DEF Kept, Same

\* The end of a tick with the runtime state r.
LEMMA EndTickKeeps ==
  ASSUME TypeInv, DriverInv, NEW t \in Procs, NEW p \in Procs,
         NEW r \in RuntimeState, Same(r, rt[p]), EndTick(t, p, r),
         pc[t][p] \notin {"Idle", "Drive"},
         pc[t][p] \in Callbacks => cur[t][p] = NoProc,
         UNCHANGED <<todo, cur, loop>>
  PROVE  DriverInv'
<1>1. Kept
  BY PutKept DEF EndTick
<1>2. /\ pc'[t][p] = "Idle"
      /\ \A u, q \in Procs : u # t \/ q # p => pc'[u][q] = pc[u][q]
  BY DEF EndTick, Goto, TypeInv, TypeOK
<1>3. cur[t][p] # NoProc => Runs(p, cur[t][p]) /\ cur[t][p] \in Procs
  BY DEF DriverInv, CurStarted, TypeInv, TypeOK
<1>4. FrameStep(t, p)
  BY <1>1, <1>2, <1>3 DEF FrameStep
<1> QED
  BY <1>4, FrameStepKeeps

\* The end of the visit of a child, whose tick has ended.
LEMMA SettleKeeps ==
  ASSUME TypeInv, DriverInv, NEW t \in Procs, NEW p \in Procs, NEW c \in Procs,
         NEW r \in RuntimeState, Same(r, rt[c]), Runs(p, c), SettleChild(t, p, c, r),
         pc[t][p] \in {"Children", "Drive"},
         pc[t][p] = "Drive" => pc[t][cur[t][p]] = "Idle"
  PROVE  DriverInv'
<1>1. Kept
  BY PutKept, RemoveKept, OneParent DEF SettleChild, Runs
<1>2. /\ pc'[t][p] # "Drive"
      /\ \A u, q \in Procs : u # t \/ q # p => pc'[u][q] = pc[u][q]
  BY DEF SettleChild, Goto, TypeInv, TypeOK
<1>3. /\ cur'[t][p] \in {c, NoProc}
      /\ \A u, q \in Procs : u # t \/ q # p => cur'[u][q] = cur[u][q]
  BY DEF SettleChild, TypeInv, TypeOK
<1>4. /\ todo'[t][p] \subseteq todo[t][p]
      /\ \A u, q \in Procs : u # t \/ q # p => todo'[u][q] = todo[u][q]
  BY DEF SettleChild, TypeInv, TypeOK
<1>5. FrameStep(t, p)
  BY <1>1, <1>2, <1>3, <1>4 DEF FrameStep, SettleChild, Callbacks
<1> QED
  BY <1>5, FrameStepKeeps

\* A step of t within its frame of p that leaves the runtime states alone.
LEMMA MoveKeeps ==
  ASSUME TypeInv, DriverInv, NEW t \in Procs, NEW p \in Procs,
         pc[t][p] \notin {"Idle", "Drive"}, pc[t][p] \notin Callbacks,
         NEW label, label # "Drive", Goto(t, p, label),
         \/ todo' = todo
         \/ todo' = [todo EXCEPT ![t][p] = rt[p].children],
         UNCHANGED <<rt, cur, loop>>
  PROVE  DriverInv'
<1>1. /\ pc'[t][p] = label
      /\ \A u, q \in Procs : u # t \/ q # p => pc'[u][q] = pc[u][q]
  BY DEF Goto, TypeInv, TypeOK
<1>2. /\ todo'[t][p] \subseteq todo[t][p] \cup rt[p].children
      /\ \A u, q \in Procs : u # t \/ q # p => todo'[u][q] = todo[u][q]
  BY DEF TypeInv, TypeOK
<1>3. cur[t][p] # NoProc => Runs(p, cur[t][p]) /\ cur[t][p] \in Procs
  BY DEF DriverInv, CurStarted, TypeInv, TypeOK
<1>4. FrameStep(t, p)
  BY <1>1, <1>2, <1>3 DEF FrameStep, Kept
<1> QED
  BY <1>4, FrameStepKeeps

\* A step of t within its frame of p that changes the runtime states and may
\* forget a child of the snapshot, or the child at hand.
LEMMA TouchKeeps ==
  ASSUME TypeInv, DriverInv, NEW t \in Procs, NEW p \in Procs, Kept,
         pc[t][p] \notin {"Idle", "Drive"},
         pc[t][p] \in Callbacks /\ cur[t][p] # NoProc => rt'[cur[t][p]].worker,
         NEW label, label # "Drive", pc' = pc \/ Goto(t, p, label),
         \/ todo' = todo
         \/ \E d \in Procs : todo' = [todo EXCEPT ![t][p] = @ \ {d}],
         cur' = cur \/ cur' = [cur EXCEPT ![t][p] = NoProc],
         UNCHANGED loop
  PROVE  DriverInv'
<1>1. /\ pc'[t][p] # "Drive"
      /\ \A u, q \in Procs : u # t \/ q # p => pc'[u][q] = pc[u][q]
  BY DEF Goto, TypeInv, TypeOK
<1>2. /\ todo'[t][p] \subseteq todo[t][p]
      /\ \A u, q \in Procs : u # t \/ q # p => todo'[u][q] = todo[u][q]
  BY DEF TypeInv, TypeOK
<1>3. /\ cur'[t][p] \in {cur[t][p], NoProc}
      /\ \A u, q \in Procs : u # t \/ q # p => cur'[u][q] = cur[u][q]
  BY DEF TypeInv, TypeOK
<1>4. cur[t][p] # NoProc => Runs(p, cur[t][p]) /\ cur[t][p] \in Procs
  BY DEF DriverInv, CurStarted, TypeInv, TypeOK
<1>5. FrameStep(t, p)
  BY <1>1, <1>2, <1>3, <1>4 DEF FrameStep
<1> QED
  BY <1>5, FrameStepKeeps

\* A frame visits and drives children of its process, which is none of them.
LEMMA NotItsOwnChild ==
  ASSUME TypeInv, DriverInv, NEW t \in Procs, NEW p \in Procs
  PROVE  /\ \A c \in todo[t][p] : c \in Procs /\ Runs(p, c) /\ p # c
         /\ pc[t][p] = "Drive" =>
              cur[t][p] \in Procs /\ Runs(p, cur[t][p]) /\ p # cur[t][p]
<1>1. ASSUME NEW c \in todo[t][p]
      PROVE  c \in Procs /\ Runs(p, c) /\ p # c
  <2>1. c \in Procs
    BY DEF TypeInv, TypeOK
  <2> QED
    BY <2>1, OneParent DEF DriverInv, TodoStarted, Runs
<1>2. ASSUME pc[t][p] = "Drive"
      PROVE  cur[t][p] \in Procs /\ Runs(p, cur[t][p]) /\ p # cur[t][p]
  <2>1. cur[t][p] \in Procs
    BY <1>2 DEF TypeInv, Framed
  <2> QED
    BY <2>1, OneParent, ProcsAssumption DEF DriverInv, CurStarted, Runs
<1> QED
  BY <1>1, <1>2

LEMMA TickKeeps ==
  ASSUME TypeInv, DriverInv, NEW t \in Procs, NEW p \in Procs, TickStep(t, p)
  PROVE  DriverInv'
<1>0. \A q \in Procs : rt[q] \in RuntimeState
  BY DEF TypeInv, TypeOK
<1>1. ASSUME NEW c \in Procs, ParentalDrive(t, p, c)
      PROVE  DriverInv'
  BY <1>1, ParentalDriveKeeps
<1>2. CASE DriveReturn(t, p)
  <2> DEFINE c == cur[t][p]
             r == IF Progress(c) THEN rt[c] ELSE [rt[c] EXCEPT !.undriven = TRUE]
  <2>1. c \in Procs /\ Runs(p, c)
    BY <1>2, NotItsOwnChild DEF DriveReturn
  <2>2. r \in RuntimeState /\ Same(r, rt[c])
    BY <1>0, <2>1, RecordTypes, SameUpdates
  <2>3. SettleChild(t, p, c, r) /\ pc[t][p] = "Drive" /\ pc[t][c] = "Idle"
    BY <1>2 DEF DriveReturn
  <2>4. pc[t][cur[t][p]] = "Idle"
    BY <2>3
  <2> HIDE DEF c, r
  <2> QED
    BY <2>1, <2>2, <2>3, <2>4, SettleKeeps
<1>3. ASSUME NEW c \in Procs, PassChild(t, p, c)
      PROVE  DriverInv'
  <2>1. rt[c] \in RuntimeState /\ Same(rt[c], rt[c]) /\ Runs(p, c)
    BY <1>0, <1>3, SameUpdates, NotItsOwnChild DEF PassChild
  <2> QED
    BY <1>3, <2>1, SettleKeeps DEF PassChild
<1>4. CASE JoinWorker(t, p)
  <2> DEFINE c == cur[t][p]
             r == [rt[c] EXCEPT !.worker = FALSE]
  <2>1. c \in Procs /\ (rt[c].worker => loop[c] = "Exited")
    BY <1>4 DEF TypeInv, Framed, JoinWorker
  <2>2. /\ r \in RuntimeState
        /\ r.started = rt[c].started /\ r.driverMode = rt[c].driverMode
        /\ r.children = rt[c].children
    BY <1>0, <2>1 DEF RuntimeState
  <2>3. Put(c, r)
    BY <1>4 DEF JoinWorker
  <2> HIDE DEF r
  <2>4. rt'[c] = r /\ \A q \in Procs \ {c} : rt'[q] = rt[q]
    BY <2>1, <2>2, <2>3, PutTypes DEF TypeInv, TypeOK
  <2>5. Kept
    BY <2>1, <2>2, <2>4 DEF Kept
  <2> HIDE DEF c
  <2> QED
    BY <1>4, <2>5, TouchKeeps DEF JoinWorker, Callbacks
<1>5. CASE LeaveExistent(t, p)
  <2> DEFINE s == IF rt[p].canceled THEN "FinishedPrepare" ELSE "Initializing"
             r == [rt[p] EXCEPT !.state = s]
  <2>1. s \in AbstractState
    BY DEF AbstractState
  <2>2. EndTick(t, p, r)
    BY <1>5 DEF LeaveExistent
  <2> HIDE DEF s
  <2>3. r \in RuntimeState /\ Same(r, rt[p])
    BY <1>0, <2>1, RecordTypes, SameUpdates
  <2> HIDE DEF r
  <2> QED
    BY <1>5, <2>2, <2>3, EndTickKeeps DEF LeaveExistent, AtArm, Callbacks
<1>6. CASE SeeCanceled(t, p)
  <2> DEFINE r == [rt[p] EXCEPT !.state = "DownShutting"]
  <2>1. r \in RuntimeState /\ Same(r, rt[p])
    BY <1>0, RecordTypes, SameUpdates DEF AbstractState
  <2>2. EndTick(t, p, r)
    BY <1>6 DEF SeeCanceled
  <2> HIDE DEF r
  <2> QED
    BY <1>6, <2>1, <2>2, EndTickKeeps DEF SeeCanceled, AtArm, Callbacks
<1>7. CASE SeeNotCanceled(t, p)
  <2>1. PICK label \in {"LockInitialize", "LockProcess"} : Goto(t, p, label)
    BY <1>7 DEF SeeNotCanceled
  <2> QED
    BY <1>7, <2>1, MoveKeeps DEF SeeNotCanceled, AtArm, Callbacks
<1>8. ASSUME NEW f \in Callbacks, Enter(t, p, f),
             pc[t][p] \in {"LockInitialize", "LockProcess", "Children"}
      PROVE  DriverInv'
  BY <1>8, MoveKeeps DEF Enter, Callbacks
<1>9. ASSUME NEW f \in Callbacks, NEW r \in RuntimeState, Same(r, rt[p]),
             Return(t, p, f, r)
      PROVE  DriverInv'
  BY <1>9, EndTickKeeps DEF Return, Callbacks
<1>10. CASE ReturnPending(t, p)
  BY <1>0, <1>9, <1>10, SameUpdates DEF ReturnPending
<1>11. CASE ReturnInitialize(t, p)
  <2> DEFINE r1 == [rt[p] EXCEPT !.initDone = TRUE, !.state = "Processing"]
             r2 == [rt[p] EXCEPT !.success = "Negative", !.state = "DownShutting"]
  <2>1. /\ r1 \in RuntimeState /\ Same(r1, rt[p])
        /\ r2 \in RuntimeState /\ Same(r2, rt[p])
    BY <1>0, RecordTypes, SameUpdates DEF AbstractState, Success
  <2>2. Return(t, p, "initialize", r1) \/ Return(t, p, "initialize", r2)
    BY <1>11 DEF ReturnInitialize
  <2> HIDE DEF r1, r2
  <2> QED
    BY <1>9, <2>1, <2>2 DEF Callbacks
<1>12. CASE ReturnProcess(t, p)
  <2>1. PICK success \in Success :
          Return(t, p, "process", [rt[p] EXCEPT !.success = success,
                                      !.processDone = TRUE, !.state = "DownShutting"])
    BY <1>12 DEF ReturnProcess
  <2> DEFINE r == [rt[p] EXCEPT !.success = success, !.processDone = TRUE,
                                !.state = "DownShutting"]
  <2>2. r \in RuntimeState /\ Same(r, rt[p])
    BY <1>0, RecordTypes, SameUpdates DEF AbstractState
  <2>3. Return(t, p, "process", r)
    BY <2>1
  <2> HIDE DEF r
  <2> QED
    BY <1>9, <2>2, <2>3 DEF Callbacks
<1>13. CASE ReturnShutdown(t, p)
  <2> DEFINE r == [rt[p] EXCEPT !.shutdownDone = TRUE,
                                !.state = "ChildrenUnusedSet"]
  <2>1. r \in RuntimeState /\ Same(r, rt[p])
    BY <1>0, RecordTypes, SameUpdates DEF AbstractState
  <2>2. Return(t, p, "shutdown", r)
    BY <1>13 DEF ReturnShutdown
  <2> HIDE DEF r
  <2> QED
    BY <1>9, <2>1, <2>2 DEF Callbacks
<1>14. CASE ReleaseChildren(t, p)
  BY <1>14, MoveKeeps DEF ReleaseChildren, AtArm, Callbacks
<1>15. ASSUME NEW c \in Procs, ReleaseChild(t, p, c)
       PROVE  DriverInv'
  <2>1. Unused(rt[c]) \in RuntimeState /\ Same(Unused(rt[c]), rt[c])
    BY <1>0, RecordTypes, SameUpdates
  <2> QED
    BY <1>15, <2>1, PutKept, TouchKeeps DEF ReleaseChild, Callbacks
<1>16. CASE EndRelease(t, p)
  <2> DEFINE r == [rt[p] EXCEPT !.state = "FinishedPrepare"]
  <2>1. r \in RuntimeState /\ Same(r, rt[p])
    BY <1>0, RecordTypes, SameUpdates DEF AbstractState
  <2>2. EndTick(t, p, r)
    BY <1>16 DEF EndRelease
  <2> HIDE DEF r
  <2> QED
    BY <1>16, <2>1, <2>2, EndTickKeeps DEF EndRelease, Callbacks
<1>17. CASE Finish(t, p)
  <2> DEFINE r == IF rt[p].whenFinishedUnused THEN Unused(rt[p]) ELSE rt[p]
             s == [r EXCEPT !.state = "Finished"]
  <2>1. r \in RuntimeState /\ Same(r, rt[p])
    BY <1>0, RecordTypes, SameUpdates
  <2>2. EndTick(t, p, s)
    BY <1>17 DEF Finish
  <2> HIDE DEF r
  <2>3. s \in RuntimeState /\ Same(s, r)
    BY <2>1, RecordTypes, SameUpdates DEF AbstractState
  <2> HIDE DEF s
  <2>4. Same(s, rt[p])
    BY <2>1, <2>3 DEF Same
  <2> QED
    BY <1>17, <2>2, <2>3, <2>4, EndTickKeeps DEF Finish, AtArm, Callbacks
<1>18. CASE TickFinished(t, p)
  BY <1>18, MoveKeeps DEF TickFinished, AtArm, Callbacks
<1> QED
  BY <1>1, <1>2, <1>3, <1>4, <1>5, <1>6, <1>7, <1>8, <1>10, <1>11, <1>12,
     <1>13, <1>14, <1>15, <1>16, <1>17, <1>18
  DEF TickStep, EnterInitialize, EnterProcess, EnterShutdown, Callbacks, AtArm

\* A handle is started: for the first time, or again with the same driver.
LEMMA StartIsAdd ==
  ASSUME ~Retries, TypeInv,
         NEW t \in Procs, NEW p \in Procs, NEW c \in Procs, NEW m \in DriverMode,
         \/ StartChild(t, p, c, m)
         \/ SpawnWorker(t, p, c, m)
         \/ SpawnFails(t, p, c, m)
  PROVE  \E r : AddStep(t, p, c, r)
<1> DEFINE r == Driven(c, m)
           s == [r EXCEPT !.driverMode = "Parent"]
<1>1. IsChild(p, c) /\ InCallback(t, p) /\ (rt[c].started => rt[c].driverMode = m)
  BY DEF StartChild, SpawnWorker, SpawnFails, MayStart, IsChild
<1>2. rt[c] \in RuntimeState
  BY DEF TypeInv, TypeOK
<1>3. /\ r \in RuntimeState /\ r.started
      /\ r.children = rt[c].children /\ r.driverMode = m
      /\ r.worker = rt[c].worker /\ r.unused = rt[c].unused
      /\ r.undriven <=> rt[c].started /\ rt[c].undriven
  <2>1. CASE rt[c].started
    BY <1>1, <1>2, <2>1 DEF Driven
  <2>2. CASE ~rt[c].started
    BY <1>2, <2>2 DEF Driven, RuntimeState
  <2> QED
    BY <2>1, <2>2
<1>4. m = rt[c].driverMode \/ Startable(c)
  BY <1>1 DEF Startable
<1> HIDE DEF r
<1>5. /\ s \in RuntimeState /\ s.started
      /\ s.children = rt[c].children /\ s.driverMode = "Parent"
      /\ s.worker = rt[c].worker /\ s.unused = rt[c].unused
      /\ s.undriven <=> rt[c].started /\ rt[c].undriven
  BY <1>3 DEF RuntimeState, DriverMode
<1>6. NeedsWorker(c, m) => Startable(c) /\ m = "NewInternalDriver"
  BY <1>1 DEF NeedsWorker, Startable
<1>7. AddStep(t, p, c, r) \/ AddStep(t, p, c, s)
  <2>1. CASE StartChild(t, p, c, m)
    <3>1. AddChild(p, c, r) /\ UNCHANGED <<pc, todo, cur, loop>>
      BY <2>1 DEF StartChild, frames, r
    <3> QED
      BY <1>1, <1>3, <1>4, <3>1 DEF AddStep
  <2>2. CASE SpawnFails(t, p, c, m)
    <3>1. AddChild(p, c, s) /\ UNCHANGED <<pc, todo, cur, loop>> /\ Startable(c)
      BY <1>6, <2>2 DEF SpawnFails, frames, r
    <3> HIDE DEF s
    <3> QED
      BY <1>1, <1>5, <3>1 DEF AddStep
  <2>3. CASE SpawnWorker(t, p, c, m)
    <3>1. /\ AddChild(p, c, r) /\ UNCHANGED <<pc, todo>>
          /\ Startable(c) /\ m = "NewInternalDriver"
          /\ loop' = [loop EXCEPT ![c] = "Config"]
          /\ cur' = [cur EXCEPT ![t][p] = c]
      BY <1>6, <2>3 DEF SpawnWorker, r
    <3> QED
      BY <1>1, <1>3, <3>1 DEF AddStep
  <2> QED
    BY <2>1, <2>2, <2>3
<1> QED
  BY <1>7

LEMMA CallKeeps ==
  ASSUME ~Retries, TypeInv, DriverInv, NEW t \in Procs, NEW p \in Procs,
         CallOf(t, p) \/ StoreWorker(t, p)
  PROVE  DriverInv'
<1>0. \A q \in Procs : rt[q] \in RuntimeState
  BY DEF TypeInv, TypeOK
<1>1. ASSUME NEW c \in Procs, NEW m \in DriverMode,
             \/ StartChild(t, p, c, m)
             \/ SpawnWorker(t, p, c, m)
             \/ SpawnFails(t, p, c, m)
      PROVE  DriverInv'
  BY <1>1, StartIsAdd, AddStepKeeps
<1>2. ASSUME NEW c \in Procs, NEW r \in RuntimeState, Same(r, rt[c]), NEW f,
             Call(t, p, f, c, r)
      PROVE  DriverInv'
  BY <1>2, PutKept, TouchKeeps DEF Call, InCallback, Callbacks, frames
<1>3. ASSUME NEW c \in Procs,
             \/ Cancel(t, p, c) \/ Repel(t, p, c)
             \/ WhenFinishedRepel(t, p, c) \/ UnusedSet(t, p, c)
      PROVE  DriverInv'
  <2> DEFINE r1 == [rt[c] EXCEPT !.canceled = TRUE]
             r2 == [rt[c] EXCEPT !.whenFinishedUnused = TRUE]
             r3 == Unused(rt[c])
  <2>1. /\ r1 \in RuntimeState /\ Same(r1, rt[c])
        /\ r2 \in RuntimeState /\ Same(r2, rt[c])
        /\ r3 \in RuntimeState /\ Same(r3, rt[c])
    BY <1>0, RecordTypes, SameUpdates
  <2>2. \/ Call(t, p, "cancel", c, r1) \/ Call(t, p, "repel", c, r3)
        \/ Call(t, p, "when_finished_repel", c, r2)
        \/ Call(t, p, "unused_set", c, r3)
    BY <1>3 DEF Cancel, Repel, WhenFinishedRepel, UnusedSet
  <2> HIDE DEF r1, r2, r3
  <2> QED
    BY <1>2, <2>1, <2>2
<1>4. CASE StoreWorker(t, p)
  <2> DEFINE c == cur[t][p]
             r == [rt[c] EXCEPT !.worker = TRUE]
  <2>1. c \in Procs
    BY <1>4 DEF TypeInv, TypeOK, StoreWorker
  <2>2. r \in RuntimeState /\ Same(r, rt[c])
    BY <1>0, <2>1, RecordTypes, SameUpdates
  <2>3. Put(c, r)
    BY <1>4 DEF StoreWorker
  <2>4. r.worker
    BY <1>0, <2>1 DEF RuntimeState
  <2> HIDE DEF r
  <2>5. Kept /\ rt'[c].worker
    BY <2>1, <2>2, <2>3, <2>4, PutKept, PutTypes DEF TypeInv, TypeOK
  <2> QED
    BY <1>4, <2>5, TouchKeeps DEF StoreWorker, Callbacks
<1> QED
  BY <1>1, <1>3, <1>4 DEF CallOf

LEMMA LoopKeeps ==
  ASSUME TypeInv, DriverInv,
         \/ \E t \in Procs : LoopStep(t) \/ DriveUntilFinished(t)
         \/ \E p \in Procs : AppUnusedSet(p)
  PROVE  DriverInv'
<1>0. \A q \in Procs : rt[q] \in RuntimeState
  <2>1. rt \in [Procs -> RuntimeState]
    BY DEF TypeInv, TypeOK
  <2> QED BY <2>1
<1>1. ASSUME NEW t \in Procs, FirstTick(t) \/ NextTick(t)
      PROVE  DriverInv'
  BY <1>1, LoopTickKeeps
<1>2. ASSUME NEW t \in Procs, LoopCheck(t)
      PROVE  DriverInv'
  <2>1. \A p \in Procs : ~Ticking(t, p)
    BY <1>2, AwayFromHome DEF LoopCheck, Ticking
  <2>2. QuietStep
    BY <1>2, <2>1 DEF LoopCheck, QuietStep, Active, Kept, TypeInv, TypeOK
  <2> QED
    BY <2>2, QuietStepKeeps
<1>3. ASSUME NEW t \in Procs, LoopMark(t)
      PROVE  DriverInv'
  <2> DEFINE r == [rt[t] EXCEPT !.undriven = TRUE]
  <2>1. r \in RuntimeState /\ Same(r, rt[t])
    BY <1>0, RecordTypes, SameUpdates
  <2>2. Put(t, r)
    BY <1>3 DEF LoopMark
  <2> HIDE DEF r
  <2>3. Kept
    BY <2>1, <2>2, PutKept
  <2>4. \A p \in Procs : ~Ticking(t, p)
    BY <1>3 DEF LoopMark, DriverInv, TickJustified
  <2>5. QuietStep
    BY <1>3, <2>3, <2>4 DEF LoopMark, QuietStep, Active, TypeInv, TypeOK
  <2> QED
    BY <2>5, QuietStepKeeps
<1>4. ASSUME NEW t \in Procs, DriveUntilFinished(t)
      PROVE  DriverInv'
  <2>1. \A p \in Procs : ~Ticking(t, p)
    BY <1>4 DEF DriveUntilFinished, DriverInv, TickJustified
  <2>2. QuietStep
    BY <1>4, <2>1 DEF DriveUntilFinished, QuietStep, Active, Kept, TypeInv, TypeOK
  <2> QED
    BY <2>2, QuietStepKeeps
<1>5. ASSUME NEW p \in Procs, AppUnusedSet(p)
      PROVE  DriverInv'
  <2>1. Kept
    BY <1>0, <1>5, PutKept, RecordTypes, SameUpdates DEF AppUnusedSet
  <2>2. QuietStep
    BY <1>5, <2>1 DEF AppUnusedSet, QuietStep, Active
  <2> QED
    BY <2>2, QuietStepKeeps
<1> QED
  BY <1>1, <1>2, <1>3, <1>4, <1>5 DEF LoopStep

-----------------------------------------------------------------------------

LEMMA InitDriven == Init => DriverInv
<1> SUFFICES ASSUME Init
             PROVE  DriverInv
  OBVIOUS
<1>1. \A t, p \in Procs :
        /\ pc[t][p] = "Idle" /\ todo[t][p] = {} /\ cur[t][p] = NoProc
        /\ rt[p].children = {} /\ rt[p].driverMode = "ExternalDriver"
        /\ loop[p] # "None" => p = Root
  BY DEF Init, NewRuntimeState
<1>2. \A t, p, c \in Procs : ~Ticking(t, p) /\ ~Drives(t, p, c)
  BY <1>1 DEF Ticking, Drives
<1>3. ChildrenStarted /\ TodoStarted /\ CurStarted
  BY <1>1 DEF ChildrenStarted, TodoStarted, CurStarted
<1>4. DrivenByParents /\ TickJustified /\ FramesRooted /\ OneDriver
  BY <1>2 DEF DrivenByParents, TickJustified, FramesRooted, OneDriver
<1>5. LoopStarted /\ WorkerHeld
  BY <1>1 DEF LoopStarted, WorkerHeld
<1> QED
  BY <1>3, <1>4, <1>5 DEF DriverInv

LEMMA NextDriven ==
  ASSUME ~Retries
  PROVE  TypeInv /\ DriverInv /\ [Next]_vars => DriverInv'
<1> SUFFICES ASSUME TypeInv, DriverInv, [Next]_vars
             PROVE  DriverInv'
  OBVIOUS
<1>1. CASE UNCHANGED vars
  <2>1. QuietStep
    BY <1>1 DEF QuietStep, Kept, Active, vars, frames
  <2> QED
    BY <2>1, QuietStepKeeps
<1>2. ASSUME NEW t \in Procs, ThreadStep(t)
      PROVE  DriverInv'
  BY <1>2, TickKeeps, CallStepIsCall, CallKeeps, LoopKeeps DEF ThreadStep
<1> QED
  BY <1>1, <1>2, LoopKeeps DEF Next, Terminated

\* A process is ticked by one thread at a time (OneDriver), whatever mixture
\* of drivers the tree has, whether or not a worker thread can be had, and
\* though behaviours start the same handles again.  Not covered are handles
\* that were given to their parent for want of a thread and are started again
\* with a worker after all (Retries).
THEOREM OneDriverAlways ==
  ASSUME ~Retries
  PROVE  Spec => []OneDriver
<1>1. Init => TypeInv /\ DriverInv
  BY InitTypes, InitDriven
<1>2. TypeInv /\ DriverInv /\ [Next]_vars => TypeInv' /\ DriverInv'
  BY NextTypes, NextDriven
<1>3. DriverInv => OneDriver
  BY DEF DriverInv
<1> QED
  BY <1>1, <1>2, <1>3, PTL DEF Spec
=============================================================================
