----------------------------- MODULE Processing -----------------------------
(***************************************************************************)
(* The process tree of src/src/processing.rs: handles with their locked    *)
(* RuntimeState, the recursive tree_tick, the callbacks of a behaviour and *)
(* the loops that drive a tree (drive_until_finished in an application     *)
(* thread, internal_drive_loop in a worker thread).                        *)
(*                                                                         *)
(* A thread is named after the process whose loop it runs.  Thread t is    *)
(* inside tree_tick of process p when pc[t][p] # "Idle"; a frame that      *)
(* waits at "Drive" has called tree_tick on the child cur[t][p].           *)
(*                                                                         *)
(* An action is a critical section of a runtime mutex together with those  *)
(* of the same thread next to it that commute with every other thread:     *)
(* they read or write fields only the driver of the process changes        *)
(* (state, children, the results), or flags that are only ever raised      *)
(* (undriven, unused, whenFinishedUnused).  The steps that do not commute  *)
(* stand alone: the test of canceled and the callback after it, the spawn  *)
(* of a worker and the storing of its handle, the removal of a child and   *)
(* the join of its thread, the release of one child and of the next.       *)
(***************************************************************************)
EXTENDS Naturals

CONSTANTS
  Procs,          \* process handles
  Root,           \* the handle the application drives
  NoProc,         \* no handle / no thread
  Starts,         \* <<p, c, m>>: the behaviour of p may start c with driver m
  Calls,          \* <<f, p, c>>: the behaviour of p may call f on handle c
  AppReleases,    \* handles whose unused_set the application may call
  Restarts,       \* may a behaviour start the same handle again?
  Retries,        \* also one that was given to its parent for want of a thread?
  SpawnMayFail,   \* may thread::Builder::spawn fail?
  MaxBurst        \* bound: the largest burst of ticks between progress checks

DriverMode == {"Parent", "NewInternalDriver", "ExternalDriver"}
Success    == {"Pending", "Positive", "Negative"}

AbstractState ==
  {"Existent", "Initializing", "Processing", "DownShutting",
   "ChildrenUnusedSet", "FinishedPrepare", "Finished"}

CallNames == {"cancel", "repel", "when_finished_repel", "unused_set"}

ASSUME ProcsAssumption ==
  /\ Root \in Procs
  /\ NoProc \notin Procs
  /\ MaxBurst \in Nat \ {0}
  /\ Restarts \in BOOLEAN /\ Retries \in BOOLEAN /\ SpawnMayFail \in BOOLEAN
  /\ AppReleases \subseteq Procs
  /\ Calls \subseteq CallNames \X Procs \X Procs

\* A handle has one parent and one driver, and nobody starts the root.
ASSUME StartsAssumption ==
  /\ Starts \subseteq Procs \X Procs \X DriverMode
  /\ \A s \in Starts : s[2] # Root /\ s[2] # s[1]
  /\ \A s1, s2 \in Starts : s1[2] = s2[2] => s1 = s2

VARIABLES
  rt,         \* rt[p]: what the runtime mutex of p protects
  behavior,   \* behavior[p]: the thread that holds the behaviour mutex of p
  pc,         \* pc[t][p]: where thread t is in tree_tick of p
  todo,       \* todo[t][p]: the children of the snapshot still to be visited
  cur,        \* cur[t][p]: the child being driven, joined or started
  loop,       \* loop[t]: where thread t is in its driver loop
  left        \* left[t]: ticks left in the burst of thread t

vars == <<rt, behavior, pc, todo, cur, loop, left>>
frames == <<pc, todo, cur>>

RuntimeState ==
  [children : SUBSET Procs, success : Success, state : AbstractState,
   driverMode : DriverMode, started : BOOLEAN, canceled : BOOLEAN,
   unused : BOOLEAN, whenFinishedUnused : BOOLEAN, initDone : BOOLEAN,
   processDone : BOOLEAN, shutdownDone : BOOLEAN, undriven : BOOLEAN,
   worker : BOOLEAN]

NewRuntimeState ==
  [children |-> {}, success |-> "Pending", state |-> "Existent",
   driverMode |-> "ExternalDriver", started |-> FALSE, canceled |-> FALSE,
   unused |-> FALSE, whenFinishedUnused |-> FALSE, initDone |-> FALSE,
   processDone |-> FALSE, shutdownDone |-> FALSE, undriven |-> FALSE,
   worker |-> FALSE]

Callbacks == {"initialize", "process", "shutdown"}

\* "Children": in the loop over the children, or past it once todo is empty.
\* "LockInitialize", "LockProcess": not canceled, about to lock the behaviour.
Labels ==
  {"Idle", "Children", "Drive", "Join", "LockInitialize", "LockProcess", "Unuse"}
    \cup Callbacks

LoopLabels == {"None", "Config", "Burst", "Mark", "Exited"}

Init ==
  /\ rt = [p \in Procs |-> NewRuntimeState]
  /\ behavior = [p \in Procs |-> NoProc]
  /\ pc = [t \in Procs |-> [p \in Procs |-> "Idle"]]
  /\ todo = [t \in Procs |-> [p \in Procs |-> {}]]
  /\ cur = [t \in Procs |-> [p \in Procs |-> NoProc]]
  /\ loop = [t \in Procs |-> IF t = Root THEN "Burst" ELSE "None"]
  /\ left = [t \in Procs |-> 0]

-----------------------------------------------------------------------------
(* What the handle reports of itself.                                      *)

Progress(p) == rt[p].state # "Finished" \/ rt[p].children # {}

\* The definitions named Mutant... are not part of the specification: each is
\* a plausible mistake in the definition after it, which some property refutes.
MutantCanBeRemoved(r) == r.unused

\* A finished child is dropped before anybody has released it.
MutantRemovedUnreleased(r) == r.undriven

CanBeRemoved(r) == r.undriven /\ r.unused

Unused(r) == [r EXCEPT !.canceled = TRUE, !.unused = TRUE]

\* The runtime state of p becomes r.
Put(p, r) == rt' = [rt EXCEPT ![p] = r]

\* That of c becomes r, and p has the children cs.
PutChild(c, r, p, cs) == rt' = [rt EXCEPT ![c] = r, ![p].children = cs]

Goto(t, p, label) == pc' = [pc EXCEPT ![t][p] = label]

-----------------------------------------------------------------------------
(* tree_tick, first part: drive the children, remove the settled ones.     *)

\* The frame of a tick of c begins with its snapshot of the children, which
\* are visited in any order.
BeginTick(t, c) == todo' = [todo EXCEPT ![t][c] = rt[c].children]

MutantDrivenByParent(c) == ~rt[c].undriven

DrivenByParent(c) == rt[c].driverMode = "Parent" /\ ~rt[c].undriven

\* parental_drive of a child calls tree_tick on it.
ParentalDrive(t, p, c) ==
  /\ pc[t][p] = "Children" /\ c \in todo[t][p]
  /\ DrivenByParent(c)
  /\ cur' = [cur EXCEPT ![t][p] = c]
  /\ pc' = [pc EXCEPT ![t][p] = "Drive", ![t][c] = "Children"]
  /\ BeginTick(t, c)
  /\ UNCHANGED <<rt, behavior, loop, left>>

\* Removes c, whose runtime state is r by now, and joins its worker; or
\* leaves it where it is.
SettleChild(t, p, c, r) ==
  /\ todo' = [todo EXCEPT ![t][p] = @ \ {c}]
  /\ IF CanBeRemoved(r)
     THEN /\ PutChild(c, r, p, rt[p].children \ {c})
          /\ cur' = [cur EXCEPT ![t][p] = c]
          /\ Goto(t, p, "Join")
     ELSE /\ Put(c, r)
          /\ cur' = [cur EXCEPT ![t][p] = NoProc]
          /\ Goto(t, p, "Children")
  /\ UNCHANGED <<behavior, loop, left>>

\* tree_tick of the child has returned.
DriveReturn(t, p) ==
  LET c == cur[t][p] IN
  /\ pc[t][p] = "Drive" /\ pc[t][c] = "Idle"
  /\ SettleChild(t, p, c, IF Progress(c) THEN rt[c]
                          ELSE [rt[c] EXCEPT !.undriven = TRUE])

\* parental_drive returns at once: the child has another driver, or none.
PassChild(t, p, c) ==
  /\ pc[t][p] = "Children" /\ c \in todo[t][p]
  /\ ~DrivenByParent(c)
  /\ SettleChild(t, p, c, rt[c])

MutantJoinWorker(t, p) ==
  LET c == cur[t][p] IN
  /\ pc[t][p] = "Join"
  /\ Put(c, [rt[c] EXCEPT !.worker = FALSE])
  /\ cur' = [cur EXCEPT ![t][p] = NoProc]
  /\ Goto(t, p, "Children")
  /\ UNCHANGED <<behavior, todo, loop, left>>

\* join_worker blocks until the thread of the child is gone.
JoinWorker(t, p) ==
  LET c == cur[t][p] IN
  /\ pc[t][p] = "Join"
  /\ rt[c].worker => loop[c] = "Exited"
  /\ Put(c, [rt[c] EXCEPT !.worker = FALSE])
  /\ cur' = [cur EXCEPT ![t][p] = NoProc]
  /\ Goto(t, p, "Children")
  /\ UNCHANGED <<behavior, todo, loop, left>>

-----------------------------------------------------------------------------
(* tree_tick, second part: one step of the process itself.                 *)

\* The children are done and the match takes the arm of state s.
AtArm(t, p, s) == pc[t][p] = "Children" /\ todo[t][p] = {} /\ rt[p].state = s

\* The tick of p ends and leaves r behind.
EndTick(t, p, r) ==
  /\ Put(p, r)
  /\ Goto(t, p, "Idle")

LeaveExistent(t, p) ==
  /\ AtArm(t, p, "Existent")
  /\ EndTick(t, p, [rt[p] EXCEPT !.state = IF rt[p].canceled THEN "FinishedPrepare"
                                                             ELSE "Initializing"])
  /\ UNCHANGED <<behavior, todo, cur, loop, left>>

MutantSeeCanceled(t, p) ==
  /\ AtArm(t, p, "Initializing") \/ AtArm(t, p, "Processing")
  /\ rt[p].canceled
  /\ EndTick(t, p, [rt[p] EXCEPT !.state = "FinishedPrepare"])
  /\ UNCHANGED <<behavior, todo, cur, loop, left>>

SeeCanceled(t, p) ==
  /\ AtArm(t, p, "Initializing") \/ AtArm(t, p, "Processing")
  /\ rt[p].canceled
  /\ EndTick(t, p, [rt[p] EXCEPT !.state = "DownShutting"])
  /\ UNCHANGED <<behavior, todo, cur, loop, left>>

MutantSeeNotCanceled(t, p) ==
  /\ \/ AtArm(t, p, "Initializing") /\ Goto(t, p, "LockInitialize")
     \/ AtArm(t, p, "Processing") /\ Goto(t, p, "LockProcess")
  /\ UNCHANGED <<rt, behavior, todo, cur, loop, left>>

\* A cancel that arrives from here on is seen by the next tick only.
SeeNotCanceled(t, p) ==
  /\ ~rt[p].canceled
  /\ \/ AtArm(t, p, "Initializing") /\ Goto(t, p, "LockInitialize")
     \/ AtArm(t, p, "Processing") /\ Goto(t, p, "LockProcess")
  /\ UNCHANGED <<rt, behavior, todo, cur, loop, left>>

Enter(t, p, callback) ==
  /\ behavior[p] = NoProc
  /\ behavior' = [behavior EXCEPT ![p] = t]
  /\ Goto(t, p, callback)
  /\ UNCHANGED <<rt, todo, cur, loop, left>>

EnterInitialize(t, p) == pc[t][p] = "LockInitialize" /\ Enter(t, p, "initialize")
EnterProcess(t, p)    == pc[t][p] = "LockProcess" /\ Enter(t, p, "process")
EnterShutdown(t, p)   == AtArm(t, p, "DownShutting") /\ Enter(t, p, "shutdown")

\* The callback returns, the behaviour mutex is released and r, what the
\* result makes of the runtime state, is stored.
Return(t, p, callback, r) ==
  /\ pc[t][p] = callback /\ cur[t][p] = NoProc
  /\ behavior' = [behavior EXCEPT ![p] = NoProc]
  /\ EndTick(t, p, r)
  /\ UNCHANGED <<todo, cur, loop, left>>

ReturnPending(t, p) == \E f \in Callbacks : Return(t, p, f, rt[p])

ReturnInitialize(t, p) ==
  \/ Return(t, p, "initialize",
            [rt[p] EXCEPT !.initDone = TRUE, !.state = "Processing"])
  \/ Return(t, p, "initialize",
            [rt[p] EXCEPT !.success = "Negative", !.state = "DownShutting"])

MutantReturnProcess(t, p) ==
  \E success \in Success \ {"Pending"} :
    Return(t, p, "process",
           [rt[p] EXCEPT !.success = success, !.processDone = TRUE])

ReturnProcess(t, p) ==
  \E success \in Success \ {"Pending"} :
    Return(t, p, "process",
           [rt[p] EXCEPT !.success = success, !.processDone = TRUE,
                         !.state = "DownShutting"])

MutantReturnShutdown(t, p) ==
  Return(t, p, "shutdown",
         [rt[p] EXCEPT !.shutdownDone = TRUE, !.state = "FinishedPrepare"])

MutantReturnShutdownResult(t, p) ==
  Return(t, p, "shutdown",
         [rt[p] EXCEPT !.shutdownDone = TRUE, !.state = "ChildrenUnusedSet",
                       !.success = "Negative"])

\* What shutdown returned is not kept, only that it did not pend.
ReturnShutdown(t, p) ==
  Return(t, p, "shutdown",
         [rt[p] EXCEPT !.shutdownDone = TRUE, !.state = "ChildrenUnusedSet"])

ReleaseChildren(t, p) ==
  /\ AtArm(t, p, "ChildrenUnusedSet")
  /\ todo' = [todo EXCEPT ![t][p] = rt[p].children]
  /\ Goto(t, p, "Unuse")
  /\ UNCHANGED <<rt, behavior, cur, loop, left>>

ReleaseChild(t, p, c) ==
  /\ pc[t][p] = "Unuse" /\ c \in todo[t][p]
  /\ todo' = [todo EXCEPT ![t][p] = @ \ {c}]
  /\ Put(c, Unused(rt[c]))
  /\ UNCHANGED <<behavior, pc, cur, loop, left>>

EndRelease(t, p) ==
  /\ pc[t][p] = "Unuse" /\ todo[t][p] = {}
  /\ EndTick(t, p, [rt[p] EXCEPT !.state = "FinishedPrepare"])
  /\ UNCHANGED <<behavior, todo, cur, loop, left>>

MutantFinish(t, p) ==
  /\ AtArm(t, p, "FinishedPrepare")
  /\ EndTick(t, p, [rt[p] EXCEPT !.state = "Finished"])
  /\ UNCHANGED <<behavior, todo, cur, loop, left>>

Finish(t, p) ==
  LET r == IF rt[p].whenFinishedUnused THEN Unused(rt[p]) ELSE rt[p] IN
  /\ AtArm(t, p, "FinishedPrepare")
  /\ EndTick(t, p, [r EXCEPT !.state = "Finished"])
  /\ UNCHANGED <<behavior, todo, cur, loop, left>>

TickFinished(t, p) ==
  /\ AtArm(t, p, "Finished")
  /\ Goto(t, p, "Idle")
  /\ UNCHANGED <<rt, behavior, todo, cur, loop, left>>

-----------------------------------------------------------------------------
(* What a behaviour does in a callback, through its ProcessContext.        *)

InCallback(t, p) == pc[t][p] \in Callbacks /\ cur[t][p] = NoProc

\* start_child: the runtime state of c once it has the driver m.
Driven(c, m) ==
  IF rt[c].started THEN rt[c]
  ELSE [rt[c] EXCEPT !.driverMode = m, !.started = TRUE, !.undriven = FALSE]

AddChild(p, c, r) == PutChild(c, r, p, rt[p].children \cup {c})

MayStart(t, p, c, m) ==
  /\ InCallback(t, p)
  /\ <<p, c, m>> \in Starts
  /\ rt[c].started => Restarts /\ (rt[c].driverMode = m \/ Retries)

NeedsWorker(c, m) == m = "NewInternalDriver" /\ ~rt[c].worker

StartChild(t, p, c, m) ==
  /\ MayStart(t, p, c, m) /\ ~NeedsWorker(c, m)
  /\ AddChild(p, c, Driven(c, m))
  /\ UNCHANGED <<behavior, frames, loop, left>>

\* The worker runs before its handle is stored: see StoreWorker.
SpawnWorker(t, p, c, m) ==
  /\ MayStart(t, p, c, m) /\ NeedsWorker(c, m)
  /\ AddChild(p, c, Driven(c, m))
  /\ loop' = [loop EXCEPT ![c] = "Config"]
  /\ cur' = [cur EXCEPT ![t][p] = c]
  /\ UNCHANGED <<behavior, pc, todo, left>>

StoreWorker(t, p) ==
  /\ pc[t][p] \in Callbacks /\ cur[t][p] # NoProc
  /\ Put(cur[t][p], [rt[cur[t][p]] EXCEPT !.worker = TRUE])
  /\ cur' = [cur EXCEPT ![t][p] = NoProc]
  /\ UNCHANGED <<behavior, pc, todo, loop, left>>

MutantSpawnFails(t, p, c, m) ==
  /\ SpawnMayFail
  /\ MayStart(t, p, c, m) /\ NeedsWorker(c, m)
  /\ AddChild(p, c, Driven(c, m))
  /\ UNCHANGED <<behavior, frames, loop, left>>

\* A child that gets no thread is driven by its parent.
SpawnFails(t, p, c, m) ==
  /\ SpawnMayFail
  /\ MayStart(t, p, c, m) /\ NeedsWorker(c, m)
  /\ AddChild(p, c, [Driven(c, m) EXCEPT !.driverMode = "Parent"])
  /\ UNCHANGED <<behavior, frames, loop, left>>

Call(t, p, name, c, r) ==
  /\ InCallback(t, p)
  /\ <<name, p, c>> \in Calls
  /\ Put(c, r)
  /\ UNCHANGED <<behavior, frames, loop, left>>

Cancel(t, p, c) == Call(t, p, "cancel", c, [rt[c] EXCEPT !.canceled = TRUE])

\* mark_canceled, then unused_set, which sets canceled as well.
Repel(t, p, c) == Call(t, p, "repel", c, Unused(rt[c]))

WhenFinishedRepel(t, p, c) ==
  Call(t, p, "when_finished_repel", c,
       [rt[c] EXCEPT !.whenFinishedUnused = TRUE])

\* ctx.unused_set() with c = p, or unused_set of a handle the behaviour holds.
UnusedSet(t, p, c) == Call(t, p, "unused_set", c, Unused(rt[c]))

\* A handle is public: the application releases a tree from any thread.
AppUnusedSet(p) ==
  /\ p \in AppReleases
  /\ Put(p, Unused(rt[p]))
  /\ UNCHANGED <<behavior, frames, loop, left>>

\* children_success: a child that failed outweighs one that still works, and one
\* that was released does not count.  Results are given once, so that the
\* children may be read one after the other.
ChildrenSuccess(p) ==
  LET results == {rt[c].success : c \in {d \in rt[p].children : ~rt[d].unused}}
  IN  IF "Negative" \in results THEN "Negative"
      ELSE IF "Pending" \in results THEN "Pending" ELSE "Positive"

-----------------------------------------------------------------------------
(* The loops that drive a tree.                                            *)

\* A worker thread runs internal_drive_loop, any other drive_until_finished.
IsWorker(t) == rt[t].driverMode # "ExternalDriver"

\* A tick of the process of thread t itself, with n more to come.
LoopTick(t, n) ==
  /\ left' = [left EXCEPT ![t] = n]
  /\ Goto(t, t, "Children")
  /\ BeginTick(t, t)
  /\ UNCHANGED <<rt, behavior, cur>>

\* The burst is read anew in every round: the setter may have changed it.
FirstTick(t) ==
  /\ loop[t] = "Config"
  /\ loop' = [loop EXCEPT ![t] = "Burst"]
  /\ \E burst \in 1 .. MaxBurst : LoopTick(t, burst - 1)

MutantNextTick(t) ==
  /\ loop[t] = "Burst" /\ pc[t][t] = "Idle"
  /\ LoopTick(t, left[t] - 1)
  /\ UNCHANGED loop

NextTick(t) ==
  /\ loop[t] = "Burst" /\ pc[t][t] = "Idle" /\ left[t] > 0
  /\ LoopTick(t, left[t] - 1)
  /\ UNCHANGED loop

MutantLoopCheck(t) ==
  /\ loop[t] = "Burst" /\ pc[t][t] = "Idle" /\ left[t] = 0
  /\ loop' = [loop EXCEPT ![t] = IF Progress(t) THEN "Config" ELSE "Mark"]
  /\ UNCHANGED <<rt, behavior, frames, left>>

\* drive_until_finished checks before its first burst, the worker after it.
LoopCheck(t) ==
  /\ loop[t] = "Burst" /\ pc[t][t] = "Idle" /\ left[t] = 0
  /\ loop' = [loop EXCEPT ![t] =
       IF Progress(t) THEN "Config" ELSE IF IsWorker(t) THEN "Mark" ELSE "Exited"]
  /\ UNCHANGED <<rt, behavior, frames, left>>

LoopMark(t) ==
  /\ loop[t] = "Mark"
  /\ Put(t, [rt[t] EXCEPT !.undriven = TRUE])
  /\ loop' = [loop EXCEPT ![t] = "Exited"]
  /\ UNCHANGED <<behavior, frames, left>>

\* The application drives a child that was started with ExternalDriver.
DriveUntilFinished(t) ==
  /\ loop[t] = "None"
  /\ rt[t].started /\ rt[t].driverMode = "ExternalDriver"
  /\ loop' = [loop EXCEPT ![t] = "Burst"]
  /\ UNCHANGED <<rt, behavior, frames, left>>

\* drive_until_finished(root) has returned: the program may end here.
Terminated == loop[Root] = "Exited" /\ UNCHANGED vars

-----------------------------------------------------------------------------

TickStep(t, p) ==
  \/ \E c \in Procs : ParentalDrive(t, p, c)
  \/ DriveReturn(t, p)
  \/ \E c \in Procs : PassChild(t, p, c)
  \/ JoinWorker(t, p)
  \/ LeaveExistent(t, p)
  \/ SeeCanceled(t, p)
  \/ SeeNotCanceled(t, p)
  \/ EnterInitialize(t, p)
  \/ EnterProcess(t, p)
  \/ EnterShutdown(t, p)
  \/ ReturnPending(t, p)
  \/ ReturnInitialize(t, p)
  \/ ReturnProcess(t, p)
  \/ ReturnShutdown(t, p)
  \/ ReleaseChildren(t, p)
  \/ \E c \in Procs : ReleaseChild(t, p, c)
  \/ EndRelease(t, p)
  \/ Finish(t, p)
  \/ TickFinished(t, p)

CallStep(t) ==
  \/ \E s \in Starts : \/ StartChild(t, s[1], s[2], s[3])
                        \/ SpawnWorker(t, s[1], s[2], s[3])
                        \/ SpawnFails(t, s[1], s[2], s[3])
  \/ \E k \in Calls : \/ Cancel(t, k[2], k[3])
                       \/ Repel(t, k[2], k[3])
                       \/ WhenFinishedRepel(t, k[2], k[3])
                       \/ UnusedSet(t, k[2], k[3])

LoopStep(t) ==
  \/ FirstTick(t)
  \/ NextTick(t)
  \/ LoopCheck(t)
  \/ LoopMark(t)

\* Whatever thread t does next.
ThreadStep(t) ==
  \/ LoopStep(t)
  \/ \E p \in Procs : TickStep(t, p) \/ StoreWorker(t, p)
  \/ CallStep(t)

Next ==
  \/ \E t \in Procs : ThreadStep(t) \/ DriveUntilFinished(t)
  \/ \E p \in Procs : AppUnusedSet(p)
  \/ Terminated

Spec == Init /\ [][Next]_vars

-----------------------------------------------------------------------------
(* Safety.                                                                 *)

Ticking(t, p) == pc[t][p] # "Idle"

TypeOK ==
  /\ rt \in [Procs -> RuntimeState]
  /\ behavior \in [Procs -> Procs \cup {NoProc}]
  /\ pc \in [Procs -> [Procs -> Labels]]
  /\ todo \in [Procs -> [Procs -> SUBSET Procs]]
  /\ cur \in [Procs -> [Procs -> Procs \cup {NoProc}]]
  /\ loop \in [Procs -> LoopLabels]
  /\ left \in [Procs -> 0 .. MaxBurst]

\* A process is ticked by one thread at a time, whatever mixture of drivers
\* the tree has: tree_tick itself takes no lock for its whole length.
OneDriver ==
  \A t, u \in Procs : \A p \in Procs : Ticking(t, p) /\ Ticking(u, p) => t = u

\* A child leaves the tree only once it is finished, released and childless:
\* remove_child never drops a process that still works.  Only the last tick of
\* a handle that was started again may still run, and its parent waits for it.
RemovedIsSettled ==
  \A c \in Procs :
    rt[c].started /\ (\A p \in Procs : c \notin rt[p].children) =>
      /\ rt[c].state = "Finished" /\ rt[c].children = {}
      /\ rt[c].undriven /\ rt[c].unused
      /\ \A t \in Procs : Ticking(t, c) =>
           \E u, p \in Procs : pc[u][p] = "Join" /\ cur[u][p] = c

\* A process that has shut down has released every child it still has, those
\* it started in its last callback included.
ChildrenReleased ==
  \A p \in Procs :
    rt[p].state \in {"FinishedPrepare", "Finished"} =>
      \A c \in rt[p].children : rt[c].unused /\ rt[c].canceled

\* A finished process was shut down unless it was canceled before it began,
\* and it has a result unless it was canceled.
OutcomeJustified ==
  \A p \in Procs :
    rt[p].state = "Finished" =>
      /\ ~rt[p].shutdownDone => rt[p].canceled /\ ~rt[p].initDone
      /\ rt[p].success = "Pending" => rt[p].canceled /\ ~rt[p].processDone
      /\ rt[p].success = "Positive" => rt[p].processDone

\* drive_until_finished(root) returns only when the whole tree has finished:
\* no worker thread and no driver of an external child is left running.
NoThreadOutlivesRoot ==
  loop[Root] = "Exited" =>
    \A p \in Procs : rt[p].started =>
      rt[p].state = "Finished" /\ loop[p] \in {"None", "Exited"}

\* A child started with ExternalDriver is never marked undriven, so its parent
\* keeps it and drive_until_finished(root) cannot return after such a start.
ExternalChildHoldsRoot ==
  \A c \in Procs :
    rt[c].started /\ rt[c].driverMode = "ExternalDriver" =>
      ~rt[c].undriven /\ loop[Root] # "Exited"

\* What children_success has told of a process stays true until it starts or
\* releases a child: no failure is forgotten because the child that failed has
\* finished, and none is made up.
VerdictStable ==
  [][\A p \in Procs :
       /\ ChildrenSuccess(p) # "Pending"
       /\ rt'[p].children \subseteq rt[p].children
       /\ \A c \in rt[p].children : rt'[c].unused = rt[c].unused
       => ChildrenSuccess(p)' = ChildrenSuccess(p)]_vars

-----------------------------------------------------------------------------
(* What a handle promises.                                                 *)

PhaseOf(state) ==
  CASE state = "Existent"     -> "Waiting"
    [] state = "DownShutting" -> "Closing"
    [] state \in {"ChildrenUnusedSet", "FinishedPrepare"} -> "Closed"
    [] OTHER -> state

\* The callback p is in: the threads inside p differ only where OneDriver fails.
Running(p) ==
  LET inside == {t \in Procs : pc[t][p] \in Callbacks}
  IN  IF inside = {} THEN "none" ELSE pc[CHOOSE t \in inside : TRUE][p]

Promise == INSTANCE Lifecycle WITH
  phase    <- [p \in Procs |-> PhaseOf(rt[p].state)],
  running  <- [p \in Procs |-> Running(p)],
  result   <- [p \in Procs |-> rt[p].success],
  canceled <- [p \in Procs |-> rt[p].canceled]

\* Each process of a tree, whatever threads drive it and whoever cancels it,
\* keeps to the life of Lifecycle.
KeepsPromise == Promise!Spec

-----------------------------------------------------------------------------
(* Liveness.  Every thread is scheduled; a callback returns; a shutdown    *)
(* that is called again and again ends some day (shutdown of a process     *)
(* ends once, so one condition on all of them says it of each).            *)

Fairness ==
  /\ \A t \in Procs : WF_vars(ThreadStep(t))
  /\ SF_vars(\E t, p \in Procs : ReturnShutdown(t, p))

FairSpec == Spec /\ Fairness

\* A finished root lets the whole tree settle: its children are released, their
\* workers end and are joined, and drive_until_finished returns.
Settles == rt[Root].state = "Finished" ~> loop[Root] = "Exited"

\* A started process that is canceled finishes, whatever its driver and
\* whatever its callbacks keep answering.
CancelFinishes ==
  \A p \in Procs : rt[p].started /\ rt[p].canceled ~> rt[p].state = "Finished"

\* c was released, or marked by when_finished_repel in time.  A mark that comes
\* later may find the process past FinishedPrepare, where nobody reads it.
Dismissed(c) ==
  /\ rt[c].started
  /\ \/ rt[c].unused
     \/ rt[c].whenFinishedUnused /\ rt[c].state \in {"DownShutting", "ChildrenUnusedSet"}

\* A child that is dismissed leaves its parent, also one that works on for ever.
ReleasedLeaves == \A c \in Procs : Dismissed(c) ~> \A p \in Procs : c \notin rt[p].children
=============================================================================
