----------------------------- MODULE HelloWorld -----------------------------
(***************************************************************************)
(* The example of the repository, src/examples/hello_world.rs, from main   *)
(* to its end: the root Introducing with the debugging server and three    *)
(* children, one of them in a thread of its own, the rendering of the tree *)
(* by the debugging server meanwhile, and the destructors after it.        *)
(*                                                                         *)
(* Processing says what the tree does for any answers of the callbacks;    *)
(* here they are those of the example.  The example neither registers a    *)
(* destructor nor hides a process: Registrations and Displays stand for    *)
(* behaviours in its place that do.                                        *)
(***************************************************************************)
EXTENDS Rendering, Destructors

CONSTANTS
  Debugger,      \* SystemDebugging
  Child,         \* Child[i]: the i-th ChildExecuting, from 0 on
  Registrations  \* <<f, p, d>>: callback f of p may register destructor d

Introduced == <<Debugger, Child[0], Child[1], Child[2]>>

\* The children are four, and nobody calls anything else on their handles.
ASSUME HelloWorldAssumption ==
  /\ Child \in [0 .. 2 -> Procs] /\ Debugger \in Procs
  /\ IsInjective(Introduced)
  /\ Procs = {Root} \cup ToSet(Introduced)
  /\ Calls = {}
  /\ Starts = {<<Root, Debugger, "Parent">>, <<Root, Child[0], "NewInternalDriver">>,
               <<Root, Child[1], "Parent">>, <<Root, Child[2], "Parent">>}
  /\ Registrations \subseteq Callbacks \X Procs \X Destructor

VARIABLE answered   \* answered: <<p, f>>, callback f of p has returned once

world == <<vars, rendering, ending, answered>>

HWInit == Init /\ RenderingInit /\ DestructorsInit /\ answered = {}

First(p, f) == <<p, f>> \notin answered

\* Introducing ends as its second child did.
IntroducingAnswers ==
  IF First(Root, "process") THEN {"Pending"} ELSE {rt[Child[1]].success}

\* A service goes on for ever, the other child ends after some time.
ChildAnswers(i) ==
  IF i = 1 /\ ~First(Child[1], "process") THEN {"Pending", "Positive"} ELSE {"Pending"}

\* Its ports may be in use when it starts.
DebuggerAnswers ==
  IF First(Debugger, "process") THEN {"Pending", "Negative"} ELSE {"Pending"}

\* The last child delays its shutdown for one cycle.
ShutdownAnswers(p) ==
  IF p = Child[2] /\ First(p, "shutdown") THEN {"Pending"} ELSE {"Positive"}

Answers(p, f) ==
  CASE f = "initialize"                 -> {"Positive"}
    [] f = "shutdown"                   -> ShutdownAnswers(p)
    [] f = "process" /\ p = Root        -> IntroducingAnswers
    [] f = "process" /\ p = Debugger    -> DebuggerAnswers
    [] OTHER -> ChildAnswers(CHOOSE i \in DOMAIN Child : Child[i] = p)

\* What the callback f of p answers in this step.
Answer(p, f) ==
  IF rt'[p].state = rt[p].state THEN "Pending"
  ELSE CASE f = "initialize" -> IF rt'[p].initDone THEN "Positive" ELSE "Negative"
         [] f = "process"    -> rt'[p].success
         [] f = "shutdown"   -> "Positive"

\* Introducing starts its children in order, all of them in its first call.
StartsInOrder(t) ==
  LET next == SelectSeq(Introduced, LAMBDA c : ~rt[c].started) IN
  /\ \A p \in Procs : rt'[p].started /\ ~rt[p].started =>
       pc[t][Root] = "process" /\ p = Head(next)
  /\ pc[t][Root] = "process" /\ pc'[t][Root] # "process" => next = <<>>

\* The children are visited in that order.
VisitsInOrder(t) ==
  LET ahead   == todo[t][Root]
      visited == {c \in ahead : c \notin todo'[t][Root] \/ cur'[t][Root] = c}
  IN  \A c \in visited : c = Head(SelectSeq(Introduced, LAMBDA b : b \in ahead))

\* A step of the tree by thread t in which the behaviours are the example's.
BehaviorStep(t) ==
  LET returning ==
        {g \in Procs \X Callbacks : pc[t][g[1]] = g[2] /\ pc'[t][g[1]] # g[2]} IN
  /\ TreeStep(t)
  /\ StartsInOrder(t)
  /\ VisitsInOrder(t)
  /\ \A r \in returning : Answer(r[1], r[2]) \in Answers(r[1], r[2])
  /\ answered' = answered \cup returning
  /\ UNCHANGED ending

DrawStep(t) == RenderStep(t) /\ UNCHANGED <<ending, answered>>

Register(t, f, p, d) ==
  /\ <<f, p, d>> \in Registrations
  /\ pc[t][p] = f /\ ~Drawing(t)
  /\ RegisterGlobalDestructor(d)
  /\ UNCHANGED <<vars, rendering, answered>>

\* A thread in its driver loop, main in drive_until_finished.
Work(t) ==
  /\ loop[t] \notin {"None", "Exited"}
  /\ \/ BehaviorStep(t)
     \/ DrawStep(t)
     \/ \E g \in Registrations : Register(t, g[1], g[2], g[3])

\* main after drive_until_finished.
Close ==
  /\ loop[Root] = "Exited"
  /\ ApplicationClose \/ RunDestructor \/ EndClose
  /\ UNCHANGED <<vars, rendering, answered>>

Ended == application = "Closed" /\ UNCHANGED world

HWNext ==
  \/ \E t \in Procs : Work(t)
  \/ Close
  \/ Ended

HWSpec == HWInit /\ [][HWNext]_world

-----------------------------------------------------------------------------
(* Safety.                                                                 *)

\* main exits with success even if the debugging server got no port, and by
\* then every process that was initialized has been shut down, the one that
\* delays it and the one in its own thread included.
ExitSucceeds ==
  application # "Open" =>
    /\ rt[Root].success = "Positive"
    /\ \A p \in Procs : rt[p].initDone => rt[p].shutdownDone
    /\ \A p \in Procs : behavior[p] = NoProc

-----------------------------------------------------------------------------
(* Liveness.  A thread goes on, also when it waits for a mutex that others *)
(* take again and again, and the waiting of the second child is over some  *)
(* day.                                                                    *)

WaitingDone ==
  /\ pc[Root][Child[1]] = "process"
  /\ BehaviorStep(Root)
  /\ rt'[Child[1]].success = "Positive"

HWFairness ==
  /\ WF_world(Work(Root) \/ Close)
  /\ SF_world(Work(Child[0]))
  /\ SF_world(WaitingDone)

HWFairSpec == HWSpec /\ HWFairness

\* The example ends: its service is dismissed and joined, no drawing of a tree
\* that contains the one who draws keeps it, and all destructors are run.
Ends == <>(application = "Closed")
=============================================================================
