----------------------------- MODULE Rendering -----------------------------
(***************************************************************************)
(* The rendering of a process tree in src/src/processing.rs, while other   *)
(* threads drive it.  A behaviour asks for it in its process callback, as  *)
(* the debugging server does, and so holds its own behaviour mutex.        *)
(*                                                                         *)
(* render_into takes a copy of the runtime state under its mutex, tries    *)
(* the mutex of the behaviour for the details, and goes on to the children *)
(* of the copy.  They are visited in some fixed order; the order of the    *)
(* their text and the limit of eleven children are left out.               *)
(***************************************************************************)
EXTENDS Processing

CONSTANTS
  Renderers,   \* <<p, q>>: the process callback of p may render the tree of q
  Displays     \* <<f, p, b>>: callback f of p may call proc_tree_display_set(b)

ASSUME RenderingAssumption ==
  /\ Renderers \subseteq Procs \X Procs
  /\ Displays \subseteq Callbacks \X Procs \X BOOLEAN

VARIABLES
  render,      \* render[t]: how far thread t is in rendering
  treeHidden   \* the processes with tree_hidden

rendering == <<render, treeHidden>>

\* toDraw: the processes whose render_into is still to be called; details: the
\* one whose behaviour mutex is held for its details; drawn: whether this call
\* of the callback has rendered.
NoRender == [toDraw |-> {}, details |-> NoProc, drawn |-> FALSE]

RenderingInit ==
  /\ render = [t \in Procs |-> NoRender]
  /\ treeHidden = {}

Drawing(t) == render[t].toDraw # {} \/ render[t].details # NoProc

\* process_tree_string of q, once (a bound) in a callback: the server does it
\* when the tree is dirty or the period is over.
BeginRender(t, p, q) ==
  /\ <<p, q>> \in Renderers
  /\ pc[t][p] = "process" /\ ~render[t].drawn
  /\ render' = [render EXCEPT ![t] = [NoRender EXCEPT !.drawn = TRUE, !.toDraw = {q}]]
  /\ UNCHANGED <<treeHidden, vars>>

\* A hidden process is not drawn and neither is what is below it; a finished
\* one shows no details.
HasDetails(p) == p \notin treeHidden /\ rt[p].state # "Finished"

\* render_into of p up to its details, for which d's behaviour mutex is taken.
Draw(t, p, d) ==
  /\ Drawing(t) /\ render[t].details = NoProc
  /\ p = CHOOSE q \in render[t].toDraw : TRUE
  /\ render' = [render EXCEPT
       ![t].toDraw = (@ \ {p}) \cup (IF p \in treeHidden THEN {} ELSE rt[p].children),
       ![t].details = d]
  /\ behavior' = IF d = NoProc THEN behavior ELSE [behavior EXCEPT ![d] = t]
  /\ UNCHANGED <<treeHidden, rt, frames, loop, left>>

\* Waits for the behaviour mutex.
MutantDrawProcess(t, p) ==
  /\ HasDetails(p) => behavior[p] = NoProc
  /\ Draw(t, p, IF HasDetails(p) THEN p ELSE NoProc)

\* What cannot be locked at once, the renderer's own behaviour among it, is
\* shown as it was cached.
DrawProcess(t, p) ==
  Draw(t, p, IF HasDetails(p) /\ behavior[p] = NoProc THEN p ELSE NoProc)

\* The details are copied.
Unlock(t) ==
  LET d == render[t].details IN
  /\ d # NoProc
  /\ behavior' = [behavior EXCEPT ![d] = NoProc]
  /\ render' = [render EXCEPT ![t].details = NoProc]
  /\ UNCHANGED <<treeHidden, rt, frames, loop, left>>

DisplaySet(t, f, p, display) ==
  /\ <<f, p, display>> \in Displays
  /\ pc[t][p] = f /\ ~Drawing(t)
  /\ treeHidden' = IF display THEN treeHidden \ {p} ELSE treeHidden \cup {p}
  /\ UNCHANGED <<render, vars>>

RenderStep(t) ==
  \/ \E r \in Renderers : BeginRender(t, r[1], r[2])
  \/ \E p \in Procs : DrawProcess(t, p)
  \/ Unlock(t)
  \/ \E d \in Displays : DisplaySet(t, d[1], d[2], d[3])

\* A step of the tree by a thread that is not rendering; the next callback may
\* render again.
TreeStep(t) ==
  /\ ~Drawing(t)
  /\ ThreadStep(t)
  /\ render' = [render EXCEPT ![t] = NoRender]
  /\ UNCHANGED treeHidden
=============================================================================
