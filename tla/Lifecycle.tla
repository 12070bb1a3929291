----------------------------- MODULE Lifecycle -----------------------------
(***************************************************************************)
(* What a process handle of src/src/processing.rs promises, whoever drives *)
(* it: the callbacks of a behaviour come one at a time and in order, a     *)
(* cancel is heeded between two of them, a process that was initialized is *)
(* shut down, and its result is given once.  There are no threads, drivers *)
(* or trees here; Processing is shown to implement it.                     *)
(***************************************************************************)
CONSTANT Procs

VARIABLES
  phase,     \* phase[p]: how far p is
  running,   \* running[p]: the callback p is in, or "none"
  result,    \* result[p]: what success() returns
  canceled   \* canceled[p]: nobody wants p any more

lifecycle == <<phase, running, result, canceled>>

Phase == {"Waiting", "Initializing", "Processing", "Closing", "Closed", "Finished"}

Init ==
  /\ phase = [p \in Procs |-> "Waiting"]
  /\ running = [p \in Procs |-> "none"]
  /\ result = [p \in Procs |-> "Pending"]
  /\ canceled = [p \in Procs |-> FALSE]

Becomes(p, next) == phase' = [phase EXCEPT ![p] = next]

\* The callback that belongs to a phase.
CallbackOf(s) ==
  CASE s = "Initializing" -> "initialize"
    [] s = "Processing"   -> "process"
    [] s = "Closing"      -> "shutdown"
    [] OTHER              -> "none"

Cancel(p) ==
  /\ canceled' = [canceled EXCEPT ![p] = TRUE]
  /\ UNCHANGED <<phase, running, result>>

\* One that is canceled before it has begun does not begin.
Begin(p) ==
  /\ phase[p] = "Waiting"
  /\ Becomes(p, IF canceled[p] THEN "Closed" ELSE "Initializing")
  /\ UNCHANGED <<running, result, canceled>>

Heed(p) ==
  /\ canceled[p] /\ running[p] = "none"
  /\ phase[p] \in {"Initializing", "Processing"}
  /\ Becomes(p, "Closing")
  /\ UNCHANGED <<running, result, canceled>>

Enter(p) ==
  /\ running[p] = "none" /\ CallbackOf(phase[p]) # "none"
  /\ running' = [running EXCEPT ![p] = CallbackOf(phase[p])]
  /\ UNCHANGED <<phase, result, canceled>>

\* The callback p is in returns, and p has the result r and goes on at next.
Return(p, f, r, next) ==
  /\ running[p] = f
  /\ running' = [running EXCEPT ![p] = "none"]
  /\ result' = [result EXCEPT ![p] = r]
  /\ Becomes(p, next)
  /\ UNCHANGED canceled

Answer(p) ==
  \/ running[p] # "none" /\ Return(p, running[p], result[p], phase[p])
  \/ Return(p, "initialize", result[p], "Processing")
  \/ Return(p, "initialize", "Negative", "Closing")
  \/ \E r \in {"Positive", "Negative"} : Return(p, "process", r, "Closing")
  \/ Return(p, "shutdown", result[p], "Closed")

\* Whoever asked for it sees the process canceled when it has finished.
Finish(p) ==
  /\ phase[p] = "Closed"
  /\ Becomes(p, "Finished")
  /\ \E late \in BOOLEAN : canceled' = [canceled EXCEPT ![p] = @ \/ late]
  /\ UNCHANGED <<running, result>>

Next ==
  \E p \in Procs : Cancel(p) \/ Begin(p) \/ Heed(p) \/ Enter(p) \/ Answer(p) \/ Finish(p)

Spec == Init /\ [][Next]_lifecycle
=============================================================================
