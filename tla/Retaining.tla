------------------------------ MODULE Retaining ------------------------------
(* Vec::retain, by which a pipe forgets children (src/src/pipe.rs), the    *)
(* logger forgets subscribers (src/src/logging.rs) and the debugging       *)
(* server leaves those in the backlog whom it does not accept.  What it    *)
(* returns is stated and proved in SequenceLemmas.                         *)
EXTENDS Naturals, Sequences

\* What retain and filter_map leave of ps: its elements in S, in order.
Retain(ps, S) ==
  LET f[n \in 0 .. Len(ps)] ==
        IF n = 0 THEN <<>>
        ELSE IF ps[n] \in S THEN Append(f[n - 1], ps[n]) ELSE f[n - 1]
  IN f[Len(ps)]
=============================================================================
