--------------------------- MODULE SequenceLemmas ---------------------------
(***************************************************************************)
(* Lemmas about numbers, sequences and Retain that the proofs of several   *)
(* components need: Vec::retain keeps the members of a set, in their       *)
(* order, and nothing else.                                                *)
(***************************************************************************)
EXTENDS Retaining, SequencesExt, TLAPS, WellFoundedInduction, SequenceTheorems

-----------------------------------------------------------------------------
(* The least and the greatest of a set of numbers.                         *)

LEMMA LeastNumber ==
  ASSUME NEW T, T \subseteq Nat, T # {}
  PROVE  \E n \in T : \A m \in T : n <= m
<1>1. PICK n \in T : \A m \in T : ~ (<<m, n>> \in OpToRel(<, Nat))
  BY NatLessThanWellFounded, WFMin
<1>2. ASSUME NEW m \in T, m < n PROVE <<m, n>> \in OpToRel(<, Nat)
  BY <1>2 DEF OpToRel
<1>3. ASSUME NEW m \in T PROVE n <= m
  <2>1. ~(m < n) /\ m \in Nat /\ n \in Nat
    BY <1>1, <1>2
  <2> QED BY <2>1
<1> QED BY <1>3

LEMMA GreatestNumber ==
  ASSUME NEW k \in Nat, NEW T, T \subseteq 0 .. k, T # {}
  PROVE  \E n \in T : \A m \in T : m <= n
<1> DEFINE U == {k - m : m \in T}
<1>1. U \subseteq Nat
  BY SMT
<1>0. U # {}
  <2>1. PICK x \in T : TRUE
    OBVIOUS
  <2>2. k - x \in U
    BY <2>1
  <2> QED BY <2>2
<1>2. PICK u \in U : \A w \in U : u <= w
  BY <1>0, <1>1, LeastNumber
<1>3. PICK n \in T : u = k - n
  BY <1>2
<1>4. ASSUME NEW m \in T PROVE m <= n
  <2>1. k - m \in U
    OBVIOUS
  <2> QED BY <1>2, <1>3, <2>1
<1> QED BY <1>4

-----------------------------------------------------------------------------
(* What Retain returns.  The library's induction principles cannot be used *)
(* here; a least counterexample does as well.                              *)

\* g is the function Retain is defined by, up to n.
Retains(g, ps, S, n) ==
  g = [i \in 0 .. n |->
         IF i = 0 THEN <<>>
         ELSE IF ps[i] \in S THEN Append(g[i - 1], ps[i]) ELSE g[i - 1]]

LEMMA RetainExists ==
  ASSUME NEW P, NEW ps \in Seq(P), NEW S, NEW n \in 0 .. Len(ps)
  PROVE  \E g : Retains(g, ps, S, n)
<1> DEFINE T == {m \in 0 .. Len(ps) : ~ \E g : Retains(g, ps, S, m)}
<1>1. SUFFICES ASSUME T # {} PROVE FALSE
  BY <1>1
<1>2. T \subseteq Nat
  OBVIOUS
<1>3. PICK m \in T : \A k \in T : m <= k
  BY <1>1, <1>2, LeastNumber
<1>4. CASE m = 0
  <2>1. Retains([i \in 0 .. 0 |-> <<>>], ps, S, 0)
    BY DEF Retains
  <2> QED BY <1>3, <1>4, <2>1
<1>5. CASE m > 0
  <2>1. m - 1 \in 0 .. Len(ps) /\ m - 1 < m /\ m \in 1 .. Len(ps)
    BY <1>3, <1>5
  <2>2. PICK g : Retains(g, ps, S, m - 1)
    BY <2>1, <1>3
  <2> DEFINE h == [i \in 0 .. m |->
         IF i < m THEN g[i]
         ELSE IF ps[m] \in S THEN Append(g[m - 1], ps[m]) ELSE g[m - 1]]
  <2>3. Retains(h, ps, S, m)
    <3>1. ASSUME NEW i \in 0 .. m
          PROVE  h[i] = IF i = 0 THEN <<>>
                 ELSE IF ps[i] \in S THEN Append(h[i - 1], ps[i]) ELSE h[i - 1]
      <4>1. CASE i = m
        BY <4>1, <2>1, <1>5
      <4>2. CASE i < m
        <5>1. i \in 0 .. m - 1
          BY <4>2, <2>1
        <5>2. g[i] = IF i = 0 THEN <<>>
                 ELSE IF ps[i] \in S THEN Append(g[i - 1], ps[i]) ELSE g[i - 1]
          BY <5>1, <2>2 DEF Retains
        <5> QED BY <4>2, <5>1, <5>2, <2>1
      <4> QED BY <4>1, <4>2, <2>1
    <3> QED BY <3>1 DEF Retains
  <2> QED BY <2>3, <1>3
<1> QED BY <1>3, <1>4, <1>5

LEMMA RetainUnfolds ==
  ASSUME NEW P, NEW ps \in Seq(P), NEW S
  PROVE  \E g : Retains(g, ps, S, Len(ps)) /\ Retain(ps, S) = g[Len(ps)]
<1>1. Len(ps) \in 0 .. Len(ps)
  BY LenProperties
<1>2. \E g : Retains(g, ps, S, Len(ps))
  BY <1>1, RetainExists
<1> QED BY <1>2 DEF Retain, Retains

RetainIs(r, ps, S, n) ==
  /\ r \in Seq({ps[i] : i \in 1 .. n})
  /\ \A x : (\E i \in 1 .. Len(r) : r[i] = x) <=> x \in S /\ \E i \in 1 .. n : ps[i] = x
  /\ (\A i, j \in 1 .. n : ps[i] = ps[j] => i = j)
       => \A i, j \in 1 .. Len(r) : r[i] = r[j] => i = j

LEMMA RetainProperties ==
  ASSUME NEW P, NEW ps \in Seq(P), NEW S
  PROVE  RetainIs(Retain(ps, S), ps, S, Len(ps))
<1>1. PICK g : Retains(g, ps, S, Len(ps)) /\ Retain(ps, S) = g[Len(ps)]
  BY RetainUnfolds
<1>2. ASSUME NEW i \in 0 .. Len(ps)
      PROVE  g[i] = IF i = 0 THEN <<>>
               ELSE IF ps[i] \in S THEN Append(g[i - 1], ps[i]) ELSE g[i - 1]
  BY <1>1 DEF Retains
<1> DEFINE T == {m \in 0 .. Len(ps) : ~ RetainIs(g[m], ps, S, m)}
<1>3. ASSUME T # {} PROVE FALSE
  <2> HIDE DEF T
  <2>0. T \subseteq Nat
    BY LenProperties DEF T
  <2>4. PICK m \in T : \A k \in T : m <= k
    BY <1>3, <2>0, LeastNumber
  <2> USE DEF T
  <2>1. /\ m \in 0 .. Len(ps) /\ ~RetainIs(g[m], ps, S, m)
        /\ \A k \in 0 .. Len(ps) : k < m => RetainIs(g[k], ps, S, k)
    BY <2>4
  <2>2. CASE m = 0
    <3>1. g[0] = <<>>
      BY <1>2, LenProperties
    <3>2. RetainIs(<<>>, ps, S, 0)
      BY DEF RetainIs
    <3> QED BY <2>1, <2>2, <3>1, <3>2
  <2>3. CASE m > 0
    <3>1. m - 1 \in 0 .. Len(ps) /\ m - 1 < m /\ m \in 1 .. Len(ps) /\ m - 1 \in Nat
      BY <2>1, <2>3
    <3> DEFINE r == g[m - 1]
    <3>2. RetainIs(r, ps, S, m - 1)
      BY <3>1, <2>1
    <3>3. g[m] = IF ps[m] \in S THEN Append(r, ps[m]) ELSE r
      BY <1>2, <3>1
    <3> HIDE DEF r
    <3>4. r \in Seq({ps[i] : i \in 1 .. m}) /\ Len(r) \in Nat
      <4>1. {ps[i] : i \in 1 .. m - 1} \subseteq {ps[i] : i \in 1 .. m}
        BY <3>1
      <4> QED BY <4>1, <3>2, SeqMonotonic, LenProperties DEF RetainIs
    <3>5. CASE ps[m] \in S
      <4> DEFINE w == Append(r, ps[m])
      <4>1. /\ w \in Seq({ps[i] : i \in 1 .. m})
            /\ Len(w) = Len(r) + 1 /\ w[Len(r) + 1] = ps[m]
            /\ \A i \in 1 .. Len(r) : w[i] = r[i]
        BY <3>1, <3>4
      <4> HIDE DEF w
      <4>0. \A i : i \in 1 .. Len(w) <=> i \in 1 .. Len(r) \/ i = Len(r) + 1
        BY <4>1, <3>4
      <4>2. \A x : (\E i \in 1 .. Len(w) : w[i] = x) <=> (x = ps[m] \/ \E i \in 1 .. Len(r) : r[i] = x)
        BY <4>0, <4>1
      <4>3. \A x : (\E i \in 1 .. m : ps[i] = x) <=> (x = ps[m] \/ \E i \in 1 .. m - 1 : ps[i] = x)
        BY <3>1
      <4>4. \A x : (\E i \in 1 .. Len(r) : r[i] = x) <=> x \in S /\ \E i \in 1 .. m - 1 : ps[i] = x
        BY <3>2 DEF RetainIs
      <4>5. \A x : (\E i \in 1 .. Len(w) : w[i] = x) <=> x \in S /\ \E i \in 1 .. m : ps[i] = x
        BY <4>2, <4>3, <4>4, <3>5
      <4>6. ASSUME \A i, j \in 1 .. m : ps[i] = ps[j] => i = j
            PROVE  \A i, j \in 1 .. Len(w) : w[i] = w[j] => i = j
        <5>1. \A i, j \in 1 .. Len(r) : r[i] = r[j] => i = j
          BY <4>6, <3>1, <3>2 DEF RetainIs
        <5>2. \A i \in 1 .. Len(r) : r[i] # ps[m]
          <6>1. ASSUME NEW j \in 1 .. m - 1, ps[j] = ps[m] PROVE FALSE
            <7>1. j \in 1 .. m /\ m \in 1 .. m /\ j # m
              BY <3>1
            <7> QED BY <4>6, <6>1, <7>1
          <6> QED BY <4>4, <6>1
        <5> QED BY <5>1, <5>2, <4>0, <4>1
      <4>7. RetainIs(w, ps, S, m)
        BY <4>1, <4>5, <4>6 DEF RetainIs
      <4> QED BY <4>7, <3>3, <3>5, <2>1 DEF w
    <3>6. CASE ps[m] \notin S
      <4>0. \A i : i \in 1 .. m <=> i \in 1 .. m - 1 \/ i = m
        BY <3>1
      <4>1. \A x : (\E i \in 1 .. Len(r) : r[i] = x) <=> x \in S /\ \E i \in 1 .. m : ps[i] = x
        BY <4>0, <3>2, <3>6 DEF RetainIs
      <4>2. RetainIs(r, ps, S, m)
        BY <4>0, <4>1, <3>2, <3>4 DEF RetainIs
      <4> QED BY <4>2, <3>3, <3>6, <2>1
    <3> QED BY <3>5, <3>6
  <2> QED BY <2>1, <2>2, <2>3
<1>4. Len(ps) \in 0 .. Len(ps)
  BY LenProperties
<1> QED BY <1>1, <1>3, <1>4

\* Nothing is in ps twice.
Once(ps) == \A i, j \in 1 .. Len(ps) : ps[i] = ps[j] => i = j

LEMMA ToSetIs ==
  ASSUME NEW P, NEW ps \in Seq(P)
  PROVE  /\ ToSet(ps) = {ps[i] : i \in 1 .. Len(ps)}
         /\ ToSet(ps) \subseteq P
BY LenProperties, ElementOfSeq DEF ToSet

LEMMA RetainSet ==
  ASSUME NEW P, NEW ps \in Seq(P), NEW S
  PROVE  /\ ToSet(Retain(ps, S)) = ToSet(ps) \cap S
         /\ Once(ps) => Once(Retain(ps, S))
         /\ Retain(ps, S) \in Seq(P)
<1>1. RetainIs(Retain(ps, S), ps, S, Len(ps))
  BY RetainProperties
<1>2. {ps[i] : i \in 1 .. Len(ps)} = ToSet(ps) /\ ToSet(ps) \subseteq P
  BY ToSetIs
<1>3. Retain(ps, S) \in Seq(ToSet(ps))
  BY <1>1, <1>2 DEF RetainIs
<1>4. ToSet(Retain(ps, S)) = {Retain(ps, S)[i] : i \in 1 .. Len(Retain(ps, S))}
  BY <1>3, ToSetIs
<1> DEFINE r == Retain(ps, S)
<1> HIDE DEF r
<1>5. ToSet(r) = ToSet(ps) \cap S
  <2>1. \A x : (\E i \in 1 .. Len(r) : r[i] = x) <=> x \in S /\ \E i \in 1 .. Len(ps) : ps[i] = x
    BY <1>1 DEF RetainIs, r
  <2>2. ToSet(r) = {r[i] : i \in 1 .. Len(r)}
    BY <1>4 DEF r
  <2>3. \A x : x \in ToSet(r) <=> \E i \in 1 .. Len(r) : r[i] = x
    BY <2>2
  <2>4. \A x : x \in ToSet(ps) <=> \E i \in 1 .. Len(ps) : ps[i] = x
    BY <1>2
  <2> QED BY <2>1, <2>3, <2>4
<1>6. Once(ps) => Once(r)
  BY <1>1 DEF RetainIs, Once, r
<1>7. r \in Seq(P)
  BY <1>2, <1>3, SeqMonotonic DEF r
<1> QED BY <1>5, <1>6, <1>7 DEF r

LEMMA ToSetSingle ==
  ASSUME NEW x PROVE ToSet(<<x>>) = {x} /\ ToSet(<<>>) = {}
BY DEF ToSet
=============================================================================
