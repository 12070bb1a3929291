----------------------------- MODULE SessionProofs -----------------------------
(***************************************************************************)
(* Theorems about CommandRegistry and SystemCommanding, for every table of *)
(* commands, all bytes and lines of any length: that what is registered    *)
(* can be called, and what the line editor keeps to.                       *)
(***************************************************************************)
EXTENDS SystemCommanding, SequenceLemmas, FiniteSetTheorems

-----------------------------------------------------------------------------
(* The table.                                                              *)

LEMMA InsertProperties ==
  ASSUME NEW S, NEW s \in Seq(S), NEW e \in S, NEW k \in 1 .. Len(s) + 1
  PROVE  /\ InsertAt(s, k, e) \in Seq(S)
         /\ Len(InsertAt(s, k, e)) = Len(s) + 1
         /\ \A i \in 1 .. Len(s) + 1 :
              InsertAt(s, k, e)[i] = IF i < k THEN s[i] ELSE IF i = k THEN e ELSE s[i - 1]
<1> DEFINE a == SubSeq(s, 1, k - 1)
           b == SubSeq(s, k, Len(s))
<1>0. Len(s) \in Nat /\ k \in Nat
  BY LenProperties
<1>1. a \in Seq(S) /\ Len(a) = k - 1 /\ \A i \in 1 .. k - 1 : a[i] = s[i]
  <2>1. \A i \in 1 .. k - 1 : s[i] \in S
    BY <1>0, ElementOfSeq
  <2> QED BY <1>0, <2>1, SubSeqProperties
<1>2. b \in Seq(S) /\ Len(b) = Len(s) - k + 1 /\ \A i \in 1 .. Len(s) - k + 1 : b[i] = s[k + i - 1]
  <2>1. \A i \in k .. Len(s) : s[i] \in S
    BY <1>0, ElementOfSeq
  <2> QED BY <1>0, <2>1, SubSeqProperties
<1> DEFINE c == a \o <<e>>
<1>3. InsertAt(s, k, e) = c \o b
  BY DEF InsertAt
<1> HIDE DEF a, b, c
<1>4. c = Append(a, e)
  BY <1>1, AppendIsConcat DEF c
<1>5. /\ c \in Seq(S) /\ Len(c) = k
      /\ \A i \in 1 .. k - 1 : c[i] = s[i]
      /\ c[k] = e
  BY <1>0, <1>1, <1>4, AppendProperties
<1>6. /\ c \o b \in Seq(S) /\ Len(c \o b) = Len(c) + Len(b)
      /\ \A i \in 1 .. Len(c) + Len(b) : (c \o b)[i] = IF i <= Len(c) THEN c[i] ELSE b[i - Len(c)]
  BY <1>2, <1>5, ConcatProperties
<1>7. Len(c) + Len(b) = Len(s) + 1
  BY <1>0, <1>2, <1>5
<1>8. ASSUME NEW i \in 1 .. Len(s) + 1
      PROVE  (c \o b)[i] = IF i < k THEN s[i] ELSE IF i = k THEN e ELSE s[i - 1]
  <2>0. (c \o b)[i] = IF i <= k THEN c[i] ELSE b[i - k]
    BY <1>5, <1>6, <1>7
  <2>1. CASE i < k
    BY <1>0, <1>5, <2>0, <2>1
  <2>2. CASE i = k
    BY <1>0, <1>5, <2>0, <2>2
  <2>3. CASE i > k
    <3>1. i - k \in 1 .. Len(s) - k + 1 /\ k + (i - k) - 1 = i - 1
      BY <1>0, <2>3
    <3>2. b[i - k] = s[k + (i - k) - 1]
      BY <1>2, <3>1
    <3> QED BY <1>0, <2>0, <2>3, <3>1, <3>2
  <2>4. i < k \/ i = k \/ i > k
    BY <1>0
  <2> QED BY <2>1, <2>2, <2>3, <2>4
<1> QED BY <1>3, <1>6, <1>7, <1>8

LEMMA RowsOf ==
  ASSUME NEW S, NEW s \in Seq(S)
  PROVE  ToSet(s) = {s[i] : i \in 1 .. Len(s)} /\ ToSet(s) \subseteq S
  BY LenProperties, ElementOfSeq DEF ToSet

LEMMA UpTo ==
  ASSUME NEW n \in Nat PROVE IsFiniteSet(1 .. n) /\ Cardinality(1 .. n) = n
<1>1. IsFiniteSet(1 .. n) /\ Cardinality(1 .. n) = IF 1 > n THEN 0 ELSE n - 1 + 1
  BY FS_Interval
<1>2. (IF 1 > n THEN 0 ELSE n - 1 + 1) = n
  OBVIOUS
<1> QED BY <1>1, <1>2

\* The rows of a table of commands that were not refused are told apart.
Distinct(cmds) ==
  \A i, j \in 1 .. Len(cmds) : i # j =>
    /\ cmds[i].id = cmds[j].id => cmds[i].id = <<>>
    /\ cmds[i].shortcut = cmds[j].shortcut => cmds[i].shortcut = <<>>

\* The first rows are those of the internal group.
Grouped(cmds) ==
  \E n \in 0 .. Len(cmds) :
    \A i \in 1 .. Len(cmds) : cmds[i].group = INTERNAL_CMD_CLASS <=> i <= n

Table(cmds) ==
  /\ cmds \in Seq(SystemCommand)
  /\ ToSet(cmds) \subseteq ToSet(Builtins) \cup AppCommands
  /\ Distinct(cmds)
  /\ Grouped(cmds)

\* The row a command is sorted to.
Place(cmds, c) == Cardinality({i \in DOMAIN cmds : ~CommandSort(c, cmds[i])}) + 1

LEMMA RegisteredIs ==
  ASSUME NEW cmds \in Seq(SystemCommand), NEW c \in SystemCommand
  PROVE  /\ Place(cmds, c) \in 1 .. Len(cmds) + 1
         /\ Registered(cmds, c) \in Seq(SystemCommand)
         /\ Len(Registered(cmds, c)) = Len(cmds) + 1
         /\ \A i \in 1 .. Len(cmds) + 1 :
              Registered(cmds, c)[i] =
                IF i < Place(cmds, c) THEN cmds[i]
                ELSE IF i = Place(cmds, c) THEN c ELSE cmds[i - 1]
<1> DEFINE before == {i \in DOMAIN cmds : ~CommandSort(c, cmds[i])}
<1>0. Len(cmds) \in Nat /\ DOMAIN cmds = 1 .. Len(cmds)
  BY LenProperties
<1>1. Place(cmds, c) \in 1 .. Len(cmds) + 1
  <2>1. IsFiniteSet(1 .. Len(cmds)) /\ Cardinality(1 .. Len(cmds)) = Len(cmds)
    BY <1>0, UpTo
  <2>2. before \subseteq 1 .. Len(cmds)
    BY <1>0
  <2>3. Place(cmds, c) = Cardinality(before) + 1
    BY DEF Place
  <2> HIDE DEF before
  <2>4. Cardinality(before) <= Len(cmds) /\ Cardinality(before) \in Nat
    BY <2>1, <2>2, FS_Subset, FS_CardinalityType
  <2> QED BY <1>0, <2>3, <2>4
<1> DEFINE k == Place(cmds, c)
<1>2. Registered(cmds, c) = InsertAt(cmds, k, c)
  BY DEF Registered, Place
<1> HIDE DEF k
<1>3. k \in 1 .. Len(cmds) + 1
  BY <1>1 DEF k
<1>4. /\ InsertAt(cmds, k, c) \in Seq(SystemCommand)
      /\ Len(InsertAt(cmds, k, c)) = Len(cmds) + 1
      /\ \A i \in 1 .. Len(cmds) + 1 :
           InsertAt(cmds, k, c)[i] = IF i < k THEN cmds[i] ELSE IF i = k THEN c ELSE cmds[i - 1]
  BY <1>3, InsertProperties
<1> QED BY <1>2, <1>3, <1>4 DEF k

\* A command of the internal group is sorted before every other, a command of
\* another group behind those of the internal group.
LEMMA GroupedKept ==
  ASSUME NEW cmds \in Seq(SystemCommand), Grouped(cmds), NEW c \in SystemCommand
  PROVE  Grouped(Registered(cmds, c))
<1> DEFINE k == Place(cmds, c)
           new == Registered(cmds, c)
           before == {i \in DOMAIN cmds : ~CommandSort(c, cmds[i])}
<1>0. Len(cmds) \in Nat /\ DOMAIN cmds = 1 .. Len(cmds)
  BY LenProperties
<1>1. PICK n \in 0 .. Len(cmds) :
        \A i \in 1 .. Len(cmds) : cmds[i].group = INTERNAL_CMD_CLASS <=> i <= n
  BY DEF Grouped
<1>2. /\ k \in 1 .. Len(cmds) + 1 /\ Len(new) = Len(cmds) + 1
      /\ \A i \in 1 .. Len(cmds) + 1 :
           new[i] = IF i < k THEN cmds[i] ELSE IF i = k THEN c ELSE cmds[i - 1]
  BY RegisteredIs
<1>3. k = Cardinality(before) + 1 /\ Cardinality(before) \in Nat /\ IsFiniteSet(before)
  <2>1. before \subseteq 1 .. Len(cmds)
    BY <1>0
  <2>2. k = Cardinality(before) + 1
    BY DEF Place
  <2> HIDE DEF before
  <2> QED BY <1>0, <2>1, <2>2, UpTo, FS_Subset, FS_CardinalityType
<1>4. IsFiniteSet(1 .. n) /\ Cardinality(1 .. n) = n /\ n \in Nat
  BY <1>0, <1>1, UpTo
<1>5. CASE c.group = INTERNAL_CMD_CLASS
  <2>1. before \subseteq 1 .. n
    <3>1. ASSUME NEW i \in before PROVE i <= n /\ i \in 1 .. Len(cmds)
      BY <1>0, <1>1, <1>5 DEF CommandSort
    <3> QED BY <1>0, <1>4, <3>1
  <2> HIDE DEF before, k, new
  <2>2. k <= n + 1
    <3>1. Cardinality(before) <= Cardinality(1 .. n)
      BY <1>4, <2>1, FS_Subset
    <3> QED BY <1>3, <1>4, <3>1
  <2>3. ASSUME NEW i \in 1 .. Len(new)
        PROVE  new[i].group = INTERNAL_CMD_CLASS <=> i <= n + 1
    BY <1>0, <1>1, <1>2, <1>5, <2>2
  <2>4. n + 1 \in 0 .. Len(new)
    BY <1>0, <1>1, <1>2
  <2>5. Grouped(new)
    BY <2>3, <2>4 DEF Grouped
  <2> QED BY <2>5 DEF new
<1>6. CASE c.group # INTERNAL_CMD_CLASS
  <2>1. 1 .. n \subseteq before
    <3>1. ASSUME NEW i \in 1 .. n PROVE i \in DOMAIN cmds /\ ~CommandSort(c, cmds[i])
      <4>1. i \in DOMAIN cmds /\ cmds[i].group = INTERNAL_CMD_CLASS
        BY <1>0, <1>1
      <4> QED BY <1>6, <4>1 DEF CommandSort
    <3> QED BY <3>1
  <2> HIDE DEF before, k, new
  <2>2. n < k
    BY <1>3, <1>4, <2>1, FS_Subset
  <2>3. ASSUME NEW i \in 1 .. Len(new)
        PROVE  new[i].group = INTERNAL_CMD_CLASS <=> i <= n
    BY <1>0, <1>1, <1>2, <1>6, <2>2
  <2>4. n \in 0 .. Len(new)
    BY <1>0, <1>1, <1>2
  <2>5. Grouped(new)
    BY <2>3, <2>4 DEF Grouped
  <2> QED BY <2>5 DEF new
<1> QED BY <1>5, <1>6

LEMMA RegistrationKeeps ==
  ASSUME NEW cmds, Table(cmds), NEW c \in ToSet(Builtins) \cup AppCommands
  PROVE  /\ Table(Registration(cmds, c))
         /\ ToSet(cmds) \subseteq ToSet(Registration(cmds, c))
         /\ ~IsTaken(cmds, c) => ToSet(Registration(cmds, c)) = ToSet(cmds) \cup {c}
<1>0. c \in SystemCommand
  BY CommandsAssumption, RowsOf
<1>1. CASE IsTaken(cmds, c)
  BY <1>1 DEF Registration
<1>2. CASE ~IsTaken(cmds, c)
  <2> DEFINE k == Place(cmds, c)
             new == Registered(cmds, c)
  <2>0. cmds \in Seq(SystemCommand) /\ Len(cmds) \in Nat /\ DOMAIN cmds = 1 .. Len(cmds)
    BY LenProperties DEF Table
  <2>1. k \in 1 .. Len(cmds) + 1
    BY <1>0, <2>0, RegisteredIs
  <2>2. /\ new \in Seq(SystemCommand) /\ Len(new) = Len(cmds) + 1
        /\ \A i \in 1 .. Len(cmds) + 1 :
             new[i] = IF i < k THEN cmds[i] ELSE IF i = k THEN c ELSE cmds[i - 1]
    BY <1>0, <2>0, RegisteredIs
  <2> HIDE DEF k, new
  <2> DEFINE Old(i) == IF i < k THEN i ELSE i - 1
  <2>3. ASSUME NEW i \in 1 .. Len(new), i # k
        PROVE  Old(i) \in 1 .. Len(cmds) /\ new[i] = cmds[Old(i)]
    BY <2>0, <2>1, <2>2, <2>3
  <2>4. new[k] = c /\ k \in 1 .. Len(new)
    BY <2>0, <2>1, <2>2
  <2>5. ToSet(new) = ToSet(cmds) \cup {c}
    <3>1. ASSUME NEW x \in ToSet(new) PROVE x \in ToSet(cmds) \cup {c}
      <4>1. PICK i \in 1 .. Len(new) : x = new[i]
        BY <2>2, RowsOf
      <4>2. CASE i = k
        BY <2>4, <4>1, <4>2
      <4>3. CASE i # k
        <5>1. Old(i) \in 1 .. Len(cmds) /\ x = cmds[Old(i)]
          BY <2>3, <4>1, <4>3
        <5> QED BY <2>0, <5>1, RowsOf
      <4> QED BY <4>2, <4>3
    <3>2. ASSUME NEW j \in 1 .. Len(cmds) PROVE cmds[j] \in ToSet(new)
      <4>1. CASE j < k
        <5>1. j \in 1 .. Len(new) /\ new[j] = cmds[j]
          BY <2>0, <2>1, <2>2, <4>1
        <5> QED BY <5>1, <2>2, RowsOf
      <4>2. CASE j >= k
        <5>1. j + 1 \in 1 .. Len(new) /\ new[j + 1] = cmds[j]
          BY <2>0, <2>1, <2>2, <4>2
        <5> QED BY <5>1, <2>2, RowsOf
      <4> QED BY <2>0, <2>1, <4>1, <4>2
    <3>3. c \in ToSet(new)
      BY <2>2, <2>4, RowsOf
    <3> QED BY <3>1, <3>2, <3>3, <2>0, RowsOf
  <2>6. Distinct(new)
    <3>1. SUFFICES ASSUME NEW i \in 1 .. Len(new), NEW j \in 1 .. Len(new), i # j
          PROVE  /\ new[i].id = new[j].id => new[i].id = <<>>
                 /\ new[i].shortcut = new[j].shortcut => new[i].shortcut = <<>>
      BY DEF Distinct
    <3>2. ASSUME NEW m \in 1 .. Len(cmds)
          PROVE  /\ cmds[m].id = c.id => c.id = <<>>
                 /\ cmds[m].shortcut = c.shortcut => c.shortcut = <<>>
      BY <1>2, <2>0 DEF IsTaken
    <3>3. CASE i = k
      BY <2>3, <2>4, <3>1, <3>2, <3>3
    <3>4. CASE j = k
      BY <2>3, <2>4, <3>1, <3>2, <3>4
    <3>5. CASE i # k /\ j # k
      <4>1. Old(i) # Old(j)
        BY <2>0, <2>1, <2>2, <3>1, <3>5
      <4>2. Distinct(cmds)
        BY DEF Table
      <4>3. /\ cmds[Old(i)].id = cmds[Old(j)].id => cmds[Old(i)].id = <<>>
            /\ cmds[Old(i)].shortcut = cmds[Old(j)].shortcut => cmds[Old(i)].shortcut = <<>>
        BY <2>3, <3>5, <4>1, <4>2 DEF Distinct
      <4> QED BY <2>3, <3>5, <4>3
    <3> QED BY <3>3, <3>4, <3>5
  <2>7. Grouped(new)
    BY <1>0, <2>0, GroupedKept DEF Table, new
  <2>8. Registration(cmds, c) = new
    BY <1>2 DEF Registration, new
  <2> QED BY <2>2, <2>5, <2>6, <2>7, <2>8 DEF Table
<1> QED BY <1>1, <1>2

\* g is the function RegistryInit is defined by, up to n.
Registers(g, n) ==
  g = [i \in 0 .. n |-> IF i = 0 THEN <<>> ELSE Registration(g[i - 1], Builtins[i])]

LEMMA RegistersExist ==
  ASSUME NEW n \in 0 .. Len(Builtins) PROVE \E g : Registers(g, n)
<1>0. Len(Builtins) \in Nat
  BY CommandsAssumption, LenProperties
<1> DEFINE T == {m \in 0 .. Len(Builtins) : ~ \E g : Registers(g, m)}
<1>1. SUFFICES ASSUME T # {} PROVE FALSE
  BY <1>1
<1>2. T \subseteq Nat
  BY <1>0
<1>3. PICK m \in T : \A k \in T : m <= k
  BY <1>1, <1>2, LeastNumber
<1>4. CASE m = 0
  <2>1. Registers([i \in 0 .. 0 |-> <<>>], 0)
    BY DEF Registers
  <2> QED BY <1>3, <1>4, <2>1
<1>5. CASE m > 0
  <2>1. m - 1 \in 0 .. Len(Builtins) /\ ~(m <= m - 1) /\ m \in 1 .. Len(Builtins)
    BY <1>0, <1>3, <1>5
  <2>2. PICK g : Registers(g, m - 1)
    BY <2>1, <1>3
  <2> DEFINE h == [i \in 0 .. m |-> IF i < m THEN g[i] ELSE Registration(g[m - 1], Builtins[m])]
  <2>3. Registers(h, m)
    <3>1. ASSUME NEW i \in 0 .. m
          PROVE  h[i] = IF i = 0 THEN <<>> ELSE Registration(h[i - 1], Builtins[i])
      <4>1. CASE i = m
        BY <4>1, <2>1, <1>5
      <4>2. CASE i < m
        <5>1. i \in 0 .. m - 1
          BY <4>2, <2>1
        <5>2. g[i] = IF i = 0 THEN <<>> ELSE Registration(g[i - 1], Builtins[i])
          BY <5>1, <2>2 DEF Registers
        <5> QED BY <4>2, <5>1, <5>2, <2>1
      <4> QED BY <4>1, <4>2, <2>1
    <3> QED BY <3>1 DEF Registers
  <2> QED BY <2>3, <1>3
<1> QED BY <1>0, <1>3, <1>4, <1>5

\* No built-in command is refused, if BuiltinsApart.
LEMMA InitTable ==
  RegistryInit =>
    Table(commands) /\ (BuiltinsApart => ToSet(Builtins) \subseteq ToSet(commands))
<1> DEFINE First(m) == {Builtins[i] : i \in 1 .. m}
           Good(t, m) == Table(t) /\ (BuiltinsApart => ToSet(t) = First(m))
<1> SUFFICES ASSUME RegistryInit PROVE Good(commands, Len(Builtins))
  BY CommandsAssumption, RowsOf
<1>0. Len(Builtins) \in Nat /\ Len(Builtins) \in 0 .. Len(Builtins)
  BY CommandsAssumption, LenProperties
<1>1. \E g : Registers(g, Len(Builtins))
  BY <1>0, RegistersExist
<1>2. PICK g : Registers(g, Len(Builtins)) /\ commands = g[Len(Builtins)]
  BY <1>1 DEF RegistryInit, Registers
<1>3. ASSUME NEW i \in 0 .. Len(Builtins)
      PROVE  g[i] = IF i = 0 THEN <<>> ELSE Registration(g[i - 1], Builtins[i])
  BY <1>2 DEF Registers
<1> DEFINE T == {m \in 0 .. Len(Builtins) : ~Good(g[m], m)}
<1>4. ASSUME T # {} PROVE FALSE
  <2>1. T \subseteq Nat
    BY <1>0
  <2>2. PICK m \in T : \A k \in T : m <= k
    BY <1>4, <2>1, LeastNumber
  <2>3. CASE m = 0
    <3>1. g[0] = <<>>
      BY <1>0, <1>3
    <3>2. Len(<<>>) = 0 /\ ToSet(<<>>) = {}
      BY DEF ToSet
    <3>3. Table(<<>>)
      BY <3>2 DEF Table, Distinct, Grouped
    <3>4. First(0) = {}
      OBVIOUS
    <3> QED BY <2>2, <2>3, <3>1, <3>2, <3>3, <3>4
  <2>4. CASE m > 0
    <3> DEFINE c == Builtins[m]
    <3>1. m - 1 \in 0 .. Len(Builtins) /\ ~(m <= m - 1) /\ m \in 1 .. Len(Builtins)
      BY <1>0, <2>2, <2>4
    <3>2. Good(g[m - 1], m - 1)
      BY <2>2, <3>1
    <3>3. c \in ToSet(Builtins)
      BY <3>1, CommandsAssumption, RowsOf
    <3>4. g[m] = Registration(g[m - 1], c)
      BY <1>3, <2>4, <3>1
    <3>5. /\ Table(g[m])
          /\ ~IsTaken(g[m - 1], c) => ToSet(g[m]) = ToSet(g[m - 1]) \cup {c}
      BY <3>2, <3>3, <3>4, RegistrationKeeps
    <3>6. First(m) = First(m - 1) \cup {c}
      BY <3>1
    <3>7. ASSUME BuiltinsApart, IsTaken(g[m - 1], c) PROVE FALSE
      <4>1. PICK i \in DOMAIN g[m - 1] :
              \/ g[m - 1][i].id = c.id /\ c.id # <<>>
              \/ g[m - 1][i].shortcut = c.shortcut /\ c.shortcut # <<>>
        BY <3>7 DEF IsTaken
      <4>2. g[m - 1][i] \in ToSet(g[m - 1])
        BY DEF ToSet
      <4>3. PICK j \in 1 .. m - 1 : g[m - 1][i] = Builtins[j]
        BY <3>2, <3>7, <4>2
      <4>4. j \in DOMAIN Builtins /\ m \in DOMAIN Builtins /\ j # m
        BY <1>0, <3>1, CommandsAssumption, LenProperties
      <4>5. Names(Builtins[j]) \cap Names(Builtins[m]) = {}
        BY <3>7, <4>4 DEF BuiltinsApart
      <4> QED BY <4>1, <4>3, <4>5 DEF Names
    <3> HIDE DEF First
    <3> QED BY <2>2, <3>2, <3>5, <3>6, <3>7
  <2> QED BY <1>0, <2>2, <2>3, <2>4
<1> QED BY <1>0, <1>2, <1>4

LEMMA NextTable ==
  ASSUME Table(commands), RegistryNext \/ UNCHANGED commands
  PROVE  Table(commands)' /\ ToSet(commands) \subseteq ToSet(commands')
<1>1. CASE UNCHANGED commands
  BY <1>1 DEF Table, Distinct, Grouped
<1>2. CASE RegistryNext
  <2>1. PICK c \in AppCommands : commands' = Registration(commands, c)
    BY <1>2 DEF RegistryNext, Register
  <2>2. Table(Registration(commands, c)) /\ ToSet(commands) \subseteq ToSet(Registration(commands, c))
    BY RegistrationKeeps
  <2> QED BY <2>1, <2>2 DEF Table, Distinct, Grouped
<1> QED BY <1>1, <1>2

\* Every command that was registered is found by its id and by its shortcut,
\* whatever is registered later and wherever its row is sorted to, if no id is
\* the shortcut of another command.
THEOREM EachAlwaysReachable ==
  ASSUME NamesApart PROVE RegistrySpec => []EachReachable
<1>1. Table(commands) => EachReachable
  <2> SUFFICES ASSUME Table(commands), NEW i \in DOMAIN commands,
                      NEW name \in Names(commands[i])
               PROVE  Lookup(commands, name) = i
    BY DEF EachReachable
  <2>1. /\ commands \in Seq(SystemCommand) /\ DOMAIN commands = 1 .. Len(commands)
        /\ Len(commands) \in Nat
    BY LenProperties DEF Table
  <2> DEFINE Called(c) == c.id = name \/ (c.shortcut # <<>> /\ c.shortcut = name)
             I == {j \in 1 .. Len(commands) : Called(commands[j])}
  <2>2. name # <<>> /\ i \in I
    BY <2>1 DEF Names
  <2>3. ASSUME NEW j \in I, j # i PROVE FALSE
    <3>1. /\ commands[i] \in ToSet(Builtins) \cup AppCommands
          /\ commands[j] \in ToSet(Builtins) \cup AppCommands
      BY <2>1, RowsOf DEF Table
    <3>2. /\ commands[i].id = commands[j].id => commands[i].id = <<>>
          /\ commands[i].shortcut = commands[j].shortcut => commands[i].shortcut = <<>>
      BY <2>1, <2>3 DEF Table, Distinct
    <3>3. CASE commands[i].id = name /\ commands[j].shortcut = name
      BY <2>2, <3>1, <3>2, <3>3 DEF NamesApart
    <3>4. CASE commands[j].id = name /\ commands[i].shortcut = name
      BY <2>2, <3>1, <3>2, <3>4 DEF NamesApart
    <3> QED BY <2>2, <2>3, <3>2, <3>3, <3>4
  <2>4. I = {i}
    BY <2>2, <2>3
  <2>5. Lookup(commands, name) = IF I # {} THEN CHOOSE x \in I : \A y \in I : x <= y ELSE 0
    BY DEF Lookup, SelectInSeq, Min
  <2> HIDE DEF I
  <2>6. \A x \in I : x = i
    BY <2>4
  <2>7. i <= i
    BY <2>1
  <2> QED BY <2>4, <2>5, <2>6, <2>7
<1>2. RegistryInit => Table(commands)
  BY InitTable
<1>3. Table(commands) /\ [RegistryNext]_commands => Table(commands)'
  BY NextTable
<1> QED BY <1>1, <1>2, <1>3, PTL DEF RegistrySpec

\* A line that begins with a name of a built-in command runs that command,
\* whatever the application registers, in whatever order, as long as it leaves
\* these names to the built-in commands within their own group.
THEOREM BuiltinsAlwaysReachable ==
  ASSUME BuiltinsApart PROVE RegistrySpec => []BuiltinsReachable
<1> DEFINE Inv == Table(commands) /\ ToSet(Builtins) \subseteq ToSet(commands)
<1>1. Inv => BuiltinsReachable
  <2> SUFFICES ASSUME Inv, NEW b \in ToSet(Builtins), NEW name \in Names(b)
               PROVE  /\ Lookup(commands, name) # 0
                      /\ commands[Lookup(commands, name)] = b
    BY DEF BuiltinsReachable
  <2>1. /\ commands \in Seq(SystemCommand) /\ DOMAIN commands = 1 .. Len(commands)
        /\ Len(commands) \in Nat
    BY LenProperties DEF Table
  <2> DEFINE Called(c) == c.id = name \/ (c.shortcut # <<>> /\ c.shortcut = name)
             I == {j \in 1 .. Len(commands) : Called(commands[j])}
  <2>2. PICK i \in 1 .. Len(commands) : commands[i] = b
    BY <2>1, RowsOf
  <2>3. i \in I
    BY <2>2 DEF Names
  <2>4. PICK m \in I : \A j \in I : m <= j
    <3>1. I \subseteq Nat /\ I # {}
      BY <2>1, <2>3
    <3> HIDE DEF I
    <3> QED BY <3>1, LeastNumber
  <2>5. Lookup(commands, name) = m
    <3>1. Lookup(commands, name) = IF I # {} THEN CHOOSE x \in I : \A y \in I : x <= y ELSE 0
      BY DEF Lookup, SelectInSeq, Min
    <3>2. I \subseteq Nat
      BY <2>1
    <3> HIDE DEF I
    <3>3. \A x \in I : (\A y \in I : x <= y) => x = m
      BY <2>4, <3>2
    <3> QED BY <2>4, <3>1, <3>3
  <2>6. m \in 1 .. Len(commands) /\ m <= i /\ name \in Names(commands[m])
    <3>1. name # <<>>
      BY DEF Names
    <3> QED BY <2>3, <2>4, <3>1 DEF Names
  \* The row found is not behind that of b, and so of the internal group.
  <2>7. commands[m].group = INTERNAL_CMD_CLASS
    <3>1. PICK n \in 0 .. Len(commands) :
            \A j \in 1 .. Len(commands) : commands[j].group = INTERNAL_CMD_CLASS <=> j <= n
      BY DEF Table, Grouped
    <3>2. i <= n
      BY <2>2, <3>1 DEF BuiltinsApart
    <3> QED BY <2>1, <2>2, <2>6, <3>1, <3>2
  <2>8. commands[m] \in ToSet(Builtins) \cup AppCommands
    BY <2>1, <2>6, RowsOf DEF Table
  <2>9. CASE commands[m] \in AppCommands
    BY <2>6, <2>7, <2>9 DEF BuiltinsApart
  <2>10. CASE commands[m] \in ToSet(Builtins)
    <3>1. PICK j \in DOMAIN Builtins, k \in DOMAIN Builtins :
            commands[m] = Builtins[j] /\ b = Builtins[k]
      BY <2>10 DEF ToSet
    <3> QED BY <2>5, <2>6, <3>1 DEF BuiltinsApart
  <2> QED BY <2>5, <2>6, <2>8, <2>9, <2>10
<1>2. RegistryInit => Inv
  BY InitTable
<1>3. Inv /\ [RegistryNext]_commands => Inv'
  BY NextTable
<1> QED BY <1>1, <1>2, <1>3, PTL DEF RegistrySpec

-----------------------------------------------------------------------------
(* The keys.                                                               *)

LEMMA RowTypes ==
  ASSUME NEW row \in Decoding
  PROVE  row[3] \in ParserState /\ row[4] \in Keys
  BY DEF Decoding, ParserState, Keys

LEMMA DecodeTypes ==
  ASSUME NEW b \in Byte, parser \in ParserState
  PROVE  Decode(b)[1] \in ParserState /\ Decode(b)[2] \in Keys
<1>1. Decode(b) = IF Rows(parser, b) = {} THEN <<"Main", "None">>
                  ELSE LET row == CHOOSE row \in Rows(parser, b) : TRUE IN <<row[3], row[4]>>
  BY DEF Decode, Decoded
<1>2. CASE Rows(parser, b) = {}
  BY <1>1, <1>2 DEF ParserState, Keys
<1>3. CASE Rows(parser, b) # {}
  <2> DEFINE row == CHOOSE row \in Rows(parser, b) : TRUE
  <2>1. row \in Rows(parser, b)
    BY <1>3
  <2>2. Decode(b) = <<row[3], row[4]>>
    BY <1>1, <1>3
  <2> HIDE DEF row
  <2>3. row \in Decoding
    BY <2>1 DEF Rows
  <2> QED BY <2>2, <2>3, RowTypes
<1> QED BY <1>2, <1>3

-----------------------------------------------------------------------------
(* Prefixes.                                                               *)

LEMMA PrefixIs ==
  ASSUME NEW S, NEW s \in Seq(S), NEW t \in Seq(S)
  PROVE  IsPrefix(s, t) <=> Len(s) <= Len(t) /\ \A i \in 1 .. Len(s) : s[i] = t[i]
<1>0. Len(s) \in Nat /\ Len(t) \in Nat
  BY LenProperties
<1>1. SubSeq(s, 1, Len(s)) = s
  BY SubSeqFull
<1>2. CASE Len(s) <= Len(t)
  <2> DEFINE u == SubSeq(t, 1, Len(s))
  <2>1. \A i \in 1 .. Len(s) : t[i] \in S
    BY <1>0, <1>2, ElementOfSeq
  <2>2. u \in Seq(S) /\ Len(u) = Len(s) /\ \A i \in 1 .. Len(s) : u[i] = t[i]
    <3>1. /\ u \in Seq(S) /\ Len(u) = IF 1 <= Len(s) THEN Len(s) - 1 + 1 ELSE 0
          /\ \A i \in 1 .. Len(s) - 1 + 1 : u[i] = t[1 + i - 1]
      BY <1>0, <2>1, SubSeqProperties
    <3> QED BY <1>0, <3>1
  <2> HIDE DEF u
  <2>3. u = s <=> \A i \in 1 .. Len(s) : s[i] = t[i]
    BY <2>2, SeqEqual
  <2> QED BY <1>1, <1>2, <2>3 DEF IsPrefix, u
<1>3. CASE ~(Len(s) <= Len(t))
  BY <1>3 DEF IsPrefix
<1> QED BY <1>2, <1>3

LEMMA FirstOf ==
  ASSUME NEW S, NEW t \in Seq(S), NEW n \in 0 .. Len(t)
  PROVE  /\ SubSeq(t, 1, n) \in Seq(S) /\ Len(SubSeq(t, 1, n)) = n
         /\ \A i \in 1 .. n : SubSeq(t, 1, n)[i] = t[i]
<1>0. Len(t) \in Nat
  BY LenProperties
<1>1. \A i \in 1 .. n : t[i] \in S
  BY <1>0, ElementOfSeq
<1>2. /\ SubSeq(t, 1, n) \in Seq(S)
      /\ Len(SubSeq(t, 1, n)) = IF 1 <= n THEN n - 1 + 1 ELSE 0
      /\ \A i \in 1 .. n - 1 + 1 : SubSeq(t, 1, n)[i] = t[1 + i - 1]
  BY <1>0, <1>1, SubSeqProperties
<1> QED BY <1>0, <1>2

LEMMA RestOf ==
  ASSUME NEW S, NEW t \in Seq(S), NEW n \in 0 .. Len(t)
  PROVE  SubSeq(t, n + 1, Len(t)) \in Seq(S) /\ Len(SubSeq(t, n + 1, Len(t))) = Len(t) - n
<1>0. Len(t) \in Nat
  BY LenProperties
<1>1. \A i \in n + 1 .. Len(t) : t[i] \in S
  BY <1>0, ElementOfSeq
<1>2. /\ SubSeq(t, n + 1, Len(t)) \in Seq(S)
      /\ Len(SubSeq(t, n + 1, Len(t))) = IF n + 1 <= Len(t) THEN Len(t) - (n + 1) + 1 ELSE 0
  BY <1>0, <1>1, SubSeqProperties
<1> QED BY <1>0, <1>2

LEMMA CommonPrefixIs ==
  ASSUME NEW T, NEW S, S \subseteq Seq(T), S # {}
  PROVE  /\ LongestCommonPrefix(S) \in Seq(T)
         /\ \A t \in S : IsPrefix(LongestCommonPrefix(S), t)
         /\ \A p \in Seq(T) :
              (\A t \in S : IsPrefix(p, t)) => IsPrefix(p, LongestCommonPrefix(S))
<1>1. \A p : p \in CommonPrefixes(S) <=> p \in Seq(T) /\ \A t \in S : IsPrefix(p, t)
  <2>1. ASSUME NEW p, p \in CommonPrefixes(S)
        PROVE  p \in Seq(T) /\ \A t \in S : IsPrefix(p, t)
    <3>1. PICK t \in S : \E n \in 0 .. Len(t) : p = SubSeq(t, 1, n)
      BY <2>1 DEF CommonPrefixes, Prefixes
    <3>2. p \in Seq(T)
      BY <3>1, FirstOf
    <3> QED BY <2>1, <3>2 DEF CommonPrefixes
  <2>2. ASSUME NEW p \in Seq(T), \A t \in S : IsPrefix(p, t)
        PROVE  p \in CommonPrefixes(S)
    <3>1. PICK t \in S : TRUE
      OBVIOUS
    <3>2. t \in Seq(T) /\ Len(p) \in Nat /\ Len(t) \in Nat
      BY LenProperties
    <3>3. Len(p) <= Len(t) /\ SubSeq(p, 1, Len(p)) = SubSeq(t, 1, Len(p))
      BY <2>2 DEF IsPrefix
    <3>4. p = SubSeq(t, 1, Len(p)) /\ Len(p) \in 0 .. Len(t)
      BY <3>2, <3>3, SubSeqFull
    <3>5. p \in Prefixes(t)
      BY <3>4 DEF Prefixes
    <3> QED BY <2>2, <3>1, <3>5 DEF CommonPrefixes
  <2> QED BY <2>1, <2>2
<1>2. PICK t \in S : TRUE
  OBVIOUS
<1>3. t \in Seq(T) /\ Len(t) \in Nat
  BY LenProperties
<1> DEFINE L == {Len(p) : p \in CommonPrefixes(S)}
<1>4. L \subseteq 0 .. Len(t)
  <2>1. ASSUME NEW p \in CommonPrefixes(S) PROVE Len(p) \in 0 .. Len(t)
    <3>1. p \in Seq(T) /\ IsPrefix(p, t)
      BY <1>1
    <3>2. Len(p) \in Nat /\ Len(p) <= Len(t)
      BY <3>1, LenProperties DEF IsPrefix
    <3> QED BY <1>3, <3>2
  <2> QED BY <2>1
<1>5. <<>> \in CommonPrefixes(S)
  <2>1. <<>> \in Seq(T) /\ Len(<<>>) = 0
    BY EmptySeq
  <2>2. ASSUME NEW s \in S PROVE IsPrefix(<<>>, s)
    <3>1. s \in Seq(T) /\ Len(s) \in Nat
      BY LenProperties
    <3>2. Len(<<>>) <= Len(s) /\ \A i \in 1 .. Len(<<>>) : <<>>[i] = s[i]
      BY <2>1, <3>1
    <3> QED BY <2>1, <3>1, <3>2, PrefixIs
  <2> QED BY <1>1, <2>1, <2>2
<1>6. PICK n \in L : \A m \in L : m <= n
  BY <1>3, <1>4, <1>5, GreatestNumber
<1>7. PICK p \in CommonPrefixes(S) : Len(p) = n
  BY <1>6
<1>8. \A q \in CommonPrefixes(S) : Len(q) <= Len(p)
  BY <1>6, <1>7
<1> DEFINE c == LongestCommonPrefix(S)
<1>9. c \in CommonPrefixes(S) /\ \A q \in CommonPrefixes(S) : Len(q) <= Len(c)
  BY <1>8 DEF LongestCommonPrefix
<1> HIDE DEF c
<1>10. ASSUME NEW q \in Seq(T), \A s \in S : IsPrefix(q, s) PROVE IsPrefix(q, c)
  <2>1. Len(q) <= Len(c) /\ c \in Seq(T) /\ IsPrefix(c, t) /\ IsPrefix(q, t)
    BY <1>1, <1>9, <1>10
  <2>2. /\ \A i \in 1 .. Len(q) : q[i] = t[i]
        /\ \A i \in 1 .. Len(c) : c[i] = t[i]
    BY <1>3, <2>1, PrefixIs
  <2>3. \A i \in 1 .. Len(q) : q[i] = c[i]
    <3>1. Len(q) \in Nat /\ Len(c) \in Nat
      BY <2>1, LenProperties
    <3> QED BY <2>1, <2>2, <3>1
  <2> QED BY <2>1, <2>3, PrefixIs
<1> QED BY <1>1, <1>9, <1>10 DEF c

LEMMA PrefixTrans ==
  ASSUME NEW T, NEW p \in Seq(T), NEW q \in Seq(T), NEW r \in Seq(T),
         IsPrefix(p, q), IsPrefix(q, r)
  PROVE  IsPrefix(p, r)
<1>1. /\ Len(p) <= Len(q) /\ \A i \in 1 .. Len(p) : p[i] = q[i]
      /\ Len(q) <= Len(r) /\ \A i \in 1 .. Len(q) : q[i] = r[i]
  BY PrefixIs
<1>2. Len(p) \in Nat /\ Len(q) \in Nat /\ Len(r) \in Nat
  BY LenProperties
<1>3. Len(p) <= Len(r) /\ \A i \in 1 .. Len(p) : p[i] = r[i]
  BY <1>1, <1>2
<1> QED BY <1>3, PrefixIs

LEMMA PrefixesMeet ==
  ASSUME NEW T, NEW p \in Seq(T), NEW q \in Seq(T), IsPrefix(p, q),
         IsPrefix(q, p) \/ Len(q) <= Len(p)
  PROVE  p = q
<1>1. Len(p) \in Nat /\ Len(q) \in Nat
  BY LenProperties
<1>2. Len(p) = Len(q) /\ SubSeq(p, 1, Len(p)) = SubSeq(q, 1, Len(p))
  BY <1>1 DEF IsPrefix
<1>3. SubSeq(p, 1, Len(p)) = p /\ SubSeq(q, 1, Len(q)) = q
  BY SubSeqFull
<1> QED BY <1>2, <1>3

-----------------------------------------------------------------------------
(* The operators of the editor.                                            *)

LEMMA TrimType == ASSUME NEW s \in Seq(Byte) PROVE Trim(s) \in Seq(Byte)
<1> DEFINE words == {i \in DOMAIN s : s[i] \notin Whitespace}
           first == CHOOSE i \in words : \A j \in words : i <= j
           last  == CHOOSE i \in words : \A j \in words : i >= j
<1>0. DOMAIN s = 1 .. Len(s) /\ Len(s) \in Nat
  BY LenProperties
<1>1. CASE words = {}
  BY <1>1, EmptySeq DEF Trim
<1>2. CASE words # {}
  <2>1. Trim(s) = SubSeq(s, first, last)
    BY <1>2 DEF Trim
  <2>2. words \subseteq Nat /\ words \subseteq 0 .. Len(s) /\ words \subseteq 1 .. Len(s)
    BY <1>0
  <2> HIDE DEF words
  <2>3. first \in words
    BY <1>2, <2>2, LeastNumber
  <2>4. last \in words
    <3>1. PICK n \in words : \A m \in words : m <= n
      BY <1>0, <1>2, <2>2, GreatestNumber
    <3>2. \A m \in words : n >= m
      BY <2>2, <3>1
    <3> QED BY <3>2
  <2> HIDE DEF first, last
  <2>5. first \in 1 .. Len(s) /\ last \in 1 .. Len(s)
    BY <2>2, <2>3, <2>4
  <2>6. \A i \in first .. last : s[i] \in Byte
    <3>1. \A i \in first .. last : i \in 1 .. Len(s)
      BY <1>0, <2>5
    <3> QED BY <3>1, ElementOfSeq
  <2>7. first \in Int /\ last \in Int
    BY <2>5
  <2> QED BY <2>1, <2>6, <2>7, SubSeqProperties
<1> QED BY <1>1, <1>2

\* A history that keeps to its order.
Ordered(h) ==
  /\ h \in Seq(Seq(Byte)) /\ Len(h) <= HistoryMax
  /\ \A i \in 1 .. Len(h) - 1 : h[i] # h[i + 1]

LEMMA RememberedIs ==
  ASSUME Ordered(lines), NEW l \in Seq(Byte)
  PROVE  /\ Ordered(Remembered(l)) /\ Remembered(l) # <<>>
         /\ Remembered(l)[Len(Remembered(l))] = l
<1>0. lines \in Seq(Seq(Byte)) /\ Len(lines) \in Nat /\ HistoryMax \in Nat \ {0}
  BY SessionAssumption, LenProperties DEF Ordered
<1>1. CASE lines # <<>> /\ lines[Len(lines)] = l
  BY <1>1 DEF Remembered
<1>2. CASE ~(lines # <<>> /\ lines[Len(lines)] = l)
  <2> DEFINE all == Append(lines, l)
  <2>1. /\ all \in Seq(Seq(Byte)) /\ all # <<>> /\ Len(all) = Len(lines) + 1
        /\ \A i \in 1 .. Len(lines) : all[i] = lines[i]
        /\ all[Len(lines) + 1] = l
    BY <1>0, AppendProperties
  <2>2. Remembered(l) = IF Len(all) > HistoryMax THEN Tail(all) ELSE all
    BY <1>2 DEF Remembered
  <2> HIDE DEF all
  <2>3. ASSUME NEW i \in 1 .. Len(all) - 1 PROVE all[i] # all[i + 1]
    <3>1. CASE i < Len(lines)
      <4>1. i \in 1 .. Len(lines) /\ i + 1 \in 1 .. Len(lines) /\ i \in 1 .. Len(lines) - 1
        BY <1>0, <2>1, <3>1
      <4>2. lines[i] # lines[i + 1]
        BY <4>1 DEF Ordered
      <4> QED BY <2>1, <4>1, <4>2
    <3>2. CASE i = Len(lines)
      <4>1. Len(lines) > 0 /\ lines # <<>>
        BY <3>2, <2>1, <1>0, EmptySeq
      <4>2. lines[Len(lines)] # l
        BY <1>2, <4>1
      <4>3. all[i] = lines[Len(lines)]
        BY <1>0, <2>1, <3>2, <4>1
      <4>4. all[i + 1] = l
        BY <2>1, <3>2
      <4> QED BY <4>2, <4>3, <4>4
    <3>3. i < Len(lines) \/ i = Len(lines)
      BY <1>0, <2>1
    <3> QED BY <3>1, <3>2, <3>3
  <2>4. CASE Len(all) <= HistoryMax
    <3>1. Remembered(l) = all
      BY <1>0, <2>1, <2>2, <2>4
    <3> QED BY <2>1, <2>3, <2>4, <3>1 DEF Ordered
  <2>5. CASE Len(all) > HistoryMax
    <3>1. Remembered(l) = Tail(all)
      BY <2>2, <2>5
    <3>2. /\ Tail(all) \in Seq(Seq(Byte)) /\ Len(Tail(all)) = Len(lines)
          /\ \A i \in 1 .. Len(lines) : Tail(all)[i] = all[i + 1]
      <4>1. /\ Tail(all) \in Seq(Seq(Byte)) /\ Len(Tail(all)) = Len(all) - 1
            /\ \A i \in 1 .. Len(Tail(all)) : Tail(all)[i] = all[i + 1]
        BY <2>1, HeadTailProperties
      <4> QED BY <1>0, <2>1, <4>1
    <3>3. Len(lines) <= HistoryMax /\ Len(lines) >= 1
      BY <1>0, <2>1, <2>5 DEF Ordered
    <3>4. \A i \in 1 .. Len(lines) - 1 : Tail(all)[i] # Tail(all)[i + 1]
      <4>1. ASSUME NEW i \in 1 .. Len(lines) - 1 PROVE Tail(all)[i] # Tail(all)[i + 1]
        <5>1. i \in 1 .. Len(lines) /\ i + 1 \in 1 .. Len(lines) /\ i + 1 \in 1 .. Len(all) - 1
          BY <1>0, <2>1
        <5> QED BY <2>3, <3>2, <5>1
      <4> QED BY <4>1
    <3>5. Tail(all)[Len(lines)] = l /\ Tail(all) # <<>>
      <4>1. Tail(all) # <<>>
        <5>1. Len(Tail(all)) = Len(lines)
          BY <3>2
        <5>2. Len(lines) # 0
          BY <1>0, <3>3
        <5> QED BY <5>1, <5>2, EmptySeq
      <4>2. Tail(all)[Len(lines)] = all[Len(lines) + 1]
        <5>1. Len(lines) \in 1 .. Len(lines)
          BY <1>0, <3>3
        <5> QED BY <3>2, <5>1
      <4> QED BY <2>1, <4>1, <4>2
    <3> QED BY <3>1, <3>2, <3>3, <3>4, <3>5 DEF Ordered
  <2>6. Len(all) <= HistoryMax \/ Len(all) > HistoryMax
    BY <1>0, <2>1
  <2> QED BY <2>4, <2>5, <2>6
<1> QED BY <1>1, <1>2

LEMMA SkipLeftIn ==
  ASSUME NEW n \in Nat, NEW bytes PROVE SkipLeft(n, bytes) \in 0 .. n
<1> DEFINE M == {m \in 0 .. n : \A i \in m + 1 .. n : line[i] \in bytes}
<1>1. n \in M /\ M \subseteq Nat
  OBVIOUS
<1>2. PICK m \in M : \A k \in M : m <= k
  BY <1>1, LeastNumber
<1>3. m > 0 => line[m] \notin bytes
  <2> SUFFICES ASSUME m > 0, line[m] \in bytes PROVE FALSE
    OBVIOUS
  <2>1. m - 1 \in 0 .. n /\ ~(m <= m - 1)
    BY <1>1, <1>2
  <2>2. \A i \in (m - 1) + 1 .. n : line[i] \in bytes
    <3>1. ASSUME NEW i \in (m - 1) + 1 .. n PROVE i = m \/ i \in m + 1 .. n
      BY <1>1, <1>2
    <3> QED BY <1>2, <3>1
  <2>3. m - 1 \in M
    BY <2>1, <2>2
  <2> QED BY <1>2, <2>1, <2>3
<1>4. \E k \in 0 .. n : /\ \A i \in k + 1 .. n : line[i] \in bytes
                        /\ k > 0 => line[k] \notin bytes
  BY <1>2, <1>3
<1> QED BY <1>4 DEF SkipLeft

LEMMA SkipRightIn ==
  ASSUME line \in Seq(Byte), NEW n \in 0 .. Len(line), NEW bytes
  PROVE  SkipRight(n, bytes) \in n .. Len(line)
<1>0. Len(line) \in Nat
  BY LenProperties
<1> DEFINE M == {m \in n .. Len(line) : \A i \in n + 1 .. m : line[i] \in bytes}
<1>1. n \in M /\ M \subseteq 0 .. Len(line)
  BY <1>0
<1>2. PICK m \in M : \A k \in M : k <= m
  BY <1>0, <1>1, GreatestNumber
<1>3. m < Len(line) => line[m + 1] \notin bytes
  <2> SUFFICES ASSUME m < Len(line), line[m + 1] \in bytes PROVE FALSE
    OBVIOUS
  <2>1. m + 1 \in n .. Len(line) /\ ~(m + 1 <= m)
    BY <1>0, <1>1, <1>2
  <2>2. \A i \in n + 1 .. m + 1 : line[i] \in bytes
    <3>1. ASSUME NEW i \in n + 1 .. m + 1 PROVE i = m + 1 \/ i \in n + 1 .. m
      BY <1>0, <1>1, <1>2
    <3> QED BY <1>2, <3>1
  <2>3. m + 1 \in M
    BY <2>1, <2>2
  <2> QED BY <1>2, <2>1, <2>3
<1>4. \E k \in n .. Len(line) : /\ \A i \in n + 1 .. k : line[i] \in bytes
                                /\ k < Len(line) => line[k + 1] \notin bytes
  BY <1>2, <1>3
<1> QED BY <1>4 DEF SkipRight

-----------------------------------------------------------------------------
(* The invariant of a session.                                             *)

\* Nothing but the line of an automatic session, what it ran last and whether it
\* is open ever changes.
AutoStill ==
  modeAuto => parser = "Main" /\ cursor = 0 /\ view = 0 /\ ~tabLast /\ lines = <<>>

SessionInv ==
  /\ Table(commands) /\ TypeOK /\ AutoStill
  /\ IndexesValid /\ HistoryInOrder /\ TabCompletesFirst

LEMMA InitSession == Init => SessionInv
<1> SUFFICES ASSUME Init PROVE SessionInv
  OBVIOUS
<1>1. Table(commands) /\ commands \in Seq(SystemCommand)
  BY InitTable DEF Init, Table
<1>2. /\ line = <<>> /\ cursor = 0 /\ lines = <<>> /\ view = 0 /\ lastCommand = <<>>
      /\ tabLast = FALSE /\ parser = "Main" /\ modeAuto \in BOOLEAN /\ open = TRUE
  BY DEF Init, SessionInit
<1>3. <<>> \in Seq(Byte) /\ <<>> \in Seq(Seq(Byte)) /\ Len(<<>>) = 0
  BY EmptySeq
<1>4. TypeOK
  BY <1>1, <1>2, <1>3 DEF TypeOK, RegistryTypeOK, ParserState
<1>5. IndexesValid /\ TabCompletesFirst /\ AutoStill
  BY <1>2, <1>3 DEF IndexesValid, TabCompletesFirst, AutoStill
<1>6. HistoryInOrder
  BY <1>2, <1>3, SessionAssumption DEF HistoryInOrder
<1> QED BY <1>1, <1>4, <1>5, <1>6 DEF SessionInv

LEMMA OrderedHistory == SessionInv => Ordered(lines)
  BY DEF SessionInv, TypeOK, HistoryInOrder, Ordered

\* More commands, more candidates; a longer prefix, fewer.
LEMMA CandidatesGrow ==
  ASSUME NEW a \in Seq(SystemCommand), NEW b \in Seq(SystemCommand),
         ToSet(a) \subseteq ToSet(b), NEW p
  PROVE  Candidates(a, p) \subseteq Candidates(b, p)
  BY DEF Candidates

LEMMA CandidateTypes ==
  ASSUME NEW a \in Seq(SystemCommand), NEW p, NEW c \in Candidates(a, p)
  PROVE  c \in Seq(Byte) /\ IsPrefix(p, c)
<1>1. PICK d \in ToSet(a) : c = d.id /\ IsPrefix(p, d.id)
  BY DEF Candidates
<1>2. d \in SystemCommand
  BY RowsOf
<1> QED BY <1>1, <1>2 DEF SystemCommand

LEMMA BeforeIs ==
  ASSUME line \in Seq(Byte), NEW n \in 0 .. Len(line)
  PROVE  /\ Before(n) \in Seq(Byte) /\ Len(Before(n)) = n
         /\ \A i \in 1 .. n : Before(n)[i] = line[i]
  BY FirstOf DEF Before

\* What has to be shown of a step that a key makes.
LEMMA FeedKeeps ==
  ASSUME SessionInv, NEW b \in Byte, NEW k, Feed(b, k),
         line' \in Seq(Byte), cursor' \in 0 .. Len(line'), Ordered(lines'),
         view' \in 0 .. Len(lines'), lastCommand' \in Seq(Byte),
         tabLast' \in BOOLEAN, open' \in BOOLEAN,
         lastCommand' # <<>> => lines' # <<>> /\ lines'[Len(lines')] = lastCommand',
         TabCompletesFirst'
  PROVE  SessionInv'
<1>1. parser' \in ParserState
  BY DecodeTypes DEF Feed, SessionInv, TypeOK
<1>2. ~modeAuto /\ ~modeAuto' /\ modeAuto' \in BOOLEAN /\ commands' = commands
  BY DEF Feed, SessionInv, TypeOK
<1>3. Len(line') \in Nat /\ Len(lines') \in Nat /\ lines' \in Seq(Seq(Byte))
  BY LenProperties DEF Ordered
<1>4. Table(commands)'
  BY <1>2 DEF SessionInv, Table, Distinct
<1>5. TypeOK' /\ IndexesValid'
  BY <1>1, <1>2, <1>3 DEF SessionInv, TypeOK, RegistryTypeOK, IndexesValid
<1>6. HistoryInOrder'
  BY DEF HistoryInOrder, Ordered
<1> QED BY <1>2, <1>4, <1>5, <1>6 DEF SessionInv, AutoStill

LEMMA SessionTypes ==
  ASSUME SessionInv
  PROVE  /\ line \in Seq(Byte) /\ Len(line) \in Nat /\ cursor \in 0 .. Len(line)
         /\ lines \in Seq(Seq(Byte)) /\ Len(lines) \in Nat /\ view \in 0 .. Len(lines)
         /\ lastCommand \in Seq(Byte) /\ tabLast \in BOOLEAN /\ open \in BOOLEAN
         /\ commands \in Seq(SystemCommand)
<1>1. line \in Seq(Byte) /\ lines \in Seq(Seq(Byte)) /\ cursor \in Nat /\ view \in Nat
  BY DEF SessionInv, TypeOK
<1>2. Len(line) \in Nat /\ Len(lines) \in Nat
  BY <1>1, LenProperties
<1> QED BY <1>1, <1>2 DEF SessionInv, TypeOK, IndexesValid, RegistryTypeOK

\* The history and what was executed stay as they are.
LEMMA EditKeeps ==
  ASSUME SessionInv, NEW b \in Byte, NEW k, Feed(b, k),
         line' \in Seq(Byte), cursor' \in 0 .. Len(line'),
         view' \in 0 .. Len(lines), UNCHANGED <<lines, lastCommand>>,
         tabLast' \in BOOLEAN, open' \in BOOLEAN, TabCompletesFirst'
  PROVE  SessionInv'
<1>1. lastCommand' # <<>> => lines' # <<>> /\ lines'[Len(lines')] = lastCommand'
  BY DEF SessionInv, HistoryInOrder, Feed
<1>2. Ordered(lines')
  BY OrderedHistory
<1> QED BY <1>1, <1>2, SessionTypes, FeedKeeps

\* The word w is all that the commands with it as a prefix have in common.
Whole(cmds, w) ==
  Candidates(cmds, w) # {} /\ LongestCommonPrefix(Candidates(cmds, w)) = w

LEMMA WholeGrows ==
  ASSUME NEW a \in Seq(SystemCommand), NEW b \in Seq(SystemCommand),
         ToSet(a) \subseteq ToSet(b), NEW w \in Seq(Byte), Whole(a, w)
  PROVE  Whole(b, w)
<1> DEFINE A == Candidates(a, w)
           B == Candidates(b, w)
           p == LongestCommonPrefix(B)
<1>1. A \subseteq B /\ A # {}
  BY CandidatesGrow DEF Whole
<1>2. /\ A \subseteq Seq(Byte) /\ B \subseteq Seq(Byte)
      /\ \A c \in B : IsPrefix(w, c)
  BY CandidateTypes
<1>3. LongestCommonPrefix(A) = w
  BY DEF Whole
<1> HIDE DEF A, B
<1>4. p \in Seq(Byte) /\ \A c \in B : IsPrefix(p, c)
  BY <1>1, <1>2, CommonPrefixIs
<1>5. IsPrefix(w, p)
  BY <1>1, <1>2, CommonPrefixIs
<1>6. IsPrefix(p, w)
  <2>1. \A c \in A : IsPrefix(p, c)
    BY <1>1, <1>4
  <2>2. IsPrefix(p, LongestCommonPrefix(A))
    BY <1>1, <1>2, <1>4, <2>1, CommonPrefixIs
  <2> QED BY <1>3, <2>2
<1>7. p = w
  BY <1>4, <1>5, <1>6, PrefixesMeet
<1> QED BY <1>1, <1>7 DEF Whole, B

LEMMA SameListing ==
  ASSUME SessionInv, UNCHANGED <<line, cursor>>, tabLast' => tabLast,
         commands' \in Seq(SystemCommand), ToSet(commands) \subseteq ToSet(commands')
  PROVE  TabCompletesFirst'
<1>1. Before(cursor) \in Seq(Byte) /\ commands \in Seq(SystemCommand)
  BY SessionTypes, BeforeIs
<1>2. Whole(commands, Before(cursor)) => Whole(commands', Before(cursor))
  BY <1>1, WholeGrows
<1> QED BY <1>2 DEF TabCompletesFirst, SessionInv, Before, Whole

LEMMA MoveKeeps ==
  ASSUME SessionInv, NEW b \in Byte, NEW k, Feed(b, k),
         NEW n \in 0 .. Len(line), MoveTo(n)
  PROVE  SessionInv'
<1>1. /\ cursor' = n /\ tabLast' = (tabLast /\ n = cursor)
      /\ UNCHANGED <<line, lines, view, lastCommand, open>>
  BY DEF MoveTo
<1>2. commands' = commands
  BY DEF Feed
<1>3. TabCompletesFirst'
  <2>1. CASE n = cursor
    BY <1>1, <1>2, <2>1, SessionTypes, SameListing
  <2>2. CASE n # cursor
    BY <1>1, <2>2 DEF TabCompletesFirst
  <2> QED BY <2>1, <2>2
<1> QED BY <1>1, <1>3, SessionTypes, EditKeeps

LEMMA EditedKeeps ==
  ASSUME SessionInv, NEW b \in Byte, NEW k, Feed(b, k),
         NEW l \in Seq(Byte), NEW n \in 0 .. Len(l), Edited(l, n)
  PROVE  SessionInv'
<1>1. /\ line' = l /\ cursor' = n /\ tabLast' = FALSE
      /\ UNCHANGED <<lines, view, lastCommand, open>>
  BY DEF Edited
<1>2. TabCompletesFirst'
  BY <1>1 DEF TabCompletesFirst
<1> QED BY <1>1, <1>2, SessionTypes, EditKeeps

LEMMA SameEditKeeps ==
  ASSUME SessionInv, NEW b \in Byte, NEW k, Feed(b, k), UNCHANGED edit, open' \in BOOLEAN
  PROVE  SessionInv'
<1>1. UNCHANGED <<line, cursor, lines, view, lastCommand, tabLast>>
  BY DEF edit
<1>2. TabCompletesFirst'
  BY <1>1, SessionTypes, SameListing DEF Feed
<1> QED BY <1>1, <1>2, SessionTypes, EditKeeps

LEMMA MovesKeep ==
  ASSUME SessionInv, NEW b \in Byte,
         Left(b) \/ Right(b) \/ Home(b) \/ End(b) \/ JumpLeft(b) \/ JumpRight(b)
  PROVE  SessionInv'
<1>0. line \in Seq(Byte) /\ Len(line) \in Nat /\ cursor \in 0 .. Len(line)
  BY SessionTypes
<1>1. CASE Left(b)
  <2>1. (IF cursor > 0 THEN cursor - 1 ELSE 0) \in 0 .. Len(line)
    BY <1>0
  <2> QED BY <1>1, <2>1, MoveKeeps DEF Left
<1>2. CASE Right(b)
  <2>1. (IF cursor < Len(line) THEN cursor + 1 ELSE cursor) \in 0 .. Len(line)
    BY <1>0
  <2> QED BY <1>2, <2>1, MoveKeeps DEF Right
<1>3. CASE Home(b)
  BY <1>0, <1>3, MoveKeeps DEF Home
<1>4. CASE End(b)
  BY <1>0, <1>4, MoveKeeps DEF End
<1>5. CASE JumpLeft(b)
  <2> DEFINE m == SkipLeft(cursor, {Space})
             n == SkipLeft(m, Alphanumeric)
  <2>1. m \in 0 .. cursor
    BY <1>0, SkipLeftIn
  <2>2. m \in Nat
    BY <1>0, <2>1
  <2> HIDE DEF m
  <2>3. n \in 0 .. m
    BY <2>2, SkipLeftIn
  <2>4. n \in 0 .. Len(line)
    BY <1>0, <2>1, <2>3
  <2>5. Feed(b, "JumpLeft") /\ MoveTo(n)
    BY <1>5 DEF JumpLeft, m
  <2> HIDE DEF n
  <2> QED BY <2>4, <2>5, MoveKeeps
<1>6. CASE JumpRight(b)
  <2> DEFINE m == SkipRight(cursor, Alphanumeric)
             n == SkipRight(m, {Space})
  <2>1. m \in cursor .. Len(line)
    BY <1>0, SkipRightIn
  <2>2. m \in 0 .. Len(line)
    BY <1>0, <2>1
  <2> HIDE DEF m
  <2>3. n \in m .. Len(line)
    BY <1>0, <2>2, SkipRightIn
  <2>4. n \in 0 .. Len(line)
    BY <1>0, <2>2, <2>3
  <2>5. Feed(b, "JumpRight") /\ MoveTo(n)
    BY <1>6 DEF JumpRight, m
  <2> HIDE DEF n
  <2> QED BY <2>4, <2>5, MoveKeeps
<1> QED BY <1>1, <1>2, <1>3, <1>4, <1>5, <1>6

LEMMA EditsKeep ==
  ASSUME SessionInv, NEW b \in Byte, Char(b) \/ Backspace(b) \/ Delete(b)
  PROVE  SessionInv'
<1>0. line \in Seq(Byte) /\ Len(line) \in Nat /\ cursor \in 0 .. Len(line) /\ cursor \in Nat
  BY SessionTypes
<1>1. ASSUME NEW n \in 0 .. Len(line)
      PROVE  /\ Before(n) \in Seq(Byte) /\ Len(Before(n)) = n
             /\ After(n) \in Seq(Byte) /\ Len(After(n)) = Len(line) - n
  BY <1>0, FirstOf, RestOf DEF Before, After
<1>2. ASSUME NEW m \in 0 .. Len(line), NEW n \in 0 .. Len(line)
      PROVE  /\ Before(m) \o After(n) \in Seq(Byte)
             /\ Len(Before(m) \o After(n)) = m + Len(line) - n
  <2>1. /\ Before(m) \in Seq(Byte) /\ Len(Before(m)) = m
        /\ After(n) \in Seq(Byte) /\ Len(After(n)) = Len(line) - n
    BY <1>1
  <2>2. /\ Before(m) \o After(n) \in Seq(Byte)
        /\ Len(Before(m) \o After(n)) = Len(Before(m)) + Len(After(n))
    BY <2>1, ConcatProperties
  <2> QED BY <1>0, <2>1, <2>2
<1>3. CASE Char(b)
  <2> DEFINE l == Before(cursor) \o <<b>>
             r == After(cursor)
  <2>1. /\ Before(cursor) \in Seq(Byte) /\ Len(Before(cursor)) = cursor
        /\ r \in Seq(Byte) /\ Len(r) = Len(line) - cursor
    BY <1>0, <1>1
  <2>2. <<b>> \in Seq(Byte) /\ Len(<<b>>) = 1
    OBVIOUS
  <2>3. l \in Seq(Byte) /\ Len(l) = Len(Before(cursor)) + Len(<<b>>)
    BY <2>1, <2>2, ConcatProperties
  <2>4. Feed(b, "Char") /\ Edited(l \o r, cursor + 1)
    BY <1>3 DEF Char
  <2> HIDE DEF l, r
  <2>5. l \o r \in Seq(Byte) /\ Len(l \o r) = Len(l) + Len(r)
    BY <2>1, <2>3, ConcatProperties
  <2>6. cursor + 1 \in 0 .. Len(l \o r)
    BY <1>0, <2>1, <2>2, <2>3, <2>5
  <2> QED BY <2>4, <2>5, <2>6, EditedKeeps
<1>4. CASE Backspace(b)
  <2>1. CASE cursor > 0
    <3>1. Feed(b, "Backspace") /\ Edited(Before(cursor - 1) \o After(cursor), cursor - 1)
      BY <1>4, <2>1 DEF Backspace
    <3>2. cursor - 1 \in 0 .. Len(line)
      BY <1>0, <2>1
    <3>3. /\ Before(cursor - 1) \o After(cursor) \in Seq(Byte)
          /\ Len(Before(cursor - 1) \o After(cursor)) = cursor - 1 + Len(line) - cursor
      BY <1>0, <1>2, <3>2
    <3>4. cursor - 1 \in 0 .. Len(Before(cursor - 1) \o After(cursor))
      BY <1>0, <2>1, <3>3
    <3> QED BY <3>1, <3>3, <3>4, EditedKeeps
  <2>2. CASE ~(cursor > 0)
    BY <1>4, <2>2, SameEditKeeps, SessionTypes DEF Backspace
  <2> QED BY <2>1, <2>2
<1>5. CASE Delete(b)
  <2>1. CASE cursor < Len(line)
    <3>1. Feed(b, "Delete") /\ Edited(Before(cursor) \o After(cursor + 1), cursor)
      BY <1>5, <2>1 DEF Delete
    <3>2. cursor + 1 \in 0 .. Len(line)
      BY <1>0, <2>1
    <3>3. /\ Before(cursor) \o After(cursor + 1) \in Seq(Byte)
          /\ cursor \in 0 .. Len(Before(cursor) \o After(cursor + 1))
      BY <1>0, <1>2, <3>2
    <3> QED BY <3>1, <3>3, EditedKeeps
  <2>2. CASE ~(cursor < Len(line))
    BY <1>5, <2>2, SameEditKeeps, SessionTypes DEF Delete
  <2> QED BY <2>1, <2>2
<1> QED BY <1>3, <1>4, <1>5

LEMMA LoadKeeps ==
  ASSUME SessionInv, NEW b \in Byte, NEW k, Feed(b, k), NEW n \in 1 .. Len(lines), Load(n)
  PROVE  SessionInv'
<1>0. lines \in Seq(Seq(Byte)) /\ Len(lines) \in Nat
  BY SessionTypes
<1>1. /\ view' = n /\ line' = lines[n] /\ cursor' = Len(lines[n]) /\ tabLast' = FALSE
      /\ UNCHANGED <<lines, lastCommand, open>>
  BY DEF Load
<1>2. lines[n] \in Seq(Byte)
  BY <1>0, ElementOfSeq
<1>3. Len(lines[n]) \in Nat
  BY <1>2, LenProperties
<1>4. TabCompletesFirst'
  BY <1>1 DEF TabCompletesFirst
<1>5. cursor' \in 0 .. Len(line') /\ view' \in 0 .. Len(lines)
  BY <1>0, <1>1, <1>3
<1> QED BY <1>1, <1>2, <1>4, <1>5, SessionTypes, EditKeeps

LEMMA RecallsKeep ==
  ASSUME SessionInv, NEW b \in Byte, Up(b) \/ Down(b)
  PROVE  SessionInv'
<1>0. lines \in Seq(Seq(Byte)) /\ Len(lines) \in Nat /\ view \in 0 .. Len(lines)
  BY SessionTypes
<1>1. CASE Up(b)
  <2>1. CASE lines = <<>>
    BY <1>1, <2>1, SameEditKeeps, SessionTypes DEF Up
  <2>2. CASE lines # <<>>
    <3> DEFINE n == IF view = 0 THEN Len(lines) ELSE IF view = 1 THEN 1 ELSE view - 1
    <3>1. Feed(b, "Up") /\ Load(n)
      BY <1>1, <2>2 DEF Up
    <3>2. Len(lines) > 0
      BY <1>0, <2>2, EmptySeq
    <3>3. n \in 1 .. Len(lines)
      BY <1>0, <3>2
    <3> HIDE DEF n
    <3> QED BY <3>1, <3>3, LoadKeeps
  <2> QED BY <2>1, <2>2
<1>2. CASE Down(b)
  <2>1. CASE view = 0
    BY <1>2, <2>1, SameEditKeeps, SessionTypes DEF Down
  <2>2. CASE view # 0 /\ view < Len(lines)
    <3>1. Feed(b, "Down") /\ Load(view + 1)
      BY <1>2, <2>2 DEF Down
    <3>2. view + 1 \in 1 .. Len(lines)
      BY <1>0, <2>2
    <3> QED BY <3>1, <3>2, LoadKeeps
  <2>3. CASE view # 0 /\ ~(view < Len(lines))
    <3>1. /\ Feed(b, "Down") /\ view' = 0 /\ line' = <<>> /\ cursor' = 0
          /\ UNCHANGED <<lines, lastCommand, tabLast, open>>
      BY <1>2, <2>3 DEF Down
    <3>2. line' \in Seq(Byte) /\ cursor' \in 0 .. Len(line')
      BY <3>1, EmptySeq
    <3>3. TabCompletesFirst'
      BY <3>1 DEF TabCompletesFirst
    <3> QED BY <1>0, <3>1, <3>2, <3>3, SessionTypes, EditKeeps
  <2> QED BY <2>1, <2>2, <2>3
<1> QED BY <1>1, <1>2

LEMMA EnterKeeps ==
  ASSUME SessionInv, NEW b \in Byte, Enter(b)
  PROVE  SessionInv'
<1> DEFINE trimmed == Trim(line)
<1>1. trimmed \in Seq(Byte)
  BY SessionTypes, TrimType
<1>2. /\ Feed(b, "Enter") /\ line' = <<>> /\ cursor' = 0 /\ view' = 0 /\ tabLast' = FALSE
      /\ UNCHANGED open
  BY DEF Enter
<1>3. /\ trimmed = <<>> => UNCHANGED <<lines, lastCommand>>
      /\ trimmed # <<>> => lastCommand' = trimmed /\ lines' = Remembered(trimmed)
  BY DEF Enter
<1> HIDE DEF trimmed
<1>4. /\ Ordered(lines') /\ lastCommand' \in Seq(Byte)
      /\ lastCommand' # <<>> => lines' # <<>> /\ lines'[Len(lines')] = lastCommand'
  <2>1. CASE trimmed = <<>>
    BY <1>2, <1>3, <2>1, OrderedHistory, SessionTypes DEF SessionInv, HistoryInOrder, Feed
  <2>2. CASE trimmed # <<>>
    BY <1>1, <1>3, <2>2, OrderedHistory, RememberedIs
  <2> QED BY <2>1, <2>2
<1>5. line' \in Seq(Byte) /\ cursor' \in 0 .. Len(line')
  BY <1>2, EmptySeq
<1>6. view' \in 0 .. Len(lines')
  <2>1. Len(lines') \in Nat
    BY <1>4, LenProperties DEF Ordered
  <2> QED BY <1>2, <2>1
<1>7. TabCompletesFirst'
  BY <1>2 DEF TabCompletesFirst
<1> QED BY <1>2, <1>4, <1>5, <1>6, <1>7, SessionTypes, FeedKeeps

LEMMA TabKeeps ==
  ASSUME SessionInv, NEW b \in Byte, Tab(b)
  PROVE  SessionInv'
<1> DEFINE word == Before(cursor)
           found == Candidates(commands, word)
<1>0. /\ line \in Seq(Byte) /\ Len(line) \in Nat /\ cursor \in 0 .. Len(line) /\ cursor \in Nat
      /\ view \in 0 .. Len(lines) /\ tabLast \in BOOLEAN /\ open \in BOOLEAN
      /\ commands \in Seq(SystemCommand)
  BY SessionTypes
<1>1. Feed(b, "Tab") /\ UNCHANGED <<lines, view, lastCommand, open>> /\ commands' = commands
  BY DEF Tab, Feed
<1>2. CASE cursor = 0 \/ Space \in ToSet(word) \/ (found # {} /\ tabLast)
  <2>1. UNCHANGED <<line, cursor, tabLast>>
    BY <1>2 DEF Tab
  <2>2. TabCompletesFirst'
    BY <1>0, <1>1, <2>1, SameListing
  <2> QED BY <1>0, <1>1, <2>1, <2>2, EditKeeps
<1>3. CASE ~(cursor = 0 \/ Space \in ToSet(word) \/ (found # {} /\ tabLast)) /\ found = {}
  <2>1. tabLast' = FALSE /\ UNCHANGED <<line, cursor>>
    BY <1>3 DEF Tab
  <2>2. TabCompletesFirst'
    BY <2>1 DEF TabCompletesFirst
  <2> QED BY <1>0, <1>1, <2>1, <2>2, EditKeeps
<1>4. CASE ~(cursor = 0 \/ Space \in ToSet(word) \/ (found # {} /\ tabLast)) /\ found # {}
  <2> DEFINE common == LongestCommonPrefix(found)
  <2>1. Complete(found, common) /\ tabLast' = TRUE
    BY <1>4 DEF Tab, Complete
  <2>2. \A c \in found : c \in Seq(Byte)
    BY <1>0, CandidateTypes
  <2>3. common \in Seq(Byte) /\ \A c \in found : IsPrefix(common, c)
    BY <1>4, <2>2, CommonPrefixIs
  <2>4. Len(common) \in Nat
    BY <2>3, LenProperties
  <2>5. word \in Seq(Byte) /\ Len(word) = cursor /\ IsPrefix(word, common)
    <3>1. word \in Seq(Byte) /\ Len(word) = cursor
      BY <1>0, BeforeIs
    <3>2. \A c \in found : IsPrefix(word, c)
      BY <1>0, CandidateTypes
    <3> QED BY <1>4, <2>2, <3>1, <3>2, CommonPrefixIs
  <2>6. Candidates(commands, common) = found
    <3>1. ASSUME NEW c \in found PROVE c \in Candidates(commands, common)
      BY <2>3 DEF Candidates
    <3>2. ASSUME NEW c \in Candidates(commands, common) PROVE c \in found
      <4>1. c \in Seq(Byte) /\ IsPrefix(common, c)
        BY <1>0, CandidateTypes
      <4>2. IsPrefix(word, c)
        BY <2>3, <2>5, <4>1, PrefixTrans
      <4> QED BY <4>2 DEF Candidates
    <3> QED BY <3>1, <3>2
  <2>7. Whole(commands, common)
    BY <1>4, <2>6 DEF Whole
  <2> HIDE DEF common
  <2>8. CASE Len(common) > cursor
    <3>1. line' = common /\ cursor' = Len(common)
      BY <2>1, <2>8 DEF Complete
    <3>2. Before(cursor)' = common
      <4>1. Before(cursor)' = SubSeq(common, 1, Len(common))
        BY <3>1 DEF Before
      <4> QED BY <2>3, <4>1, SubSeqFull
    <3>3. TabCompletesFirst'
      BY <1>1, <2>7, <3>2 DEF TabCompletesFirst, Whole
    <3>4. cursor' \in 0 .. Len(line')
      BY <2>4, <3>1
    <3> QED BY <1>0, <1>1, <2>1, <2>3, <3>1, <3>3, <3>4, EditKeeps
  <2>9. CASE ~(Len(common) > cursor) /\ found = {word}
    <3>1. line' = Append(line, Space) /\ cursor' = Len(line) + 1
      BY <2>1, <2>9 DEF Complete
    <3>2. Space \in Byte
      BY DEF Space, Byte
    <3>3. /\ line' \in Seq(Byte) /\ Len(line') = Len(line) + 1 /\ line'[Len(line) + 1] = Space
      BY <1>0, <3>1, <3>2, AppendProperties
    <3>4. cursor' \in 0 .. Len(line')
      BY <1>0, <3>1, <3>3
    <3>5. Space \in ToSet(Before(cursor)')
      <4> DEFINE w == SubSeq(line', 1, cursor')
      <4>1. Before(cursor)' = w
        BY DEF Before
      <4>2. w \in Seq(Byte) /\ Len(w) = cursor' /\ \A i \in 1 .. cursor' : w[i] = line'[i]
        BY <3>3, <3>4, FirstOf
      <4> HIDE DEF w
      <4>3. cursor' \in 1 .. Len(w) /\ w[cursor'] = Space
        BY <1>0, <3>1, <3>3, <4>2
      <4> QED BY <4>1, <4>2, <4>3, RowsOf
    <3>6. TabCompletesFirst'
      BY <3>5 DEF TabCompletesFirst
    <3> QED BY <1>0, <1>1, <2>1, <3>3, <3>4, <3>6, EditKeeps
  <2>10. CASE ~(Len(common) > cursor) /\ found # {word}
    <3>1. UNCHANGED <<line, cursor>>
      BY <2>1, <2>10 DEF Complete
    <3>2. Before(cursor)' = word
      BY <3>1 DEF Before
    <3>3. word = common
      BY <1>0, <2>3, <2>4, <2>10, <2>5, PrefixesMeet
    <3>4. TabCompletesFirst'
      BY <1>1, <2>7, <3>2, <3>3 DEF TabCompletesFirst, Whole
    <3> QED BY <1>0, <1>1, <2>1, <3>1, <3>4, EditKeeps
  <2> QED BY <2>8, <2>9, <2>10
<1> QED BY <1>2, <1>3, <1>4

LEMMA AutoKeeps ==
  ASSUME SessionInv, NEW b \in Byte, AutoLine(b) \/ AutoAbort(b) \/ AutoByte(b)
  PROVE  SessionInv'
<1>0. /\ line \in Seq(Byte) /\ Len(line) \in Nat /\ lastCommand \in Seq(Byte) /\ open \in BOOLEAN
      /\ commands \in Seq(SystemCommand)
  BY SessionTypes
<1>1. /\ open /\ modeAuto
      /\ UNCHANGED <<commands, parser, modeAuto, cursor, lines, view, tabLast>>
  BY DEF AutoLine, AutoAbort, AutoByte, AutoFeed
<1>2. cursor = 0 /\ view = 0 /\ ~tabLast /\ lines = <<>>
  BY <1>1 DEF SessionInv, AutoStill
<1>3. /\ line' \in Seq(Byte) /\ lastCommand' \in Seq(Byte) /\ open' \in BOOLEAN
      /\ lastCommand' = lastCommand \/ open' = FALSE
  <2>1. CASE AutoLine(b)
    <3>1. Trim(line) \in Seq(Byte) /\ <<>> \in Seq(Byte)
      BY <1>0, TrimType, EmptySeq
    <3> QED BY <1>0, <2>1, <3>1 DEF AutoLine
  <2>2. CASE AutoAbort(b)
    BY <1>0, <2>2, EmptySeq DEF AutoAbort
  <2>3. CASE AutoByte(b)
    BY <1>0, <2>3, AppendProperties DEF AutoByte
  <2> QED BY <2>1, <2>2, <2>3
<1>4. Len(line') \in Nat /\ Len(<<>>) = 0
  BY <1>3, LenProperties
<1>5. TypeOK' /\ Table(commands)'
  BY <1>1, <1>3 DEF SessionInv, TypeOK, RegistryTypeOK, Table, Distinct
<1>6. IndexesValid' /\ TabCompletesFirst' /\ AutoStill'
  BY <1>1, <1>2, <1>4 DEF IndexesValid, TabCompletesFirst, AutoStill, SessionInv
<1>7. HistoryInOrder'
  BY <1>1, <1>2 DEF HistoryInOrder, SessionInv
<1> QED BY <1>5, <1>6, <1>7 DEF SessionInv

LEMMA NextSession == SessionInv /\ [Next]_vars => SessionInv'
<1> SUFFICES ASSUME SessionInv, [Next]_vars PROVE SessionInv'
  OBVIOUS
<1>0. commands \in Seq(SystemCommand)
  BY SessionTypes
<1>1. ASSUME UNCHANGED session, Table(commands)', ToSet(commands) \subseteq ToSet(commands')
      PROVE  SessionInv'
  <2>1. UNCHANGED <<line, cursor, lines, view, lastCommand, tabLast, parser, modeAuto, open>>
    BY <1>1 DEF session, edit
  <2>2. commands' \in Seq(SystemCommand)
    BY <1>1 DEF Table
  <2>3. TabCompletesFirst'
    BY <1>1, <2>1, <2>2, SameListing
  <2> QED
    BY <1>1, <2>1, <2>2, <2>3
    DEF SessionInv, TypeOK, RegistryTypeOK, AutoStill, IndexesValid, HistoryInOrder
<1>2. CASE UNCHANGED vars
  <2>1. UNCHANGED commands /\ UNCHANGED session
    BY <1>2 DEF vars
  <2> QED BY <1>1, <2>1, NextTable DEF SessionInv
<1>3. CASE RegistryNext /\ UNCHANGED session
  BY <1>1, <1>3, NextTable DEF SessionInv
<1>4. CASE \E b \in Typed \cup Escaped : Ingest(b)
  <2>1. PICK b \in Byte : Ingest(b)
    BY <1>4, SessionAssumption
  <2>2. CASE NoKey(b)
    BY <2>2, SameEditKeeps, SessionTypes DEF NoKey
  <2>3. CASE CtrlC(b)
    BY <2>3, SameEditKeeps DEF CtrlC
  <2> QED
    BY <2>1, <2>2, <2>3, MovesKeep, EditsKeep, RecallsKeep, EnterKeeps, TabKeeps, AutoKeeps
    DEF Ingest
<1> QED BY <1>2, <1>3, <1>4 DEF Next

LEMMA SessionInvariant == Spec => []SessionInv
  BY InitSession, NextSession, PTL DEF Spec

\* Every variable of a session keeps its type, however long the lines.
THEOREM SessionTypeCorrect == Spec => []TypeOK
<1>1. SessionInv => TypeOK
  BY DEF SessionInv
<1> QED BY <1>1, SessionInvariant, PTL

\* The cursor is in the line and the row shown is in the history, whatever keys
\* come in whatever order: no index of the editor is ever out of range.
THEOREM IndexesAlwaysValid == Spec => []IndexesValid
<1>1. SessionInv => IndexesValid
  BY DEF SessionInv
<1> QED BY <1>1, SessionInvariant, PTL

\* The history keeps its length, has no line twice in a row and ends with the
\* last line executed, for every limit.
THEOREM HistoryAlwaysInOrder == Spec => []HistoryInOrder
<1>1. SessionInv => HistoryInOrder
  BY DEF SessionInv
<1> QED BY <1>1, SessionInvariant, PTL

\* A Tab lists candidates only where it has nothing to complete, whatever was
\* edited, moved or recalled since the last one and however the table has grown.
THEOREM TabAlwaysCompletesFirst == Spec => []TabCompletesFirst
<1>1. SessionInv => TabCompletesFirst
  BY DEF SessionInv
<1> QED BY <1>1, SessionInvariant, PTL

-----------------------------------------------------------------------------
(* What a step may do.                                                     *)

LEMMA TabAgrees ==
  ASSUME SessionInv, NEW b \in Byte, Tab(b), tabLast', ~tabLast
  PROVE  \/ line' \in {line, Append(line, Space)}
         \/ /\ IsPrefix(Before(cursor), line')
            /\ \A c \in Candidates(commands, Before(cursor)) : IsPrefix(line', c)
<1> DEFINE word == Before(cursor)
           found == Candidates(commands, word)
           common == LongestCommonPrefix(found)
<1>0. /\ line \in Seq(Byte) /\ cursor \in 0 .. Len(line) /\ commands \in Seq(SystemCommand)
  BY SessionTypes
<1>1. \/ UNCHANGED line
      \/ found # {} /\ line' = Append(line, Space)
      \/ found # {} /\ line' = common
  BY DEF Tab, Complete
<1>2. word \in Seq(Byte)
  BY <1>0, BeforeIs
<1>3. \A c \in found : c \in Seq(Byte) /\ IsPrefix(word, c)
  BY <1>0, CandidateTypes
<1> HIDE DEF word, found
<1>4. found # {} => IsPrefix(word, common) /\ \A c \in found : IsPrefix(common, c)
  BY <1>2, <1>3, CommonPrefixIs
<1> QED BY <1>1, <1>4 DEF word, found

LEMMA OnlyTabSets ==
  ASSUME SessionInv, Next, tabLast', ~tabLast
  PROVE  \E b \in Byte : Tab(b)
<1>1. CASE UNCHANGED session
  BY <1>1 DEF session, edit
<1>2. ASSUME NEW b \in Byte, Ingest(b) PROVE Tab(b)
  <2>1. ASSUME NEW n, MoveTo(n) PROVE FALSE
    BY <2>1 DEF MoveTo
  <2>2. ASSUME NEW l, NEW n, Edited(l, n) PROVE FALSE
    BY <2>2 DEF Edited
  <2>3. ASSUME NEW n, Load(n) PROVE FALSE
    BY <2>3 DEF Load
  <2>4. ASSUME UNCHANGED edit PROVE FALSE
    BY <2>4 DEF edit
  <2>5. ~(NoKey(b) \/ CtrlC(b) \/ Enter(b))
    BY <2>4 DEF NoKey, CtrlC, Enter
  <2>6. ~(Left(b) \/ Right(b) \/ Home(b) \/ End(b) \/ JumpLeft(b) \/ JumpRight(b))
    BY <2>1 DEF Left, Right, Home, End, JumpLeft, JumpRight
  <2>7. ~(Char(b) \/ Backspace(b) \/ Delete(b))
    BY <2>2, <2>4 DEF Char, Backspace, Delete
  <2>8. ~(Up(b) \/ Down(b))
    BY <2>3, <2>4 DEF Up, Down
  <2>9. ~(AutoLine(b) \/ AutoAbort(b) \/ AutoByte(b))
    BY DEF AutoLine, AutoAbort, AutoByte, AutoFeed
  <2> QED BY <1>2, <2>5, <2>6, <2>7, <2>8, <2>9 DEF Ingest
<1> QED BY <1>1, <1>2, SessionAssumption DEF Next

\* Completion never decides between two commands: it adds what all candidates
\* have in common, for every table of commands.
THEOREM CompletionAlwaysAgrees == Spec => CompletionAgrees
<1> DEFINE A == tabLast' /\ ~tabLast =>
       \/ line' \in {line, Append(line, Space)}
       \/ /\ IsPrefix(Before(cursor), line')
          /\ \A c \in Candidates(commands, Before(cursor)) : IsPrefix(line', c)
<1>1. SessionInv /\ [Next]_vars => [A]_vars
  BY OnlyTabSets, TabAgrees
<1>2. CompletionAgrees <=> [][A]_vars
  BY DEF CompletionAgrees
<1> HIDE DEF A
<1> QED BY <1>1, <1>2, SessionInvariant, PTL DEF Spec
=============================================================================
