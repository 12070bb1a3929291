--------------------------- MODULE CommandRegistry ---------------------------
(***************************************************************************)
(* The table of commands of src/src/system_commanding.rs.  A command is    *)
(* what tells it from others: its id, its shortcut and its group; the      *)
(* description and the handler play no part.  A text is a sequence of      *)
(* bytes, as Rust compares strings; a group is a number in the order of    *)
(* the names of groups.                                                    *)
(***************************************************************************)
EXTENDS Naturals, Sequences, SequencesExt

CONSTANTS
  INTERNAL_CMD_CLASS,  \* the group of the built-in commands
  Builtins,            \* the built-in commands, in the order of registration
  AppCommands          \* what the application tries to register

Byte == 0 .. 255

SystemCommand == [id : Seq(Byte), shortcut : Seq(Byte), group : Nat]

ASSUME CommandsAssumption ==
  /\ INTERNAL_CMD_CLASS \in Nat
  /\ Builtins \in Seq(SystemCommand)
  /\ AppCommands \subseteq SystemCommand

VARIABLE commands   \* the global table; a session works on a copy of it

\* The order of strings: a prefix comes first, then the first difference.
StringLess(s, t) ==
  \/ IsStrictPrefix(s, t)
  \/ \E i \in DOMAIN s \cap DOMAIN t :
       s[i] < t[i] /\ \A j \in 1 .. i - 1 : s[j] = t[j]

\* The definitions named Mutant... are not part of the specification: each is
\* a plausible mistake in the definition after it, which some property refutes.
MutantCommandSort(l, r) ==
  IF l.group # r.group THEN l.group < r.group
  ELSE IF (l.shortcut = <<>>) # (r.shortcut = <<>>)
  THEN l.shortcut # <<>>
  ELSE StringLess(l.id, r.id)

\* command_sort(l, r) is Less.
CommandSort(l, r) ==
  IF l.group # r.group
  THEN \/ l.group = INTERNAL_CMD_CLASS
       \/ r.group # INTERNAL_CMD_CLASS /\ l.group < r.group
  ELSE IF (l.shortcut = <<>>) # (r.shortcut = <<>>)
  THEN l.shortcut # <<>>
  ELSE StringLess(l.id, r.id)

MutantIsTaken(cmds, c) ==
  \E i \in DOMAIN cmds : cmds[i].id = c.id /\ c.id # <<>>

IsTaken(cmds, c) ==
  \E i \in DOMAIN cmds :
    \/ cmds[i].id = c.id /\ c.id # <<>>
    \/ cmds[i].shortcut = c.shortcut /\ c.shortcut # <<>>

\* push and a stable sort of a table that is sorted but for its last row.
Registered(cmds, c) ==
  LET before == {i \in DOMAIN cmds : ~CommandSort(c, cmds[i])}
  IN  InsertAt(cmds, Cardinality(before) + 1, c)

Registration(cmds, c) == IF IsTaken(cmds, c) THEN cmds ELSE Registered(cmds, c)

\* The row a line beginning with the word name runs, 0 when there is none.
Lookup(cmds, name) ==
  SelectInSeq(cmds, LAMBDA c : c.id = name \/ (c.shortcut # <<>> /\ c.shortcut = name))

Candidates(cmds, prefix) == {c.id : c \in {d \in ToSet(cmds) : IsPrefix(prefix, d.id)}}

\* ensure_builtin_commands has run before any other registration.
RegistryInit ==
  LET table[n \in 0 .. Len(Builtins)] ==
        IF n = 0 THEN <<>> ELSE Registration(table[n - 1], Builtins[n])
  IN commands = table[Len(Builtins)]

Register(c) == c \in AppCommands /\ commands' = Registration(commands, c)

RegistryNext == \E c \in AppCommands : Register(c)

RegistrySpec == RegistryInit /\ [][RegistryNext]_commands

-----------------------------------------------------------------------------

\* What the application keeps to for EachReachable: no id is the shortcut of
\* another command, which register does not look at.
NamesApart ==
  \A c, d \in ToSet(Builtins) \cup AppCommands :
    c.id = d.shortcut => c = d \/ c.id = <<>>

RegistryTypeOK == commands \in Seq(SystemCommand)

\* The names a command is called by.
Names(c) == {c.id, c.shortcut} \ {<<>>}

\* No registration makes a command unreachable that was there before: each is
\* found by its id and by its shortcut, if NamesApart.
EachReachable ==
  \A i \in DOMAIN commands : \A name \in Names(commands[i]) :
    Lookup(commands, name) = i

\* What the application keeps to for BuiltinsReachable: it leaves the names of
\* the built-in commands, which differ, to them within their own group.
BuiltinsApart ==
  /\ \A i, j \in DOMAIN Builtins :
       i # j => Names(Builtins[i]) \cap Names(Builtins[j]) = {}
  /\ \A b \in ToSet(Builtins) :
       /\ b.group = INTERNAL_CMD_CLASS
       /\ \A c \in AppCommands :
            c.group = INTERNAL_CMD_CLASS => Names(b) \cap Names(c) = {}

\* A built-in command stays what runs under its id and its shortcut, although
\* register lets a command of another group have its shortcut for an id or its
\* id for a shortcut: it is sorted behind, if BuiltinsApart.
BuiltinsReachable ==
  \A b \in ToSet(Builtins) : \A name \in Names(b) :
    Lookup(commands, name) # 0 /\ commands[Lookup(commands, name)] = b
=============================================================================
