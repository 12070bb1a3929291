--------------------------- MODULE DebuggingProofs ---------------------------
(***************************************************************************)
(* Theorems about SystemDebugging with Net and Logging, for every set of   *)
(* clients and habits and all bounds: what the server promises to those    *)
(* at its four ports.                                                      *)
(*                                                                         *)
(* An operation on a connection takes nothing back of what it was given    *)
(* to send (Sends), and a step of the callback does one of four things to  *)
(* a client (Turn): nothing, accept it, keep it, drop it.  The invariants  *)
(* of the clients follow from these two, those of the tree and of the log  *)
(* from what is broadcast.                                                 *)
(***************************************************************************)
EXTENDS SystemDebugging, SequenceLemmas

-----------------------------------------------------------------------------
(* Connections.                                                            *)

\* While its peer reads, a connection has all it was given to send.
Sound(k) ==
  /\ k \in Connection(Request, Message)
  /\ Len(k.wire) <= SendBuffer
  /\ k.reading => k.queued = k.got \o k.wire \o k.pending
  /\ k.reset => ~k.reading

\* An operation that sends ms makes k2 of k; the peer does nothing.
Sends(k, k2, ms) ==
  /\ Sound(k2)
  /\ k2.queued = k.queued \o ms
  /\ k2.reading = k.reading /\ k2.eof = k.eof /\ k2.reset = k.reset

LEMMA MinOfTwo ==
  ASSUME NEW a \in Int, NEW b \in Int
  PROVE  Min({a, b}) = IF a <= b THEN a ELSE b
<1> DEFINE m == IF a <= b THEN a ELSE b
<1>1. m \in {a, b} /\ \A y \in {a, b} : m <= y
  OBVIOUS
<1>2. \A x \in {a, b} : (\A y \in {a, b} : x <= y) => x = m
  OBVIOUS
<1> QED BY <1>1, <1>2 DEF Min

\* The fields of a connection.
LEMMA Fields ==
  ASSUME NEW k, Sound(k)
  PROVE  /\ k.inbox \in Seq(Request)
         /\ k.eof \in BOOLEAN /\ k.reset \in BOOLEAN /\ k.reading \in BOOLEAN
         /\ k.done \in BOOLEAN
         /\ k.pending \in Seq(Message) /\ k.wire \in Seq(Message)
         /\ k.got \in Seq(Message) /\ k.queued \in Seq(Message)
         /\ Len(k.pending) \in Nat /\ Len(k.wire) \in Nat
BY LenProperties DEF Sound, Connection

LEMMA WritableFits ==
  ASSUME NEW k, Sound(k)
  PROVE  /\ Writable(k) \in 0 .. Len(k.pending)
         /\ k.reading => Len(k.wire) + Writable(k) <= SendBuffer
<1> DEFINE p == Len(k.pending)
           room == SendBuffer - Len(k.wire)
<1>1. /\ p \in Nat /\ room \in Nat /\ k.reading \in BOOLEAN
      /\ Len(k.wire) + room = SendBuffer /\ Len(k.wire) \in Nat
  <2>1. p \in Nat /\ Len(k.wire) \in Nat /\ k.reading \in BOOLEAN
    BY Fields
  <2>2. Len(k.wire) <= SendBuffer /\ SendBuffer \in Nat
    BY NetAssumption DEF Sound
  <2> QED BY <2>1, <2>2
<1>2. Writable(k) = IF k.reading THEN Min({p, room}) ELSE p
  BY DEF Writable
<1> HIDE DEF p, room
<1>3. Min({p, room}) = IF p <= room THEN p ELSE room
  BY <1>1, MinOfTwo
<1> QED BY <1>1, <1>2, <1>3 DEF p

\* A queue is what has left it and what is left of it.
LEMMA SplitAt ==
  ASSUME NEW S, NEW s \in Seq(S), NEW n \in 0 .. Len(s)
  PROVE  /\ SubSeq(s, 1, n) \in Seq(S) /\ Len(SubSeq(s, 1, n)) = n
         /\ SubSeq(s, n + 1, Len(s)) \in Seq(S)
         /\ SubSeq(s, 1, n) \o SubSeq(s, n + 1, Len(s)) = s
<1>0. Len(s) \in Nat /\ n \in Nat
  BY LenProperties
<1>1. \A i \in 1 .. Len(s) : s[i] \in S
  BY ElementOfSeq
<1>2. SubSeq(s, 1, n) \in Seq(S) /\ Len(SubSeq(s, 1, n)) = n
  BY <1>0, <1>1, SubSeqProperties
<1>3. SubSeq(s, n + 1, Len(s)) \in Seq(S)
  BY <1>0, <1>1, SubSeqProperties
<1>4. SubSeq(s, 1, n) \o SubSeq(s, n + 1, Len(s)) = s
  <2>1. 1 \in 1 .. Len(s) + 1 /\ n \in 1 - 1 .. Len(s) /\ Len(s) \in n .. Len(s)
    BY <1>0
  <2>2. SubSeq(s, 1, n) \o SubSeq(s, n + 1, Len(s)) = SubSeq(s, 1, Len(s))
    BY <2>1, ConcatAdjacentSubSeq
  <2> QED BY <2>2, SubSeqFull
<1> QED BY <1>2, <1>3, <1>4

\* The order in which sequences are joined does not matter.
JoinsThree(S) == \A a, b, c \in Seq(S) : (a \o b) \o c = a \o (b \o c)
JoinsFour(a, b, c, d) ==
  /\ ((a \o b) \o c) \o d = (a \o b) \o (c \o d)
  /\ (a \o (b \o c)) \o d = (a \o b) \o (c \o d)

LEMMA JoinThree ==
  ASSUME NEW S PROVE JoinsThree(S)
BY ConcatAssociative DEF JoinsThree

LEMMA JoinFour ==
  ASSUME NEW S, NEW a \in Seq(S), NEW b \in Seq(S), NEW c \in Seq(S), NEW d \in Seq(S)
  PROVE  JoinsFour(a, b, c, d)
<1> DEFINE x == a \o b
<1>1. JoinsThree(S)
  BY JoinThree
<1>2. x \in Seq(S)
  BY ConcatProperties
<1>3. x \o c = a \o (b \o c)
  BY ConcatAssociative, Z3
<1> HIDE DEF x
<1>4. (x \o c) \o d = x \o (c \o d)
  BY <1>1, <1>2, Zenon DEF JoinsThree
<1> QED BY <1>3, <1>4 DEF x, JoinsFour

LEMMA NothingMore ==
  ASSUME NEW k, NEW k2, Sound(k), Sound(k2), k2.queued = k.queued,
         k2.reading = k.reading, k2.eof = k.eof, k2.reset = k.reset
  PROVE  Sends(k, k2, <<>>)
BY Fields, ConcatEmptySeq DEF Sends

LEMMA DoneSetSends ==
  ASSUME NEW k, Sound(k)
  PROVE  Sends(k, DoneSet(k), <<>>) /\ DoneSet(k).done /\ DoneSet(k).pending = k.pending
<1>1. Sound(DoneSet(k))
  BY DEF Sound, DoneSet, Connection
<1>2. /\ DoneSet(k).queued = k.queued /\ DoneSet(k).reading = k.reading
      /\ DoneSet(k).eof = k.eof /\ DoneSet(k).reset = k.reset
      /\ DoneSet(k).done /\ DoneSet(k).pending = k.pending
  BY DEF Sound, DoneSet, Connection
<1> QED BY <1>1, <1>2, NothingMore

\* What is read is lost to nobody but the one who reads.
LEMMA ReadSends ==
  ASSUME NEW k, Sound(k)
  PROVE  /\ Sends(k, ReadAvailable(k), <<>>)
         /\ ReadAvailable(k).done => k.done \/ k.reset \/ k.eof
<1> DEFINE k2 == ReadAvailable(k)
<1>1. k \in Connection(Request, Message) /\ <<>> \in Seq(Request)
  BY DEF Sound
<1>2. k2 \in Connection(Request, Message)
  BY <1>1 DEF ReadAvailable, Connection
<1>3. /\ k2.queued = k.queued /\ k2.got = k.got /\ k2.wire = k.wire
      /\ k2.pending = k.pending /\ k2.reading = k.reading
      /\ k2.eof = k.eof /\ k2.reset = k.reset
      /\ k2.done => k.done \/ k.reset \/ k.eof
  BY <1>1 DEF ReadAvailable, Connection
<1> HIDE DEF k2
<1>4. Sound(k2)
  BY <1>2, <1>3 DEF Sound
<1> QED BY <1>3, <1>4, NothingMore DEF k2

\* A partial write neither skips nor repeats, and only a reset ends it.
LEMMA FlushSends ==
  ASSUME NEW k, Sound(k)
  PROVE  /\ Sends(k, FlushPending(k), <<>>)
         /\ FlushPending(k).done => k.done \/ k.reset
<1>0. k \in Connection(Request, Message)
  BY DEF Sound
<1>1. CASE k.done
  BY <1>1, NothingMore DEF FlushPending
<1>2. CASE ~k.done /\ FlushFails(k)
  <2>1. FlushPending(k) = DoneSet(k) /\ k.reset
    BY <1>2 DEF FlushPending, FlushFails, DoneSet
  <2> QED BY <2>1, DoneSetSends
<1>3. CASE ~k.done /\ ~FlushFails(k)
  <2> DEFINE w == Writable(k)
             a == SubSeq(k.pending, 1, w)
             b == SubSeq(k.pending, w + 1, Len(k.pending))
             k2 == FlushPending(k)
  <2>1. w \in 0 .. Len(k.pending) /\ (k.reading => Len(k.wire) + w <= SendBuffer)
    BY WritableFits
  <2>2. k2 = [k EXCEPT !.wire = IF k.reading THEN @ \o a ELSE @, !.pending = b]
    BY <1>3 DEF FlushPending
  <2>3. k.pending \in Seq(Message) /\ k.wire \in Seq(Message) /\ k.got \in Seq(Message)
    BY Fields
  <2>4. a \in Seq(Message) /\ Len(a) = w /\ b \in Seq(Message) /\ a \o b = k.pending
    BY <2>1, <2>3, SplitAt
  <2> HIDE DEF k2, a, b, w
  <2>5. k.wire \o a \in Seq(Message) /\ Len(k.wire \o a) = Len(k.wire) + w
    BY <2>3, <2>4, ConcatProperties
  <2>9. JoinsFour(k.got, k.wire, a, b)
    BY <2>3, <2>4, JoinFour
  <2>10. k.got \o (k.wire \o a) \o b = k.got \o k.wire \o k.pending
    BY <2>4, <2>9 DEF JoinsFour
  <2>6. /\ k2.wire = IF k.reading THEN k.wire \o a ELSE k.wire
        /\ k2.pending = b /\ k2.got = k.got /\ k2.queued = k.queued
        /\ k2.reading = k.reading /\ k2.eof = k.eof /\ k2.reset = k.reset
        /\ k2.done = k.done /\ k2.inbox = k.inbox
    BY <1>0, <2>2 DEF Connection
  <2>7. k2 \in Connection(Request, Message)
    BY <1>0, <2>2, <2>4, <2>5 DEF Connection
  <2>8. Sound(k2)
    <3>1. Len(k2.wire) <= SendBuffer
      BY <2>1, <2>5, <2>6 DEF Sound
    <3>2. k2.reading => k2.queued = k2.got \o k2.wire \o k2.pending
      BY <2>6, <2>10 DEF Sound
    <3> QED BY <2>6, <2>7, <3>1, <3>2 DEF Sound
  <2> QED BY <2>6, <2>8, NothingMore DEF k2
<1> QED BY <1>1, <1>2, <1>3

LEMMA SendsOn ==
  ASSUME NEW k, NEW k2, NEW k3, NEW ms \in Seq(Message), NEW ns \in Seq(Message),
         Sound(k), Sends(k, k2, ms), Sends(k2, k3, ns)
  PROVE  Sends(k, k3, ms \o ns)
<1>1. k.queued \in Seq(Message)
  BY Fields
<1>2. JoinsThree(Message)
  BY JoinThree
<1>3. (k.queued \o ms) \o ns = k.queued \o (ms \o ns)
  BY <1>1, <1>2 DEF JoinsThree
<1> QED BY <1>3 DEF Sends

LEMMA QueuedSends ==
  ASSUME NEW k, Sound(k), NEW ms \in Seq(Message)
  PROVE  Sends(k, Queued(k, ms), ms) /\ Queued(k, ms).done = k.done
<1> DEFINE k2 == Queued(k, ms)
<1>0. k \in Connection(Request, Message)
  BY DEF Sound
<1>1. k.pending \in Seq(Message) /\ k.wire \in Seq(Message) /\ k.got \in Seq(Message)
      /\ k.queued \in Seq(Message)
  BY Fields
<1>2. k.pending \o ms \in Seq(Message) /\ k.queued \o ms \in Seq(Message)
  BY <1>1, ConcatProperties
<1>5. ((k.got \o k.wire) \o k.pending) \o ms = (k.got \o k.wire) \o (k.pending \o ms)
  <2>1. JoinsFour(k.got, k.wire, k.pending, ms)
    BY <1>1, JoinFour
  <2> QED BY <2>1 DEF JoinsFour
<1>3. k2 \in Connection(Request, Message)
  BY <1>0, <1>2 DEF Queued, Connection
<1>4. /\ k2.pending = k.pending \o ms /\ k2.queued = k.queued \o ms /\ k2.wire = k.wire
      /\ k2.got = k.got /\ k2.reading = k.reading /\ k2.eof = k.eof
      /\ k2.reset = k.reset /\ k2.done = k.done
  BY <1>0 DEF Queued, Connection
<1> HIDE DEF k2
<1> QED BY <1>2, <1>3, <1>4, <1>5 DEF Sends, Sound, k2

LEMMA QueueSendSends ==
  ASSUME NEW k, Sound(k), NEW ms \in Seq(Message)
  PROVE  /\ Sends(k, QueueSend(k, ms), ms)
         /\ QueueSend(k, ms).done => k.done \/ k.reset
<1>1. CASE ms = <<>>
  BY <1>1, NothingMore DEF QueueSend
<1>2. CASE ms # <<>>
  <2> DEFINE q == Queued(k, ms)
  <2>1. Sends(k, q, ms) /\ q.done = k.done /\ Sound(q) /\ q.reset = k.reset
    BY QueuedSends DEF Sends
  <2>2. Sends(q, FlushPending(q), <<>>) /\ (FlushPending(q).done => q.done \/ q.reset)
    BY <2>1, FlushSends
  <2>3. QueueSend(k, ms) = FlushPending(q)
    BY <1>2 DEF QueueSend
  <2> HIDE DEF q
  <2>4. ms \o <<>> = ms /\ <<>> \in Seq(Message)
    BY ConcatEmptySeq
  <2>5. Sends(k, FlushPending(q), ms \o <<>>)
    BY <2>1, <2>2, <2>4, SendsOn
  <2> QED BY <2>1, <2>2, <2>3, <2>4, <2>5
<1> QED BY <1>1, <1>2

-----------------------------------------------------------------------------
(* What a session answers.                                                 *)

\* g is the function FlattenSeq is defined by, up to n.
Flattens(g, ss, n) ==
  g = [i \in 1 .. n |-> IF i = 1 THEN ss[i] ELSE g[i - 1] \o ss[i]]

LEMMA FlattenExists ==
  ASSUME NEW P, NEW ss \in Seq(Seq(P)), NEW n \in 1 .. Len(ss)
  PROVE  \E g : Flattens(g, ss, n)
<1> DEFINE T == {m \in 1 .. Len(ss) : ~ \E g : Flattens(g, ss, m)}
<1>1. SUFFICES ASSUME T # {} PROVE FALSE
  BY <1>1
<1>2. T \subseteq Nat
  OBVIOUS
<1>3. PICK m \in T : \A k \in T : m <= k
  BY <1>1, <1>2, LeastNumber
<1>4. CASE m = 1
  <2>1. Flattens([i \in 1 .. 1 |-> ss[1]], ss, 1)
    BY DEF Flattens
  <2> QED BY <1>3, <1>4, <2>1
<1>5. CASE m > 1
  <2>1. m - 1 \in 1 .. Len(ss) /\ m - 1 < m
    BY <1>3, <1>5
  <2>5. ~(m <= m - 1)
    BY <1>3
  <2>6. m - 1 \notin T
    BY <1>3, <2>5
  <2>2. PICK g : Flattens(g, ss, m - 1)
    BY <2>1, <2>6
  <2> DEFINE h == [i \in 1 .. m |-> IF i < m THEN g[i] ELSE g[m - 1] \o ss[m]]
  <2>3. ASSUME NEW i \in 1 .. m
        PROVE  h[i] = IF i = 1 THEN ss[i] ELSE h[i - 1] \o ss[i]
    <3>1. CASE i = m
      BY <3>1, <2>1, <1>5
    <3>2. CASE i < m
      <4>1. i \in 1 .. m - 1
        BY <3>2, <2>1
      <4>2. g[i] = IF i = 1 THEN ss[i] ELSE g[i - 1] \o ss[i]
        BY <4>1, <2>2 DEF Flattens
      <4> QED BY <3>2, <4>1, <4>2, <2>1
    <3> QED BY <3>1, <3>2, <2>1
  <2>4. Flattens(h, ss, m)
    BY <2>3 DEF Flattens
  <2> QED BY <2>4, <1>3
<1> QED BY <1>3, <1>4, <1>5

\* What FlattenSeq makes of sequences is a sequence of their elements.
LEMMA FlattenType ==
  ASSUME NEW P, NEW ss \in Seq(Seq(P))
  PROVE  /\ FlattenSeq(ss) \in Seq(P)
         /\ ss = <<>> => FlattenSeq(ss) = <<>>
         /\ Len(ss) = 1 => FlattenSeq(ss) = ss[1]
<1>0. Len(ss) \in Nat /\ \A i \in 1 .. Len(ss) : ss[i] \in Seq(P)
  BY ElementOfSeq, LenProperties
<1>1. CASE ss = <<>>
  BY <1>1 DEF FlattenSeq
<1>2. CASE ss # <<>>
  <2>1. Len(ss) \in 1 .. Len(ss) /\ Len(ss) # 0
    BY <1>0, <1>2, EmptySeq
  <2>2. \E g : Flattens(g, ss, Len(ss))
    BY <2>1, FlattenExists
  <2>3. PICK g : Flattens(g, ss, Len(ss)) /\ FlattenSeq(ss) = g[Len(ss)]
    BY <2>1, <2>2 DEF FlattenSeq, Flattens
  <2>4. ASSUME NEW i \in 1 .. Len(ss)
        PROVE  g[i] = IF i = 1 THEN ss[i] ELSE g[i - 1] \o ss[i]
    BY <2>3 DEF Flattens
  <2> DEFINE T == {m \in 1 .. Len(ss) : g[m] \notin Seq(P)}
  <2>5. ASSUME T # {} PROVE FALSE
    <3>1. T \subseteq Nat
      BY <1>0
    <3>2. PICK m \in T : \A k \in T : m <= k
      BY <2>5, <3>1, LeastNumber
    <3>3. CASE m = 1
      BY <3>2, <3>3, <2>4, <1>0
    <3>4. CASE m > 1
      <4>1. m - 1 \in 1 .. Len(ss) /\ m - 1 < m /\ m \in 1 .. Len(ss) /\ m # 1
        BY <3>2, <3>4
      <4>2. g[m - 1] \in Seq(P)
        BY <3>2, <4>1
      <4>3. g[m] = g[m - 1] \o ss[m]
        BY <2>4, <4>1
      <4>4. g[m] \in Seq(P)
        BY <4>1, <4>2, <4>3, <1>0, ConcatProperties
      <4> QED BY <3>2, <4>4
    <3> QED BY <3>2, <3>3, <3>4
  <2>6. g[Len(ss)] \in Seq(P)
    BY <2>1, <2>5
  <2>7. Len(ss) = 1 => g[Len(ss)] = ss[1]
    BY <2>1, <2>4
  <2> QED BY <1>2, <2>3, <2>6, <2>7
<1> QED BY <1>1, <1>2

LEMMA AnswerType ==
  ASSUME NEW line \in Request
  PROVE  /\ Answer(line) \in Seq(Message)
         /\ \A i, j \in DOMAIN Answer(line) :
              Answer(line)[i][1] = "answer" /\ Answer(line)[j][1] = "answer" => i = j
<1>1. <<"answer", line>> \in Message /\ <<"more", line>> \in Message
  BY DEF Message
<1>2. CASE line = "help"
  BY <1>1, <1>2 DEF Answer
<1>3. CASE line # "help"
  BY <1>1, <1>3 DEF Answer
<1> QED BY <1>2, <1>3

LEMMA AnswersType ==
  ASSUME NEW lines \in Seq(Request)
  PROVE  /\ Answers(lines) \in Seq(Message)
         /\ lines = <<>> => Answers(lines) = <<>>
         /\ Len(lines) = 1 => Answers(lines) = Answer(lines[1])
<1> DEFINE ss == [i \in DOMAIN lines |-> Answer(lines[i])]
<1>0. DOMAIN lines = 1 .. Len(lines) /\ Len(lines) \in Nat
  BY LenProperties
<1>1. \A i \in 1 .. Len(lines) : Answer(lines[i]) \in Seq(Message)
  BY ElementOfSeq, AnswerType
<1>2. ss \in Seq(Seq(Message)) /\ Len(ss) = Len(lines)
  <2>1. ss = [i \in 1 .. Len(lines) |-> Answer(lines[i])]
    BY <1>0
  <2>2. [i \in 1 .. Len(lines) |-> Answer(lines[i])] \in Seq(Seq(Message))
    BY <1>0, <1>1, IsASeq
  <2>3. DOMAIN ss = 1 .. Len(ss) /\ DOMAIN ss = 1 .. Len(lines) /\ Len(ss) \in Nat
    BY <1>0, <2>1, <2>2, LenProperties
  <2> QED BY <1>0, <2>1, <2>2, <2>3
<1>3. lines = <<>> => ss = <<>>
  BY <1>2, EmptySeq
<1>4. Len(lines) = 1 => ss[1] = Answer(lines[1])
  BY <1>0
<1>5. Answers(lines) = FlattenSeq(ss)
  BY DEF Answers
<1> HIDE DEF ss
<1> QED BY <1>2, <1>3, <1>4, <1>5, FlattenType

\* The lines that are executed were sent; an automatic session takes one.
LEMMA ExecutedType ==
  ASSUME NEW c, NEW data \in Seq(Request)
  PROVE  /\ Executed(c, data) \in Seq(Request)
         /\ port(c) = "auto" => Executed(c, data) = <<>> \/ Len(Executed(c, data)) = 1
         /\ port(c) = "auto" /\ ~Disconnects(c, data) => Executed(c, data) = <<>>
<1>1. CASE port(c) = "auto"
  BY <1>1, HeadTailProperties DEF Executed, Disconnects
<1>2. CASE port(c) # "auto"
  <2> DEFINE Stops(n) == /\ \A i \in 1 .. n : data[i] # "quit"
                         /\ n < Len(data) => data[n + 1] = "quit"
             e == CHOOSE n \in 0 .. Len(data) : Stops(n)
             T == {n \in 0 .. Len(data) : n = Len(data) \/ data[n + 1] = "quit"}
  <2>0. Len(data) \in Nat
    BY LenProperties
  <2>1. T \subseteq Nat /\ Len(data) \in T
    BY <2>0
  <2>2. PICK n \in T : \A k \in T : n <= k
    BY <2>1, LeastNumber
  <2>3. ASSUME NEW i \in 1 .. n PROVE data[i] # "quit"
    <3>1. i - 1 \in 0 .. Len(data) /\ i - 1 < n /\ n \in Nat
      BY <2>0, <2>2
    <3>2. ~(n <= i - 1)
      BY <3>1
    <3>3. i - 1 \notin T
      BY <2>2, <3>2
    <3> QED BY <3>1, <3>3
  <2>4. n \in 0 .. Len(data) /\ Stops(n)
    BY <2>0, <2>2, <2>3
  <2>5. e \in 0 .. Len(data)
    BY <2>4
  <2>6. Executed(c, data) = SubSeq(data, 1, e)
    BY <1>2 DEF Executed
  <2> HIDE DEF e
  <2> QED BY <1>2, <2>5, <2>6, SplitAt
<1> QED BY <1>1, <1>2

-----------------------------------------------------------------------------
(* What a step does to a client.                                           *)

OneAnswer(ms) ==
  \A i, j \in DOMAIN ms : ms[i][1] = "answer" /\ ms[j][1] = "answer" => i = j

\* The session of client c has executed nothing yet.
Unanswered(c) == stage[c] \in {"new", "backlog"} \/ (stage[c] = "peer" /\ c \notin closing)

\* The inductive invariant of client c.  A connection is only closed by the
\* server when its client goes, but that accepting one that was reset does it.
ClientOK(c) ==
  /\ Sound(conn[c])
  /\ stage[c] # "gone" /\ conn[c].done => conn[c].reset
  /\ stage[c] = "gone" /\ port(c) \in CommandPort /\ Faithful(c) /\ at # "Stopped" =>
       conn[c].pending = <<>>
  /\ stage[c] \in {"new", "backlog"} => conn[c].queued = <<>>
  /\ port(c) = "auto" =>
       OneAnswer(conn[c].queued) /\ (Unanswered(c) => conn[c].queued = <<>>)

ClientInv == \A c \in Clients : ClientOK(c)

\* A step of the callback leaves client c alone, accepts, keeps or drops it.
Turn(c) ==
  /\ \E ms \in Seq(Message) : Sends(conn[c], conn'[c], ms)
  /\ \/ conn'[c] = conn[c] /\ stage'[c] = stage[c]
     \/ stage[c] = "backlog" /\ stage'[c] = "peer" /\ (conn'[c].done => conn'[c].reset)
     \/ stage[c] = "peer" /\ stage'[c] = "peer" /\ ~conn'[c].done
     \/ Connected(c) /\ stage'[c] = "gone"
          /\ \/ at' = "Stopped" \/ port(c) \notin CommandPort \/ ~Faithful(c)
             \/ conn'[c].pending = <<>>

\* An automatic session says something once, and is closing then or gone.
Replies(c) ==
  port(c) = "auto" =>
    \/ conn'[c].queued = conn[c].queued /\ (Unanswered(c)' => Unanswered(c))
    \/ Unanswered(c) /\ ~Unanswered(c)' /\ OneAnswer(conn'[c].queued)

\* The client or its system did something to the connection, or nobody did.
OwnMove(c) ==
  /\ Sound(conn'[c])
  /\ conn'[c].queued = conn[c].queued /\ conn'[c].pending = conn[c].pending
  /\ conn'[c].done = conn[c].done
  /\ conn'[c].reading => conn[c].reading
  /\ conn[c].eof => conn'[c].eof
  /\ conn[c].reset => conn'[c].reset
  /\ stage'[c] = stage[c] \/ (stage[c] = "new" /\ stage'[c] = "backlog")

LEMMA TurnKeeps ==
  ASSUME NEW c \in Clients, ClientOK(c), Turn(c), Replies(c), at # "Stopped",
         habit' = habit
  PROVE  ClientOK(c)'
<1> DEFINE k == conn[c]
           k2 == conn'[c]
<1>0. Sound(k) /\ port(c)' = port(c)
  BY DEF ClientOK, port
<1>1. PICK ms \in Seq(Message) : Sends(k, k2, ms)
  BY DEF Turn
<1>2. Sound(k2) /\ k2.reading = k.reading /\ k2.eof = k.eof /\ k2.reset = k.reset
  BY <1>1 DEF Sends
<1>3. stage'[c] # "gone" /\ k2.done => k2.reset
  BY DEF Turn, ClientOK
<1>4. Faithful(c)' <=> Faithful(c)
  BY <1>2 DEF Faithful
<1>5. ASSUME stage'[c] = "gone", port(c) \in CommandPort, Faithful(c), at' # "Stopped"
      PROVE  k2.pending = <<>>
  BY <1>5 DEF Turn, ClientOK
<1>6. stage'[c] \in {"new", "backlog"} => k2.queued = <<>>
  BY DEF Turn, ClientOK
<1>7. port(c) = "auto" => OneAnswer(k2.queued) /\ (Unanswered(c)' => k2.queued = <<>>)
  BY DEF Replies, ClientOK
<1> QED BY <1>0, <1>2, <1>3, <1>4, <1>5, <1>6, <1>7 DEF ClientOK

LEMMA MoveKeeps ==
  ASSUME NEW c \in Clients, ClientOK(c), OwnMove(c), at' = at, closing' = closing,
         habit' = habit
  PROVE  ClientOK(c)'
<1>1. /\ conn[c].eof \in BOOLEAN /\ conn'[c].eof \in BOOLEAN
      /\ conn[c].reading \in BOOLEAN /\ conn'[c].reading \in BOOLEAN
  BY Fields DEF ClientOK, OwnMove
<1>2. Faithful(c)' => Faithful(c)
  BY <1>1 DEF Faithful, OwnMove
<1>3. (Unanswered(c)' => Unanswered(c)) /\ port(c)' = port(c)
  BY DEF Unanswered, OwnMove, port
<1>4. port(c)' = "auto" =>
       OneAnswer(conn'[c].queued) /\ (Unanswered(c)' => conn'[c].queued = <<>>)
  BY <1>3 DEF OwnMove, ClientOK
<1>5. /\ stage'[c] # "gone" /\ conn'[c].done => conn'[c].reset
      /\ stage'[c] \in {"new", "backlog"} => conn'[c].queued = <<>>
      /\ Sound(conn'[c])
  BY DEF OwnMove, ClientOK
<1>6. stage'[c] = "gone" /\ port(c)' \in CommandPort /\ Faithful(c)' /\ at' # "Stopped" =>
       conn'[c].pending = <<>>
  BY <1>2, <1>3 DEF OwnMove, ClientOK
<1> QED BY <1>4, <1>5, <1>6 DEF ClientOK

LEMMA AloneTurns ==
  ASSUME NEW c \in Clients, ClientOK(c), conn'[c] = conn[c], stage'[c] = stage[c],
         c \in closing' <=> c \in closing
  PROVE  Turn(c) /\ Replies(c)
<1>1. Sends(conn[c], conn'[c], <<>>)
  BY NothingMore DEF ClientOK
<1>2. Turn(c)
  BY <1>1, EmptySeq DEF Turn
<1>3. Replies(c)
  BY DEF Replies, Unanswered
<1> QED BY <1>2, <1>3

LEMMA AloneMoves ==
  ASSUME NEW c \in Clients, ClientOK(c), conn'[c] = conn[c], stage'[c] = stage[c]
  PROVE  OwnMove(c)
BY DEF OwnMove, ClientOK

\* Peers of the tree and of the log: who cannot be written to is dropped.
LEMMA ProceedTurns ==
  ASSUME ClientInv, NEW l, NEW ks, NEW ports, ports \subseteq {"tree", "log"},
         conn \in [Clients -> Connection(Request, Message)],
         \A c \in Peers(ports) : \E ms \in Seq(Message) : Sends(conn[c], ks[c], ms),
         \A c \in Clients \ Peers(ports) : ks[c] = conn[c],
         Proceed(l, ks, {c \in Peers(ports) : ~IsOpen(ks[c])}),
         NEW c \in Clients
  PROVE  Turn(c) /\ Replies(c)
<1> DEFINE gone == {b \in Peers(ports) : ~IsOpen(ks[b])}
<1>0. /\ conn'[c] = IF c \in gone THEN DoneSet(ks[c]) ELSE ks[c]
      /\ stage'[c] = IF c \in gone THEN "gone" ELSE stage[c]
      /\ closing' = closing \ gone
      /\ ClientOK(c) /\ Sound(conn[c])
  BY DEF Proceed, ClientInv, ClientOK
<1>1. CASE c \notin Peers(ports)
  BY <1>0, <1>1, AloneTurns
<1>2. CASE c \in Peers(ports)
  <2>1. PICK ms \in Seq(Message) : Sends(conn[c], ks[c], ms)
    BY <1>2
  <2>2. stage[c] = "peer" /\ port(c) \in {"tree", "log"}
    BY <1>2 DEF Peers
  <2>3. CASE c \in gone
    <3>1. Sends(ks[c], DoneSet(ks[c]), <<>>) /\ <<>> \in Seq(Message) /\ ms \o <<>> = ms
      BY <2>1, DoneSetSends, ConcatEmptySeq DEF Sends
    <3>2. conn'[c] = DoneSet(ks[c]) /\ stage'[c] = "gone"
      BY <1>0, <2>3
    <3>3. Sends(conn[c], conn'[c], ms \o <<>>)
      BY <1>0, <2>1, <3>1, <3>2, SendsOn
    <3> QED BY <2>2, <3>1, <3>2, <3>3 DEF Turn, Replies, Connected, CommandPort
  <2>4. CASE c \notin gone
    <3>1. ~ks[c].done
      BY <1>2, <2>4 DEF IsOpen
    <3> QED BY <1>0, <2>1, <2>2, <2>4, <3>1 DEF Turn, Replies
  <2> QED BY <2>3, <2>4
<1> QED BY <1>1, <1>2

-----------------------------------------------------------------------------
(* Whom accept_peers accepts, and what a pass over the sessions makes.     *)

Waits == \A c \in ToSet(backlog) : stage[c] = "backlog"

LEMMA WaitingType ==
  ASSUME backlog \in Seq(Clients), NEW p, NEW v6
  PROVE  Waiting(p, v6) \in Seq(ToSet(backlog))
<1> DEFINE S == {c \in Clients : port(c) = p /\ (c \in OverIPv6 <=> v6)}
           w == Retain(backlog, S)
<1>1. w \in Seq(Clients) /\ ToSet(w) = ToSet(backlog) \cap S
  BY RetainSet
<1>2. Waiting(p, v6) = w
  BY DEF Waiting
<1> HIDE DEF w, S
<1>3. ToSet(w) = {w[i] : i \in 1 .. Len(w)} /\ Len(w) \in Nat
  BY <1>1, ToSetIs, LenProperties
<1>4. \A i \in 1 .. Len(w) : w[i] \in ToSet(backlog)
  BY <1>1, <1>3
<1>5. w = [i \in 1 .. Len(w) |-> w[i]]
  BY <1>1, LenProperties
<1>6. [i \in 1 .. Len(w) |-> w[i]] \in Seq(ToSet(backlog))
  BY <1>3, <1>4, IsASeq
<1> QED BY <1>2, <1>5, <1>6

LEMMA AcceptedWait ==
  ASSUME backlog \in Seq(Clients)
  PROVE  Accepted \subseteq ToSet(backlog) /\ ToSet(backlog) \subseteq Clients
<1>1. ToSet(backlog) \subseteq Clients
  BY ToSetIs
<1>2. ASSUME NEW p \in Port,
             NEW c \in ToSet(AcceptReady(Waiting(p, FALSE), Waiting(p, TRUE), Cardinality(Peers({p}))))
      PROVE  c \in ToSet(backlog)
  <2> DEFINE W == Waiting(p, FALSE) \o Waiting(p, TRUE)
             n == Min({Len(W), MaxConnQueued})
  <2>1. W \in Seq(ToSet(backlog))
    BY WaitingType, ConcatProperties
  <2>2. Len(W) \in Nat /\ MaxConnQueued \in Nat
    BY <2>1, LenProperties, NetAssumption
  <2>3. AcceptReady(Waiting(p, FALSE), Waiting(p, TRUE), Cardinality(Peers({p}))) = SubSeq(W, 1, n)
    BY DEF AcceptReady
  <2> HIDE DEF W
  <2>4. n = IF Len(W) <= MaxConnQueued THEN Len(W) ELSE MaxConnQueued
    BY <2>2, MinOfTwo
  <2> HIDE DEF n
  <2>5. n \in 0 .. Len(W)
    BY <2>2, <2>4
  <2>6. SubSeq(W, 1, n) \in Seq(ToSet(backlog))
    BY <2>1, <2>5, SplitAt
  <2> QED BY <1>2, <2>3, <2>6, ToSetIs
<1> QED BY <1>1, <1>2 DEF Accepted

LEMMA OnConnectType ==
  ASSUME NEW c
  PROVE  /\ OnConnect(c) \in Seq(Message) /\ DisconnectBytes(c) \in Seq(Message)
         /\ port(c) # "cmd" => OnConnect(c) = <<>> /\ DisconnectBytes(c) = <<>>
<1>1. <<"welcome", 0>> \in Message /\ <<"bye", 0>> \in Message
  BY DEF Message
<1> QED BY <1>1 DEF OnConnect, DisconnectBytes

LEMMA AcceptTurns ==
  ASSUME ClientInv, Waits, backlog \in Seq(Clients), AcceptPeers,
         NEW c \in Clients
  PROVE  Turn(c) /\ Replies(c)
<1>0. /\ conn'[c] = IF c \in Accepted THEN QueueSend(conn[c], OnConnect(c)) ELSE conn[c]
      /\ stage'[c] = IF c \in Accepted THEN "peer" ELSE stage[c]
      /\ closing' = closing
      /\ ClientOK(c) /\ Sound(conn[c])
  BY DEF AcceptPeers, ClientInv, ClientOK
<1>1. CASE c \notin Accepted
  BY <1>0, <1>1, AloneTurns
<1>2. CASE c \in Accepted
  <2>1. stage[c] = "backlog" /\ stage'[c] = "peer"
    BY <1>0, <1>2, AcceptedWait DEF Waits
  <2>2. /\ conn'[c] = QueueSend(conn[c], OnConnect(c))
        /\ Sends(conn[c], conn'[c], OnConnect(c))
        /\ conn'[c].done => conn[c].done \/ conn[c].reset
    BY <1>0, <1>2, QueueSendSends, OnConnectType
  <2>3. conn'[c].done => conn'[c].reset
    BY <1>0, <2>1, <2>2 DEF ClientOK, Sends
  <2>4. port(c) = "auto" => conn'[c] = conn[c]
    BY <2>2, OnConnectType DEF QueueSend
  <2>5. Turn(c)
    BY <2>1, <2>2, <2>3, OnConnectType DEF Turn
  <2> QED BY <2>1, <2>4, <2>5 DEF Replies, Unanswered
<1> QED BY <1>1, <1>2

\* What a pass makes of the connection of a command peer, and whether it goes.
Passes(c, p) ==
  /\ \E ms \in Seq(Message) : Sends(conn[c], p.conn, ms)
  /\ ~p.gone => ~p.conn.done
  /\ p.gone /\ Faithful(c) => p.conn.pending = <<>>
  /\ port(c) = "auto" =>
       \/ p.conn.queued = conn[c].queued /\ (c \in closing => p.gone \/ p.closes)
       \/ c \notin closing /\ (p.gone \/ p.closes) /\ OneAnswer(p.conn.queued)

LEMMA PumpClosingPasses ==
  ASSUME NEW c \in Clients, ClientOK(c), stage[c] = "peer"
  PROVE  Passes(c, PumpClosing(conn[c]))
<1> DEFINE k == conn[c]
           f == FlushPending(k)
           p == PumpClosing(k)
<1>1. Sound(k) /\ (k.done => k.reset)
  BY DEF ClientOK
<1>2. Sends(k, f, <<>>) /\ (f.done => k.reset)
  BY <1>1, FlushSends
<1>3. f.queued = k.queued
  BY <1>1, <1>2, Fields, ConcatEmptySeq DEF Sends
<1>4. /\ p.conn = f /\ p.closes = TRUE /\ (p.gone <=> f.pending = <<>> \/ f.done)
  BY <1>1, <1>2, Fields DEF PumpClosing, Pumped, HasPendingWrite, IsOpen, Sends
<1>5. Faithful(c) => ~k.reset
  BY <1>1 DEF Faithful, Sound
<1> HIDE DEF p, f
<1> QED BY <1>2, <1>3, <1>4, <1>5, EmptySeq DEF Passes, p

LEMMA ReadFailsPasses ==
  ASSUME NEW c \in Clients, ClientOK(c), stage[c] = "peer", ReadFails(conn[c])
  PROVE  Passes(c, Pumped(conn[c], TRUE, FALSE, <<>>))
<1>1. Sound(conn[c]) /\ conn[c].reset
  BY DEF ClientOK, ReadFails
<1>2. Sends(conn[c], conn[c], <<>>)
  BY <1>1, NothingMore
<1>3. ~Faithful(c)
  BY <1>1 DEF Faithful, Sound
<1> QED BY <1>1, <1>2, <1>3, EmptySeq DEF Passes, Pumped

LEMMA PumpOpenPasses ==
  ASSUME NEW c \in Clients, ClientOK(c), stage[c] = "peer", c \notin closing
  PROVE  Passes(c, PumpOpen(c, conn[c]))
<1> DEFINE k        == conn[c]
           data     == Available(k)
           lines    == Executed(c, data)
           ends     == Disconnects(c, data)
           read     == ReadAvailable(k)
           answered == QueueSend(read, Answers(lines))
           bytes    == IF ends THEN DisconnectBytes(c) ELSE <<>>
           parted   == IF ends THEN QueueSend(answered, DisconnectBytes(c)) ELSE answered
           flushed  == FlushPending(parted)
           p        == PumpOpen(c, k)
<1>1. Sound(k) /\ (k.done => k.reset)
  BY DEF ClientOK
<1>2. data \in Seq(Request)
  BY <1>1, Fields, EmptySeq DEF Available
<1>3. lines \in Seq(Request) /\ Answers(lines) \in Seq(Message)
  BY <1>2, ExecutedType, AnswersType
<1>4. Sends(k, read, <<>>) /\ (read.done => k.reset \/ k.eof)
  BY <1>1, ReadSends
<1>5. Sound(read) /\ read.reset = k.reset /\ read.eof = k.eof
  BY <1>4 DEF Sends
<1>6. Sends(read, answered, Answers(lines)) /\ (answered.done => k.reset \/ k.eof)
  BY <1>3, <1>4, <1>5, QueueSendSends
<1>7. bytes \in Seq(Message) /\ DisconnectBytes(c) \in Seq(Message)
  BY OnConnectType, EmptySeq
<1>8. Sends(answered, parted, bytes) /\ (parted.done => k.reset \/ k.eof)
  <2>1. Sound(answered) /\ answered.reset = k.reset
    BY <1>5, <1>6 DEF Sends
  <2> HIDE DEF answered
  <2> QED BY <1>6, <1>7, <2>1, QueueSendSends, NothingMore
<1>9. Sends(parted, flushed, <<>>) /\ (flushed.done => k.reset \/ k.eof)
  <2>1. Sound(parted) /\ parted.reset = k.reset
    BY <1>5, <1>6, <1>8 DEF Sends
  <2> HIDE DEF parted
  <2> QED BY <1>8, <2>1, FlushSends
<1>10. /\ p.conn = IF SendFails(read, Answers(lines)) THEN answered ELSE flushed
       /\ p.gone = IF SendFails(read, Answers(lines)) THEN TRUE
                   ELSE (ends /\ ~HasPendingWrite(flushed)) \/ ~IsOpen(flushed)
       /\ p.closes = IF SendFails(read, Answers(lines)) THEN FALSE ELSE ends
  BY DEF PumpOpen, Pumped
<1>11. SendFails(read, Answers(lines)) => k.reset
  <2>1. Queued(read, Answers(lines)).reset = read.reset
    BY <1>3, <1>5, QueuedSends DEF Sends
  <2> QED BY <1>5, <2>1 DEF SendFails, FlushFails
<1>12. Faithful(c) => ~k.reset /\ ~k.eof
  BY <1>1 DEF Faithful, Sound
<1>13. ends \in BOOLEAN
  BY DEF Disconnects, Contains
<1>14. Sends(k, answered, <<>> \o Answers(lines)) /\ <<>> \o Answers(lines) = Answers(lines)
  <2> HIDE DEF answered, read, lines
  <2> QED BY <1>1, <1>3, <1>4, <1>6, EmptySeq, SendsOn, ConcatEmptySeq
<1>15. /\ Sends(k, parted, Answers(lines) \o bytes)
       /\ Answers(lines) \o bytes \in Seq(Message)
  <2> HIDE DEF answered, read, lines, parted, bytes
  <2> QED BY <1>1, <1>3, <1>7, <1>8, <1>14, SendsOn, ConcatProperties
<1>16. flushed.queued = k.queued \o (Answers(lines) \o bytes)
  <2>1. parted.queued \in Seq(Message)
    BY <1>15, Fields DEF Sends
  <2> HIDE DEF parted, flushed
  <2> QED BY <1>9, <1>15, <2>1, ConcatEmptySeq DEF Sends
<1>17. Sends(k, flushed, (Answers(lines) \o bytes) \o <<>>)
       /\ (Answers(lines) \o bytes) \o <<>> \in Seq(Message)
  <2> HIDE DEF answered, read, lines, parted, bytes, flushed
  <2> QED BY <1>1, <1>9, <1>15, EmptySeq, SendsOn, ConcatProperties
<1>18. ASSUME port(c) = "auto"
       PROVE  /\ k.queued = <<>> /\ bytes = <<>>
              /\ OneAnswer(Answers(lines)) /\ (~ends => Answers(lines) = <<>>)
  <2>1. k.queued = <<>>
    BY <1>18 DEF ClientOK, Unanswered
  <2>2. bytes = <<>>
    BY <1>18, OnConnectType
  <2>3. (lines = <<>> \/ Len(lines) = 1) /\ (~ends => lines = <<>>)
    BY <1>2, <1>18, ExecutedType
  <2> HIDE DEF lines, ends
  <2>4. ASSUME Len(lines) = 1 PROVE OneAnswer(Answers(lines))
    <3>1. lines[1] \in Request /\ Answers(lines) = Answer(lines[1])
      BY <1>3, <2>4, ElementOfSeq, AnswersType
    <3> QED BY <3>1, AnswerType DEF OneAnswer
  <2>5. lines = <<>> => Answers(lines) = <<>>
    BY <1>3, AnswersType
  <2>6. OneAnswer(<<>>)
    BY DEF OneAnswer
  <2> QED BY <2>1, <2>2, <2>3, <2>4, <2>5, <2>6
<1>19. ASSUME port(c) = "auto"
       PROVE  /\ answered.queued = Answers(lines) /\ flushed.queued = Answers(lines)
              /\ OneAnswer(Answers(lines)) /\ (~ends => Answers(lines) = k.queued)
  <2> HIDE DEF answered, lines, bytes, flushed, ends
  <2>1. k.queued \o Answers(lines) = Answers(lines)
        /\ k.queued \o (Answers(lines) \o bytes) = Answers(lines)
    BY <1>3, <1>18, <1>19, ConcatEmptySeq
  <2> QED BY <1>14, <1>16, <1>18, <1>19, <2>1 DEF Sends
<1> HIDE DEF data, lines, ends, read, answered, bytes, parted, flushed, p
<1>20. CASE SendFails(read, Answers(lines))
  <2>1. p.conn = answered /\ p.gone /\ ~Faithful(c)
    BY <1>10, <1>11, <1>12, <1>20
  <2> QED BY <1>3, <1>14, <1>19, <2>1 DEF Passes, p
<1>21. CASE ~SendFails(read, Answers(lines))
  <2>1. /\ p.conn = flushed /\ p.closes = ends
        /\ p.gone <=> (ends /\ flushed.pending = <<>>) \/ flushed.done
    BY <1>10, <1>21 DEF HasPendingWrite, IsOpen
  <2>2. \E ms \in Seq(Message) : Sends(k, p.conn, ms)
    BY <1>17, <2>1
  <2>3. p.gone /\ Faithful(c) => p.conn.pending = <<>>
    BY <1>9, <1>12, <2>1
  <2>4. port(c) = "auto" =>
          \/ p.conn.queued = k.queued /\ (c \in closing => p.gone \/ p.closes)
          \/ c \notin closing /\ (p.gone \/ p.closes) /\ OneAnswer(p.conn.queued)
    BY <1>13, <1>19, <2>1
  <2> QED BY <2>1, <2>2, <2>3, <2>4 DEF Passes, p
<1> QED BY <1>20, <1>21

LEMMA PumpPasses ==
  ASSUME ClientInv, NEW c \in Peers(CommandPort)
  PROVE  Passes(c, Pump(c))
<1>1. c \in Clients /\ ClientOK(c) /\ stage[c] = "peer"
  BY DEF ClientInv, Peers
<1> QED BY <1>1, PumpClosingPasses, ReadFailsPasses, PumpOpenPasses DEF Pump

LEMMA PumpTurns ==
  ASSUME ClientInv, CommandPeersPump, closing \subseteq Peers(CommandPort),
         NEW c \in Clients
  PROVE  Turn(c) /\ Replies(c)
<1> DEFINE peers == Peers(CommandPort)
           p == Pump(c)
<1>0. /\ conn'[c] = IF c \notin peers THEN conn[c]
                    ELSE IF p.gone THEN DoneSet(p.conn) ELSE p.conn
      /\ stage'[c] = IF c \in peers /\ p.gone THEN "gone" ELSE stage[c]
      /\ c \in closing' <=> c \in peers /\ p.closes /\ ~p.gone
      /\ ClientOK(c) /\ Sound(conn[c])
  BY DEF CommandPeersPump, ClientInv, ClientOK
<1>1. CASE c \notin peers
  BY <1>0, <1>1, AloneTurns
<1>2. CASE c \in peers
  <2>1. Passes(c, p)
    BY <1>2, PumpPasses
  <2>2. stage[c] = "peer" /\ port(c) \in CommandPort
    BY <1>2 DEF Peers
  <2>3. PICK ms \in Seq(Message) : Sends(conn[c], p.conn, ms)
    BY <2>1 DEF Passes
  <2> HIDE DEF p, peers
  <2>4. CASE p.gone
    <3>1. conn'[c] = DoneSet(p.conn) /\ stage'[c] = "gone"
      BY <1>0, <1>2, <2>4
    <3>2. /\ Sends(p.conn, DoneSet(p.conn), <<>>) /\ DoneSet(p.conn).pending = p.conn.pending
          /\ ms \o <<>> = ms /\ <<>> \in Seq(Message)
      BY <2>3, DoneSetSends, ConcatEmptySeq DEF Sends
    <3>3. Sends(conn[c], DoneSet(p.conn), ms)
      <4>1. Sound(conn[c])
        BY <1>0
      <4>2. Sends(conn[c], DoneSet(p.conn), ms \o <<>>)
        BY <2>3, <3>2, <4>1, SendsOn
      <4> QED BY <3>2, <4>2
    <3>4. Turn(c)
      BY <2>1, <2>2, <2>4, <3>1, <3>2, <3>3 DEF Turn, Passes, Connected
    <3>5. conn'[c].queued = p.conn.queued
      BY <3>1 DEF DoneSet
    <3>6. Replies(c)
      BY <2>1, <2>2, <2>4, <3>1, <3>5 DEF Replies, Passes, Unanswered
    <3> QED BY <3>4, <3>6
  <2>5. CASE ~p.gone
    <3>1. conn'[c] = p.conn /\ stage'[c] = "peer" /\ (c \in closing' <=> p.closes)
      BY <1>0, <1>2, <2>2, <2>5
    <3>2. Turn(c)
      BY <2>1, <2>2, <2>3, <2>5, <3>1 DEF Turn, Passes
    <3>3. Replies(c)
      BY <2>1, <2>2, <2>5, <3>1 DEF Replies, Passes, Unanswered
    <3> QED BY <3>2, <3>3
  <2> QED BY <2>4, <2>5
<1> QED BY <1>1, <1>2

-----------------------------------------------------------------------------
(* What the clients do.                                                    *)

\* What has been read is behind what was read before.
LEMMA HeadMoves ==
  ASSUME NEW S, NEW a \in Seq(S), NEW b \in Seq(S), b # <<>>
  PROVE  Append(a, Head(b)) \o Tail(b) = a \o b
<1>1. Head(b) \in S /\ Tail(b) \in Seq(S) /\ b = <<Head(b)>> \o Tail(b)
  BY HeadTailProperties
<1>2. Append(a, Head(b)) = a \o <<Head(b)>> /\ <<Head(b)>> \in Seq(S)
  BY <1>1, AppendIsConcat
<1>3. JoinsThree(S)
  BY JoinThree
<1>4. (a \o <<Head(b)>>) \o Tail(b) = a \o (<<Head(b)>> \o Tail(b))
  BY <1>1, <1>2, <1>3 DEF JoinsThree
<1> QED BY <1>1, <1>2, <1>4

\* k2 is the connection k after a move of its client.
Moved(k, k2) ==
  /\ Sound(k2)
  /\ k2.queued = k.queued /\ k2.pending = k.pending /\ k2.done = k.done
  /\ k2.reading => k.reading
  /\ k.eof => k2.eof
  /\ k.reset => k2.reset

LEMMA SendMoves ==
  ASSUME NEW k, Sound(k), NEW r \in Request
  PROVE  Moved(k, [k EXCEPT !.inbox = Append(@, r)])
<1>1. Append(k.inbox, r) \in Seq(Request)
  BY Fields, AppendProperties
<1> QED BY <1>1 DEF Sound, Moved, Connection

LEMMA ReceiveMoves ==
  ASSUME NEW k, Sound(k), k.wire # <<>>
  PROVE  Moved(k, [k EXCEPT !.got = Append(@, Head(k.wire)), !.wire = Tail(@)])
<1> DEFINE g == Append(k.got, Head(k.wire))
           w == Tail(k.wire)
           k2 == [k EXCEPT !.got = g, !.wire = w]
<1>1. k.got \in Seq(Message) /\ k.wire \in Seq(Message) /\ k.pending \in Seq(Message)
      /\ Len(k.wire) \in Nat
  BY Fields
<1>2. Head(k.wire) \in Message /\ w \in Seq(Message) /\ Len(w) = Len(k.wire) - 1
  BY <1>1, HeadTailProperties
<1>3. g \in Seq(Message)
  BY <1>1, <1>2, AppendProperties
<1>4. g \o w = k.got \o k.wire
  BY <1>1, HeadMoves
<1> HIDE DEF g, w
<1>5. SendBuffer \in Nat /\ Len(w) <= SendBuffer
  BY <1>1, <1>2, NetAssumption DEF Sound
<1>6. k2 \in Connection(Request, Message)
  BY <1>2, <1>3 DEF Sound, Connection
<1>7. /\ k2.got = g /\ k2.wire = w /\ k2.pending = k.pending /\ k2.queued = k.queued
      /\ k2.done = k.done /\ k2.reading = k.reading /\ k2.eof = k.eof
      /\ k2.reset = k.reset
  BY DEF Sound, Connection
<1>8. k2.reading => k2.queued = k2.got \o k2.wire \o k2.pending
  BY <1>4, <1>7 DEF Sound
<1> HIDE DEF k2
<1>9. Moved(k, k2)
  BY <1>5, <1>6, <1>7, <1>8 DEF Sound, Moved
<1> QED BY <1>9 DEF k2, g, w

LEMMA LeaveMoves ==
  ASSUME NEW k, Sound(k)
  PROVE  /\ Moved(k, [k EXCEPT !.eof = TRUE])
         /\ Moved(k, [k EXCEPT !.eof = TRUE, !.reading = FALSE, !.wire = <<>>])
         /\ ~k.reading => Moved(k, [k EXCEPT !.reset = TRUE])
<1>1. SendBuffer \in Nat /\ Len(<<>>) = 0 /\ <<>> \in Seq(Message)
  BY NetAssumption, EmptySeq
<1>2. Moved(k, [k EXCEPT !.eof = TRUE])
  BY DEF Sound, Moved, Connection
<1>3. Moved(k, [k EXCEPT !.eof = TRUE, !.reading = FALSE, !.wire = <<>>])
  <2> DEFINE k2 == [k EXCEPT !.eof = TRUE, !.reading = FALSE, !.wire = <<>>]
  <2>1. k2 \in Connection(Request, Message)
    BY <1>1 DEF Sound, Connection
  <2>2. /\ k2.wire = <<>> /\ k2.reading = FALSE /\ k2.eof = TRUE
        /\ k2.reset = k.reset /\ k2.queued = k.queued /\ k2.pending = k.pending
        /\ k2.done = k.done
    BY DEF Sound, Connection
  <2> HIDE DEF k2
  <2>3. Len(k2.wire) <= SendBuffer
    BY <1>1, <2>2
  <2>4. Sound(k2)
    BY <2>1, <2>2, <2>3 DEF Sound
  <2>5. Moved(k, k2)
    BY <2>2, <2>4 DEF Moved
  <2> QED BY <2>5 DEF k2
<1>4. ~k.reading => Moved(k, [k EXCEPT !.reset = TRUE])
  BY DEF Sound, Moved, Connection
<1> QED BY <1>2, <1>3, <1>4

LEMMA ConnectionMoves ==
  ASSUME ClientInv, conn \in [Clients -> Connection(Request, Message)],
         NEW c \in Clients, NEW k, Moved(conn[c], k), OnConnection(c, k),
         NEW d \in Clients
  PROVE  OwnMove(d)
<1>1. conn'[d] = IF d = c THEN k ELSE conn[d]
  BY DEF OnConnection
<1>2. ClientOK(d) /\ stage' = stage
  BY DEF ClientInv, OnConnection
<1>3. CASE d = c
  BY <1>1, <1>2, <1>3 DEF Moved, OwnMove
<1>4. CASE d # c
  BY <1>1, <1>2, <1>4, AloneMoves
<1> QED BY <1>3, <1>4

\* What a client has not sent yet.
LEMMA NextRequest ==
  ASSUME habit \in Habits, NEW c \in Clients, asked[c] \in 0 .. Len(habit[c].sends),
         asked[c] < Len(habit[c].sends)
  PROVE  /\ habit[c].sends[asked[c] + 1] \in Request
         /\ asked[c] + 1 \in 0 .. Len(habit[c].sends)
<1>1. habit[c] \in Habit
  BY DebuggingAssumption
<1>2. habit[c].sends \in Seq(Request)
  BY <1>1 DEF Habit
<1>3. Len(habit[c].sends) \in Nat
  BY <1>2, LenProperties
<1>4. asked[c] + 1 \in 1 .. Len(habit[c].sends)
  BY <1>3
<1>5. habit[c].sends[asked[c] + 1] \in Request
  BY <1>2, <1>4, ElementOfSeq
<1> QED BY <1>3, <1>4, <1>5

LEMMA ClientsMove ==
  ASSUME TypeOK, ClientInv, NEW c \in Clients, ClientStep(c) \/ ClientReads(c),
         NEW d \in Clients
  PROVE  OwnMove(d)
<1>0. /\ conn \in [Clients -> Connection(Request, Message)]
      /\ Sound(conn[c]) /\ ClientOK(d)
  BY DEF TypeOK, ClientInv, ClientOK
<1>1. CASE Connect(c)
  <2>1. /\ conn'[d] = conn[d]
        /\ stage'[d] = stage[d] \/ (stage[d] = "new" /\ stage'[d] = "backlog")
    BY <1>1 DEF Connect, TypeOK
  <2> QED BY <1>0, <2>1 DEF OwnMove, ClientOK
<1>2. CASE Send(c)
  <2>1. habit[c].sends[asked[c] + 1] \in Request
    BY <1>2, NextRequest DEF Send, TypeOK
  <2>2. Moved(conn[c], [conn[c] EXCEPT !.inbox = Append(@, habit[c].sends[asked[c] + 1])])
    BY <1>0, <2>1, SendMoves
  <2> QED BY <1>0, <1>2, <2>2, ConnectionMoves DEF Send
<1>3. CASE Receive(c)
  <2>1. Moved(conn[c], [conn[c] EXCEPT !.got = Append(@, Head(conn[c].wire)), !.wire = Tail(@)])
    BY <1>0, <1>3, ReceiveMoves DEF Receive
  <2> QED BY <1>0, <1>3, <2>1, ConnectionMoves DEF Receive
<1>4. CASE HalfClose(c)
  BY <1>0, <1>4, LeaveMoves, ConnectionMoves DEF HalfClose
<1>5. CASE Close(c)
  BY <1>0, <1>5, LeaveMoves, ConnectionMoves DEF Close
<1>6. CASE Reset(c)
  BY <1>0, <1>6, LeaveMoves, ConnectionMoves DEF Reset
<1> QED BY <1>1, <1>2, <1>3, <1>4, <1>5, <1>6 DEF ClientStep, ClientReads

-----------------------------------------------------------------------------
(* The inductive invariant.                                                *)

\* Nobody connects before the ports are bound, and the receiver of the server
\* is subscribed as long as it has peers.
Phases ==
  /\ at \in {"Start", "Failed"} => \A c \in Clients : stage[c] = "new"
  /\ at = "Stopped" => \A c \in Clients : ~Connected(c)
  /\ at # "Stopped" => dbg \in listening
  /\ at \notin {"Start", "Failed", "Stopped"} => dbg \in ToSet(subscribers)

\* The numbers in the messages q rise, all below those that wait in w, and of
\* the entries after first, up to last, none is missing but those in f.
Tells(q, w, last, first, f) ==
  /\ \A i \in 1 .. Len(q) : q[i][2] \in 1 .. last
  /\ \A i, j \in 1 .. Len(q) : i < j => q[i][2] < q[j][2]
  /\ \A i \in 1 .. Len(q) : \A j \in 1 .. Len(w) : q[i][2] < w[j]
  /\ \A n \in (first + 1) .. last :
       \/ n \in f
       \/ \E i \in 1 .. Len(q) : q[i][2] = n
       \/ \E j \in 1 .. Len(w) : w[j] = n

Told(c) == Tells(conn[c].queued, channel[dbg], Len(emitted), joined[c], filtered)

\* What waits in w was emitted, and rises.
RisesTo(w, last) ==
  /\ \A i \in 1 .. Len(w) : w[i] \in 1 .. last
  /\ \A i, j \in 1 .. Len(w) : i < j => w[i] < w[j]

Rising == Len(emitted) <= MaxEntries /\ RisesTo(channel[dbg], Len(emitted))

LogInv == Rising /\ \A c \in Peers({"log"}) : Told(c)

IInv ==
  /\ TypeOK
  /\ ClientInv
  /\ Waits
  /\ Phases
  /\ LogInv
  /\ TreePeersCurrent

LEMMA InitHolds ==
  ASSUME Init PROVE IInv
<1> USE DebuggingAssumption, NetAssumption, LoggingAssumption
<1>1. <<>> \in Seq(Clients) /\ <<>> \in Seq(Receivers) /\ <<>> \in Seq(Error .. Core)
      /\ <<>> \in Seq(1 .. MaxEntries) /\ <<>> \in Seq(Request) /\ <<>> \in Seq(Message)
  BY EmptySeq
<1>2. NewConnection \in Connection(Request, Message)
  BY <1>1 DEF NewConnection, Connection
<1>3. Sound(NewConnection)
  <2>1. <<>> \o <<>> \o <<>> = <<>>
    BY <1>1, ConcatEmptySeq
  <2>2. Len(<<>>) = 0 /\ SendBuffer \in Nat
    BY EmptySeq
  <2>3. NewConnection.wire = <<>> /\ ~NewConnection.reset
        /\ NewConnection.queued = <<>> /\ NewConnection.got = <<>>
        /\ NewConnection.pending = <<>>
    BY DEF NewConnection
  <2> QED BY <1>2, <2>1, <2>2, <2>3 DEF Sound
<1>4. ASSUME NEW c \in Clients PROVE conn[c] = NewConnection /\ stage[c] = "new"
  BY DEF Init
<1>5. LoggingTypeOK
  BY <1>1 DEF Init, LoggingInit, LoggingTypeOK, Error, Info, Core
<1>6. ASSUME NEW c \in Clients PROVE asked[c] \in 0 .. Len(habit[c].sends)
  <2>1. habit[c] \in Habit
    BY DEF Init
  <2>2. habit[c].sends \in Seq(Request)
    BY <2>1 DEF Habit
  <2>3. Len(habit[c].sends) \in Nat
    BY <2>2, LenProperties
  <2> QED BY <2>3 DEF Init
<1>7. TypeOK
  <2>1. conn \in [Clients -> Connection(Request, Message)]
    BY <1>2 DEF Init
  <2>2. /\ at \in Labels /\ habit \in Habits /\ backlog \in Seq(Clients)
        /\ stage \in [Clients -> {"new", "backlog", "peer", "gone"}]
        /\ closing \subseteq Peers(CommandPort) /\ socketLevel \in 0 .. Core
    BY <1>1 DEF Init, Labels, Info, Core
  <2>3. 0 \in 0 .. MaxTrees /\ 0 \in 0 .. MaxEntries
    OBVIOUS
  <2>4. tree \in 0 .. MaxTrees /\ treeCache \in 0 .. MaxTrees
    BY <2>3 DEF Init
  <2>5. joined \in [Clients -> 0 .. MaxEntries] /\ filtered \subseteq 1 .. MaxEntries
    BY <2>3 DEF Init
  <2>6. treeDirty \in BOOLEAN /\ peerLogOnceConnected \in BOOLEAN /\ asked \in [Clients -> Nat]
    BY DEF Init
  <2> QED BY <1>5, <1>6, <2>1, <2>2, <2>4, <2>5, <2>6 DEF TypeOK
<1>8. ASSUME NEW c \in Clients PROVE ClientOK(c)
  <2>1. NewConnection.queued = <<>> /\ ~NewConnection.done
    BY DEF NewConnection
  <2>2. OneAnswer(<<>>)
    BY DEF OneAnswer
  <2> QED BY <1>3, <1>4, <2>1, <2>2 DEF ClientOK
<1>9. Waits /\ Phases
  <2>1. ToSet(<<>>) = {}
    BY ToSetSingle
  <2> QED BY <2>1 DEF Waits, Phases, Init, LoggingInit, Connected
<1>10. LogInv
  <2>1. Peers({"log"}) = {}
    BY <1>4 DEF Peers
  <2>2. channel[dbg] = <<>> /\ emitted = <<>>
    BY DEF Init, LoggingInit
  <2>3. Rising
    BY <2>2, EmptySeq, LoggingAssumption DEF Rising, RisesTo
  <2> QED BY <2>1, <2>3 DEF LogInv
<1>11. TreePeersCurrent
  BY DEF Init, TreePeersCurrent
<1> QED BY <1>7, <1>8, <1>9, <1>10, <1>11 DEF IInv, ClientInv

\* The actions that leave the connections and their clients alone.
QuietServer == EnsureStarted \/ BindFails \/ Announce \/ KeepProcessTree \/ EndLogEntries

Elsewhere ==
  ChangeTree \/ EmitElsewhere \/ (\E r \in Receivers : SubscribeElsewhere(r) \/ DropElsewhere(r))

LEMMA QuietIsQuiet ==
  /\ QuietServer => UNCHANGED <<clients, closing>> /\ at \notin {"Failed", "Stopped"}
                    /\ at' # "Stopped"
  /\ Elsewhere => UNCHANGED <<server, habit, asked>>
<1>1. QuietServer => UNCHANGED <<clients, closing>> /\ at \notin {"Failed", "Stopped"}
                     /\ at' # "Stopped"
  BY DEF QuietServer, EnsureStarted, BindFails, Announce, KeepProcessTree, EndLogEntries
<1>2. Elsewhere => UNCHANGED <<server, habit, asked>>
  BY DEF Elsewhere, ChangeTree, EmitElsewhere, SubscribeElsewhere, DropElsewhere
<1> QED BY <1>1, <1>2

\* A broadcast is a pass over the peers of one port.
LEMMA BroadcastTurns ==
  ASSUME TypeOK, ClientInv, NEW p \in {"tree", "log"}, NEW m \in Message, NEW l,
         Broadcast(p, m, l), NEW c \in Clients
  PROVE  Turn(c) /\ Replies(c)
<1> DEFINE peers == Peers({p})
           ks == [d \in Clients |-> IF d \in peers THEN QueueSend(conn[d], <<m>>) ELSE conn[d]]
<1>1. Proceed(l, ks, {d \in peers : ~IsOpen(ks[d])})
  BY DEF Broadcast
<1>2. <<m>> \in Seq(Message) /\ {p} \subseteq {"tree", "log"} /\ peers \subseteq Clients
  BY DEF Peers
<1>3. ASSUME NEW d \in peers PROVE \E ms \in Seq(Message) : Sends(conn[d], ks[d], ms)
  <2>1. Sound(conn[d]) /\ ks[d] = QueueSend(conn[d], <<m>>)
    BY <1>2 DEF ClientInv, ClientOK
  <2> QED BY <1>2, <2>1, QueueSendSends
<1>4. \A d \in Clients \ peers : ks[d] = conn[d]
  OBVIOUS
<1>5. conn \in [Clients -> Connection(Request, Message)]
  BY DEF TypeOK
<1> HIDE DEF ks
<1> QED BY <1>1, <1>2, <1>3, <1>4, <1>5, ProceedTurns

LEMMA CheckTurns ==
  ASSUME TypeOK, ClientInv, PeerCheck, NEW c \in Clients
  PROVE  Turn(c) /\ Replies(c)
<1> DEFINE peers == Peers({"tree", "log"})
           read(d) == IF DisconnectRequested(conn[d]) THEN DoneSet(ReadAvailable(conn[d]))
                                                      ELSE ReadAvailable(conn[d])
           ks == [d \in Clients |-> IF d \in peers THEN read(d) ELSE conn[d]]
<1>1. Proceed("Pump", ks, {d \in peers : ~IsOpen(ks[d])})
  BY DEF PeerCheck
<1>2. peers \subseteq Clients
  BY DEF Peers
<1>3. ASSUME NEW d \in peers PROVE \E ms \in Seq(Message) : Sends(conn[d], ks[d], ms)
  <2>1. Sound(conn[d]) /\ ks[d] = read(d)
    BY <1>2 DEF ClientInv, ClientOK
  <2> DEFINE k2 == ReadAvailable(conn[d])
  <2>2. Sends(conn[d], k2, <<>>) /\ <<>> \in Seq(Message)
    BY <2>1, ReadSends, EmptySeq
  <2>3. Sends(k2, DoneSet(k2), <<>>) /\ <<>> \o <<>> = <<>>
    BY <2>2, DoneSetSends, ConcatEmptySeq DEF Sends
  <2> HIDE DEF k2
  <2>4. Sends(conn[d], DoneSet(k2), <<>> \o <<>>)
    BY <2>1, <2>2, <2>3, SendsOn
  <2>5. ks[d] = k2 \/ ks[d] = DoneSet(k2)
    BY <2>1 DEF k2
  <2> QED BY <2>2, <2>3, <2>4, <2>5
<1>4. \A d \in Clients \ peers : ks[d] = conn[d]
  OBVIOUS
<1>5. conn \in [Clients -> Connection(Request, Message)]
  BY DEF TypeOK
<1> HIDE DEF ks
<1> QED BY <1>1, <1>2, <1>3, <1>4, <1>5, ProceedTurns

\* Stopping drops whoever is connected.
LEMMA StopTurns ==
  ASSUME TypeOK, ClientInv, Stop, NEW c \in Clients
  PROVE  Turn(c) /\ Replies(c)
<1> DEFINE gone == {d \in Clients : Connected(d)}
<1>0. /\ conn'[c] = IF c \in gone THEN DoneSet(conn[c]) ELSE conn[c]
      /\ stage'[c] = IF c \in gone THEN "gone" ELSE stage[c]
      /\ closing' = closing \ gone /\ at' = "Stopped"
      /\ ClientOK(c) /\ Sound(conn[c])
  BY DEF Stop, Proceed, ClientInv, ClientOK
<1>1. CASE c \notin gone
  BY <1>0, <1>1, AloneTurns
<1>2. CASE c \in gone
  <2>1. Sends(conn[c], conn'[c], <<>>) /\ conn'[c].queued = conn[c].queued
    BY <1>0, <1>2, DoneSetSends DEF DoneSet
  <2>2. Connected(c) /\ stage'[c] = "gone" /\ at' = "Stopped"
    BY <1>0, <1>2
  <2>3. Turn(c)
    BY <2>1, <2>2, EmptySeq DEF Turn
  <2> QED BY <2>1, <2>2, <2>3 DEF Replies, Unanswered
<1> QED BY <1>1, <1>2

LEMMA MessageOfTree ==
  ASSUME TypeOK PROVE <<"tree", tree>> \in Message
BY DEF TypeOK, Message

\* The entry that is taken from the channel.
LEMMA TakenEntry ==
  ASSUME TypeOK, Rising, channel[dbg] # <<>>
  PROVE  /\ Head(channel[dbg]) = channel[dbg][1]
         /\ Head(channel[dbg]) \in 1 .. Len(emitted)
         /\ Head(channel[dbg]) \in 1 .. MaxEntries
         /\ <<"log", Head(channel[dbg])>> \in Message
         /\ channel[dbg] \in Seq(1 .. MaxEntries)
<1>1. channel[dbg] \in Seq(1 .. MaxEntries) /\ Len(emitted) \in Nat
  BY DebuggingAssumption, LenProperties DEF TypeOK, LoggingTypeOK
<1>2. 1 \in 1 .. Len(channel[dbg]) /\ Head(channel[dbg]) = channel[dbg][1]
  BY <1>1, EmptySeq
<1>3. Head(channel[dbg]) \in 1 .. Len(emitted) /\ Head(channel[dbg]) \in 1 .. MaxEntries
  BY <1>1, <1>2, ElementOfSeq DEF Rising, RisesTo
<1> QED BY <1>1, <1>2, <1>3 DEF Message

\* Every step of the callback is a turn of every client.
LEMMA ServerTurns ==
  ASSUME IInv, ServerStep \/ Stop, NEW c \in Clients
  PROVE  Turn(c) /\ Replies(c)
<1> USE DEF IInv
<1>0. ClientOK(c)
  BY DEF ClientInv
<1>1. CASE QuietServer
  BY <1>0, <1>1, QuietIsQuiet, AloneTurns DEF clients
<1>2. CASE AcceptPeers
  BY <1>2, AcceptTurns DEF TypeOK
<1>3. CASE PeerCheck
  BY <1>3, CheckTurns
<1>4. CASE CommandPeersPump
  BY <1>4, PumpTurns DEF TypeOK
<1>5. CASE SendProcessTree
  BY <1>5, MessageOfTree, BroadcastTurns DEF SendProcessTree
<1>6. CASE SendLogEntry
  <2> DEFINE n == Head(channel[dbg])
  <2>1. <<"log", n>> \in Message
    BY <1>6, TakenEntry DEF SendLogEntry, LogInv
  <2>2. CASE emitted[n] > socketLevel
    BY <1>0, <1>6, <2>2, AloneTurns DEF SendLogEntry
  <2>3. CASE ~(emitted[n] > socketLevel)
    <3>1. Broadcast("log", <<"log", n>>, "Logs")
      BY <1>6, <2>3 DEF SendLogEntry
    <3> QED BY <2>1, <3>1, BroadcastTurns
  <2> QED BY <2>2, <2>3
<1>7. CASE Stop
  BY <1>7, StopTurns
<1> QED BY <1>1, <1>2, <1>3, <1>4, <1>5, <1>6, <1>7 DEF ServerStep, QuietServer

-----------------------------------------------------------------------------
(* Steps keep the types.                                                   *)

LEMMA StepSplits ==
  ASSUME [Next]_vars
  PROVE  \/ ServerStep \/ Stop
         \/ \E c \in Clients : ClientStep(c) \/ ClientReads(c)
         \/ Elsewhere
         \/ UNCHANGED vars
BY DEF Next, Elsewhere, Ended

LEMMA ServerRuns ==
  ASSUME ServerStep \/ Stop
  PROVE  at # "Stopped" /\ UNCHANGED <<habit, asked, tree>>
BY DEF ServerStep, Stop, EnsureStarted, BindFails, Announce, AcceptPeers, PeerCheck,
       CommandPeersPump, SendProcessTree, KeepProcessTree, SendLogEntry,
       EndLogEntries, clients

LEMMA StepClients ==
  ASSUME IInv, [Next]_vars PROVE ClientInv'
<1> SUFFICES ASSUME NEW c \in Clients PROVE ClientOK(c)'
  BY DEF ClientInv
<1>0. TypeOK /\ ClientInv /\ ClientOK(c)
  BY DEF IInv, ClientInv
<1>1. CASE ServerStep \/ Stop
  BY <1>0, <1>1, ServerTurns, ServerRuns, TurnKeeps
<1>2. ASSUME NEW d \in Clients, ClientStep(d) \/ ClientReads(d) PROVE ClientOK(c)'
  <2>1. OwnMove(c)
    BY <1>0, <1>2, ClientsMove
  <2>2. at' = at /\ closing' = closing /\ habit' = habit
    BY <1>2 DEF ClientStep, ClientReads, inside, Connect, Send, Receive, HalfClose, Close,
                Reset, OnConnection
  <2> QED BY <1>0, <2>1, <2>2, MoveKeeps
<1>3. CASE Elsewhere \/ UNCHANGED vars
  <2>1. UNCHANGED <<server, habit, asked>>
    BY <1>3, QuietIsQuiet DEF vars
  <2>2. OwnMove(c)
    BY <1>0, <2>1, AloneMoves DEF server
  <2> QED BY <1>0, <2>1, <2>2, MoveKeeps DEF server
<1> QED BY <1>1, <1>2, <1>3, StepSplits

LEMMA ContainsIs ==
  ASSUME NEW P, NEW ps \in Seq(P), NEW x
  PROVE  Contains(ps, x) <=> x \in ToSet(ps)
BY ToSetIs DEF Contains

LEMMA EmitTypes ==
  ASSUME LoggingTypeOK, Len(emitted) <= MaxEntries, NEW severity \in Error .. Core,
         Emit(severity)
  PROVE  /\ LoggingTypeOK'
         /\ Len(emitted') = Len(emitted) + 1 /\ Len(emitted') <= MaxEntries
         /\ ToSet(subscribers') = ToSet(subscribers) \cap listening
         /\ listening' = listening
         /\ channel'[dbg] = IF dbg \in ToSet(subscribers) /\ dbg \in listening
                            THEN Append(channel[dbg], Len(emitted) + 1) ELSE channel[dbg]
<1> DEFINE n == Len(emitted) + 1
<1>0. /\ subscribers \in Seq(Receivers) /\ emitted \in Seq(Error .. Core)
      /\ channel \in [Receivers -> Seq(1 .. MaxEntries)]
      /\ MaxEntries \in Nat /\ Len(emitted) < MaxEntries
      /\ Len(emitted) \in Nat /\ dbg \in Receivers
  BY LoggingAssumption, DebuggingAssumption, LenProperties DEF LoggingTypeOK, Emit
<1>1. n \in 1 .. MaxEntries
  BY <1>0
<1>2. subscribers' \in Seq(Receivers) /\ ToSet(subscribers') = ToSet(subscribers) \cap listening
  BY <1>0, RetainSet DEF Emit
<1>3. emitted' \in Seq(Error .. Core) /\ Len(emitted') = Len(emitted) + 1
  BY <1>0, AppendProperties DEF Emit, Emitted
<1>4. printed' \subseteq 1 .. MaxEntries
  BY <1>1 DEF Emit, Emitted, LoggingTypeOK
<1>5. channel' = [r \in Receivers |->
                    IF Contains(subscribers, r) /\ r \in listening
                    THEN Append(channel[r], n) ELSE channel[r]]
  BY DEF Emit, Emitted
<1> HIDE DEF n
<1>6. ASSUME NEW r \in Receivers
      PROVE  Append(channel[r], n) \in Seq(1 .. MaxEntries)
  BY <1>0, <1>1, AppendProperties
<1>7. channel' \in [Receivers -> Seq(1 .. MaxEntries)]
  BY <1>0, <1>5, <1>6
<1>8. channel'[dbg] = IF dbg \in ToSet(subscribers) /\ dbg \in listening
                      THEN Append(channel[dbg], n) ELSE channel[dbg]
  BY <1>0, <1>5, ContainsIs
<1>9. consoleLevel' = consoleLevel /\ listening' = listening
  BY DEF Emit
<1>10. LoggingTypeOK'
  BY <1>2, <1>3, <1>4, <1>7, <1>9 DEF LoggingTypeOK
<1> QED BY <1>0, <1>2, <1>3, <1>8, <1>9, <1>10 DEF n

LEMMA SubscribeTypes ==
  ASSUME LoggingTypeOK, NEW r \in Receivers, SubscribeLogs(r)
  PROVE  /\ subscribers' \in Seq(Receivers)
         /\ ToSet(subscribers) \cup {r} \subseteq ToSet(subscribers')
<1>1. subscribers \in Seq(Receivers) /\ subscribers' = Append(subscribers, r)
  BY DEF LoggingTypeOK, SubscribeLogs
<1>2. /\ subscribers' \in Seq(Receivers) /\ Len(subscribers') = Len(subscribers) + 1
      /\ \A i \in 1 .. Len(subscribers) : subscribers'[i] = subscribers[i]
      /\ subscribers'[Len(subscribers) + 1] = r
      /\ Len(subscribers) \in Nat
  BY <1>1, AppendProperties, LenProperties
<1>3. ToSet(subscribers') = {subscribers'[i] : i \in 1 .. Len(subscribers')}
  BY <1>2, ToSetIs
<1>6. ToSet(subscribers) = {subscribers[i] : i \in 1 .. Len(subscribers)}
  BY <1>1, ToSetIs
<1>4. r \in ToSet(subscribers')
  BY <1>2, <1>3
<1>5. ASSUME NEW i \in 1 .. Len(subscribers) PROVE subscribers[i] \in ToSet(subscribers')
  <2>1. i \in 1 .. Len(subscribers')
    BY <1>2
  <2> QED BY <1>2, <1>3, <2>1
<1> QED BY <1>2, <1>4, <1>5, <1>6

\* What is left of TypeOK when the log and the connections are typed.
RestOK ==
  /\ at \in Labels
  /\ habit \in Habits
  /\ stage \in [Clients -> {"new", "backlog", "peer", "gone"}]
  /\ backlog \in Seq(Clients)
  /\ closing \subseteq Peers(CommandPort)
  /\ socketLevel \in 0 .. Core
  /\ tree \in 0 .. MaxTrees /\ treeCache \in 0 .. MaxTrees
  /\ treeDirty \in BOOLEAN /\ peerLogOnceConnected \in BOOLEAN
  /\ asked \in [Clients -> Nat]
  /\ \A c \in Clients : asked[c] \in 0 .. Len(habit[c].sends)
  /\ joined \in [Clients -> 0 .. MaxEntries]
  /\ filtered \subseteq 1 .. MaxEntries

ConnOverClients == conn = [c \in Clients |-> conn[c]]

LEMMA TypeParts ==
  /\ TypeOK => LoggingTypeOK /\ RestOK /\ ConnOverClients
  /\ ClientInv' /\ LoggingTypeOK' /\ RestOK' /\ ConnOverClients' => TypeOK'
<1>1. TypeOK => LoggingTypeOK /\ RestOK /\ ConnOverClients
  BY DEF TypeOK, RestOK, ConnOverClients
<1>2. ASSUME ClientInv', LoggingTypeOK', RestOK', ConnOverClients' PROVE TypeOK'
  <2>1. \A c \in Clients : conn'[c] \in Connection(Request, Message)
    BY <1>2 DEF ClientInv, ClientOK, Sound
  <2>2. conn' \in [Clients -> Connection(Request, Message)]
    BY <1>2, <2>1 DEF ConnOverClients
  <2> QED BY <1>2, <2>2 DEF TypeOK, RestOK
<1> QED BY <1>1, <1>2

LEMMA ProceedTypes ==
  ASSUME RestOK, NEW l \in Labels, NEW ks, NEW gone, Proceed(l, ks, gone), habit' = habit
  PROVE  /\ at' \in Labels /\ ConnOverClients'
         /\ stage' \in [Clients -> {"new", "backlog", "peer", "gone"}]
         /\ closing' \subseteq Peers(CommandPort)'
<1>1. at' \in Labels /\ ConnOverClients'
  BY DEF Proceed, ConnOverClients
<1>2. stage' \in [Clients -> {"new", "backlog", "peer", "gone"}]
  BY DEF Proceed, RestOK
<1>3. closing' \subseteq Peers(CommandPort)'
  BY DEF Proceed, RestOK, Peers, port
<1> QED BY <1>1, <1>2, <1>3

\* Commands set the levels of the log to what they may be.
LEMMA LevelTypes == Severity(0) \in Error .. Core /\ 0 \in 0 .. Core
BY DEF Severity, Error, Core

LEMMA ServerTypes ==
  ASSUME IInv, ServerStep \/ Stop
  PROVE  LoggingTypeOK' /\ RestOK' /\ ConnOverClients'
<1>0. /\ TypeOK /\ LoggingTypeOK /\ RestOK /\ ConnOverClients /\ Rising
      /\ Len(emitted) <= MaxEntries /\ Len(emitted) \in 0 .. MaxEntries
  <2>1. TypeOK /\ LoggingTypeOK /\ RestOK /\ ConnOverClients /\ Rising
    BY TypeParts DEF IInv, LogInv
  <2>2. Len(emitted) \in Nat /\ MaxEntries \in Nat
    BY <2>1, LenProperties, LoggingAssumption DEF LoggingTypeOK
  <2> QED BY <2>1, <2>2 DEF Rising
<1>1. Error \in Error .. Core /\ Info \in Error .. Core
  BY DEF Error, Info, Core
<1>2. CASE QuietServer
  <2>1. LoggingTypeOK'
    <3>1. CASE EnsureStarted
      BY <1>0, <3>1, SubscribeTypes, DebuggingAssumption DEF EnsureStarted, LoggingTypeOK
    <3>2. CASE BindFails \/ Announce
      BY <1>0, <1>1, <3>2, EmitTypes DEF BindFails, Announce
    <3>3. CASE KeepProcessTree \/ EndLogEntries
      BY <1>0, <3>3 DEF KeepProcessTree, EndLogEntries, logging, LoggingTypeOK
    <3> QED BY <1>2, <3>1, <3>2, <3>3 DEF QuietServer
  <2>2. /\ UNCHANGED <<clients, closing, socketLevel, tree, treeCache, treeDirty,
                       peerLogOnceConnected, joined, filtered>>
        /\ at' \in Labels
    BY <1>2 DEF QuietServer, EnsureStarted, BindFails, Announce, KeepProcessTree,
                EndLogEntries, Labels
  <2> QED BY <1>0, <2>1, <2>2 DEF RestOK, ConnOverClients, clients, Peers, port
<1>3. CASE AcceptPeers
  <2>1. LoggingTypeOK'
    BY <1>0, <1>3 DEF AcceptPeers, logging, LoggingTypeOK
  <2>2. ConnOverClients' /\ at' \in Labels
    BY <1>3 DEF AcceptPeers, ConnOverClients, Labels
  <2>3. backlog' \in Seq(Clients)
    BY <1>0, <1>3, RetainSet DEF AcceptPeers, RestOK
  <2>4. stage' \in [Clients -> {"new", "backlog", "peer", "gone"}]
    BY <1>0, <1>3 DEF AcceptPeers, RestOK
  <2>5. closing' \subseteq Peers(CommandPort)'
    BY <1>0, <1>3 DEF AcceptPeers, RestOK, Peers, port
  <2>6. joined' \in [Clients -> 0 .. MaxEntries]
    BY <1>0, <1>3 DEF AcceptPeers, RestOK
  <2>7. treeDirty' \in BOOLEAN /\ peerLogOnceConnected' \in BOOLEAN
    BY <1>0, <1>3 DEF AcceptPeers, RestOK
  <2>8. UNCHANGED <<habit, asked, socketLevel, tree, treeCache, filtered>>
    BY <1>3 DEF AcceptPeers
  <2> QED BY <1>0, <2>1, <2>2, <2>3, <2>4, <2>5, <2>6, <2>7, <2>8 DEF RestOK
<1>4. CASE PeerCheck
  <2>1. /\ UNCHANGED <<logging, habit, asked, backlog, socketLevel, tree, treeCache,
                     treeDirty, peerLogOnceConnected, joined, filtered>>
        /\ \E ks, gone : Proceed("Pump", ks, gone)
    BY <1>4 DEF PeerCheck
  <2>2. "Pump" \in Labels
    BY DEF Labels
  <2> QED BY <1>0, <2>1, <2>2, ProceedTypes DEF RestOK, logging, LoggingTypeOK
<1>5. CASE CommandPeersPump
  <2>1. consoleLevel' \in Error .. Core /\ socketLevel' \in 0 .. Core
    BY <1>0, <1>5, LevelTypes DEF CommandPeersPump, LevelLogSet, LoggingTypeOK, RestOK
  <2>2. LoggingTypeOK'
    BY <1>0, <1>5, <2>1 DEF CommandPeersPump, LoggingTypeOK
  <2>3. ConnOverClients' /\ at' \in Labels
    BY <1>5 DEF CommandPeersPump, ConnOverClients, Labels
  <2>4. stage' \in [Clients -> {"new", "backlog", "peer", "gone"}]
    BY <1>0, <1>5 DEF CommandPeersPump, RestOK
  <2>5. closing' \subseteq Peers(CommandPort)'
    BY <1>5 DEF CommandPeersPump, Peers, port
  <2>6. UNCHANGED <<habit, asked, backlog, tree, treeCache, treeDirty,
                    peerLogOnceConnected, joined, filtered>>
    BY <1>5 DEF CommandPeersPump
  <2> QED BY <1>0, <2>1, <2>2, <2>3, <2>4, <2>5, <2>6 DEF RestOK
<1>6. CASE SendProcessTree
  <2>1. /\ UNCHANGED <<logging, habit, asked, backlog, socketLevel, tree,
                     peerLogOnceConnected, joined, filtered>>
        /\ \E ks, gone : Proceed("Logs", ks, gone)
        /\ treeCache' = tree /\ treeDirty' = FALSE
    BY <1>6 DEF SendProcessTree, Broadcast
  <2>2. "Logs" \in Labels
    BY DEF Labels
  <2> QED BY <1>0, <2>1, <2>2, ProceedTypes DEF RestOK, logging, LoggingTypeOK
<1>7. CASE SendLogEntry
  <2> DEFINE n == Head(channel[dbg])
  <2>1. n \in 1 .. MaxEntries /\ channel[dbg] \in Seq(1 .. MaxEntries) /\ channel[dbg] # <<>>
    BY <1>0, <1>7, TakenEntry DEF SendLogEntry
  <2>2. Tail(channel[dbg]) \in Seq(1 .. MaxEntries)
    BY <2>1, HeadTailProperties
  <2>3. channel' \in [Receivers -> Seq(1 .. MaxEntries)]
    BY <1>0, <1>7, <2>2 DEF SendLogEntry, LoggingTypeOK
  <2>4. /\ UNCHANGED <<consoleLevel, subscribers, listening, printed, emitted, habit, asked,
                     backlog, socketLevel, tree, treeCache, treeDirty,
                     peerLogOnceConnected, joined>>
    BY <1>7 DEF SendLogEntry
  <2>5. LoggingTypeOK'
    BY <1>0, <2>3, <2>4 DEF LoggingTypeOK
  <2>6. \/ filtered' = filtered \cup {n} /\ UNCHANGED <<at, conn, stage, closing>>
        \/ (\E ks, gone : Proceed("Logs", ks, gone)) /\ UNCHANGED filtered
    BY <1>7 DEF SendLogEntry, Broadcast
  <2>7. "Logs" \in Labels
    BY DEF Labels
  <2> HIDE DEF n
  <2>8. CASE filtered' = filtered \cup {n} /\ UNCHANGED <<at, conn, stage, closing>>
    <3>1. Peers(CommandPort)' = Peers(CommandPort)
      BY <2>4, <2>8 DEF Peers, port
    <3> QED BY <1>0, <2>1, <2>4, <2>5, <2>8, <3>1 DEF RestOK, ConnOverClients
  <2>9. CASE (\E ks, gone : Proceed("Logs", ks, gone)) /\ UNCHANGED filtered
    BY <1>0, <2>4, <2>5, <2>7, <2>9, ProceedTypes DEF RestOK
  <2> QED BY <2>6, <2>8, <2>9
<1>8. CASE Stop
  <2>1. /\ UNCHANGED <<consoleLevel, subscribers, printed, emitted, habit, asked, socketLevel,
                 tree, treeCache, treeDirty, peerLogOnceConnected, joined, filtered>>
        /\ backlog' = <<>> /\ listening' = listening \ {dbg}
        /\ channel' = [channel EXCEPT ![dbg] = <<>>]
        /\ \E ks, gone : Proceed("Stopped", ks, gone)
    BY <1>8 DEF Stop
  <2>2. "Stopped" \in Labels /\ <<>> \in Seq(Clients) /\ <<>> \in Seq(1 .. MaxEntries)
    BY EmptySeq DEF Labels
  <2>3. LoggingTypeOK'
    BY <1>0, <2>1, <2>2 DEF LoggingTypeOK
  <2> QED BY <1>0, <2>1, <2>2, <2>3, ProceedTypes DEF RestOK
<1> QED BY <1>2, <1>3, <1>4, <1>5, <1>6, <1>7, <1>8 DEF ServerStep, QuietServer

LEMMA ClientTypes ==
  ASSUME IInv, NEW c \in Clients, ClientStep(c) \/ ClientReads(c)
  PROVE  LoggingTypeOK' /\ RestOK' /\ ConnOverClients'
<1>0. LoggingTypeOK /\ RestOK /\ ConnOverClients
  BY TypeParts DEF IInv
<1>1. UNCHANGED inside /\ habit' = habit
  BY DEF ClientStep, ClientReads, Connect, Send, Receive, HalfClose, Close, Reset, OnConnection
<1>2. LoggingTypeOK'
  BY <1>0, <1>1 DEF inside, logging, LoggingTypeOK
<1>3. /\ ConnOverClients' /\ backlog' \in Seq(Clients)
      /\ stage' \in [Clients -> {"new", "backlog", "peer", "gone"}]
      /\ \A d \in Clients : stage[d] = "peer" => stage'[d] = "peer"
      /\ asked' = asked \/ Send(c)
  <2>1. CASE Connect(c)
    <3>1. Append(backlog, c) \in Seq(Clients)
      BY <1>0, AppendProperties DEF RestOK
    <3> QED BY <1>0, <2>1, <3>1 DEF Connect, RestOK, ConnOverClients
  <2>2. CASE ~Connect(c)
    <3>1. PICK k : OnConnection(c, k)
      BY <2>2 DEF ClientStep, ClientReads, Send, Receive, HalfClose, Close, Reset
    <3>2. asked' = asked \/ Send(c)
      BY <2>2 DEF ClientStep, ClientReads, Receive, HalfClose, Close, Reset
    <3> QED BY <1>0, <3>1, <3>2 DEF OnConnection, RestOK, ConnOverClients
  <2> QED BY <2>1, <2>2
<1>4. asked' \in [Clients -> Nat] /\ \A d \in Clients : asked'[d] \in 0 .. Len(habit'[d].sends)
  <2>1. CASE asked' = asked
    BY <1>0, <1>1, <2>1 DEF RestOK
  <2>2. CASE Send(c)
    <3>1. asked[c] + 1 \in 0 .. Len(habit[c].sends)
      BY <1>0, <2>2, NextRequest DEF Send, RestOK
    <3>2. /\ \A d \in Clients : asked'[d] = asked[d] \/ (d = c /\ asked'[d] = asked[c] + 1)
          /\ asked' \in [Clients -> Nat]
      BY <1>0, <2>2 DEF Send, RestOK
    <3> QED BY <1>0, <1>1, <3>1, <3>2 DEF RestOK
  <2> QED BY <1>3, <2>1, <2>2
<1>5. closing' \subseteq Peers(CommandPort)'
  BY <1>0, <1>1, <1>3 DEF inside, RestOK, Peers, port
<1> QED BY <1>0, <1>1, <1>2, <1>3, <1>4, <1>5 DEF inside, RestOK

LEMMA ElsewhereTypes ==
  ASSUME IInv, Elsewhere
  PROVE  LoggingTypeOK' /\ RestOK' /\ ConnOverClients'
<1>0. /\ LoggingTypeOK /\ RestOK /\ ConnOverClients /\ Len(emitted) <= MaxEntries
      /\ UNCHANGED <<server, habit, asked>>
  BY TypeParts, QuietIsQuiet DEF IInv, LogInv, Rising
<1>1. tree' \in 0 .. MaxTrees
  BY <1>0, DebuggingAssumption
     DEF Elsewhere, ChangeTree, EmitElsewhere, SubscribeElsewhere, DropElsewhere, RestOK
<1>2. RestOK' /\ ConnOverClients'
  <2>1. Peers(CommandPort)' = Peers(CommandPort)
    BY <1>0 DEF server, Peers, port
  <2> QED BY <1>0, <1>1, <2>1 DEF server, RestOK, ConnOverClients
<1>3. LoggingTypeOK'
  <2>1. CASE ChangeTree
    BY <1>0, <2>1 DEF ChangeTree, logging, LoggingTypeOK
  <2>2. CASE EmitElsewhere
    <3>1. PICK severity \in Emissions : Emit(severity)
      BY <2>2 DEF EmitElsewhere
    <3> QED BY <1>0, <3>1, EmitTypes, LoggingAssumption
  <2>3. ASSUME NEW r \in Receivers, SubscribeElsewhere(r) PROVE LoggingTypeOK'
    BY <1>0, <2>3, SubscribeTypes DEF SubscribeElsewhere, LoggingTypeOK
  <2>4. ASSUME NEW r \in Receivers, DropElsewhere(r) PROVE LoggingTypeOK'
    <3>1. <<>> \in Seq(1 .. MaxEntries)
      BY EmptySeq
    <3> QED BY <1>0, <2>4, <3>1 DEF DropElsewhere, DropReceiver, LoggingTypeOK
  <2> QED BY <2>1, <2>2, <2>3, <2>4 DEF Elsewhere
<1> QED BY <1>2, <1>3

LEMMA StepTypes ==
  ASSUME IInv, [Next]_vars PROVE TypeOK'
<1>1. ClientInv'
  BY StepClients
<1>2. CASE ServerStep \/ Stop
  BY <1>1, <1>2, ServerTypes, TypeParts
<1>3. CASE \E c \in Clients : ClientStep(c) \/ ClientReads(c)
  BY <1>1, <1>3, ClientTypes, TypeParts
<1>4. CASE Elsewhere
  BY <1>1, <1>4, ElsewhereTypes, TypeParts
<1>5. CASE UNCHANGED vars
  <2>1. TypeOK
    BY DEF IInv
  <2> QED BY <1>5, <2>1
       DEF TypeOK, vars, logging, server, LoggingTypeOK, Peers, port
<1> QED BY <1>2, <1>3, <1>4, <1>5, StepSplits

-----------------------------------------------------------------------------
(* Steps keep the backlog and the phases of the server.                    *)

\* Nobody leaves the backlog but by being accepted, or at the end.
LEMMA BacklogStays ==
  ASSUME IInv, ServerStep, ~AcceptPeers, NEW c \in Clients, stage[c] = "backlog"
  PROVE  stage'[c] = "backlog" /\ backlog' = backlog
<1>1. c \notin Peers({"tree", "log"}) /\ c \notin Peers(CommandPort)
      /\ c \notin Peers({"tree"}) /\ c \notin Peers({"log"})
  BY DEF Peers
<1>2. CASE QuietServer
  BY <1>2, QuietIsQuiet DEF clients
<1>3. CASE PeerCheck
  BY <1>1, <1>3 DEF PeerCheck, Proceed
<1>4. CASE CommandPeersPump
  BY <1>1, <1>4 DEF CommandPeersPump
<1>5. CASE SendProcessTree
  BY <1>1, <1>5 DEF SendProcessTree, Broadcast, Proceed
<1>6. CASE SendLogEntry
  BY <1>1, <1>6 DEF SendLogEntry, Broadcast, Proceed
<1> QED BY <1>2, <1>3, <1>4, <1>5, <1>6 DEF ServerStep, QuietServer

LEMMA StepWaits ==
  ASSUME IInv, [Next]_vars PROVE Waits'
<1>0. backlog \in Seq(Clients) /\ ToSet(backlog) \subseteq Clients /\ Waits
  BY AcceptedWait DEF IInv, TypeOK
<1>1. CASE AcceptPeers
  <2>1. ToSet(backlog') = ToSet(backlog) \cap (Clients \ Accepted)
    BY <1>0, <1>1, RetainSet DEF AcceptPeers
  <2>2. \A c \in Clients \ Accepted : stage'[c] = stage[c]
    BY <1>1 DEF AcceptPeers
  <2> QED BY <1>0, <2>1, <2>2 DEF Waits
<1>2. CASE ServerStep /\ ~AcceptPeers
  <2>1. ASSUME NEW c \in ToSet(backlog)' PROVE stage'[c] = "backlog"
    <3>1. CASE \E d \in Clients : stage[d] = "backlog"
      BY <1>0, <1>2, <2>1, <3>1, BacklogStays DEF Waits
    <3>2. CASE ~ \E d \in Clients : stage[d] = "backlog"
      <4>1. backlog' = backlog
        BY <1>2 DEF ServerStep, EnsureStarted, BindFails, Announce, PeerCheck,
             CommandPeersPump, SendProcessTree, KeepProcessTree, SendLogEntry,
             EndLogEntries, clients
      <4> QED BY <1>0, <2>1, <3>2, <4>1 DEF Waits
    <3> QED BY <3>1, <3>2
  <2> QED BY <2>1 DEF Waits
<1>3. CASE Stop
  <2>1. ToSet(backlog)' = {}
    BY <1>3, ToSetSingle DEF Stop
  <2> QED BY <2>1 DEF Waits
<1>4. ASSUME NEW c \in Clients, ClientStep(c) \/ ClientReads(c) PROVE Waits'
  <2>1. CASE Connect(c)
    <3>1. /\ Append(backlog, c) \in Seq(Clients) /\ Len(Append(backlog, c)) = Len(backlog) + 1
          /\ \A i \in 1 .. Len(backlog) : Append(backlog, c)[i] = backlog[i]
          /\ Append(backlog, c)[Len(backlog) + 1] = c
          /\ Len(backlog) \in Nat
      BY <1>0, AppendProperties, LenProperties
    <3>2. ASSUME NEW d \in ToSet(backlog)' PROVE d \in ToSet(backlog) \/ d = c
      <4>1. backlog' = Append(backlog, c)
        BY <2>1 DEF Connect
      <4>5. ToSet(Append(backlog, c)) =
              {Append(backlog, c)[i] : i \in 1 .. Len(Append(backlog, c))}
        BY <3>1, ToSetIs
      <4>2. PICK i \in 1 .. Len(backlog) + 1 : d = Append(backlog, c)[i]
        BY <3>1, <3>2, <4>1, <4>5
      <4>3. CASE i \in 1 .. Len(backlog)
        BY <1>0, <3>1, <4>2, <4>3, ToSetIs
      <4>4. CASE i \notin 1 .. Len(backlog)
        BY <3>1, <4>2, <4>4
      <4> QED BY <4>3, <4>4
    <3>3. \A d \in Clients : stage'[d] = IF d = c THEN "backlog" ELSE stage[d]
      BY <2>1 DEF Connect, IInv, TypeOK
    <3> QED BY <1>0, <3>2, <3>3 DEF Waits
  <2>2. CASE ~Connect(c)
    <3>1. backlog' = backlog /\ stage' = stage
      BY <1>4, <2>2 DEF ClientStep, ClientReads, Send, Receive, HalfClose, Close, Reset,
                        OnConnection
    <3> QED BY <1>0, <3>1 DEF Waits
  <2> QED BY <2>1, <2>2
<1>5. CASE Elsewhere \/ UNCHANGED vars
  <2>1. UNCHANGED server
    BY <1>5, QuietIsQuiet DEF vars
  <2> QED BY <1>0, <2>1 DEF server, Waits
<1> QED BY <1>1, <1>2, <1>3, <1>4, <1>5, StepSplits

\* The receiver of the server stays subscribed.
LEMMA ReceiverStays ==
  ASSUME IInv, [Next]_vars, ~Stop, at # "Stopped"
  PROVE  /\ dbg \in listening'
         /\ dbg \in ToSet(subscribers) => dbg \in ToSet(subscribers')
         /\ EnsureStarted => dbg \in ToSet(subscribers')
<1>0. /\ dbg \in listening /\ LoggingTypeOK /\ Len(emitted) <= MaxEntries
      /\ dbg \in Receivers
  BY DebuggingAssumption DEF IInv, Phases, TypeOK, LogInv, Rising
<1>1. ASSUME NEW severity \in Error .. Core, Emit(severity)
      PROVE  dbg \in listening' /\ (dbg \in ToSet(subscribers) => dbg \in ToSet(subscribers'))
  BY <1>0, <1>1, EmitTypes
<1>2. CASE EnsureStarted
  BY <1>0, <1>2, SubscribeTypes DEF EnsureStarted
<1>3. CASE BindFails \/ Announce
  <2>1. Error \in Error .. Core /\ Info \in Error .. Core
    BY DEF Error, Info, Core
  <2> QED BY <1>1, <1>3, <2>1 DEF BindFails, Announce, EnsureStarted
<1>4. CASE EmitElsewhere
  <2>1. PICK severity \in Emissions : Emit(severity)
    BY <1>4 DEF EmitElsewhere
  <2>2. ~EnsureStarted
    BY <1>0, <1>4, <2>1 DEF EmitElsewhere, EnsureStarted, server
  <2> QED BY <1>1, <2>1, <2>2, LoggingAssumption
<1>5. CASE ServerStep /\ ~EnsureStarted /\ ~BindFails /\ ~Announce
  <2>1. UNCHANGED <<subscribers, listening>>
    BY <1>5 DEF ServerStep, AcceptPeers, PeerCheck, CommandPeersPump, SendProcessTree,
                KeepProcessTree, SendLogEntry, EndLogEntries, logging
  <2> QED BY <1>0, <1>5, <2>1
<1>6. CASE ~ServerStep /\ ~EmitElsewhere
  <2>1. ~EnsureStarted
    BY <1>6 DEF ServerStep
  <2>2. CASE \E c \in Clients : ClientStep(c) \/ ClientReads(c)
    BY <1>0, <2>1, <2>2 DEF ClientStep, ClientReads, inside, logging
  <2>3. CASE ChangeTree \/ UNCHANGED vars
    BY <1>0, <2>1, <2>3 DEF ChangeTree, vars, logging
  <2>4. ASSUME NEW r \in Receivers, SubscribeElsewhere(r)
        PROVE  dbg \in listening' /\ (dbg \in ToSet(subscribers) => dbg \in ToSet(subscribers'))
    BY <1>0, <2>4, SubscribeTypes DEF SubscribeElsewhere
  <2>5. ASSUME NEW r \in Receivers, DropElsewhere(r)
        PROVE  dbg \in listening' /\ (dbg \in ToSet(subscribers) => dbg \in ToSet(subscribers'))
    BY <1>0, <2>5 DEF DropElsewhere, DropReceiver
  <2> QED BY <1>6, <2>1, <2>2, <2>3, <2>4, <2>5, StepSplits DEF Elsewhere
<1> QED BY <1>2, <1>3, <1>4, <1>5, <1>6

LEMMA StepPhases ==
  ASSUME IInv, [Next]_vars PROVE Phases'
<1>0. Phases /\ stage \in [Clients -> {"new", "backlog", "peer", "gone"}] /\ at \in Labels
  BY DEF IInv, TypeOK
<1>1. CASE Stop
  <2>1. at' = "Stopped" /\ \A c \in Clients : Connected(c) => stage'[c] = "gone"
    BY <1>1 DEF Stop, Proceed
  <2>2. \A c \in Clients : ~Connected(c) => stage'[c] = stage[c]
    BY <1>1 DEF Stop, Proceed
  <2> QED BY <2>1, <2>2 DEF Phases, Connected
<1>2. CASE ServerStep
  <2>1. at # "Stopped" /\ ~Stop
    BY <1>2, ServerRuns DEF Stop, ServerStep, EnsureStarted, BindFails, Announce,
      AcceptPeers, PeerCheck, CommandPeersPump, SendProcessTree, KeepProcessTree,
      SendLogEntry, EndLogEntries, Proceed, Broadcast
  <2>2. /\ at' \notin {"Start", "Stopped"}
        /\ at' = "Failed" => at = "Start" /\ stage' = stage
        /\ at \in {"Start", "Failed"} /\ at' # "Failed" => EnsureStarted
    BY <1>2 DEF ServerStep, EnsureStarted, BindFails, Announce,
      AcceptPeers, PeerCheck, CommandPeersPump, SendProcessTree, KeepProcessTree,
      SendLogEntry, EndLogEntries, Proceed, Broadcast, clients
  <2>3. /\ dbg \in listening'
        /\ dbg \in ToSet(subscribers) => dbg \in ToSet(subscribers')
        /\ EnsureStarted => dbg \in ToSet(subscribers')
    BY <2>1, ReceiverStays
  <2> QED BY <1>0, <2>1, <2>2, <2>3 DEF Phases
<1>3. CASE ~ServerStep /\ ~Stop
  <2>1. at' = at
    <3>1. CASE \E c \in Clients : ClientStep(c) \/ ClientReads(c)
      BY <3>1 DEF ClientStep, ClientReads, inside
    <3>2. CASE Elsewhere \/ UNCHANGED vars
      BY <3>2, QuietIsQuiet DEF server, vars
    <3> QED BY <1>3, <3>1, <3>2, StepSplits
  <2>2. stage' = stage \/ (\E c \in Clients : Connect(c))
    <3>1. CASE \E c \in Clients : ClientStep(c) \/ ClientReads(c)
      BY <3>1 DEF ClientStep, ClientReads, Send, Receive, HalfClose, Close, Reset,
                  OnConnection
    <3>2. CASE Elsewhere \/ UNCHANGED vars
      BY <3>2, QuietIsQuiet DEF server, vars
    <3> QED BY <1>3, <3>1, <3>2, StepSplits
  <2>3. at \in {"Start", "Failed", "Stopped"} => stage' = stage
    BY <2>2 DEF Connect
  <2>4. at # "Stopped" => /\ dbg \in listening'
                          /\ dbg \in ToSet(subscribers) => dbg \in ToSet(subscribers')
    BY <1>3, ReceiverStays
  <2> QED BY <1>0, <2>1, <2>3, <2>4 DEF Phases, Connected
<1> QED BY <1>1, <1>2, <1>3

-----------------------------------------------------------------------------
(* Steps keep what the peers of the tree and of the log were told.         *)

LEMMA HabitStays ==
  ASSUME [Next]_vars PROVE habit' = habit
<1>1. CASE \E c \in Clients : ClientStep(c) \/ ClientReads(c)
  BY <1>1 DEF ClientStep, ClientReads, Connect, Send, Receive, HalfClose, Close, Reset,
              OnConnection
<1> QED BY <1>1, ServerRuns, QuietIsQuiet, StepSplits DEF vars

\* Reading from an observer, or parting with it, sends it nothing.
LEMMA CheckSendsNothing ==
  ASSUME ClientInv, PeerCheck, NEW c \in Clients, stage'[c] = "peer"
  PROVE  stage[c] = "peer" /\ conn'[c].queued = conn[c].queued
<1> DEFINE peers == Peers({"tree", "log"})
           read(d) == IF DisconnectRequested(conn[d]) THEN DoneSet(ReadAvailable(conn[d]))
                                                      ELSE ReadAvailable(conn[d])
           ks == [d \in Clients |-> IF d \in peers THEN read(d) ELSE conn[d]]
           gone == {d \in peers : ~IsOpen(ks[d])}
<1>1. /\ conn'[c] = IF c \in gone THEN DoneSet(ks[c]) ELSE ks[c]
      /\ stage'[c] = IF c \in gone THEN "gone" ELSE stage[c]
  BY DEF PeerCheck, Proceed
<1>2. c \notin gone /\ stage[c] = "peer" /\ conn'[c] = ks[c]
  BY <1>1
<1>3. CASE c \notin peers
  BY <1>2, <1>3
<1>4. CASE c \in peers
  <2>1. conn[c] \in Connection(Request, Message)
    BY DEF ClientInv, ClientOK, Sound
  <2>2. ReadAvailable(conn[c]).queued = conn[c].queued
    BY <2>1 DEF ReadAvailable, Connection
  <2>3. DoneSet(ReadAvailable(conn[c])).queued = ReadAvailable(conn[c]).queued
    BY <2>1 DEF DoneSet, ReadAvailable, Connection
  <2>4. conn'[c] = read(c)
    BY <1>2, <1>4
  <2> QED BY <1>2, <2>2, <2>3, <2>4
<1> QED BY <1>3, <1>4

\* Nothing but a broadcast sends something to an observer, and nobody becomes
\* one but by being accepted.
LEMMA ObserversStay ==
  ASSUME IInv, [Next]_vars, ~AcceptPeers, ~SendProcessTree, ~SendLogEntry,
         NEW c \in Clients, port(c) \in {"tree", "log"}, stage'[c] = "peer"
  PROVE  stage[c] = "peer" /\ conn'[c].queued = conn[c].queued
<1>1. CASE QuietServer
  BY <1>1, QuietIsQuiet DEF clients
<1>2. CASE PeerCheck
  BY <1>2, CheckSendsNothing DEF IInv
<1>3. CASE CommandPeersPump
  <2>1. c \notin Peers(CommandPort)
    BY DEF Peers, CommandPort
  <2> QED BY <1>3, <2>1 DEF CommandPeersPump
<1>4. CASE Stop
  BY <1>4 DEF Stop, Proceed, Connected
<1>5. ASSUME NEW d \in Clients, ClientStep(d) \/ ClientReads(d)
      PROVE  stage[c] = "peer" /\ conn'[c].queued = conn[c].queued
  BY <1>5, ClientsMove DEF OwnMove, IInv
<1>6. CASE Elsewhere \/ UNCHANGED vars
  BY <1>6, QuietIsQuiet DEF server, vars
<1> QED BY <1>1, <1>2, <1>3, <1>4, <1>5, <1>6, StepSplits DEF ServerStep, QuietServer

\* A broadcast sends its message to the peers of its port and to nobody else.
LEMMA BroadcastSends ==
  ASSUME IInv, NEW p \in {"tree", "log"}, NEW m \in Message, NEW l, Broadcast(p, m, l),
         NEW c \in Clients, stage'[c] = "peer"
  PROVE  /\ stage[c] = "peer"
         /\ conn'[c].queued = IF port(c) = p THEN conn[c].queued \o <<m>> ELSE conn[c].queued
<1> DEFINE peers == Peers({p})
           ks == [d \in Clients |-> IF d \in peers THEN QueueSend(conn[d], <<m>>) ELSE conn[d]]
           gone == {d \in peers : ~IsOpen(ks[d])}
<1>1. /\ conn'[c] = IF c \in gone THEN DoneSet(ks[c]) ELSE ks[c]
      /\ stage'[c] = IF c \in gone THEN "gone" ELSE stage[c]
  BY DEF Broadcast, Proceed
<1>2. c \notin gone /\ stage[c] = "peer" /\ conn'[c] = ks[c]
  BY <1>1
<1>3. c \in peers <=> port(c) = p
  BY <1>2 DEF Peers
<1>4. Sound(conn[c]) /\ <<m>> \in Seq(Message)
  BY DEF IInv, ClientInv, ClientOK
<1>5. QueueSend(conn[c], <<m>>).queued = conn[c].queued \o <<m>>
  BY <1>4, QueueSendSends DEF Sends
<1> QED BY <1>2, <1>3, <1>5

\* Who is accepted as an observer has been sent nothing.
LEMMA AcceptedObserver ==
  ASSUME IInv, AcceptPeers, NEW c \in Clients, port(c) \in {"tree", "log"}, stage'[c] = "peer"
  PROVE  \/ stage[c] = "peer" /\ conn'[c] = conn[c] /\ joined'[c] = joined[c]
         \/ c \in Accepted /\ conn'[c].queued = <<>> /\ joined'[c] = Len(emitted)
<1>1. CASE c \notin Accepted
  BY <1>1 DEF AcceptPeers
<1>2. CASE c \in Accepted
  <2>1. stage[c] = "backlog"
    BY <1>2, AcceptedWait DEF IInv, Waits, TypeOK
  <2>2. conn[c].queued = <<>>
    BY <2>1 DEF IInv, ClientInv, ClientOK
  <2>3. conn'[c] = conn[c]
    BY <1>2, OnConnectType DEF AcceptPeers, QueueSend
  <2> QED BY <1>2, <2>2, <2>3 DEF AcceptPeers
<1> QED BY <1>1, <1>2

LEMMA TellsNothing ==
  ASSUME NEW w, NEW last \in Nat, NEW f
  PROVE  Tells(<<>>, w, last, last, f) /\ RisesTo(<<>>, last)
BY EmptySeq DEF Tells, RisesTo

\* An entry that is emitted waits to be taken.
LEMMA TellsEmitted ==
  ASSUME NEW w \in Seq(1 .. MaxEntries), NEW last \in Nat, RisesTo(w, last)
  PROVE  /\ RisesTo(w, last + 1) /\ RisesTo(Append(w, last + 1), last + 1)
         /\ \A f : \A q \in Seq(Message), first \in Nat :
              Tells(q, w, last, first, f) => Tells(q, Append(w, last + 1), last + 1, first, f)
<1> DEFINE v == Append(w, last + 1)
<1>1. Len(w) \in Nat /\ w \in Seq(Nat)
  BY LenProperties, LoggingAssumption
<1>2. /\ Len(v) = Len(w) + 1 /\ v[Len(w) + 1] = last + 1
      /\ \A i \in 1 .. Len(w) : v[i] = w[i]
  BY <1>1, AppendProperties
<1> HIDE DEF v
<1>3. \A i \in 1 .. Len(v) : i \in 1 .. Len(w) \/ i = Len(w) + 1
  BY <1>1, <1>2
<1>4. \A i \in 1 .. Len(w) : i \in 1 .. Len(v) /\ i # Len(w) + 1
  BY <1>1, <1>2
<1>5. RisesTo(w, last + 1)
  BY DEF RisesTo
<1>6. RisesTo(v, last + 1)
  <2>1. \A i \in 1 .. Len(w) : v[i] \in 1 .. last
    BY <1>2 DEF RisesTo
  <2>2. \A i \in 1 .. Len(v) : v[i] \in 1 .. last + 1
    BY <1>2, <1>3, <2>1
  <2>3. ASSUME NEW i \in 1 .. Len(v), NEW j \in 1 .. Len(v), i < j PROVE v[i] < v[j]
    <3>1. i \in 1 .. Len(w)
      BY <1>1, <1>2, <2>3
    <3>2. CASE j \in 1 .. Len(w)
      BY <1>2, <2>3, <3>1, <3>2 DEF RisesTo
    <3>3. CASE j = Len(w) + 1
      BY <1>2, <2>1, <3>1, <3>3
    <3> QED BY <1>3, <3>2, <3>3
  <2> QED BY <2>2, <2>3 DEF RisesTo
<1>7. ASSUME NEW q \in Seq(Message), NEW first \in Nat, NEW f, Tells(q, w, last, first, f)
      PROVE  Tells(q, v, last + 1, first, f)
  <2>1. \A i \in 1 .. Len(q) : q[i][2] \in 1 .. last + 1 /\ q[i][2] < last + 1
    BY <1>7 DEF Tells
  <2>2. \A i \in 1 .. Len(q) : \A j \in 1 .. Len(v) : q[i][2] < v[j]
    BY <1>2, <1>3, <1>7, <2>1 DEF Tells
  <2>3. ASSUME NEW n \in (first + 1) .. last + 1
        PROVE  n \in f \/ (\E i \in 1 .. Len(q) : q[i][2] = n) \/ \E j \in 1 .. Len(v) : v[j] = n
    <3>1. CASE n = last + 1
      <4>1. Len(w) + 1 \in 1 .. Len(v)
        BY <1>1, <1>2
      <4> QED BY <1>2, <3>1, <4>1
    <3>2. CASE n # last + 1
      <4>1. n \in (first + 1) .. last
        BY <3>2
      <4> QED BY <1>2, <1>4, <1>7, <4>1 DEF Tells
    <3> QED BY <3>1, <3>2
  <2> QED BY <1>7, <2>1, <2>2, <2>3 DEF Tells
<1> QED BY <1>5, <1>6, <1>7 DEF v

\* The first of the entries that wait is taken and sent, or filtered.
LEMMA TellsTaken ==
  ASSUME NEW w \in Seq(1 .. MaxEntries), w # <<>>, NEW last \in Nat, RisesTo(w, last)
  PROVE  /\ RisesTo(Tail(w), last)
         /\ \A f : \A q \in Seq(Message), first \in Nat : Tells(q, w, last, first, f) =>
              /\ Tells(q, Tail(w), last, first, f \cup {Head(w)})
              /\ Tells(q \o <<<<"log", Head(w)>>>>, Tail(w), last, first, f)
<1> DEFINE v == Tail(w)
           n == Head(w)
<1>1. Len(w) \in Nat /\ Len(w) > 0
  BY LenProperties, EmptySeq
<1>2. /\ n = w[1] /\ Len(v) = Len(w) - 1
      /\ \A j \in 1 .. Len(v) : v[j] = w[j + 1]
  BY <1>1, HeadTailProperties
<1> HIDE DEF v, n
<1>3. /\ 1 \in 1 .. Len(w)
      /\ \A j \in 1 .. Len(v) : j + 1 \in 1 .. Len(w) /\ 1 < j + 1
      /\ \A j \in 1 .. Len(w) : j = 1 \/ (j - 1 \in 1 .. Len(v) /\ (j - 1) + 1 = j)
  BY <1>1, <1>2
<1>4. RisesTo(v, last) /\ n \in 1 .. last /\ \A j \in 1 .. Len(v) : n < v[j]
  <2>1. n \in 1 .. last /\ \A j \in 1 .. Len(v) : n < v[j] /\ v[j] \in 1 .. last
    BY <1>2, <1>3 DEF RisesTo
  <2>2. ASSUME NEW i \in 1 .. Len(v), NEW j \in 1 .. Len(v), i < j PROVE v[i] < v[j]
    <3>1. i + 1 \in 1 .. Len(w) /\ j + 1 \in 1 .. Len(w) /\ i + 1 < j + 1
      BY <1>3, <2>2
    <3> QED BY <1>2, <3>1 DEF RisesTo
  <2> QED BY <2>1, <2>2 DEF RisesTo
<1>5. ASSUME NEW j \in 1 .. Len(w)
      PROVE  w[j] = n \/ \E i \in 1 .. Len(v) : v[i] = w[j]
  <2>1. CASE j = 1
    BY <1>2, <2>1
  <2>2. CASE j - 1 \in 1 .. Len(v) /\ (j - 1) + 1 = j
    <3>1. v[j - 1] = w[j]
      BY <1>2, <2>2
    <3> QED BY <2>2, <3>1
  <2> QED BY <1>3, <2>1, <2>2
<1>6. ASSUME NEW q \in Seq(Message), NEW first \in Nat, NEW f, Tells(q, w, last, first, f)
      PROVE  Tells(q, v, last, first, f \cup {n})
  <2>1. \A i \in 1 .. Len(q) : \A j \in 1 .. Len(v) : q[i][2] < v[j]
    BY <1>2, <1>3, <1>6 DEF Tells
  <2>2. ASSUME NEW e \in (first + 1) .. last
        PROVE  \/ e \in f \cup {n}
               \/ (\E i \in 1 .. Len(q) : q[i][2] = e) \/ \E j \in 1 .. Len(v) : v[j] = e
    <3>1. CASE \E j \in 1 .. Len(w) : w[j] = e
      BY <1>5, <3>1
    <3>2. CASE ~ \E j \in 1 .. Len(w) : w[j] = e
      BY <1>6, <3>2 DEF Tells
    <3> QED BY <3>1, <3>2
  <2> QED BY <1>6, <2>1, <2>2 DEF Tells
<1>7. ASSUME NEW q \in Seq(Message), NEW first \in Nat, NEW f, Tells(q, w, last, first, f)
      PROVE  Tells(q \o <<<<"log", n>>>>, v, last, first, f)
  <2> DEFINE m == <<"log", n>>
             p == q \o <<m>>
  <2>1. Len(q) \in Nat /\ m[2] = n
    BY LenProperties
  <2>2. /\ Len(p) = Len(q) + 1 /\ p[Len(q) + 1] = m
        /\ \A i \in 1 .. Len(q) : p[i] = q[i]
    BY <2>1
  <2> HIDE DEF p, m
  <2>3. /\ \A i \in 1 .. Len(p) : i \in 1 .. Len(q) \/ i = Len(q) + 1
        /\ \A i \in 1 .. Len(q) : i \in 1 .. Len(p) /\ i < Len(q) + 1
        /\ Len(q) + 1 \in 1 .. Len(p)
    BY <2>1, <2>2
  <2>4. \A i \in 1 .. Len(q) : q[i][2] \in 1 .. last /\ q[i][2] < n
    BY <1>2, <1>3, <1>7 DEF Tells
  <2>5. \A i \in 1 .. Len(p) : p[i][2] \in 1 .. last
    BY <1>4, <2>1, <2>2, <2>3, <2>4
  <2>6. \A i, j \in 1 .. Len(p) : i < j => p[i][2] < p[j][2]
    <3>1. ASSUME NEW i \in 1 .. Len(p), NEW j \in 1 .. Len(p), i < j PROVE p[i][2] < p[j][2]
      <4>1. i \in 1 .. Len(q) /\ p[i] = q[i]
        BY <2>1, <2>2, <2>3, <3>1
      <4>2. CASE j \in 1 .. Len(q)
        BY <1>7, <2>2, <3>1, <4>1, <4>2 DEF Tells
      <4>3. CASE j = Len(q) + 1
        BY <2>1, <2>2, <2>4, <4>1, <4>3
      <4> QED BY <2>3, <4>2, <4>3
    <3> QED BY <3>1
  <2>7. \A i \in 1 .. Len(p) : \A j \in 1 .. Len(v) : p[i][2] < v[j]
    <3>1. ASSUME NEW i \in 1 .. Len(q), NEW j \in 1 .. Len(v) PROVE q[i][2] < v[j]
      BY <1>2, <1>3, <1>7, <3>1 DEF Tells
    <3> QED BY <1>4, <2>1, <2>2, <2>3, <3>1
  <2>8. ASSUME NEW e \in (first + 1) .. last
        PROVE  e \in f \/ (\E i \in 1 .. Len(p) : p[i][2] = e) \/ \E j \in 1 .. Len(v) : v[j] = e
    <3>1. CASE e = n
      BY <2>1, <2>2, <2>3, <3>1
    <3>2. CASE \E i \in 1 .. Len(q) : q[i][2] = e
      BY <2>2, <2>3, <3>2
    <3>3. CASE \E j \in 1 .. Len(w) : w[j] = e
      BY <1>5, <3>1, <3>3
    <3> QED BY <1>7, <3>2, <3>3 DEF Tells
  <2>9. Tells(p, v, last, first, f)
    BY <2>5, <2>6, <2>7, <2>8 DEF Tells
  <2> QED BY <2>9 DEF p, m
<1> QED BY <1>4, <1>6, <1>7 DEF v, n

\* What the log was and is, as sequences and numbers.
LEMMA LogParts ==
  ASSUME IInv
  PROVE  /\ channel[dbg] \in Seq(1 .. MaxEntries) /\ Len(emitted) \in Nat
         /\ RisesTo(channel[dbg], Len(emitted)) /\ Len(emitted) <= MaxEntries
         /\ \A c \in Clients : /\ joined[c] \in Nat /\ conn[c].queued \in Seq(Message)
                               /\ c \in Peers({"log"}) => Told(c)
<1>1. channel[dbg] \in Seq(1 .. MaxEntries) /\ Len(emitted) \in Nat
  BY DebuggingAssumption, LenProperties DEF IInv, TypeOK, LoggingTypeOK
<1>2. \A c \in Clients : joined[c] \in Nat
  BY LoggingAssumption DEF IInv, TypeOK
<1>3. \A c \in Clients : conn[c].queued \in Seq(Message)
  BY Fields DEF IInv, ClientInv, ClientOK
<1> QED BY <1>1, <1>2, <1>3 DEF IInv, LogInv, Rising

\* The steps that do not touch the log, nor what its peers were told.
LEMMA LogStays ==
  ASSUME IInv, [Next]_vars, ~AcceptPeers, ~SendLogEntry, ~Stop,
         ~BindFails, ~Announce, ~EmitElsewhere
  PROVE  UNCHANGED <<emitted, joined, filtered>> /\ channel'[dbg] = channel[dbg]
<1>1. CASE \E c \in Clients : ClientStep(c) \/ ClientReads(c)
  BY <1>1 DEF ClientStep, ClientReads, inside, logging
<1>2. CASE ServerStep
  BY <1>2 DEF ServerStep, EnsureStarted, PeerCheck, CommandPeersPump, SendProcessTree,
              KeepProcessTree, EndLogEntries, logging
<1>3. CASE ChangeTree \/ UNCHANGED vars
  BY <1>3 DEF ChangeTree, vars, logging, server
<1>4. ASSUME NEW r \in Receivers, SubscribeElsewhere(r)
      PROVE  UNCHANGED <<emitted, joined, filtered>> /\ channel'[dbg] = channel[dbg]
  BY <1>4 DEF SubscribeElsewhere, server
<1>5. ASSUME NEW r \in Receivers, DropElsewhere(r)
      PROVE  UNCHANGED <<emitted, joined, filtered>> /\ channel'[dbg] = channel[dbg]
  BY <1>5, DebuggingAssumption DEF DropElsewhere, DropReceiver, server, IInv, TypeOK, LoggingTypeOK
<1> QED BY <1>1, <1>2, <1>3, <1>4, <1>5, StepSplits DEF Elsewhere

\* The peers of the log after a step.
LEMMA LogPeersAfter ==
  ASSUME [Next]_vars, NEW c \in Peers({"log"})'
  PROVE  /\ c \in Clients /\ stage'[c] = "peer" /\ port(c) = "log"
         /\ stage[c] = "peer" => c \in Peers({"log"})
BY HabitStays DEF Peers, port

\* While the log has peers, the receiver of the server gets what is emitted.
LEMMA Listens ==
  ASSUME IInv, NEW c \in Peers({"log"})
  PROVE  dbg \in ToSet(subscribers) /\ dbg \in listening
<1>1. stage[c] = "peer" /\ c \in Clients
  BY DEF Peers
<1>2. at \notin {"Start", "Failed", "Stopped"}
  BY <1>1 DEF IInv, Phases, Connected
<1> QED BY <1>2 DEF IInv, Phases

\* An entry is emitted, by the server or elsewhere.
LEMMA EmissionTells ==
  ASSUME IInv, [Next]_vars, BindFails \/ Announce \/ EmitElsewhere
  PROVE  LogInv'
<1>1. PICK severity \in Error .. Core : Emit(severity)
  <2>1. Error \in Error .. Core /\ Info \in Error .. Core
    BY DEF Error, Info, Core
  <2> QED BY <2>1, LoggingAssumption DEF BindFails, Announce, EmitElsewhere
<1>2. /\ ~AcceptPeers /\ ~SendProcessTree /\ ~SendLogEntry
      /\ UNCHANGED <<joined, filtered>>
  <2>1. Len(emitted') = Len(emitted) + 1 /\ Len(emitted) \in Nat
    BY <1>1, EmitTypes, LogParts DEF IInv, TypeOK
  <2>2. emitted' # emitted
    BY <2>1
  <2> QED BY <2>2 DEF BindFails, Announce, EmitElsewhere, server, AcceptPeers,
             SendProcessTree, SendLogEntry, logging
<1>3. /\ Len(emitted') = Len(emitted) + 1 /\ Len(emitted') <= MaxEntries
      /\ channel'[dbg] = IF dbg \in ToSet(subscribers) /\ dbg \in listening
                         THEN Append(channel[dbg], Len(emitted) + 1) ELSE channel[dbg]
  BY <1>1, EmitTypes, LogParts DEF IInv, TypeOK
<1>4. /\ RisesTo(channel[dbg], Len(emitted) + 1)
      /\ RisesTo(Append(channel[dbg], Len(emitted) + 1), Len(emitted) + 1)
      /\ \A f : \A q \in Seq(Message), first \in Nat :
           Tells(q, channel[dbg], Len(emitted), first, f) =>
             Tells(q, Append(channel[dbg], Len(emitted) + 1), Len(emitted) + 1, first, f)
  BY LogParts, TellsEmitted
<1>5. Rising'
  BY <1>3, <1>4 DEF Rising
<1>6. ASSUME NEW c \in Peers({"log"})' PROVE Told(c)'
  <2>1. /\ c \in Clients /\ c \in Peers({"log"})
        /\ conn'[c].queued = conn[c].queued
    BY <1>2, LogPeersAfter, ObserversStay
  <2>2. Told(c) /\ joined[c] \in Nat /\ conn[c].queued \in Seq(Message)
    BY <2>1, LogParts
  <2>3. channel'[dbg] = Append(channel[dbg], Len(emitted) + 1)
    BY <1>3, <2>1, Listens
  <2>4. Tells(conn[c].queued, Append(channel[dbg], Len(emitted) + 1), Len(emitted) + 1,
              joined[c], filtered)
    BY <1>4, <2>2 DEF Told
  <2> QED BY <1>2, <1>3, <2>1, <2>3, <2>4 DEF Told
<1> QED BY <1>5, <1>6 DEF LogInv

\* The server takes an entry from its channel.
LEMMA TakingTells ==
  ASSUME IInv, [Next]_vars, SendLogEntry
  PROVE  LogInv'
<1> DEFINE w == channel[dbg]
           n == Head(w)
<1>1. w \in Seq(1 .. MaxEntries) /\ w # <<>> /\ RisesTo(w, Len(emitted)) /\ Len(emitted) \in Nat
  BY LogParts DEF SendLogEntry
<1>2. /\ RisesTo(Tail(w), Len(emitted))
      /\ \A f : \A q \in Seq(Message), first \in Nat : Tells(q, w, Len(emitted), first, f) =>
           /\ Tells(q, Tail(w), Len(emitted), first, f \cup {n})
           /\ Tells(q \o <<<<"log", n>>>>, Tail(w), Len(emitted), first, f)
  BY <1>1, TellsTaken
<1>3. channel'[dbg] = Tail(w) /\ emitted' = emitted /\ joined' = joined
  BY DebuggingAssumption DEF SendLogEntry, IInv, TypeOK, LoggingTypeOK
<1>4. Rising'
  BY <1>2, <1>3, LogParts DEF Rising
<1>5. <<"log", n>> \in Message
  BY TakenEntry DEF SendLogEntry, IInv, LogInv
<1>6. ASSUME NEW c \in Peers({"log"})' PROVE Told(c)'
  <2>1. c \in Clients /\ stage'[c] = "peer" /\ port(c) = "log" /\ (stage[c] = "peer" => c \in Peers({"log"}))
    BY <1>6, LogPeersAfter
  <2>2. CASE emitted[n] > socketLevel
    <3>1. filtered' = filtered \cup {n} /\ conn' = conn /\ stage' = stage
      BY <2>2 DEF SendLogEntry
    <3>2. Told(c) /\ joined[c] \in Nat /\ conn[c].queued \in Seq(Message)
      BY <2>1, <3>1, LogParts
    <3>3. Tells(conn[c].queued, Tail(w), Len(emitted), joined[c], filtered \cup {n})
      BY <1>2, <3>2 DEF Told
    <3> QED BY <1>3, <3>1, <3>3 DEF Told
  <2>3. CASE ~(emitted[n] > socketLevel)
    <3>1. Broadcast("log", <<"log", n>>, "Logs") /\ filtered' = filtered
      BY <2>3 DEF SendLogEntry
    <3>2. stage[c] = "peer" /\ conn'[c].queued = conn[c].queued \o <<<<"log", n>>>>
      BY <1>5, <2>1, <3>1, BroadcastSends
    <3>3. Told(c) /\ joined[c] \in Nat /\ conn[c].queued \in Seq(Message)
      BY <2>1, <3>2, LogParts
    <3>4. Tells(conn[c].queued \o <<<<"log", n>>>>, Tail(w), Len(emitted), joined[c], filtered)
      BY <1>2, <3>3 DEF Told
    <3> QED BY <1>3, <3>1, <3>2, <3>4 DEF Told
  <2> QED BY <2>2, <2>3
<1> QED BY <1>4, <1>6 DEF LogInv

LEMMA StepLogs ==
  ASSUME IInv, [Next]_vars PROVE LogInv'
<1>0. Rising /\ RisesTo(channel[dbg], Len(emitted)) /\ Len(emitted) <= MaxEntries
      /\ Len(emitted) \in Nat
  BY LogParts DEF Rising
<1>1. CASE AcceptPeers
  <2>1. UNCHANGED logging /\ filtered' = filtered
    BY <1>1 DEF AcceptPeers
  <2>2. Rising'
    BY <1>0, <2>1 DEF logging, Rising
  <2>3. ASSUME NEW c \in Peers({"log"})' PROVE Told(c)'
    <3>1. c \in Clients /\ stage'[c] = "peer" /\ port(c) = "log" /\ (stage[c] = "peer" => c \in Peers({"log"}))
      BY <2>3, LogPeersAfter
    <3>2. CASE stage[c] = "peer" /\ conn'[c] = conn[c] /\ joined'[c] = joined[c]
      BY <2>1, <3>1, <3>2, LogParts DEF logging, Told
    <3>3. CASE conn'[c].queued = <<>> /\ joined'[c] = Len(emitted)
      BY <1>0, <2>1, <3>3, TellsNothing DEF logging, Told
    <3> QED BY <1>1, <3>1, <3>2, <3>3, AcceptedObserver
  <2> QED BY <2>2, <2>3 DEF LogInv
<1>2. CASE SendLogEntry
  BY <1>2, TakingTells
<1>3. CASE BindFails \/ Announce \/ EmitElsewhere
  BY <1>3, EmissionTells
<1>4. CASE Stop
  <2>1. channel'[dbg] = <<>> /\ emitted' = emitted
    BY <1>4, DebuggingAssumption DEF Stop, IInv, TypeOK, LoggingTypeOK
  <2>2. Rising'
    BY <1>0, <2>1, TellsNothing DEF Rising
  <2>3. Peers({"log"})' = {}
    BY <1>4 DEF Stop, Proceed, Peers, Connected
  <2> QED BY <2>2, <2>3 DEF LogInv
<1>5. CASE ~AcceptPeers /\ ~SendLogEntry /\ ~Stop /\ ~BindFails /\ ~Announce /\ ~EmitElsewhere
  <2>1. UNCHANGED <<emitted, joined, filtered>> /\ channel'[dbg] = channel[dbg]
    BY <1>5, LogStays
  <2>2. Rising'
    BY <1>0, <2>1 DEF Rising
  <2>3. ASSUME NEW c \in Peers({"log"})' PROVE Told(c)'
    <3>1. c \in Clients /\ stage'[c] = "peer" /\ port(c) = "log" /\ (stage[c] = "peer" => c \in Peers({"log"}))
      BY <2>3, LogPeersAfter
    <3>2. stage[c] = "peer" /\ conn'[c].queued = conn[c].queued
      <4>1. CASE SendProcessTree
        <5>1. Broadcast("tree", <<"tree", tree>>, "Logs") /\ <<"tree", tree>> \in Message
          BY <4>1, MessageOfTree DEF SendProcessTree, IInv
        <5> QED BY <3>1, <5>1, BroadcastSends
      <4>2. CASE ~SendProcessTree
        BY <1>5, <3>1, <4>2, ObserversStay
      <4> QED BY <4>1, <4>2
    <3>3. Told(c)
      BY <3>1, <3>2, LogParts
    <3> QED BY <2>1, <3>2, <3>3 DEF Told
  <2> QED BY <2>2, <2>3 DEF LogInv
<1> QED BY <1>1, <1>2, <1>3, <1>4, <1>5

\* The last message of a queue that was sent one more is that one.
LEMMA LastSent ==
  ASSUME NEW q \in Seq(Message), NEW m
  PROVE  q \o <<m>> # <<>> /\ Last(q \o <<m>>) = m
<1>1. Len(q) \in Nat /\ Len(q \o <<m>>) = Len(q) + 1 /\ (q \o <<m>>)[Len(q) + 1] = m
  BY LenProperties
<1>2. Len(q \o <<m>>) # 0
  BY <1>1
<1> QED BY <1>1, <1>2, EmptySeq DEF Last

LEMMA StepTree ==
  ASSUME IInv, [Next]_vars PROVE TreePeersCurrent'
<1> SUFFICES ASSUME ~treeDirty', NEW c \in Peers({"tree"})'
             PROVE  conn'[c].queued # <<>> /\ Last(conn'[c].queued) = <<"tree", treeCache'>>
  BY DEF TreePeersCurrent
<1>0. /\ c \in Clients /\ stage'[c] = "peer" /\ port(c) = "tree"
      /\ stage[c] = "peer" => c \in Peers({"tree"})
  BY HabitStays DEF Peers, port
<1>1. CASE SendProcessTree
  <2>1. /\ Broadcast("tree", <<"tree", tree>>, "Logs") /\ <<"tree", tree>> \in Message
        /\ treeCache' = tree
    BY <1>1, MessageOfTree DEF SendProcessTree, IInv
  <2>2. conn'[c].queued = conn[c].queued \o <<<<"tree", tree>>>>
    BY <1>0, <2>1, BroadcastSends
  <2> QED BY <1>0, <2>1, <2>2, LogParts, LastSent
<1>2. CASE ~SendProcessTree
  <2>1. treeCache' = treeCache /\ ~treeDirty
    <3>1. CASE AcceptPeers
      BY <3>1 DEF AcceptPeers
    <3>2. CASE ServerStep /\ ~AcceptPeers
      BY <1>2, <3>2 DEF ServerStep, EnsureStarted, BindFails, Announce, PeerCheck,
                  CommandPeersPump, KeepProcessTree, SendLogEntry, EndLogEntries
    <3>3. CASE Stop
      BY <3>3 DEF Stop
    <3>4. CASE \E d \in Clients : ClientStep(d) \/ ClientReads(d)
      BY <3>4 DEF ClientStep, ClientReads, inside
    <3>5. CASE Elsewhere \/ UNCHANGED vars
      BY <3>5, QuietIsQuiet DEF server, vars
    <3> QED BY <3>1, <3>2, <3>3, <3>4, <3>5, StepSplits
  <2>2. stage[c] = "peer" /\ conn'[c].queued = conn[c].queued
    <3>1. CASE AcceptPeers
      <4>1. c \notin Accepted
        BY <1>0, <3>1 DEF AcceptPeers
      <4> QED BY <1>0, <3>1, <4>1, AcceptedObserver
    <3>2. CASE SendLogEntry
      <4> DEFINE n == Head(channel[dbg])
      <4>1. CASE emitted[n] > socketLevel
        BY <1>0, <3>2, <4>1 DEF SendLogEntry
      <4>2. CASE ~(emitted[n] > socketLevel)
        <5>1. Broadcast("log", <<"log", n>>, "Logs")
          BY <3>2, <4>2 DEF SendLogEntry
        <5>2. <<"log", n>> \in Message
          BY <3>2, TakenEntry DEF SendLogEntry, IInv, LogInv
        <5> QED BY <1>0, <5>1, <5>2, BroadcastSends
      <4> QED BY <4>1, <4>2
    <3>3. CASE ~AcceptPeers /\ ~SendLogEntry
      BY <1>0, <1>2, <3>3, ObserversStay
    <3> QED BY <3>1, <3>2, <3>3
  <2> QED BY <1>0, <2>1, <2>2 DEF TreePeersCurrent, IInv
<1> QED BY <1>1, <1>2

-----------------------------------------------------------------------------
(* The theorems.                                                           *)

LEMMA StepHolds ==
  ASSUME IInv, [Next]_vars PROVE IInv'
BY StepTypes, StepClients, StepWaits, StepPhases, StepLogs, StepTree DEF IInv

\* The inductive invariant holds throughout: the connections of the clients,
\* the backlog, the phases of the server, and what its observers were told.
THEOREM ServerInvariant == Spec => []IInv
<1>1. Init => IInv
  BY InitHolds
<1>2. IInv /\ [Next]_vars => IInv'
  BY StepHolds
<1> QED BY <1>1, <1>2, PTL DEF Spec

\* The variables of the server, its clients and the log keep their types, and
\* only command peers are closing.
THEOREM DebuggingTypeCorrect == Spec => []TypeOK
<1>1. IInv => TypeOK
  BY DEF IInv
<1> QED BY <1>1, ServerInvariant, PTL

\* A client that still reads has everything it was sent, in order and whole,
\* or it is on its way; a command peer that the server lets go has every answer
\* and the farewell (flush_pending, command_peers_pump).
THEOREM AnswersNeverLost == Spec => []NoAnswerLost
<1>1. IInv => NoAnswerLost
  <2> SUFFICES ASSUME IInv, NEW c \in Clients, Faithful(c), at # "Stopped"
               PROVE  LET k == conn[c] IN
                      /\ stage[c] = "peer" => k.queued = k.got \o k.wire \o k.pending
                      /\ stage[c] = "gone" /\ port(c) \in CommandPort
                           => k.queued = k.got \o k.wire
    BY DEF NoAnswerLost
  <2> DEFINE k == conn[c]
  <2>1. ClientOK(c) /\ Sound(k) /\ k.queued = k.got \o k.wire \o k.pending
    BY DEF IInv, ClientInv, ClientOK, Sound, Faithful
  <2>2. k.got \o k.wire \in Seq(Message)
    BY <2>1, Fields, ConcatProperties
  <2>3. stage[c] = "gone" /\ port(c) \in CommandPort => k.pending = <<>>
    BY <2>1 DEF ClientOK
  <2>4. (k.got \o k.wire) \o <<>> = k.got \o k.wire
    BY <2>2, ConcatEmptySeq
  <2> HIDE DEF k
  <2>5. stage[c] = "gone" /\ port(c) \in CommandPort => k.queued = k.got \o k.wire
    BY <2>1, <2>3, <2>4
  <2> QED BY <2>1, <2>5 DEF k
<1> QED BY <1>1, ServerInvariant, PTL

\* An automatic session answers one line and no more, however many lines its
\* client sends while the answer waits to be written.
THEOREM AutoAlwaysAnswersOnce == Spec => []AutoAnswersOnce
<1>1. IInv => AutoAnswersOnce
  BY DEF IInv, ClientInv, ClientOK, OneAnswer, AutoAnswersOnce
<1> QED BY <1>1, ServerInvariant, PTL

\* When the tree is not dirty, every peer of the tree was last sent the tree in
\* the cache, also one that came between two updates (accept_peers sets dirty).
THEOREM TreePeersAlwaysCurrent == Spec => []TreePeersCurrent
<1>1. IInv => TreePeersCurrent
  BY DEF IInv
<1> QED BY <1>1, ServerInvariant, PTL

\* A peer of the log is sent each entry emitted since it was accepted once and
\* in order, but those the socket level filters and those not taken yet.
THEOREM LogPeersAlwaysComplete == Spec => []LogPeersComplete
<1>1. IInv => LogPeersComplete
  <2> SUFFICES ASSUME IInv, NEW c \in Peers({"log"})
      PROVE  LET sent == [i \in DOMAIN conn[c].queued |-> conn[c].queued[i][2]]
             IN  /\ \A i, j \in DOMAIN sent : i < j => sent[i] < sent[j]
                 /\ (joined[c] + 1) .. Len(emitted)
                       \subseteq ToSet(sent) \cup filtered \cup ToSet(channel[dbg])
    BY DEF LogPeersComplete
  <2> DEFINE q == conn[c].queued
             sent == [i \in DOMAIN q |-> q[i][2]]
  <2>1. c \in Clients
    BY DEF Peers
  <2>2. Told(c) /\ q \in Seq(Message) /\ channel[dbg] \in Seq(1 .. MaxEntries)
    BY <2>1, LogParts
  <2>3. DOMAIN q = 1 .. Len(q)
    BY <2>2, LenProperties
  <2>4. \A i, j \in DOMAIN sent : i < j => sent[i] < sent[j]
    BY <2>2, <2>3 DEF Told, Tells
  <2>5. ToSet(sent) = {q[i][2] : i \in 1 .. Len(q)}
    BY <2>3 DEF ToSet
  <2>6. ToSet(channel[dbg]) = {channel[dbg][j] : j \in 1 .. Len(channel[dbg])}
    BY <2>2, ToSetIs
  <2>7. ASSUME NEW n \in (joined[c] + 1) .. Len(emitted)
        PROVE  n \in ToSet(sent) \cup filtered \cup ToSet(channel[dbg])
    BY <2>2, <2>5, <2>6 DEF Told, Tells
  <2> QED BY <2>4, <2>7
<1> QED BY <1>1, ServerInvariant, PTL
=============================================================================
