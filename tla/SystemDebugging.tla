-------------------------- MODULE SystemDebugging --------------------------
(***************************************************************************)
(* The debugging server of src/src/system_debugging.rs with its clients.   *)
(* One callback accepts, reads, executes and broadcasts in five steps;     *)
(* between two of them any client, the operating system and every other    *)
(* thread may run.  What a client does while one step goes from peer to    *)
(* peer commutes with the peers before it, so a step is one action, but    *)
(* that each log entry is a step of its own.                               *)
(*                                                                         *)
(* The session of a command peer is what SystemCommanding promises: lines  *)
(* are executed in turn, ^C ends it, an automatic one ends with its first  *)
(* line.  A request is a line with its end, or "quit" for ^C.              *)
(***************************************************************************)
EXTENDS Net, Logging, FiniteSets

CONSTANTS
  Clients,
  OverIPv6,     \* the clients that connect over IPv6
  Habits,       \* the habits the clients may have, a function of the clients each
  dbg,          \* the receiver of the debugging server
  BindMayFail,  \* may a port be in use?
  MayStop,      \* may the process end and be dropped?
  MaxTrees      \* bound: how often the tree changes

Port == {"tree", "log", "cmd", "auto"}
Request == {"help", "levelLog", "levelLogSys", "quit"}

\* The port a client connects to, what it may send, in this order, and how it
\* may leave: "half" ends its own side only, "close" closes the connection.
Habit == [port : Port, sends : Seq(Request), leaves : SUBSET {"half", "close"}]

ASSUME DebuggingAssumption ==
  /\ OverIPv6 \subseteq Clients
  /\ Habits \subseteq [Clients -> Habit]
  /\ dbg \in Receivers
  /\ BindMayFail \in BOOLEAN /\ MayStop \in BOOLEAN
  /\ MaxTrees \in Nat

VARIABLES
  at,           \* where the callback process is; "Accept" between two ticks
  conn,         \* conn[c]: the connection of client c
  habit,        \* habit[c]: what client c is like, for good
  stage,        \* stage[c]: "new", "backlog", "peer", "gone"
  backlog,      \* who waits to be accepted, in order of arrival
  closing,      \* the command peers that are closing
  socketLevel,  \* SOCKET_LOG_LEVEL
  tree,         \* what the tree would be rendered to
  treeCache, treeDirty,
  peerLogOnceConnected,
  asked,        \* asked[c]: how many requests client c has sent
  joined,       \* history: how many entries were emitted when c was accepted
  filtered      \* history: the entries above the socket level when taken

server == <<at, conn, stage, backlog, closing, socketLevel, treeCache, treeDirty,
            peerLogOnceConnected, joined, filtered>>
clients == <<conn, habit, stage, backlog, asked>>
vars == <<logging, server, habit, asked, tree>>

Labels == {"Start", "Announce", "Accept", "Check", "Pump", "Tree", "Logs",
           "Failed", "Stopped"}

\* What is sent to a client, in units that are written as a whole.
Message ==
  {"welcome", "bye"} \X {0} \cup {"answer", "more"} \X Request
    \cup {"tree"} \X (0 .. MaxTrees) \cup {"log"} \X (1 .. MaxEntries)

Init ==
  /\ LoggingInit
  /\ at = "Start"
  /\ conn = [c \in Clients |-> NewConnection]
  /\ habit \in Habits
  /\ stage = [c \in Clients |-> "new"]
  /\ backlog = <<>>
  /\ closing = {}
  /\ socketLevel = Info
  /\ tree = 0 /\ treeCache = 0 /\ treeDirty = TRUE
  /\ peerLogOnceConnected = FALSE
  /\ asked = [c \in Clients |-> 0]
  /\ joined = [c \in Clients |-> 0]
  /\ filtered = {}

port(c) == habit[c].port

Peers(ports) == {c \in Clients : stage[c] = "peer" /\ port(c) \in ports}

CommandPort == {"cmd", "auto"}

-----------------------------------------------------------------------------
(* The clients and the operating system.                                   *)

Connect(c) ==
  /\ stage[c] = "new"
  /\ at \notin {"Start", "Failed", "Stopped"}
  /\ stage' = [stage EXCEPT ![c] = "backlog"]
  /\ backlog' = Append(backlog, c)
  /\ UNCHANGED <<conn, habit, asked>>

\* Client c does something to its connection, which becomes k.
OnConnection(c, k) ==
  /\ conn' = [conn EXCEPT ![c] = k]
  /\ UNCHANGED <<habit, stage, backlog>>

Connected(c) == stage[c] \in {"backlog", "peer"}

Send(c) ==
  /\ Connected(c) /\ ~conn[c].eof
  /\ asked[c] < Len(habit[c].sends)
  /\ asked' = [asked EXCEPT ![c] = @ + 1]
  /\ OnConnection(c, [conn[c] EXCEPT !.inbox = Append(@, habit[c].sends[asked[c] + 1])])

Receive(c) ==
  /\ conn[c].reading /\ conn[c].wire # <<>>
  /\ OnConnection(c, [conn[c] EXCEPT !.got = Append(@, Head(conn[c].wire)),
                                     !.wire = Tail(@)])
  /\ UNCHANGED asked

HalfClose(c) ==
  /\ "half" \in habit[c].leaves /\ Connected(c) /\ ~conn[c].eof
  /\ OnConnection(c, [conn[c] EXCEPT !.eof = TRUE])
  /\ UNCHANGED asked

\* What the client has not read is lost to it.
Close(c) ==
  /\ "close" \in habit[c].leaves /\ Connected(c) /\ conn[c].reading
  /\ OnConnection(c, [conn[c] EXCEPT !.eof = TRUE, !.reading = FALSE, !.wire = <<>>])
  /\ UNCHANGED asked

\* The system of a client that has closed answers with a reset.
Reset(c) ==
  /\ Connected(c) /\ ~conn[c].reading /\ ~conn[c].reset
  /\ OnConnection(c, [conn[c] EXCEPT !.reset = TRUE])
  /\ UNCHANGED asked

\* What no step of a client touches.
inside == <<logging, at, closing, socketLevel, tree, treeCache, treeDirty,
            peerLogOnceConnected, joined, filtered>>

ClientReads(c) == Receive(c) /\ UNCHANGED inside

ClientStep(c) ==
  /\ \/ Connect(c)
     \/ Send(c)
     \/ HalfClose(c)
     \/ Close(c)
     \/ Reset(c)
  /\ UNCHANGED inside

-----------------------------------------------------------------------------
(* The callback.                                                           *)

\* The callback goes on at label l, with connections ks; those that are gone
\* have been dropped from the lists of peers, which closes them.
Proceed(l, ks, gone) ==
  /\ at' = l
  /\ conn' = [c \in Clients |-> IF c \in gone THEN DoneSet(ks[c]) ELSE ks[c]]
  /\ stage' = [c \in Clients |-> IF c \in gone THEN "gone" ELSE stage[c]]
  /\ closing' = closing \ gone

\* ensure_started: the ports are bound and the logs subscribed.
EnsureStarted ==
  /\ at = "Start"
  /\ at' = "Announce"
  /\ SubscribeLogs(dbg)
  /\ UNCHANGED <<consoleLevel, channel, listening, printed, emitted, clients,
                 closing, socketLevel, tree, treeCache, treeDirty,
                 peerLogOnceConnected, joined, filtered>>

\* The listeners that were bound before the one that fails are dropped.
BindFails ==
  /\ BindMayFail
  /\ at = "Start"
  /\ at' = "Failed"
  /\ Emit(Error)
  /\ UNCHANGED <<clients, closing, socketLevel, tree, treeCache, treeDirty,
                 peerLogOnceConnected, joined, filtered>>

Announce ==
  /\ at = "Announce"
  /\ at' = "Accept"
  /\ Emit(Info)
  /\ UNCHANGED <<clients, closing, socketLevel, tree, treeCache, treeDirty,
                 peerLogOnceConnected, joined, filtered>>

\* Who waits at port p, over IPv6 or not.
Waiting(p, v6) ==
  Retain(backlog, {c \in Clients : port(c) = p /\ (c \in OverIPv6 <=> v6)})

Accepted ==
  UNION {ToSet(AcceptReady(Waiting(p, FALSE), Waiting(p, TRUE), Cardinality(Peers({p})))) :
           p \in Port}

\* on_connect of the session: an automatic one says nothing.
OnConnect(c) == IF port(c) = "cmd" THEN <<<<"welcome", 0>>>> ELSE <<>>

MutantAcceptPeers ==
  /\ at = "Accept"
  /\ at' = "Check"
  /\ conn' = [c \in Clients |-> IF c \in Accepted THEN QueueSend(conn[c], OnConnect(c))
                                                  ELSE conn[c]]
  /\ stage' = [c \in Clients |-> IF c \in Accepted THEN "peer" ELSE stage[c]]
  /\ backlog' = Retain(backlog, Clients \ Accepted)
  /\ peerLogOnceConnected' =
       (peerLogOnceConnected \/ \E c \in Accepted : port(c) = "log")
  /\ joined' = [c \in Clients |-> IF c \in Accepted THEN Len(emitted) ELSE joined[c]]
  /\ UNCHANGED <<logging, habit, asked, closing, socketLevel, tree, treeCache, treeDirty,
                 filtered>>

\* accept_peers: a new peer of the tree is to be sent the tree soon.
AcceptPeers ==
  /\ at = "Accept"
  /\ at' = "Check"
  /\ conn' = [c \in Clients |-> IF c \in Accepted THEN QueueSend(conn[c], OnConnect(c))
                                                  ELSE conn[c]]
  /\ stage' = [c \in Clients |-> IF c \in Accepted THEN "peer" ELSE stage[c]]
  /\ backlog' = Retain(backlog, Clients \ Accepted)
  /\ treeDirty' = (treeDirty \/ \E c \in Accepted : port(c) = "tree")
  /\ peerLogOnceConnected' =
       (peerLogOnceConnected \/ \E c \in Accepted : port(c) = "log")
  /\ joined' = [c \in Clients |-> IF c \in Accepted THEN Len(emitted) ELSE joined[c]]
  /\ UNCHANGED <<logging, habit, asked, closing, socketLevel, tree, treeCache, filtered>>

\* disconnect_requested looks at the first byte of what was read at once.
DisconnectRequested(k) == ReadFails(k) \/ IsPrefix(<<"quit">>, Available(k))

\* peer_check: peers of the tree and of the log that leave are dropped.
PeerCheck ==
  LET peers == Peers({"tree", "log"})
      read(c) == IF DisconnectRequested(conn[c]) THEN DoneSet(ReadAvailable(conn[c]))
                                                 ELSE ReadAvailable(conn[c])
      ks == [c \in Clients |-> IF c \in peers THEN read(c) ELSE conn[c]]
  IN  /\ at = "Check"
      /\ Proceed("Pump", ks, {c \in peers : ~IsOpen(ks[c])})
      /\ UNCHANGED <<logging, habit, asked, backlog, socketLevel, tree, treeCache,
                     treeDirty, peerLogOnceConnected, joined, filtered>>

\* The lines a session executes of what is read at once, and whether it ends.
Executed(c, data) ==
  IF port(c) = "auto"
  THEN IF data = <<>> \/ IsPrefix(<<"quit">>, data) THEN <<>> ELSE <<Head(data)>>
  ELSE SubSeq(data, 1, CHOOSE n \in 0 .. Len(data) :
                         /\ \A i \in 1 .. n : data[i] # "quit"
                         /\ n < Len(data) => data[n + 1] = "quit")

Disconnects(c, data) ==
  IF port(c) = "auto" THEN data # <<>> ELSE Contains(data, "quit")

\* The text of help is longer than what is written at once.
Answer(line) ==
  IF line = "help" THEN <<<<"answer", line>>, <<"more", line>>>> ELSE <<<<"answer", line>>>>

Answers(lines) == FlattenSeq([i \in DOMAIN lines |-> Answer(lines[i])])

DisconnectBytes(c) == IF port(c) = "cmd" THEN <<<<"bye", 0>>>> ELSE <<>>

\* What a pass over the command peers makes of one: its connection, whether it
\* is dropped, whether it is closing, the lines that were executed.
Pumped(k, gone, closes, lines) ==
  [conn |-> k, gone |-> gone, closes |-> closes, lines |-> lines]

PumpClosing(k) ==
  LET flushed == FlushPending(k)
  IN  Pumped(flushed, ~HasPendingWrite(flushed) \/ ~IsOpen(flushed), TRUE, <<>>)

\* A session that ends goes without waiting for what is pending.
MutantPumpOpen(c, k) ==
  LET data     == Available(k)
      lines    == Executed(c, data)
      ends     == Disconnects(c, data)
      answered == QueueSend(ReadAvailable(k), Answers(lines))
      parted   == IF ends THEN QueueSend(answered, DisconnectBytes(c)) ELSE answered
      flushed  == FlushPending(parted)
  IN  Pumped(flushed, ends \/ ~IsOpen(flushed), ends, lines)

PumpOpen(c, k) ==
  LET data     == Available(k)
      lines    == Executed(c, data)
      ends     == Disconnects(c, data)
      answered == QueueSend(ReadAvailable(k), Answers(lines))
      parted   == IF ends THEN QueueSend(answered, DisconnectBytes(c)) ELSE answered
      flushed  == FlushPending(parted)
  IN  IF SendFails(ReadAvailable(k), Answers(lines))
      THEN Pumped(answered, TRUE, FALSE, lines)
      ELSE Pumped(flushed, (ends /\ ~HasPendingWrite(flushed)) \/ ~IsOpen(flushed),
                  ends, lines)

\* A closing peer is read like any other.
MutantPump(c) ==
  IF ReadFails(conn[c]) THEN Pumped(conn[c], TRUE, FALSE, <<>>)
  ELSE PumpOpen(c, conn[c])

\* Sends what a peer could not take only when there is something new to send.
MutantPumpLazily(c) ==
  IF c \in closing THEN PumpClosing(conn[c])
  ELSE IF ReadFails(conn[c]) THEN Pumped(conn[c], TRUE, FALSE, <<>>)
  ELSE IF Available(conn[c]) = <<>> THEN Pumped(ReadAvailable(conn[c]), conn[c].eof, FALSE, <<>>)
  ELSE PumpOpen(c, conn[c])

Pump(c) ==
  IF c \in closing THEN PumpClosing(conn[c])
  ELSE IF ReadFails(conn[c]) THEN Pumped(conn[c], TRUE, FALSE, <<>>)
  ELSE PumpOpen(c, conn[c])

\* The lines of all peers set the levels to 0, which the console does not know.
CommandPeersPump ==
  LET peers == Peers(CommandPort)
      pumped == [c \in peers |-> Pump(c)]
      run(line) == \E c \in peers : Contains(pumped[c].lines, line)
  IN  /\ at = "Pump"
      /\ at' = "Tree"
      /\ conn' = [c \in Clients |->
           IF c \notin peers THEN conn[c]
           ELSE IF pumped[c].gone THEN DoneSet(pumped[c].conn) ELSE pumped[c].conn]
      /\ stage' = [c \in Clients |->
           IF c \in peers /\ pumped[c].gone THEN "gone" ELSE stage[c]]
      /\ closing' = {c \in peers : pumped[c].closes /\ ~pumped[c].gone}
      /\ IF run("levelLog") THEN LevelLogSet(0) ELSE UNCHANGED consoleLevel
      /\ socketLevel' = IF run("levelLogSys") THEN 0 ELSE socketLevel
      /\ UNCHANGED <<subscribers, channel, listening, printed, emitted, habit, asked,
                     backlog, tree, treeCache, treeDirty, peerLogOnceConnected,
                     joined, filtered>>

\* The message m is sent to the peers of port p, and the callback goes on at l;
\* who cannot be sent to is dropped.
Broadcast(p, m, l) ==
  LET peers == Peers({p})
      ks == [c \in Clients |-> IF c \in peers THEN QueueSend(conn[c], <<m>>) ELSE conn[c]]
  IN  Proceed(l, ks, {c \in peers : ~IsOpen(ks[c])})

SendProcessTree ==
  /\ at = "Tree"
  /\ treeDirty \/ tree # treeCache
  /\ Broadcast("tree", <<"tree", tree>>, "Logs")
  /\ treeCache' = tree
  /\ treeDirty' = FALSE
  /\ UNCHANGED <<logging, habit, asked, backlog, socketLevel, tree,
                 peerLogOnceConnected, joined, filtered>>

\* The update period is not over, or the tree has not changed.
KeepProcessTree ==
  /\ at = "Tree"
  /\ ~treeDirty
  /\ at' = "Logs"
  /\ UNCHANGED <<logging, clients, closing, socketLevel, tree, treeCache, treeDirty,
                 peerLogOnceConnected, joined, filtered>>

SendLogEntry ==
  /\ at = "Logs" /\ channel[dbg] # <<>>
  /\ channel' = [channel EXCEPT ![dbg] = Tail(@)]
  /\ LET n == Head(channel[dbg]) IN
       IF emitted[n] > socketLevel
       THEN filtered' = filtered \cup {n} /\ UNCHANGED <<at, conn, stage, closing>>
       ELSE Broadcast("log", <<"log", n>>, "Logs") /\ UNCHANGED filtered
  /\ UNCHANGED <<consoleLevel, subscribers, listening, printed, emitted, habit, asked,
                 backlog, socketLevel, tree, treeCache, treeDirty,
                 peerLogOnceConnected, joined>>

EndLogEntries ==
  /\ at = "Logs" /\ channel[dbg] = <<>>
  /\ at' = "Accept"
  /\ UNCHANGED <<logging, clients, closing, socketLevel, tree, treeCache, treeDirty,
                 peerLogOnceConnected, joined, filtered>>

ServerStep ==
  \/ EnsureStarted
  \/ BindFails
  \/ Announce
  \/ AcceptPeers
  \/ PeerCheck
  \/ CommandPeersPump
  \/ SendProcessTree
  \/ KeepProcessTree
  \/ SendLogEntry
  \/ EndLogEntries

\* The process has finished and its parent drops it, with all it holds.
Stop ==
  /\ MayStop
  /\ at = "Accept"
  /\ Proceed("Stopped", conn, {c \in Clients : Connected(c)})
  /\ backlog' = <<>>
  /\ listening' = listening \ {dbg}
  /\ channel' = [channel EXCEPT ![dbg] = <<>>]
  /\ UNCHANGED <<consoleLevel, subscribers, printed, emitted, habit, asked, socketLevel,
                 tree, treeCache, treeDirty, peerLogOnceConnected, joined, filtered>>

-----------------------------------------------------------------------------
(* Everything else that runs.                                              *)

\* Bounds of what goes on elsewhere: it goes on where a client is of the kind
\* that would see it.
Watched(p) == \E c \in Clients : port(c) = p

ChangeTree ==
  /\ tree < MaxTrees /\ Watched("tree")
  /\ tree' = tree + 1
  /\ UNCHANGED <<logging, server, habit, asked>>

\* Any thread emits; the bound leaves room for the entries of the server.
EmitElsewhere ==
  /\ Watched("log")
  /\ at \notin {"Start", "Announce"} \/ Len(emitted) + 1 < MaxEntries
  /\ \E severity \in Emissions : Emit(severity)
  /\ UNCHANGED <<server, habit, asked, tree>>

\* Another part of the application subscribes, or drops its receiver.
SubscribeElsewhere(r) ==
  /\ Watched("log")
  /\ r # dbg /\ ~Contains(subscribers, r) /\ r \in listening
  /\ SubscribeLogs(r)
  /\ UNCHANGED <<consoleLevel, channel, listening, printed, emitted, server, habit,
                 asked, tree>>

DropElsewhere(r) ==
  /\ r # dbg
  /\ DropReceiver(r)
  /\ UNCHANGED <<server, habit, asked, tree>>

Ended == at \in {"Failed", "Stopped"} /\ UNCHANGED vars

Next ==
  \/ ServerStep
  \/ Stop
  \/ \E c \in Clients : ClientStep(c) \/ ClientReads(c)
  \/ ChangeTree
  \/ EmitElsewhere
  \/ \E r \in Receivers : SubscribeElsewhere(r) \/ DropElsewhere(r)
  \/ Ended

Spec == Init /\ [][Next]_vars

-----------------------------------------------------------------------------
(* Safety.                                                                 *)

TypeOK ==
  /\ LoggingTypeOK
  /\ at \in Labels
  /\ conn \in [Clients -> Connection(Request, Message)]
  /\ habit \in Habits
  /\ stage \in [Clients -> {"new", "backlog", "peer", "gone"}]
  /\ backlog \in Seq(Clients)
  /\ closing \subseteq Peers(CommandPort)
  /\ socketLevel \in 0 .. Core
  /\ tree \in 0 .. MaxTrees /\ treeCache \in 0 .. MaxTrees
  /\ treeDirty \in BOOLEAN /\ peerLogOnceConnected \in BOOLEAN
  /\ asked \in [Clients -> Nat]
  /\ \A c \in Clients : asked[c] \in 0 .. Len(habit[c].sends)
  /\ joined \in [Clients -> 0 .. MaxEntries]
  /\ filtered \subseteq 1 .. MaxEntries

\* Client c still reads, and has done nothing that ends the connection.
Faithful(c) == conn[c].reading /\ ~conn[c].eof

\* What a client is sent arrives in order and whole while its connection lives:
\* partial writes neither skip nor repeat.  A command peer that the server itself
\* lets go has every answer, and the farewell, before the connection goes.
NoAnswerLost ==
  \A c \in Clients : Faithful(c) /\ at # "Stopped" =>
    LET k == conn[c] IN
    /\ stage[c] = "peer" => k.queued = k.got \o k.wire \o k.pending
    /\ stage[c] = "gone" /\ port(c) \in CommandPort => k.queued = k.got \o k.wire

\* An automatic session answers one line, however many its client sends and
\* however long the answer waits to be written.
AutoAnswersOnce ==
  \A c \in Clients : port(c) = "auto" =>
    \A i, j \in DOMAIN conn[c].queued :
      conn[c].queued[i][1] = "answer" /\ conn[c].queued[j][1] = "answer" => i = j

\* When the tree is not dirty, the last thing every peer of the tree was sent
\* is the tree in the cache, those that came between two updates included.
TreePeersCurrent ==
  ~treeDirty => \A c \in Peers({"tree"}) :
    /\ conn[c].queued # <<>>
    /\ Last(conn[c].queued) = <<"tree", treeCache>>

\* A peer of the log was sent every entry that was emitted since it was
\* accepted, in order and once, but those above the socket level when they
\* were taken and those not taken yet; what the console prints plays no part.
LogPeersComplete ==
  \A c \in Peers({"log"}) :
    LET sent == [i \in DOMAIN conn[c].queued |-> conn[c].queued[i][2]]
    IN  /\ \A i, j \in DOMAIN sent : i < j => sent[i] < sent[j]
        /\ (joined[c] + 1) .. Len(emitted)
              \subseteq ToSet(sent) \cup filtered \cup ToSet(channel[dbg])

\* debugger_ports_expose_tree_logs_and_commands: an automatic client that sends
\* help and reads to the end has its answer.
AutoAnswered ==
  \A c \in Clients :
    stage[c] = "gone" /\ port(c) = "auto" /\ conn[c].reading /\ at # "Stopped"
      /\ asked[c] > 0 /\ habit[c].sends[1] = "help" =>
      conn[c].got \o conn[c].wire = Answer("help")

-----------------------------------------------------------------------------
(* Liveness.  The process is driven again and again until it ends, and     *)
(* each call returns; a client that is connected reads.                    *)

Called == at = "Accept" /\ at' = "Check"

Fairness ==
  /\ []<><<Called>>_at \/ <>(at \in {"Failed", "Stopped"})
  /\ \A c \in Clients : WF_vars(ClientReads(c))

FairSpec == Spec /\ Fairness

\* Every connection is accepted, however many wait and however long the peers
\* that were accepted stay.
EveryoneAccepted ==
  \A c \in Clients : stage[c] = "backlog" ~> stage[c] # "backlog"

\* What a command peer could not take at once is sent on by later passes, and
\* a session that has ended lets its connection go.
AnswersArrive ==
  \A c \in Clients :
    Faithful(c) /\ port(c) \in CommandPort
      /\ (conn[c].got # conn[c].queued \/ c \in closing)
      ~> \/ conn[c].got = conn[c].queued /\ c \notin closing
         \/ ~Faithful(c) \/ at = "Stopped"
=============================================================================
