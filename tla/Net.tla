-------------------------------- MODULE Net --------------------------------
(***************************************************************************)
(* The sockets of src/src/net.rs as a data structure: a connection is a    *)
(* record with what TcpTransfering keeps and what the operating system     *)
(* keeps for it, and an operation maps it to the record afterwards.        *)
(*                                                                         *)
(* A message stands for bytes that are written as a whole, a request for   *)
(* what a peer sends at once.  Writing stops between two messages where    *)
(* the send buffer is full.  write never returns 0 for bytes that are      *)
(* there.  What a peer sends after the connection went is lost; that the   *)
(* reset it provokes may overtake what the peer has not read is left out.  *)
(***************************************************************************)
EXTENDS Naturals, Sequences, SequencesExt

CONSTANTS
  MaxConnQueued,  \* max_conn_queued: how many peers are accepted at a time
  SendBuffer      \* how many messages the operating system takes unread

ASSUME NetAssumption ==
  /\ MaxConnQueued \in Nat \ {0}
  /\ SendBuffer \in Nat \ {0}

\* inbox: sent by the peer, unread; eof: the peer sends no more; reset: the
\* connection was reset; reading: the peer has not closed it; wire: written,
\* not read by the peer; got: what the peer has read.  queued is history: all
\* that was ever given to queue_send.
Connection(Request, Message) ==
  [inbox : Seq(Request), eof : BOOLEAN, reset : BOOLEAN, reading : BOOLEAN,
   done : BOOLEAN, pending : Seq(Message), wire : Seq(Message),
   got : Seq(Message), queued : Seq(Message)]

NewConnection ==
  [inbox |-> <<>>, eof |-> FALSE, reset |-> FALSE, reading |-> TRUE,
   done |-> FALSE, pending |-> <<>>, wire |-> <<>>, got |-> <<>>, queued |-> <<>>]

-----------------------------------------------------------------------------
(* TcpListening.                                                           *)

MutantAcceptReady(v4, v6, open) ==
  LET waiting == v4 \o v6
  IN  IF open >= MaxConnQueued THEN <<>>
      ELSE SubSeq(waiting, 1, Min({Len(waiting), MaxConnQueued - open}))

\* Whom accept_ready takes from the connections that wait at the two listeners
\* of a port, with an empty queue.  An error of accept ends a round early, and
\* whoever is left is accepted in the next, as if he had come later.
AcceptReady(v4, v6, open) ==
  LET waiting == v4 \o v6
  IN  SubSeq(waiting, 1, Min({Len(waiting), MaxConnQueued}))

-----------------------------------------------------------------------------
(* TcpTransfering.                                                         *)

\* read_available fails, and with it whatever it had read is lost.
ReadFails(k) == ~k.done /\ k.reset

\* What read_available returns.
Available(k) == IF k.done THEN <<>> ELSE k.inbox

\* The connection after it: everything is read, the end of the stream included.
ReadAvailable(k) ==
  IF k.done THEN k
  ELSE IF k.reset THEN [k EXCEPT !.done = TRUE]
  ELSE [k EXCEPT !.inbox = <<>>, !.done = k.eof]

HasPendingWrite(k) == k.pending # <<>>

\* How much of pending_write the operating system takes; bytes for a peer that
\* has closed are taken and never arrive.
Writable(k) ==
  IF k.reading THEN Min({Len(k.pending), SendBuffer - Len(k.wire)}) ELSE Len(k.pending)

FlushFails(k) == ~k.done /\ HasPendingWrite(k) /\ k.reset

FlushPending(k) ==
  IF k.done THEN k
  ELSE IF FlushFails(k) THEN [k EXCEPT !.done = TRUE]
  ELSE [k EXCEPT !.wire = IF k.reading THEN @ \o SubSeq(k.pending, 1, Writable(k)) ELSE @,
                 !.pending = SubSeq(@, Writable(k) + 1, Len(@))]

Queued(k, messages) ==
  [k EXCEPT !.pending = @ \o messages, !.queued = @ \o messages]

\* A call of queue_send for each of the messages fails when flushing does.
SendFails(k, messages) == messages # <<>> /\ FlushFails(Queued(k, messages))

QueueSend(k, messages) ==
  IF messages = <<>> THEN k ELSE FlushPending(Queued(k, messages))

\* done_set, and the end of a TcpTransfering that is dropped.
DoneSet(k) == [k EXCEPT !.done = TRUE]

IsOpen(k) == ~k.done
=============================================================================
