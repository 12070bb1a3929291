------------------------------ MODULE Logging ------------------------------
(***************************************************************************)
(* The log of src/src/logging.rs: emit prints an entry if its severity     *)
(* permits and sends it to every subscriber, all with the logger locked.   *)
(* An entry is its number in the order of emission.                        *)
(***************************************************************************)
EXTENDS Naturals, Sequences, SequencesExt, Retaining

CONSTANTS
  Receivers,    \* the receivers subscribe_logs may have returned
  Emissions,    \* the severities the application emits
  MaxEntries    \* bound: how many entries are emitted

Error == 1
Info  == 3
Core  == 5

ASSUME LoggingAssumption == Emissions \subseteq Error .. Core /\ MaxEntries \in Nat

VARIABLES
  consoleLevel,  \* console_level
  subscribers,   \* the senders the logger keeps, in order
  channel,       \* channel[r]: what was sent to receiver r and not taken
  listening,     \* receivers that were not dropped
  printed,       \* the entries written to the console
  emitted        \* history: the severities of all entries

logging == <<consoleLevel, subscribers, channel, listening, printed, emitted>>

LoggingInit ==
  /\ consoleLevel = Info
  /\ subscribers = <<>>
  /\ channel = [r \in Receivers |-> <<>>]
  /\ listening = Receivers
  /\ printed = {}
  /\ emitted = <<>>

LoggingTypeOK ==
  /\ consoleLevel \in Error .. Core
  /\ subscribers \in Seq(Receivers)
  /\ channel \in [Receivers -> Seq(1 .. MaxEntries)]
  /\ listening \subseteq Receivers
  /\ printed \subseteq 1 .. MaxEntries
  /\ emitted \in Seq(Error .. Core)

MutantSeverity(level) == level

\* level_log_set: any number is taken for the nearest severity.
Severity(level) == IF level = 0 THEN Error ELSE IF level > Core THEN Core ELSE level

LevelLogSet(level) == consoleLevel' = Severity(level)

\* subscribe_logs: the receiver gets what is emitted from now on.
SubscribeLogs(r) == subscribers' = Append(subscribers, r)

\* What becomes of the channels cs and of the log when an entry of a severity
\* is emitted to the senders ss.
Emitted(severity, ss) ==
  LET n == Len(emitted) + 1 IN
  /\ emitted' = Append(emitted, severity)
  /\ printed' = IF severity <= consoleLevel THEN printed \cup {n} ELSE printed
  /\ channel' = [r \in Receivers |->
                   IF Contains(ss, r) /\ r \in listening
                   THEN Append(channel[r], n) ELSE channel[r]]

\* An entry that is not for the console is not for the subscribers either.
MutantEmit(severity) ==
  /\ Len(emitted) < MaxEntries
  /\ Emitted(severity, IF severity <= consoleLevel THEN subscribers ELSE <<>>)
  /\ subscribers' = Retain(subscribers, listening)
  /\ UNCHANGED <<consoleLevel, listening>>

\* emit: a sender whose receiver is gone is forgotten.
Emit(severity) ==
  /\ Len(emitted) < MaxEntries
  /\ Emitted(severity, subscribers)
  /\ subscribers' = Retain(subscribers, listening)
  /\ UNCHANGED <<consoleLevel, listening>>

\* A receiver is dropped, and with it whatever was not taken.
DropReceiver(r) ==
  /\ r \in listening /\ Contains(subscribers, r)
  /\ listening' = listening \ {r}
  /\ channel' = [channel EXCEPT ![r] = <<>>]
  /\ UNCHANGED <<consoleLevel, subscribers, printed, emitted>>
=============================================================================
