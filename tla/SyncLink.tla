------------------------------ MODULE SyncLink ------------------------------
(***************************************************************************)
(* The mixer control connection as the two ends of it use it: one TCP      *)
(* session at a time, with an identity of its own, that carries messages   *)
(* in order both ways until it breaks.  What is still on the way then is   *)
(* lost, and what an end sends for a session that is gone is discarded     *)
(* (_process_pending_sync and _on_remote_sync_message of hardware/midi.py).*)
(*                                                                         *)
(* On its way out a message waits in _remote_sync_outbound for the worker, *)
(* which takes all that wait at once.  The queue holds 256 messages and    *)
(* drops the newest when it is full.  How many wait is not counted: any    *)
(* message may find the queue full, MaxLost of them in a run.              *)
(***************************************************************************)
EXTENDS Integers, Sequences

CONSTANTS
  MaxSessions,      \* bound of the model: sessions in a run
  MaxLost,          \* bound of the model: messages that find a queue full
  Volumes, Edit     \* what a command asks for: a volume, or any other edit

ASSUME LinkAssumption == MaxSessions \in Nat \ {0} /\ MaxLost \in Nat

VARIABLES
  session,        \* identity of the last session that was set up
  up,             \* it has not broken yet
  toMirror,       \* what the receiver has sent and the sender has not handled
  toAuthority,    \* what the sender has sent and the receiver has not handled
  lost            \* history: how many messages found a queue full, whether the
                  \* newest publication of the session is one of them, and the
                  \* commands that did, or whose answer did

linkVars == <<session, up, toMirror, toAuthority, lost>>

LinkInit ==
  /\ session = 0
  /\ up = FALSE
  /\ toMirror = <<>>
  /\ toAuthority = <<>>
  /\ lost = [messages |-> 0, publication |-> FALSE, commands |-> {}]

(* The session both ends will be told of; 0 for none.                      *)
Present == IF up THEN session ELSE 0

Live(s) == up /\ s = session

(* The queue is full after the first messages of a turn and until the      *)
(* worker takes what waits: no turn fills it twice.                        *)
Fitting(messages, full, drained) ==
  SubSeq(messages, 1, full) \o SubSeq(messages, drained + 1, Len(messages))

IsPublication(m) == m.type \in {"snapshot", "delta"}

LostWith(messages, full, drained) ==
  LET dropped == (full + 1)..drained
      published == {i \in 1..Len(messages) : IsPublication(messages[i])}
  IN  [messages |-> lost.messages + drained - full,
       publication |-> IF published = {} THEN lost.publication
                         ELSE \E i \in dropped \cap published : \A j \in published : j <= i,
       commands |-> lost.commands
                      \cup {messages[i].id : i \in {k \in dropped : messages[k].type \in {"ack", "nack"}}}]

(* What the receiver sends in one turn.                                    *)
ToMirror(s, messages) ==
  IF Live(s)
    THEN \E full, drained \in 0..Len(messages) :
           /\ full <= drained
           /\ lost.messages + drained - full <= MaxLost
           /\ toMirror' = toMirror \o Fitting(messages, full, drained)
           /\ lost' = LostWith(messages, full, drained)
    ELSE UNCHANGED <<toMirror, lost>>

(* The sender sends one message.                                           *)
ToAuthority(s, message) ==
  IF Live(s)
    THEN \/ /\ toAuthority' = Append(toAuthority, message)
            /\ UNCHANGED lost
         \/ /\ lost.messages < MaxLost
            /\ lost' = [lost EXCEPT !.messages = @ + 1,
                                    !.commands = IF message.type = "command"
                                                   THEN @ \cup {message.id} ELSE @]
            /\ UNCHANGED toAuthority
    ELSE UNCHANGED <<toAuthority, lost>>

Connect ==
  /\ ~up
  /\ session < MaxSessions
  /\ session' = session + 1
  /\ up' = TRUE
  /\ UNCHANGED <<toMirror, toAuthority, lost>>

(* The session ends with all that is on its way.                           *)
Ended ==
  /\ up' = FALSE
  /\ toMirror' = <<>>
  /\ toAuthority' = <<>>
  /\ lost' = [lost EXCEPT !.publication = FALSE, !.commands = {}]

Break == up /\ Ended /\ UNCHANGED session
=============================================================================
