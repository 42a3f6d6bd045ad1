--------------------------- MODULE SyncTransport ---------------------------
(***************************************************************************)
(* The two ends of the mixer control connection: the TCP server of the     *)
(* sending computer and the reconnecting TCP client of the receiving one   *)
(* (remote_sync/transport.py), with what the protocol decoder lets through *)
(* (remote_sync/protocol.py).  An end is a record; what a handler does to  *)
(* it is an operator from records to records, so that one poll, which does *)
(* many of these in a row, is one step.                                    *)
(*                                                                         *)
(* Time passes in ticks of one heartbeat interval.  A connection is a      *)
(* number; an end holds it while its socket is that number, and what was   *)
(* written and not read yet is in pipe.                                    *)
(***************************************************************************)
EXTENDS Integers, Sequences, FiniteSets, SequencesExt

CONSTANTS
  Conns,              \* identities of TCP connections, used again when free
  MaxOutboundQueue, MaxInboundQueue,
  Window,             \* frames the kernel buffers in one direction
  HandshakeTimeout, HeartbeatInterval, InactivityTimeout,
  ReconnectMin, ReconnectMax,     \* all five in ticks
  MaxAttempts         \* bound of the model: where a count of attempts stops

ASSUME TransportAssumption ==
  /\ Conns \subseteq Nat \ {0}
  /\ MaxOutboundQueue \in Nat \ {0} /\ MaxInboundQueue \in Nat \ {0} /\ Window \in Nat \ {0}
  /\ HeartbeatInterval \in Nat \ {0} /\ HandshakeTimeout \in Nat \ {0}
  /\ InactivityTimeout \in Nat /\ InactivityTimeout > HeartbeatInterval
  /\ ReconnectMin \in Nat \ {0} /\ ReconnectMax \in Nat /\ ReconnectMax >= ReconnectMin
  /\ MaxAttempts \in Nat \ {0}

(* Arithmetic: a delay is a power of two.                                  *)
ASSUME PowerAssumption == \A a \in 0..MaxAttempts : 2 ^ a \in Nat

VARIABLES
  server, client,   \* the two ends
  backlog,          \* connections the listener has not accepted yet
  pipe,             \* pipe[c][r]: frames on the way to end r of connection c
  cut,              \* connections that have silently stopped carrying anything
  sessions,         \* how many session identities the server has made up
  service           \* the listener: its token, and whether its version is the client's

transportVars == <<server, client, backlog, pipe, cut, sessions, service>>

Roles == {"server", "client"}
NoDeadline == -1
NoSession == 0

Least(a, b) == IF a < b THEN a ELSE b

Fresh(role) ==
  [role |-> role, status |-> "IDLE", reason |-> "NONE", sock |-> 0, out |-> <<>>,
   closing |-> "NONE", sid |-> NoSession, events |-> <<>>, quiet |-> 0, sent |-> 0,
   left |-> NoDeadline, attempt |-> 0, wait |-> 0, token |-> 0]

Hello(token)  == [kind |-> "hello", sid |-> NoSession, n |-> token]
Ack(sid, yes) == [kind |-> "ack", sid |-> sid, n |-> IF yes THEN 1 ELSE 0]
Ping(sid)     == [kind |-> "ping", sid |-> sid, n |-> 0]
Pong(sid)     == [kind |-> "pong", sid |-> sid, n |-> 0]
Data(sid, n)  == [kind |-> "data", sid |-> sid, n |-> n]

(* The longest wait before attempt number a; the jitter may shorten it.    *)
NextDelay(a) == Least(ReconnectMax, ReconnectMin * 2 ^ (a - 1))

Backoff(e) ==
  LET a == Least(e.attempt + 1, MaxAttempts)
  IN  [e EXCEPT !.attempt = a, !.wait = NextDelay(a)]

\* Mutant: what was queued for the old connection is kept for the next one.
ClosedKeepingQueue(e, reason) ==
  LET shut == [e EXCEPT !.sock = 0, !.status = "CLOSED", !.reason = reason,
                        !.sid = NoSession, !.left = NoDeadline, !.closing = "NONE"]
  IN  IF e.role = "client" THEN Backoff(shut) ELSE shut

(* Everything of the connection goes, except the messages that were read   *)
(* from it and not drained yet.                                            *)
Closed(e, reason) ==
  LET shut == [e EXCEPT !.sock = 0, !.status = "CLOSED", !.reason = reason,
                        !.sid = NoSession, !.out = <<>>, !.left = NoDeadline,
                        !.closing = "NONE"]
  IN  IF e.role = "client" THEN Backoff(shut) ELSE shut

ScheduleRetry(e) ==
  [Backoff(e) EXCEPT !.sock = 0, !.status = "IDLE", !.left = NoDeadline]

\* Mutant: the outbound queue without its limit.
SendUnbounded(e, m) == [e EXCEPT !.out = Append(@, m)]

SendMessage(e, m) ==
  IF Len(e.out) >= MaxOutboundQueue THEN Closed(e, "QUEUE_OVERFLOW")
                                    ELSE [e EXCEPT !.out = Append(@, m)]

(* A port is an end with what it has written on its connection.            *)
FlushOutbound(p) ==
  LET n == Least(Len(p.e.out), Window - Len(p.tx))
      e == [p.e EXCEPT !.out = SubSeq(@, n + 1, Len(@))]
  IN  [e  |-> IF e.out = <<>> /\ e.closing # "NONE" THEN Closed(e, e.closing) ELSE e,
       tx |-> p.tx \o SubSeq(p.e.out, 1, n)]

CloseAfterSending(p, m, reason) ==
  LET e == SendMessage([p.e EXCEPT !.closing = reason], m)
  IN  IF e.sock = 0 THEN [p EXCEPT !.e = e] ELSE FlushOutbound([p EXCEPT !.e = e])

HandleCommon(e, m) ==
  CASE m.kind = "ping" -> SendMessage(e, Pong(m.sid))
    [] m.kind = "pong" -> e
    [] OTHER -> IF Len(e.events) >= MaxInboundQueue THEN Closed(e, "QUEUE_OVERFLOW")
                ELSE [e EXCEPT !.events = Append(@, m)]

HandleHello(e, m) ==
  IF m.n # service.token THEN Closed(e, "SESSION_MISMATCH")
  ELSE SendMessage([e EXCEPT !.status = "CONNECTED", !.left = NoDeadline],
                   Ack(e.sid, TRUE))

HandleAck(e, m) == [e EXCEPT !.sid = m.sid, !.status = "CONNECTED", !.left = NoDeadline]

(* What the decoder refuses: another version in a handshake, another       *)
(* session than expected in any other message.  Before its handshake is    *)
(* done the client expects none.  A refusal carries the version of the     *)
(* server that sent it, even if another one has taken its place since.     *)
WrongVersion(m) ==
  \/ m.kind = "hello" /\ ~service.compatible
  \/ m.kind = "ack" /\ m.n = 0

WrongSession(expected, m) ==
  m.kind \notin {"hello", "ack"} /\ expected # NoSession /\ m.sid # expected

(* The server tells a client of another version why it closes.             *)
HandleVersionMismatch(p) ==
  IF p.e.role = "server" /\ p.e.status = "HANDSHAKING"
  THEN CloseAfterSending(p, Ack(p.e.sid, FALSE), "PROTOCOL_INCOMPATIBLE")
  ELSE [p EXCEPT !.e = Closed(@, "PROTOCOL_INCOMPATIBLE")]

HandleMessage(e, m) ==
  CASE e.status = "HANDSHAKING" /\ e.role = "server" /\ m.kind = "hello" -> HandleHello(e, m)
    [] e.status = "HANDSHAKING" /\ e.role = "client" /\ m.kind = "ack"   -> HandleAck(e, m)
    [] OTHER -> HandleCommon(e, m)

(* One frame, of a read that began while session expected was set.  After  *)
(* one that closes the connection the rest of the read is thrown away.     *)
HandleFrame(expected, p, m) ==
  IF p.e.status = "CLOSED" \/ p.e.closing # "NONE" THEN p
  ELSE IF WrongVersion(m)           THEN HandleVersionMismatch(p)
  ELSE IF WrongSession(expected, m) THEN [p EXCEPT !.e = Closed(@, "SESSION_MISMATCH")]
                                    ELSE [p EXCEPT !.e = HandleMessage(@, m)]

(* What a read may find: part of what is on the way, the end of the stream *)
(* once the other side is gone, or an error.                               *)
Holds(c, r) == IF r = "server" THEN server.sock = c \/ Contains(backlog, c)
                               ELSE client.sock = c

Other(r) == IF r = "server" THEN "client" ELSE "server"

Found(end, frames) == [end |-> end, frames |-> frames]

Arrivals(e) ==
  IF e.sock = 0 THEN {Found("open", <<>>)}
  ELSE IF e.sock \in cut THEN {Found("open", <<>>)}
  ELSE LET way == pipe[e.sock][e.role] IN
       {Found("open", SubSeq(way, 1, k)) : k \in 0..Len(way)}
       \cup (IF Holds(e.sock, Other(e.role)) THEN {} ELSE {Found("error", <<>>)})
       \cup (IF way = <<>> /\ ~Holds(e.sock, Other(e.role))
             THEN {Found("closed", <<>>)} ELSE {})

(* The frames of one read in turn, from port p on: what each one leaves.   *)
Reading(expected, p, frames) ==
  LET after[i \in 0..Len(frames)] ==
        IF i = 0 THEN p ELSE HandleFrame(expected, after[i - 1], frames[i])
  IN  after

\* Mutant: only what the mixer itself says counts as a sign of life.
ProcessWithoutTouch(p, found) ==
  IF p.e.sock = 0 THEN p
  ELSE CASE found.end = "closed" -> [p EXCEPT !.e = Closed(@, "PEER_CLOSED")]
         [] found.end = "error"  -> [p EXCEPT !.e = Closed(@, "SOCKET_ERROR")]
         [] found.end = "open"   -> Reading(p.e.sid, p, found.frames)[Len(found.frames)]

ProcessIncoming(p, found) ==
  IF p.e.sock = 0 THEN p
  ELSE CASE found.end = "closed" -> [p EXCEPT !.e = Closed(@, "PEER_CLOSED")]
         [] found.end = "error"  -> [p EXCEPT !.e = Closed(@, "SOCKET_ERROR")]
         [] found.end = "open"   ->
              IF found.frames = <<>> THEN p
              ELSE Reading(p.e.sid, [p EXCEPT !.e.quiet = 0], found.frames)[Len(found.frames)]

\* Mutant: only the client's own attempt is limited.
EnforceConnectTimeout(e) ==
  IF e.status = "CONNECTING" /\ e.left = 0 THEN Closed(e, "HANDSHAKE_TIMEOUT") ELSE e

EnforceHandshakeTimeout(e) ==
  IF e.status \in {"CONNECTING", "HANDSHAKING"} /\ e.left = 0
  THEN Closed(e, "HANDSHAKE_TIMEOUT") ELSE e

HeartbeatAndTimeout(e) ==
  IF e.status # "CONNECTED"             THEN e
  ELSE IF e.quiet >= InactivityTimeout  THEN Closed(e, "INACTIVITY_TIMEOUT")
  ELSE IF e.sent >= HeartbeatInterval   THEN SendMessage([e EXCEPT !.sent = 0], Ping(e.sid))
                                        ELSE e

\* Mutant: an accepted connection waits for its hello without a deadline.
AcceptedForever(e, c) ==
  [e EXCEPT !.sock = c, !.status = "HANDSHAKING", !.quiet = 0, !.sent = 0,
            !.sid = sessions + 1]

Accepted(e, c) ==
  [e EXCEPT !.sock = c, !.status = "HANDSHAKING", !.quiet = 0, !.sent = 0,
            !.left = HandshakeTimeout, !.sid = sessions + 1]

(* What flushing and reading may make of end e: how many frames it has     *)
(* read, and the end with what it has written.                             *)
Outcomes(e) ==
  LET port == [e |-> e, tx |-> IF e.sock = 0 THEN <<>> ELSE pipe[e.sock][Other(e.role)]]
  IN  IF e.sock = 0 THEN {[read |-> 0, port |-> port]}
      ELSE {[read |-> Len(found.frames),
             port |-> ProcessIncoming(FlushOutbound(port), found)] : found \in Arrivals(e)}

(* The frames of connection c after end e has read some and has written tx.*)
Carried(c, e, read, tx) ==
  IF c = 0 THEN pipe
  ELSE [pipe EXCEPT ![c][e] = SubSeq(@, read + 1, Len(@)), ![c][Other(e)] = tx]

(* The owner drains what a poll has decoded as soon as it ends, so events  *)
(* is what the last poll decoded and the next one starts without it.       *)
Drained(e) == [e EXCEPT !.events = <<>>]

(* One tick of the server.  The selector reports the listener and the      *)
(* connection in either order: a peer that comes back while its old        *)
(* connection is still held is turned away or let in by that order.        *)
ServerPoll(allowed) ==
  \E begun \in {EnforceHandshakeTimeout(Drained(server))} :
  \E done \in Outcomes(begun), listenerFirst \in BOOLEAN :
    LET admits == /\ backlog # <<>> /\ allowed
                  /\ done.port.e.sock = 0
                  /\ begun.sock # 0 => ~listenerFirst
        taken == IF admits THEN Accepted(done.port.e, Head(backlog)) ELSE done.port.e
    IN  /\ server' = HeartbeatAndTimeout(taken)
        /\ sessions' = IF admits THEN sessions + 1 ELSE sessions
        /\ backlog' = IF backlog = <<>> THEN <<>> ELSE Tail(backlog)
        /\ pipe' = Carried(begun.sock, "server", done.read, done.port.tx)
        /\ UNCHANGED <<client, cut, service>>

Free == {c \in Conns : ~Holds(c, "server") /\ ~Holds(c, "client")}

(* _begin_connect: the kernel finds the listener and queues the connection.*)
BeginConnect(e) ==
  \E c \in {d \in Free : \A x \in Free : d <= x} :
    /\ client' = [e EXCEPT !.sock = c, !.status = "CONNECTING", !.left = HandshakeTimeout]
    /\ backlog' = Append(backlog, c)
    /\ pipe' = [pipe EXCEPT ![c] = [r \in Roles |-> <<>>]]
    /\ cut' = cut \ {c}

ConnectFails(e) ==
  /\ client' = ScheduleRetry(e)
  /\ UNCHANGED <<backlog, pipe, cut>>

(* _complete_connect: connected, so the hello goes out.                    *)
CompleteConnect(e) ==
  LET ready == [e EXCEPT !.quiet = 0, !.sent = 0, !.status = "HANDSHAKING",
                         !.left = HandshakeTimeout, !.attempt = 0]
  IN  /\ e.sock \notin cut
      /\ \E p \in {FlushOutbound([e |-> SendMessage(ready, Hello(e.token)),
                                 tx |-> pipe[e.sock]["server"]])} :
           /\ client' = p.e
           /\ pipe' = Carried(e.sock, "client", 0, p.tx)
      /\ UNCHANGED <<backlog, cut>>

Exchange(e) ==
  /\ \E done \in Outcomes(e) :
       /\ client' = HeartbeatAndTimeout(done.port.e)
       /\ pipe' = Carried(e.sock, "client", done.read, done.port.tx)
  /\ UNCHANGED <<backlog, cut>>

(* One tick of the client.  An attempt fails only when a fault is left to  *)
(* make it fail.                                                           *)
ClientPoll(faulty) ==
  \E e \in {EnforceHandshakeTimeout(Drained(client))} :
  /\ \/ /\ e.sock = 0 /\ e.wait = 0 /\ ~faulty
        /\ BeginConnect(e)
     \/ /\ e.sock = 0 /\ e.wait = 0 /\ faulty
        /\ ConnectFails(e)
     \/ /\ e.sock = 0 /\ e.wait > 0 /\ ~faulty
        /\ client' = e /\ UNCHANGED <<backlog, pipe, cut>>
     \/ /\ e.status = "CONNECTING" /\ ~faulty
        /\ CompleteConnect(e)
     \/ /\ e.status = "CONNECTING" /\ faulty
        /\ ConnectFails(e)
     \/ /\ e.status \in {"HANDSHAKING", "CONNECTED"} /\ ~faulty
        /\ Exchange(e)
  /\ UNCHANGED <<server, sessions, service>>

(* One heartbeat interval goes by.                                         *)
Aged(e) ==
  [e EXCEPT !.quiet = IF e.status = "CONNECTED" THEN Least(@ + 1, InactivityTimeout) ELSE @,
            !.sent  = IF e.status = "CONNECTED" THEN Least(@ + 1, HeartbeatInterval) ELSE @,
            !.left  = IF @ > 0 THEN @ - 1 ELSE @]

Elapse ==
  /\ server' = Aged(server)
  /\ \E w \in {0, IF client.wait = 0 THEN 0 ELSE client.wait - 1} :
       client' = [Aged(client) EXCEPT !.wait = w]
  /\ UNCHANGED <<backlog, pipe, cut, sessions, service>>

(* Nothing is waiting for either end: every frame was read, nobody is to   *)
(* be accepted and no deadline has passed.                                 *)
EndSettled(e) ==
  /\ e.left # 0
  /\ e.status = "CONNECTED" => e.quiet < InactivityTimeout /\ e.sent < HeartbeatInterval
  /\ e.sock # 0 =>
       IF e.sock \in cut THEN e.out = <<>> \/ Len(pipe[e.sock][Other(e.role)]) = Window
       ELSE /\ e.out = <<>>
            /\ pipe[e.sock][e.role] = <<>>
            /\ Holds(e.sock, Other(e.role))
            /\ e.status # "CONNECTING"

Settled ==
  /\ EndSettled(server) /\ EndSettled(client)
  /\ backlog = <<>>
  /\ client.status \in {"IDLE", "CLOSED"} => client.wait > 0

(* A connection stops carrying anything and neither end is told.           *)
Silence ==
  /\ client.sock # 0 /\ client.sock \notin cut
  /\ cut' = cut \cup {client.sock}
  /\ UNCHANGED <<server, client, backlog, pipe, sessions, service>>
=============================================================================
