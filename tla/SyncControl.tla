---------------------------- MODULE SyncControl ----------------------------
(***************************************************************************)
(* The mixer control connection as RemoteMidiTransport of                  *)
(* hardware/remote_midi.py drives it on both computers: the listener lets  *)
(* in the peer of the AppleMIDI session, the client lives while that       *)
(* session is up, and after every poll the session and the messages it     *)
(* carried are handed on.  The AppleMIDI session itself is the environment *)
(* here: it comes up and goes down.                                        *)
(***************************************************************************)
EXTENDS SyncTransport

CONSTANTS
  MaxSessions,      \* bounds of the model: sessions,
  MaxSaid,          \* messages an end sends,
  MaxFaults         \* and faults of any kind

ASSUME ControlAssumption == MaxSessions \in Nat /\ MaxSaid \in Nat /\ MaxFaults \in Nat

VARIABLES
  midi,             \* midi[r]: the AppleMIDI session is CONNECTED at end r
  advert,           \* the service the receiver has discovered
  told, last,       \* the session handed on at each end, and the last one ever
  said, heard,      \* what was sent and what was handed on in each session
  faults

ownerVars == <<midi, advert, told, last, said, heard, faults>>
vars == <<transportVars, ownerVars>>

Init ==
  /\ server = Fresh("server")
  /\ client = [Fresh("client") EXCEPT !.status = "ABSENT"]
  /\ backlog = <<>>
  /\ pipe = [c \in Conns |-> [r \in Roles |-> <<>>]]
  /\ cut = {}
  /\ sessions = 0
  /\ service = [token |-> 1, compatible |-> TRUE]
  /\ midi = [r \in Roles |-> FALSE]
  /\ advert = service
  /\ told = [r \in Roles |-> NoSession]
  /\ last = told
  /\ said = [s \in 1..MaxSessions |-> [r \in Roles |-> 0]]
  /\ heard = [s \in 1..MaxSessions |-> [r \in Roles |-> <<>>]]
  /\ faults = 0

Fault == faults < MaxFaults /\ faults' = faults + 1

(* The end of _poll_sync_transport: a session that is new is published     *)
(* before its messages are, one that is gone takes its messages with it.   *)
HandOn(r, e) ==
  LET s == IF e.status = "CONNECTED" THEN e.sid ELSE NoSession
      numbers == [i \in DOMAIN e.events |-> e.events[i].n]
  IN  /\ told' = [told EXCEPT ![r] = s]
      /\ last' = IF s = NoSession THEN last ELSE [last EXCEPT ![r] = s]
      /\ heard' = IF s = NoSession THEN heard ELSE [heard EXCEPT ![s][r] = @ \o numbers]

PollServer ==
  /\ ServerPoll(midi["server"])
  /\ HandOn("server", server')
  /\ sessions' <= MaxSessions
  /\ UNCHANGED <<midi, advert, said, faults>>

Present == midi["client"] /\ client.status # "ABSENT"

PollClient ==
  /\ Present
  /\ ClientPoll(FALSE)
  /\ HandOn("client", client')
  /\ UNCHANGED <<midi, advert, said, faults>>

RefusedConnection ==
  /\ Present
  /\ Fault
  /\ ClientPoll(TRUE)
  /\ HandOn("client", client')
  /\ UNCHANGED <<midi, advert, said>>

(* send_sync_message: only in the session the caller was told of, and only *)
(* while the transport is still in it.                                     *)
SendSyncMessage(r, e) ==
  /\ told[r] # NoSession
  /\ e.sid = told[r]
  /\ FoldFunction(LAMBDA x, n : x["server"] + x["client"] + n, 0, said) < MaxSaid
  /\ said' = [said EXCEPT ![told[r]][r] = @ + 1]
  /\ UNCHANGED <<midi, advert, told, last, heard, faults>>

ServerSends ==
  /\ SendSyncMessage("server", server)
  /\ server' = SendMessage(server, Data(server.sid, said[server.sid]["server"] + 1))
  /\ UNCHANGED <<client, backlog, pipe, cut, sessions, service>>

ClientSends ==
  /\ SendSyncMessage("client", client)
  /\ client' = SendMessage(client, Data(client.sid, said[client.sid]["client"] + 1))
  /\ UNCHANGED <<server, backlog, pipe, cut, sessions, service>>

(* _start_sync_client, of a peer advertised with a version of its own.     *)
Started(service_) ==
  IF service_.compatible THEN [Fresh("client") EXCEPT !.token = service_.token]
                         ELSE [Fresh("client") EXCEPT !.status = "ABSENT"]

(* _mark_connected: the receiver starts its client, the sender lets it in. *)
MidiConnected(r) ==
  /\ ~midi[r]
  /\ midi' = [midi EXCEPT ![r] = TRUE]
  /\ client' = IF r = "client" THEN Started(advert) ELSE client
  /\ UNCHANGED <<server, backlog, pipe, cut, sessions, service>>
  /\ UNCHANGED <<advert, told, last, said, heard, faults>>

(* _clear_session of the receiver closes the client and says so at once    *)
(* (_close_sync_transport).                                                *)
ClientMidiEnds ==
  /\ midi["client"] /\ Fault
  /\ midi' = [midi EXCEPT !["client"] = FALSE]
  /\ client' = [Fresh("client") EXCEPT !.status = "ABSENT"]
  /\ told' = [told EXCEPT !["client"] = NoSession]
  /\ UNCHANGED <<server, backlog, pipe, cut, sessions, service, advert, last, said, heard>>

(* _clear_session of the sender lets nobody in (set_active_peer); what was *)
(* handed on is taken back by the next poll.                               *)
ServerMidiEnds ==
  /\ midi["server"] /\ Fault
  /\ midi' = [midi EXCEPT !["server"] = FALSE]
  /\ server' = IF server.sock = 0 THEN server ELSE Closed(server, "ADDRESS_REJECTED")
  /\ UNCHANGED <<client, backlog, pipe, cut, sessions, service>>
  /\ UNCHANGED <<advert, told, last, said, heard>>

(* The sending program is restarted, perhaps upgraded: another listener,   *)
(* with a token of its own.                                                *)
ServerRestarts ==
  /\ Fault
  /\ server' = Fresh("server")
  /\ backlog' = <<>>
  /\ \E compatible \in BOOLEAN :
       service' = [token |-> service.token + 1, compatible |-> compatible]
  /\ midi' = [midi EXCEPT !["server"] = FALSE]
  /\ told' = [told EXCEPT !["server"] = NoSession]
  /\ UNCHANGED <<client, pipe, cut, sessions, advert, last, said, heard>>

(* _apply_discovery_changes: new metadata of the selected peer replaces    *)
(* the client.                                                             *)
DiscoverService ==
  /\ advert # service
  /\ advert' = service
  /\ client' = IF midi["client"] THEN Started(service) ELSE client
  /\ told' = [told EXCEPT !["client"] = IF midi["client"] THEN NoSession ELSE @]
  /\ UNCHANGED <<server, backlog, pipe, cut, sessions, service, midi, last, said, heard, faults>>

SilentLoss == Fault /\ Silence /\ UNCHANGED <<midi, advert, told, last, said, heard>>

(* Time does not pass while an end that is free to work has something to   *)
(* do, except for a delay that counts as a fault.                          *)
AllSettled ==
  /\ advert = service
  /\ midi["server"] /\ midi["client"]
  /\ EndSettled(server) /\ backlog = <<>>
  /\ Present => Settled

Tick == AllSettled /\ Elapse /\ UNCHANGED <<cut, ownerVars>>

SlowTick ==
  /\ ~AllSettled /\ Fault
  /\ Elapse
  /\ UNCHANGED <<cut, midi, advert, told, last, said, heard>>

Next ==
  \/ PollServer
  \/ PollClient
  \/ RefusedConnection
  \/ ServerSends
  \/ ClientSends
  \/ \E r \in Roles : MidiConnected(r)
  \/ ClientMidiEnds
  \/ ServerMidiEnds
  \/ ServerRestarts
  \/ DiscoverService
  \/ SilentLoss
  \/ Tick
  \/ SlowTick

(* Both workers poll without end, the clock runs, discovery and the        *)
(* AppleMIDI invitation get through: see the README for each.              *)
Spec ==
  /\ Init /\ [][Next]_vars
  /\ WF_vars(PollServer) /\ WF_vars(PollClient) /\ WF_vars(Tick)
  /\ WF_vars(DiscoverService)
  /\ \A r \in Roles : WF_vars(MidiConnected(r))

-----------------------------------------------------------------------------

TypeOK ==
  /\ \A e \in {server, client} :
       /\ e.sock \in Conns \cup {0}
       /\ e.status \in {"ABSENT", "IDLE", "CONNECTING", "HANDSHAKING", "CONNECTED", "CLOSED"}
       /\ e.sid \in 0..MaxSessions
       /\ Len(e.out) <= MaxOutboundQueue /\ Len(e.events) <= MaxInboundQueue
       /\ e.left \in -1..HandshakeTimeout /\ e.wait \in 0..ReconnectMax
  /\ \A c \in Conns, r \in Roles : Len(pipe[c][r]) <= Window
  /\ cut \subseteq Conns
  /\ faults \in 0..MaxFaults

(* Transport implements the channel its users rely on.                     *)
Channel == INSTANCE SyncChannel WITH Ends <- Roles, Sessions <- 1..MaxSessions

(* Every session either end is told of carries, in order and each once, a  *)
(* prefix of what the other end sent in that same session, and no session  *)
(* comes back: whatever is still queued, buffered or on the way when a     *)
(* connection breaks, is refused or is replaced, nothing of it reaches the *)
(* next one (_close, drain_messages and _poll_sync_transport).             *)
ImplementsChannel == Channel!ChannelSpec

(* Heartbeats keep a quiet connection alive: while every frame arrives and *)
(* both ends poll within a tick, no deadline of either end fires; and as   *)
(* long as the listener is the advertised one, no end ever takes a frame   *)
(* for one of another session, however late it comes.                      *)
NoFalseAlarm ==
  \A e \in {server, client} :
    /\ faults = 0 => e.reason \notin {"INACTIVITY_TIMEOUT", "HANDSHAKE_TIMEOUT"}
    /\ service.token = 1 => e.reason \notin {"SESSION_MISMATCH", "PROTOCOL_INCOMPATIBLE"}

(* A connection holds the server's only place for as long as the server    *)
(* believes in it, and every believed connection can still end by itself:  *)
(* a handshake has its deadline running and an established session its     *)
(* inactivity limit, on both ends and whatever happened before.            *)
NeverStuck ==
  \A e \in {server, client} :
    /\ e.sock # 0 <=> e.status \in {"CONNECTING", "HANDSHAKING", "CONNECTED"}
    /\ e.status \in {"CONNECTING", "HANDSHAKING"} <=> e.left # NoDeadline
    /\ e.status = "CONNECTED" <=> e.sid # NoSession /\ e.left = NoDeadline

(* Once the faults stop, both ends end up in the same session and stay in  *)
(* it, unless the sending program was replaced by one the receiver cannot  *)
(* talk to: half-open connections time out, a stale advertisement is       *)
(* replaced, and the backoff lets every attempt be followed by another.    *)
Relinks ==
  <>[](service.compatible => /\ told["server"] # NoSession
                             /\ told["client"] = told["server"])
=============================================================================
