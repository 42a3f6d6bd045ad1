----------------------------- MODULE AppleMidi -----------------------------
(***************************************************************************)
(* The AppleMIDI session between two computers and the Control Changes it  *)
(* carries (RemoteMidiTransport of hardware/remote_midi.py), over UDP that *)
(* loses, repeats, delays and reorders datagrams.  The sender "snd" owns   *)
(* the controller and waits for invitations; the receiver "rcv" finds it   *)
(* by DNS-SD and invites it, first on the control and then on the data     *)
(* socket.  An end is a record; a handler turns a port, an end with the    *)
(* datagrams it has sent, into a port.  Time passes in ticks.              *)
(***************************************************************************)
EXTENDS Integers, Sequences, FiniteSets, SequencesExt

CONSTANTS
  Bindings,           \* the (channel, control) pairs of the faders
  Tokens,             \* session tokens, drawn again when out of use
  SequenceBits,       \* width of an RTP sequence number: 16 in the code
  SequenceWindow,     \* how far ahead of the last one a new number may be
  OutgoingCapacity,
  InvitationInterval, MaxInvitations, SyncInterval, InactivityTimeout,
  MaxBackoff, RecoveryInitial, RecoveryMax, ReannounceLimit,
  MaxCC,              \* bounds of the model: Control Changes queued,
  MaxFaults           \* and faults of any kind

ASSUME AppleMidiAssumption ==
  /\ Tokens \subseteq Nat \ {0} /\ Tokens # {}
  /\ SequenceBits \in Nat /\ SequenceWindow \in Nat \ {0}
  /\ OutgoingCapacity \in Nat \ {0}
  /\ InvitationInterval \in Nat \ {0} /\ MaxInvitations \in Nat \ {0}
  /\ MaxInvitations * InvitationInterval < InactivityTimeout
  /\ SyncInterval \in Nat \ {0} /\ InactivityTimeout \in Nat
  /\ SyncInterval < InactivityTimeout
  /\ MaxBackoff \in Nat /\ InvitationInterval <= MaxBackoff
  /\ MaxCC \in Nat /\ MaxFaults \in Nat

(* A number says which of two Control Changes is the newer while there are *)
(* not so many that a late one comes within the window of the next round.  *)
ASSUME WindowAssumption == MaxCC + SequenceWindow <= 2 ^ SequenceBits

(* Arithmetic: a power of two is a positive number.                        *)
ASSUME PowerAssumption == \A n \in 0..6 \cup {SequenceBits} : 2 ^ n \in Nat \ {0}

VARIABLES
  snd, rcv,     \* the two ends
  net,          \* net[r][s]: datagrams on the way to socket s of end r
  up,           \* whether the network carries anything
  changes,      \* discovery changes the receiver has not applied yet
  accepted,     \* accepted[b]: the newest Control Change queued of binding b
  handled,      \* handled[b]: the last one the receiver passed on
  heard,        \* the last one it passed on in its present session
  faults

vars == <<snd, rcv, net, up, changes, accepted, handled, heard, faults>>

Roles == {"snd", "rcv"}
Sockets == {"control", "data"}
NoPeer == 0
Never == -1
SequenceModulus == 2 ^ SequenceBits

Least(a, b) == IF a < b THEN a ELSE b

(* The first sequence number is drawn at random: this is the last before   *)
(* the wrap, so that few Control Changes reach it.                         *)
Fresh(role, ssrc) ==
  [role |-> role, state |-> "IDLE", ssrc |-> ssrc, token |-> 0, remote |-> NoPeer,
   data |-> FALSE, quiet |-> 0, tries |-> 0, wait |-> 0, sync |-> 0, last |-> Never,
   attempt |-> 0, was |-> FALSE, recoverAt |-> Never, recovery |-> 0,
   known |-> FALSE, recent |-> FALSE, out |-> <<>>, sequence |-> SequenceModulus - 1]

Datagram(e, sock, kind, token, cc) ==
  [sock |-> sock, kind |-> kind, token |-> token, ssrc |-> e.ssrc, cc |-> cc]

(* The receiver takes new ports when it starts: what is sent to the ports  *)
(* of one that is gone is lost, and everything is while the network fails. *)
Carried(e, remote) == up /\ (e.role = "snd" => remote = rcv.ssrc)

Unsent == [s \in Sockets |-> <<>>]

Control(p, sock, kind) ==
  IF Carried(p.e, p.e.remote)
  THEN [p EXCEPT !.tx[sock] = Append(@, Datagram(p.e, sock, kind, p.e.token, <<>>))]
  ELSE p

SendSync(p) ==
  [Control(p, "data", "CK0") EXCEPT !.e.sync = SyncInterval]

SendEnd(p) ==
  IF p.e.token = 0 THEN p
  ELSE LET q == Control(p, "control", "BY")
       IN  IF p.e.data THEN Control(q, "data", "BY") ELSE q

\* Mutant: the token of the old session is kept for the next one.
ClearedButForToken(e) ==
  [e EXCEPT !.remote = NoPeer, !.data = FALSE, !.quiet = 0,
            !.last = Never, !.tries = 0, !.wait = 0]

ClearSession(e) ==
  [e EXCEPT !.token = 0, !.remote = NoPeer, !.data = FALSE, !.quiet = 0,
            !.last = Never, !.tries = 0, !.wait = 0]

EndForFailure(p, sendEnd) ==
  LET q == IF sendEnd THEN SendEnd(p) ELSE p
      e == [ClearSession(q.e) EXCEPT !.out = <<>>]
      a == Least(e.attempt + 1, 7)
      delay == Least(MaxBackoff, 2 ^ (a - 1))
  IN  [q EXCEPT !.e = IF e.role = "snd" THEN [e EXCEPT !.state = "IDLE"]
                      ELSE [e EXCEPT !.state = "BACKOFF", !.attempt = a, !.wait = delay]]

MarkConnected(p) ==
  LET q == [p EXCEPT !.e.state = "CONNECTED", !.e.quiet = 0, !.e.sync = 0,
                     !.e.last = Never, !.e.attempt = 0]
  IN  IF p.e.role = "rcv" THEN SendSync(q) ELSE q

SendCurrentInvitation(p) ==
  LET sock == IF p.e.state = "INVITING_DATA" THEN "data" ELSE "control"
  IN  [Control(p, sock, "IN") EXCEPT !.e.tries = @ + 1, !.e.wait = InvitationInterval]

(* The sender answers an invitation at the port it came from.              *)
Answer(p, d, kind) ==
  IF Carried(p.e, d.ssrc)
  THEN [p EXCEPT !.tx[d.sock] = Append(@, Datagram(p.e, d.sock, kind, d.token, <<>>))]
  ELSE p

\* Mutant: a receiver that is known is in the session it asks for.
SamePeer(e, d) == e.token # 0 /\ d.ssrc = e.remote

SameSession(e, d) == d.token = e.token /\ d.ssrc = e.remote

(* limited: another invitation from there came less than 0.1 s ago.        *)
HandleInvitation(p, d, limited) ==
  CASE SameSession(p.e, d) /\ d.sock = "data" ->
         LET q == [p EXCEPT !.e.data = TRUE, !.e.quiet = 0]
         IN  Answer(IF q.e.state = "CONNECTED" THEN q ELSE MarkConnected(q), d, "OK")
    [] SameSession(p.e, d) /\ d.sock = "control" ->
         Answer([p EXCEPT !.e.quiet = 0], d, "OK")
    [] OTHER ->
         LET q == [p EXCEPT !.e.recent = @ \/ d.sock = "control"]
         IN  IF limited \/ q.e.remote # NoPeer \/ d.sock = "data" THEN Answer(q, d, "NO")
             ELSE Answer([q EXCEPT !.e.token = d.token, !.e.remote = d.ssrc,
                                   !.e.data = FALSE, !.e.quiet = 0,
                                   !.e.state = "INVITING_DATA"], d, "OK")

HandleAccept(p, d) ==
  IF d.token # p.e.token \/ ~p.e.known THEN p
  ELSE CASE d.sock = "control" /\ p.e.state = "INVITING_CONTROL" ->
              SendCurrentInvitation([p EXCEPT !.e.remote = d.ssrc, !.e.tries = 0,
                                              !.e.state = "INVITING_DATA"])
         [] d.sock = "data" /\ p.e.state = "INVITING_DATA" /\ d.ssrc = p.e.remote ->
              MarkConnected(p)
         [] OTHER -> p

MatchesActive(e, d) ==
  /\ d.token = e.token
  /\ e.remote # NoPeer /\ d.ssrc = e.remote
  /\ d.sock = "data" => e.data

HandleSync(p, d) ==
  IF \/ p.e.state # "CONNECTED" \/ ~p.e.data
     \/ p.e.remote = NoPeer \/ d.ssrc # p.e.remote
  THEN p
  ELSE LET q == [p EXCEPT !.e.quiet = 0]
       IN  CASE d.kind = "CK0" -> Control(q, "data", "CK1")
             [] d.kind = "CK1" -> Control(q, "data", "CK2")
             [] OTHER -> q

\* Mutant: a smaller number is an old one, wherever the count has wrapped.
SequenceIsLarger(e, n) == n > e.last

\* Mutant: only the number seen last is an old one.
SequenceIsDifferent(e, n) == n # e.last

SequenceIsNew(e, n) ==
  \/ e.last = Never
  \/ (n - e.last) % SequenceModulus \in 1..SequenceWindow

RtpIsNew(e, d) ==
  /\ e.state = "CONNECTED" /\ d.ssrc = e.remote
  /\ SequenceIsNew(e, d.token)

HandleDatagram(p, d, limited) ==
  CASE d.kind = "IN" -> IF p.e.role = "snd" THEN HandleInvitation(p, d, limited) ELSE p
    [] d.kind = "OK" -> IF p.e.role = "rcv" THEN HandleAccept(p, d) ELSE p
    [] d.kind = "NO" -> IF MatchesActive(p.e, d) THEN EndForFailure(p, TRUE) ELSE p
    [] d.kind = "BY" -> IF MatchesActive(p.e, d) THEN EndForFailure(p, FALSE) ELSE p
    [] d.kind = "CC" -> IF RtpIsNew(p.e, d)
                        THEN [p EXCEPT !.e.last = d.token, !.e.quiet = 0] ELSE p
    [] OTHER -> HandleSync(p, d)

-----------------------------------------------------------------------------

(* The tail of poll: queued Control Changes, discovery, timers, recovery.  *)
FlushOutgoing(p) ==
  IF p.e.state # "CONNECTED" \/ ~p.e.data THEN p
  ELSE LET ccs == [i \in DOMAIN p.e.out |->
                     Datagram(p.e, "data", "CC", p.e.out[i].sequence, p.e.out[i].cc)]
       IN  [e  |-> [p.e EXCEPT !.out = <<>>],
            tx |-> IF Carried(p.e, p.e.remote) THEN [p.tx EXCEPT !["data"] = @ \o ccs] ELSE p.tx]

(* DNS-SD takes the peer from the receiver, with its session, or gives it. *)
ApplyDiscoveryChange(p, kind) ==
  IF kind = "add" THEN [p EXCEPT !.e.known = TRUE]
  ELSE LET q == [p EXCEPT !.e.known = FALSE]
           active == {"INVITING_CONTROL", "INVITING_DATA", "CONNECTED"}
       IN  IF p.e.known /\ p.e.state \in active THEN EndForFailure(q, TRUE) ELSE q

(* A random token is none of those still in use, as long as there is one.  *)
UnusedToken ==
  LET seen == {snd.token, rcv.token}
              \cup {d.token : d \in UNION {ToSet(net[r][s]) : r \in Roles, s \in Sockets}}
  IN  CHOOSE t \in Tokens : t \in seen => Tokens \subseteq seen

BeginInvitation(p) ==
  SendCurrentInvitation([p EXCEPT !.e = [ClearSession(@) EXCEPT !.token = UnusedToken,
                                           !.data = TRUE, !.state = "INVITING_CONTROL"]])

AdvanceSession(p) ==
  IF p.e.quiet >= InactivityTimeout           THEN EndForFailure(p, TRUE)
  ELSE IF p.e.role = "rcv" /\ p.e.sync = 0    THEN SendSync(p)
                                              ELSE p

\* Mutant: only a connected session is given up when nothing comes.
AdvanceSenderPatiently(p) == p

AdvanceSender(p) ==
  IF p.e.state = "INVITING_DATA" /\ p.e.quiet >= InactivityTimeout
  THEN EndForFailure(p, TRUE) ELSE p

AdvanceReceiver(p) ==
  CASE p.e.state \in {"BACKOFF", "IDLE"} ->
         IF p.e.state = "BACKOFF" /\ p.e.wait > 0 THEN p
         ELSE IF p.e.known THEN BeginInvitation(p) ELSE [p EXCEPT !.e.state = "IDLE"]
    [] p.e.state \in {"INVITING_CONTROL", "INVITING_DATA"} /\ p.e.wait = 0 ->
         IF p.e.tries >= MaxInvitations THEN EndForFailure(p, TRUE)
                                        ELSE SendCurrentInvitation(p)
    [] OTHER -> p

AdvanceTimers(p) ==
  IF p.e.state = "CONNECTED"  THEN AdvanceSession(p)
  ELSE IF p.e.role = "snd"    THEN AdvanceSender(p)
                              ELSE AdvanceReceiver(p)

(* _recover_discovery up to the question whether the time has come.        *)
RecoveryPlanned(e) ==
  LET f == IF e.was THEN [e EXCEPT !.was = FALSE, !.recovery = 0, !.recoverAt = RecoveryInitial]
                    ELSE e
  IN  IF e.state = "CONNECTED" THEN [e EXCEPT !.was = TRUE, !.recoverAt = Never]
      ELSE CASE e.role = "rcv" /\ e.known -> [f EXCEPT !.recoverAt = Never]
             [] e.role = "rcv" /\ ~e.known /\ f.recoverAt = Never ->
                  [f EXCEPT !.recovery = 0, !.recoverAt = RecoveryInitial]
             [] e.role = "snd" /\ f.recovery >= ReannounceLimit ->
                  [f EXCEPT !.recoverAt = Never]
             [] OTHER -> f

RecoveryDue(e) == e.state # "CONNECTED" /\ RecoveryPlanned(e).recoverAt = 0

RecoverDiscovery(e) ==
  LET f == RecoveryPlanned(e)
      n == Least(f.recovery + 1, ReannounceLimit)
  IN  IF ~RecoveryDue(e) THEN f
      ELSE [f EXCEPT !.recovery = n,
                     !.recoverAt = Least(RecoveryMax, RecoveryInitial * 2 ^ Least(n, 5))]

End(r) == IF r = "snd" THEN snd ELSE rcv

(* The discovery changes in turn, from port p on: what each one leaves.    *)
Applying(p) ==
  LET after[i \in 0..Len(changes)] ==
        IF i = 0 THEN p ELSE ApplyDiscoveryChange(after[i - 1], changes[i])
  IN  after

Polled(r) ==
  LET flushed == FlushOutgoing([e |-> End(r), tx |-> Unsent])
  IN  AdvanceTimers(IF r = "rcv" THEN Applying(flushed)[Len(changes)] ELSE flushed)

-----------------------------------------------------------------------------

OtherEnd(r) == IF r = "snd" THEN "rcv" ELSE "snd"

Sending(network, r, tx) ==
  [network EXCEPT ![OtherEnd(r)] = [s \in Sockets |-> @[s] \o tx[s]]]

Becomes(r, e) ==
  /\ snd' = IF r = "snd" THEN e ELSE snd
  /\ rcv' = IF r = "rcv" THEN e ELSE rcv

Fault == faults < MaxFaults /\ faults' = faults + 1

Init ==
  /\ snd = Fresh("snd", 1)
  /\ rcv = Fresh("rcv", 1)
  /\ net = [r \in Roles |-> [s \in Sockets |-> <<>>]]
  /\ up = TRUE
  /\ changes = <<"add">>
  /\ accepted = [b \in Bindings |-> 0]
  /\ handled = accepted
  /\ heard = 0
  /\ faults = 0

Newest == Max({0} \cup Range(accepted))

(* send_cc_with_sequence: the newest value of a binding replaces the one   *)
(* that still waits, at the end of the queue and with a new number.        *)
QueueCC(b) ==
  LET n == Newest + 1
      waiting == {i \in DOMAIN snd.out : snd.out[i].cc[1] = b}
      others == IF waiting = {} THEN snd.out ELSE RemoveAt(snd.out, Max(waiting))
  IN  /\ n <= MaxCC
      /\ Len(others) < OutgoingCapacity
      /\ snd' = [snd EXCEPT !.sequence = (@ + 1) % SequenceModulus,
                            !.out = Append(others, [sequence |-> snd.sequence, cc |-> <<b, n>>])]
      /\ accepted' = [accepted EXCEPT ![b] = n]
      /\ UNCHANGED <<rcv, net, up, changes, handled, heard, faults>>

(* One datagram: the i-th in the socket, which stays when it was repeated. *)
Receive(r, s, i, again) ==
  LET d == net[r][s][i]
      left == IF again THEN net ELSE [net EXCEPT ![r][s] = RemoveAt(@, i)]
      new == r = "rcv" /\ d.kind = "CC" /\ RtpIsNew(rcv, d)
  IN  /\ \E limited \in IF r = "snd" /\ snd.recent THEN BOOLEAN ELSE {FALSE} :
         \E p \in {HandleDatagram([e |-> End(r), tx |-> Unsent], d, limited)} :
           /\ Becomes(r, p.e)
           /\ net' = Sending(left, r, p.tx)
           /\ heard' = IF new THEN d.cc[2]
                       ELSE IF r = "rcv" /\ p.e.state # "CONNECTED" THEN 0 ELSE heard
      /\ handled' = IF new THEN [handled EXCEPT ![d.cc[1]] = d.cc[2]] ELSE handled
      /\ UNCHANGED <<up, changes, accepted>>

Arrives ==
  \E r \in Roles, s \in Sockets :
    /\ net[r][s] # <<>>
    /\ Receive(r, s, 1, FALSE)
    /\ UNCHANGED faults

ArrivesTwice ==
  /\ Fault
  /\ \E r \in Roles, s \in Sockets : net[r][s] # <<>> /\ Receive(r, s, 1, TRUE)

Overtakes ==
  /\ Fault
  /\ \E r \in Roles, s \in Sockets : Len(net[r][s]) > 1 /\ Receive(r, s, 2, FALSE)

IsLost ==
  /\ Fault
  /\ \E r \in Roles, s \in Sockets :
       net[r][s] # <<>> /\ net' = [net EXCEPT ![r][s] = Tail(@)]
  /\ UNCHANGED <<snd, rcv, up, changes, accepted, handled, heard>>

(* What recovery asks for is answered while the network carries it.        *)
Poll(r) ==
  \E p \in {Polled(r)} :
    /\ Becomes(r, RecoverDiscovery(p.e))
    /\ net' = Sending(net, r, p.tx)
    /\ changes' = (IF r = "rcv" THEN <<>> ELSE changes)
                    \o (IF RecoveryDue(p.e) /\ up THEN <<"add">> ELSE <<>>)
    /\ heard' = IF r = "rcv" /\ p.e.state # "CONNECTED" THEN 0 ELSE heard
    /\ UNCHANGED <<up, accepted, handled, faults>>

(* The sender is closed (close: it says goodbye and takes its service      *)
(* back) or killed, and started again with another SSRC.                   *)
SenderRestarts ==
  /\ Fault
  /\ snd' = Fresh("snd", snd.ssrc + 1)
  /\ \E closed \in BOOLEAN :
       /\ net' = IF closed THEN Sending(net, "snd", SendEnd([e |-> snd, tx |-> Unsent]).tx) ELSE net
       /\ changes' = IF ~up THEN changes
                     ELSE changes \o (IF closed THEN <<"remove", "add">> ELSE <<"add">>)
  /\ UNCHANGED <<rcv, up, accepted, handled, heard>>

(* The receiver is closed or killed, and comes back on other ports.        *)
ReceiverRestarts ==
  /\ Fault
  /\ \E closed \in BOOLEAN :
       net' = [(IF closed THEN Sending(net, "rcv", SendEnd([e |-> rcv, tx |-> Unsent]).tx) ELSE net)
                 EXCEPT !["rcv"] = [s \in Sockets |-> <<>>]]
  /\ rcv' = Fresh("rcv", rcv.ssrc + 1)
  /\ snd' = [snd EXCEPT !.recent = FALSE]
  /\ changes' = IF up THEN <<"add">> ELSE <<>>
  /\ heard' = 0
  /\ UNCHANGED <<up, accepted, handled>>

(* DNS-SD lets the service expire.                                         *)
ServiceExpires ==
  /\ Fault
  /\ rcv.known
  /\ changes' = Append(changes, "remove")
  /\ UNCHANGED <<snd, rcv, net, up, accepted, handled, heard>>

NetworkFails ==
  /\ Fault
  /\ up /\ up' = FALSE
  /\ net' = [r \in Roles |-> [s \in Sockets |-> <<>>]]
  /\ UNCHANGED <<snd, rcv, changes, accepted, handled, heard>>

NetworkReturns ==
  /\ ~up /\ up' = TRUE
  /\ UNCHANGED <<snd, rcv, net, changes, accepted, handled, heard, faults>>

Aged(e) ==
  [e EXCEPT !.quiet = IF e.token # 0 THEN Least(@ + 1, InactivityTimeout) ELSE @,
            !.wait = IF @ > 0 THEN @ - 1 ELSE @,
            !.sync = IF @ > 0 THEN @ - 1 ELSE @,
            !.recoverAt = IF @ > 0 THEN @ - 1 ELSE @,
            !.recent = FALSE]

(* Time passes once every datagram has arrived and both workers have       *)
(* polled; a delay beyond that is a fault.                                 *)
AllSettled ==
  /\ changes = <<>>
  /\ \A r \in Roles : /\ \A s \in Sockets : net[r][s] = <<>>
                      /\ RecoverDiscovery(Polled(r).e) = End(r) /\ Polled(r).tx = Unsent

Elapse ==
  /\ snd' = Aged(snd) /\ rcv' = Aged(rcv)
  /\ UNCHANGED <<net, up, changes, accepted, handled, heard>>

Tick == AllSettled /\ Elapse /\ UNCHANGED faults

SlowTick == ~AllSettled /\ Fault /\ Elapse

Next ==
  \/ \E b \in Bindings : QueueCC(b)
  \/ Arrives
  \/ ArrivesTwice
  \/ Overtakes
  \/ IsLost
  \/ \E r \in Roles : Poll(r)
  \/ SenderRestarts
  \/ ReceiverRestarts
  \/ ServiceExpires
  \/ NetworkFails
  \/ NetworkReturns
  \/ Tick
  \/ SlowTick

(* Datagrams arrive, both workers poll, the clock runs and an outage ends. *)
Spec ==
  /\ Init /\ [][Next]_vars
  /\ WF_vars(Arrives) /\ WF_vars(Tick) /\ WF_vars(NetworkReturns)
  /\ \A r \in Roles : WF_vars(Poll(r))

-----------------------------------------------------------------------------

TypeOK ==
  /\ \A e \in {snd, rcv} :
       /\ e.state \in {"IDLE", "INVITING_CONTROL", "INVITING_DATA", "CONNECTED", "BACKOFF"}
       /\ e.token \in Tokens \cup {0}
       /\ e.state \in {"INVITING_CONTROL", "INVITING_DATA", "CONNECTED"} <=> e.token # 0
       /\ e.state = "CONNECTED" => e.remote # NoPeer /\ e.data
       /\ Len(e.out) <= OutgoingCapacity
       /\ e.sequence \in 0..SequenceModulus - 1 /\ e.last \in -1..SequenceModulus - 1
       /\ e.tries \in 0..MaxInvitations /\ e.wait \in 0..MaxBackoff
  /\ faults \in 0..MaxFaults

(* Two computers that both believe in a session believe in the same one:   *)
(* whatever was lost, late or repeated, and whoever was restarted, no      *)
(* Control Change is sent into a session the other end does not have       *)
(* unless that other end has already left it.                              *)
Agreement ==
  snd.state = "CONNECTED" /\ rcv.state = "CONNECTED" /\ snd.remote = rcv.ssrc
    /\ rcv.remote = snd.ssrc
  => snd.token = rcv.token

(* Without faults every Control Change queued, before the session or in    *)
(* it, reaches the receiver or is superseded by a newer one of its         *)
(* binding, across the wrap of the sequence numbers; and no timer ever     *)
(* ends the session.                                                       *)
NewestArrives ==
  faults = 0 =>
    /\ rcv.state # "BACKOFF"
    /\ (/\ rcv.state = "CONNECTED" /\ snd.state = "CONNECTED" /\ snd.out = <<>>
        /\ net["rcv"]["data"] = <<>>) => handled = accepted

(* Within a session Control Changes are passed on in the order in which    *)
(* they were made and each at most once, whatever the network repeats or   *)
(* reorders.                                                               *)
InOrderOnce ==
  [][rcv'.last # rcv.last /\ rcv.state = "CONNECTED" /\ rcv'.state = "CONNECTED"
       => heard' > heard]_vars

(* Once the faults stop, the two ends are in one session for good: a half  *)
(* of a session left by a crash times out, a rejected receiver asks again  *)
(* and a service that went missing is browsed for.                         *)
Reconnects ==
  <>[](/\ snd.state = "CONNECTED" /\ rcv.state = "CONNECTED"
       /\ snd.token = rcv.token /\ snd.remote = rcv.ssrc /\ rcv.remote = snd.ssrc)
=============================================================================
