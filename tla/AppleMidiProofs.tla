-------------------------- MODULE AppleMidiProofs --------------------------
(***************************************************************************)
(* The types of the AppleMIDI session and the order of its Control         *)
(* Changes, for any number of bindings, tokens, Control Changes, restarts  *)
(* and network faults, any window and any time limits.                     *)
(*                                                                         *)
(* Why a sequence number tells the newer of two Control Changes: a sender  *)
(* numbers them consecutively from where it started, so that the number of *)
(* the n-th is n past a base of its own (Number), whatever was coalesced,  *)
(* dropped or lost in between.  The invariant (MidiInv) says it of every   *)
(* Control Change that waits at the sender or is on its way, also from a   *)
(* sender that is gone, and of the last one the receiver has passed on in  *)
(* its session (Ordered).                                                  *)
(*                                                                         *)
(* Without faults the ends go through the stages of the invitation and     *)
(* stay in the session, and no Control Change gets lost on its way         *)
(* (Undisturbed, in the second half).                                      *)
(***************************************************************************)
EXTENDS AppleMidi, SequenceTheorems, WellFoundedInduction, TLAPS

States == {"IDLE", "INVITING_CONTROL", "INVITING_DATA", "CONNECTED", "BACKOFF"}
Active == {"INVITING_CONTROL", "INVITING_DATA", "CONNECTED"}
Kinds == {"IN", "OK", "NO", "BY", "CK0", "CK1", "CK2", "CC"}
Numbers == 0..SequenceModulus - 1
CCs == Bindings \X Nat
Entry == [sequence : Numbers, cc : CCs]

Fields == {"role", "state", "ssrc", "token", "remote", "data", "quiet", "tries", "wait", "sync",
           "last", "attempt", "was", "recoverAt", "recovery", "known", "recent", "out", "sequence"}

\* What a datagram is, whatever happened to it.
Packet ==
  {d \in [sock : Sockets, kind : Kinds, token : Nat, ssrc : Nat \ {0}, cc : CCs \cup {<<>>}] :
     /\ d.kind = "IN" => d.token \in Tokens
     /\ d.kind = "CC" => d.token \in Numbers /\ d.cc \in CCs}
Plain == {d \in Packet : d.kind # "CC"}

\* An end is consistent in itself.
IsEnd(e) ==
  /\ DOMAIN e = Fields
  /\ e.role \in Roles /\ e.state \in States /\ e.ssrc \in Nat \ {0}
  /\ e.token \in Tokens \cup {0} /\ (e.state \in Active <=> e.token # 0)
  /\ e.remote \in Nat /\ e.data \in BOOLEAN
  /\ e.state \in {"INVITING_DATA", "CONNECTED"} => e.remote # NoPeer
  /\ e.state = "CONNECTED" => e.data
  /\ e.role = "rcv" => (e.token # 0 => e.data) /\ e.out = <<>>
  /\ e.tries \in 0..MaxInvitations /\ e.wait \in 0..MaxBackoff /\ e.attempt \in Nat
  /\ e.last \in Numbers \cup {Never} /\ e.sequence \in Numbers
  /\ e.out \in Seq(Entry) /\ Len(e.out) <= OutgoingCapacity

\* A port: what it has sent is of T.
IsPort(p, T) ==
  DOMAIN p = {"e", "tx"} /\ IsEnd(p.e) /\ p.tx \in [Sockets -> Seq(T)]

\* What no handler changes, and what it does to the queue.
Keeps(q, e) ==
  /\ q.role = e.role /\ q.ssrc = e.ssrc /\ q.sequence = e.sequence
  /\ q.out = e.out \/ q.out = <<>>

\* A session that goes on is the same session; no other begins.
GoesOn(q, e) ==
  q.state = "CONNECTED" => e.state = "CONNECTED" /\ q.remote = e.remote /\ q.last = e.last

\* A session that goes on is the same session; one that begins has heard nothing.
GoesOnOrBegins(q, e) ==
  q.state = "CONNECTED" =>
    IF e.state = "CONNECTED" THEN q.remote = e.remote /\ q.last = e.last ELSE q.last = Never

\* The number of the n-th Control Change of a sender with base b.
Number(b, n) == IF b + n < SequenceModulus THEN b + n ELSE b + n - SequenceModulus

\* The datagrams of senders up to k, with Control Changes up to the n-th.
Fit(base, k, n) ==
  {d \in Packet : d.kind = "CC" =>
     d.ssrc \in 1..k /\ d.cc[2] \in 1..n /\ d.token = Number(base[d.ssrc], d.cc[2])}

Ordered(base) ==
  /\ \A s \in Sockets : net["rcv"][s] \in Seq(Fit(base, snd.ssrc, Newest))
  /\ \A i \in 1..Len(snd.out) :
       /\ snd.out[i].cc[2] \in 1..Newest
       /\ snd.out[i].sequence = Number(base[snd.ssrc], snd.out[i].cc[2])
  /\ snd.sequence = Number(base[snd.ssrc], Newest + 1)
  /\ rcv.state # "CONNECTED" => heard = 0
  /\ rcv.state = "CONNECTED" =>
       IF rcv.last = Never THEN heard = 0
       ELSE /\ rcv.remote \in 1..snd.ssrc /\ heard \in 1..Newest
            /\ rcv.last = Number(base[rcv.remote], heard)

MidiInv ==
  /\ IsEnd(snd) /\ snd.role = "snd" /\ IsEnd(rcv) /\ rcv.role = "rcv"
  /\ net \in [Roles -> [Sockets -> Seq(Packet)]]
  /\ up \in BOOLEAN /\ changes \in Seq({"add", "remove"}) /\ faults \in 0..MaxFaults
  /\ accepted \in [Bindings -> 0..MaxCC] /\ heard \in 0..MaxCC
  /\ \E base \in [Nat -> Numbers] : Ordered(base)
-----------------------------------------------------------------------------
LEMMA Smallest ==
  ASSUME NEW S \in SUBSET Nat, S # {}
  PROVE  \E m \in S : \A n \in S : m <= n
<1>1. PICK m \in S : \A n \in S : ~(<<n, m>> \in OpToRel(<, Nat))
  BY NatLessThanWellFounded, WFMin, Zenon
<1>2. \A n \in S : ~(n < m)
  BY <1>1 DEF OpToRel
<1> QED BY <1>2

LEMMA Largest ==
  ASSUME NEW S, S # {}, NEW k \in Nat, S \subseteq 0..k
  PROVE  Max(S) \in S /\ \A n \in S : n <= Max(S)
<1> DEFINE U == {u \in 0..k : \A n \in S : n <= u}
<1>1. U \in SUBSET Nat /\ k \in U
  OBVIOUS
<1>2. PICK m \in U : \A u \in U : m <= u
  BY <1>1, Smallest
<1>3. m \in S
  <2> SUFFICES ASSUME m \notin S PROVE FALSE
    OBVIOUS
  <2>1. \A n \in S : n < m
    BY <1>2
  <2>2. m >= 1 /\ m - 1 \in 0..k
    <3>1. PICK x \in S : TRUE
      OBVIOUS
    <3>2. x \in Nat /\ x < m /\ m \in 0..k
      BY <2>1, <3>1
    <3> QED BY <3>2
  <2>3. m - 1 \in U
    BY <2>1, <2>2
  <2> QED BY <1>2, <2>2, <2>3
<1>4. \E x \in S : \A y \in S : x >= y
  BY <1>2, <1>3
<1>5. Max(S) \in S /\ \A y \in S : Max(S) >= y
  BY <1>4 DEF Max
<1> QED BY <1>5

LEMMA Modulus == SequenceModulus \in Nat \ {0} /\ MaxCC + SequenceWindow <= SequenceModulus
BY AppleMidiAssumption, PowerAssumption, WindowAssumption DEF SequenceModulus

LEMMA NumberIsNumber ==
  ASSUME NEW b \in Numbers, NEW n \in 0..MaxCC + 1
  PROVE  Number(b, n) \in Numbers
BY Modulus, AppleMidiAssumption DEF Number, Numbers

\* The next number is the number of the next.
LEMMA NumberNext ==
  ASSUME NEW b \in Numbers, NEW n \in 0..MaxCC
  PROVE  (Number(b, n) + 1) % SequenceModulus = Number(b, n + 1)
<1> DEFINE M == SequenceModulus
<1>1. M \in Nat \ {0} /\ b \in 0..M - 1 /\ n \in Nat /\ n < M
  BY Modulus, AppleMidiAssumption DEF Numbers
<1>2. M % M = 0 /\ \A d \in 0..M - 1 : d % M = d
  BY <1>1, SMTT(30)
<1> HIDE DEF M
<1>3. CASE b + n < M
  BY <1>1, <1>2, <1>3 DEF Number, M
<1>4. CASE ~(b + n < M)
  BY <1>1, <1>2, <1>4 DEF Number, M
<1> QED BY <1>3, <1>4

\* Of two Control Changes of a sender, the later one is within the window only if it is newer.
LEMMA WindowIsNewer ==
  ASSUME NEW b \in Numbers, NEW m \in 1..MaxCC, NEW n \in 1..MaxCC,
         (Number(b, n) - Number(b, m)) % SequenceModulus \in 1..SequenceWindow
  PROVE  n > m
<1> DEFINE M == SequenceModulus
           d == Number(b, n) - Number(b, m)
<1>1. M \in Nat \ {0} /\ b \in 0..M - 1 /\ MaxCC \in Nat /\ SequenceWindow \in Nat \ {0}
      /\ MaxCC + SequenceWindow <= M
  BY Modulus, AppleMidiAssumption DEF Numbers
<1>2. \A x \in 0..M - 1 : x % M = x
  BY <1>1, SMTT(30)
<1>3. \A x \in Int : 0 - M <= x /\ x < 0 => x % M = x + M
  BY <1>1, SMTT(30)
<1> SUFFICES ASSUME n <= m PROVE FALSE
  BY <1>1
<1>4. d \in {n - m, n - m + M, n - m - M} /\ d \in 1 - M..M - 1
  BY <1>1 DEF Number
<1>5. d % M \in 1..SequenceWindow
  OBVIOUS
<1> HIDE DEF M, d
<1>6. CASE d >= 0
  <2>1. d % M = d
    BY <1>1, <1>2, <1>4, <1>6
  <2>2. d = 0 \/ d >= M - (MaxCC - 1)
    BY <1>1, <1>4, <1>6
  <2>3. d \in 1..SequenceWindow
    BY <1>5, <2>1
  <2>4. MaxCC - 1 \in Nat /\ SequenceWindow < M - (MaxCC - 1)
    BY <1>1
  <2>5. d \in Int
    BY <1>1, <1>4
  <2> QED BY <1>1, <2>2, <2>3, <2>4, <2>5
<1>7. CASE d < 0
  <2>1. d % M = d + M
    BY <1>1, <1>3, <1>4, <1>7
  <2>2. d >= 0 - (MaxCC - 1)
    BY <1>1, <1>4, <1>7
  <2>3. d + M \in 1..SequenceWindow
    BY <1>5, <2>1
  <2>4. MaxCC - 1 \in Int /\ SequenceWindow < M - (MaxCC - 1)
    BY <1>1
  <2>5. d \in Int
    BY <1>1, <1>4
  <2> QED BY <1>1, <2>2, <2>3, <2>4, <2>5
<1> QED BY <1>1, <1>4, <1>6, <1>7
-----------------------------------------------------------------------------
(***************************************************************************)
(* What the handlers of an end do to a port: it stays one, and what was    *)
(* sent besides Control Changes is plain.                                  *)
(***************************************************************************)
LEMMA Limits ==
  /\ Tokens \subseteq Nat \ {0} /\ Tokens # {} /\ MaxFaults \in Nat /\ MaxCC \in Nat
  /\ OutgoingCapacity \in Nat \ {0} /\ MaxInvitations \in Nat \ {0} /\ MaxBackoff \in Nat
  /\ InvitationInterval \in Nat \ {0} /\ InvitationInterval <= MaxBackoff
BY AppleMidiAssumption

LEMMA TokenIsNumber == \A t \in Tokens \cup {0} : t \in Nat
<1>1. 0 \in Nat
  OBVIOUS
<1> QED BY <1>1, AppleMidiAssumption, Zenon

LEMMA Powers == \A a \in 1..7 : 2 ^ (a - 1) \in Nat
<1> SUFFICES ASSUME NEW a \in 1..7 PROVE 2 ^ (a - 1) \in Nat
  OBVIOUS
<1>1. a - 1 \in 0..6
  OBVIOUS
<1> DEFINE n == a - 1
<1> HIDE DEF n
<1>2. 2 ^ n \in Nat
  BY <1>1, PowerAssumption DEF n
<1> QED BY <1>2 DEF n

LEMMA Sends ==
  ASSUME NEW T, NEW p, IsPort(p, T), NEW s \in Sockets, NEW d \in T
  PROVE  LET q == [p EXCEPT !.tx[s] = Append(@, d)] IN IsPort(q, T) /\ q.e = p.e
<1>1. Append(p.tx[s], d) \in Seq(T)
  BY AppendProperties DEF IsPort
<1> DEFINE more == Append(p.tx[s], d)
<1> HIDE DEF more
<1>2. LET q == [p EXCEPT !.tx[s] = more] IN IsPort(q, T) /\ q.e = p.e
  BY <1>1 DEF IsPort, more
<1> QED BY <1>2 DEF more

LEMMA Turns ==
  ASSUME NEW T, NEW p, IsPort(p, T), NEW e, IsEnd(e)
  PROVE  LET q == [p EXCEPT !.e = e] IN IsPort(q, T) /\ q.e = e /\ q.tx = p.tx
BY DEF IsPort

LEMMA Controls ==
  ASSUME NEW T, Plain \subseteq T, NEW p, IsPort(p, T), NEW s \in Sockets,
         NEW kind \in Kinds \ {"CC"}, kind = "IN" => p.e.token \in Tokens
  PROVE  IsPort(Control(p, s, kind), T) /\ Control(p, s, kind).e = p.e
<1> DEFINE d == Datagram(p.e, s, kind, p.e.token, <<>>)
<1>1. p.e.token \in Nat /\ p.e.ssrc \in Nat \ {0}
  <2>1. p.e.token \in Tokens \cup {0} /\ p.e.ssrc \in Nat \ {0}
    BY DEF IsPort, IsEnd
  <2> QED BY <2>1, TokenIsNumber
<1>2. d \in Plain
  BY <1>1 DEF Datagram, Plain, Packet
<1> HIDE DEF d
<1> QED BY <1>2, Sends DEF Control, d

LEMMA Answers ==
  ASSUME NEW T, Plain \subseteq T, NEW p, IsPort(p, T), NEW d \in Packet,
         NEW kind \in {"OK", "NO"}
  PROVE  IsPort(Answer(p, d, kind), T) /\ Answer(p, d, kind).e = p.e
<1> DEFINE a == Datagram(p.e, d.sock, kind, d.token, <<>>)
<1>1. a \in Plain /\ d.sock \in Sockets
  BY DEF IsPort, IsEnd, Datagram, Plain, Packet, Kinds
<1> HIDE DEF a
<1> QED BY <1>1, Sends DEF Answer, a

LEMMA Syncs ==
  ASSUME NEW T, Plain \subseteq T, NEW p, IsPort(p, T)
  PROVE  LET q == SendSync(p) IN
         IsPort(q, T) /\ Keeps(q.e, p.e)
         /\ \A f \in Fields \ {"sync"} : q.e[f] = p.e[f]
<1> DEFINE c == Control(p, "data", "CK0")
           e == [p.e EXCEPT !.sync = SyncInterval]
<1>1. IsPort(c, T) /\ c.e = p.e
  BY Controls DEF Sockets, Kinds
<1>2. IsEnd(e) /\ Keeps(e, p.e) /\ \A f \in Fields \ {"sync"} : e[f] = p.e[f]
  BY DEF IsPort, IsEnd, Fields, Keeps
<1> HIDE DEF e, c
<1>3. [c EXCEPT !.e.sync = SyncInterval] = [c EXCEPT !.e = e]
  BY <1>1 DEF e
<1>4. SendSync(p) = [c EXCEPT !.e = e]
  BY <1>3 DEF SendSync, c
<1> QED BY <1>1, <1>2, <1>4, Turns

LEMMA Ends ==
  ASSUME NEW T, Plain \subseteq T, NEW p, IsPort(p, T)
  PROVE  IsPort(SendEnd(p), T) /\ SendEnd(p).e = p.e
<1> DEFINE q == Control(p, "control", "BY")
<1>1. IsPort(q, T) /\ q.e = p.e
  BY Controls DEF Sockets, Kinds
<1> HIDE DEF q
<1>2. IsPort(Control(q, "data", "BY"), T) /\ Control(q, "data", "BY").e = p.e
  BY <1>1, Controls DEF Sockets, Kinds
<1> QED BY <1>1, <1>2 DEF SendEnd, q

LEMMA Fails ==
  ASSUME NEW T, Plain \subseteq T, NEW p, IsPort(p, T), NEW sendEnd \in BOOLEAN
  PROVE  LET q == EndForFailure(p, sendEnd) IN
         /\ IsPort(q, T) /\ Keeps(q.e, p.e) /\ q.e.token = 0
         /\ q.e.state = IF p.e.role = "snd" THEN "IDLE" ELSE "BACKOFF"
<1> DEFINE q == IF sendEnd THEN SendEnd(p) ELSE p
           a == Least(p.e.attempt + 1, 7)
           delay == Least(MaxBackoff, 2 ^ (a - 1))
           e == [ClearSession(p.e) EXCEPT !.out = <<>>]
           f == IF e.role = "snd" THEN [e EXCEPT !.state = "IDLE"]
                ELSE [e EXCEPT !.state = "BACKOFF", !.attempt = a, !.wait = delay]
<1>1. IsPort(q, T) /\ q.e = p.e
  BY Ends
<1>2. a \in 1..7
  <2>1. p.e.attempt \in Nat
    BY DEF IsPort, IsEnd
  <2> QED BY <2>1 DEF Least
<1>3. delay \in 0..MaxBackoff
  <2>1. 2 ^ (a - 1) \in Nat
    BY <1>2, Powers
  <2> DEFINE w == 2 ^ (a - 1)
  <2> HIDE DEF w
  <2>2. Least(MaxBackoff, w) \in 0..MaxBackoff
    BY <2>1, Limits DEF Least, w
  <2> QED BY <2>2 DEF w
<1> HIDE DEF a, delay, q
<1>4. /\ DOMAIN e = Fields /\ e.token = 0 /\ e.remote = NoPeer /\ e.data = FALSE
      /\ e.last = Never /\ e.tries = 0 /\ e.wait = 0 /\ e.out = <<>>
      /\ e.role = p.e.role /\ e.ssrc = p.e.ssrc /\ e.sequence = p.e.sequence
      /\ e.attempt = p.e.attempt
  BY DEF IsPort, IsEnd, ClearSession, Fields
<1> HIDE DEF e
<1>5. /\ DOMAIN f = Fields /\ f.token = 0 /\ f.remote = NoPeer /\ f.data = FALSE
      /\ f.last = Never /\ f.tries = 0 /\ f.out = <<>> /\ f.wait \in {0, delay}
      /\ f.role = p.e.role /\ f.ssrc = p.e.ssrc /\ f.sequence = p.e.sequence
      /\ f.attempt \in {p.e.attempt, a}
      /\ f.state = IF p.e.role = "snd" THEN "IDLE" ELSE "BACKOFF"
  BY <1>4 DEF Fields
<1> HIDE DEF f
<1>6. IsEnd(f)
  <2>1. <<>> \in Seq(Entry) /\ Len(<<>>) = 0
    BY EmptySeq
  <2>2. f.wait \in 0..MaxBackoff /\ f.tries \in 0..MaxInvitations /\ 0 <= OutgoingCapacity
    BY <1>3, <1>5, Limits
  <2>3. f.attempt \in Nat
    BY <1>2, <1>5 DEF IsPort, IsEnd
  <2>4. f.role \in Roles /\ f.ssrc \in Nat \ {0} /\ f.sequence \in Numbers
    BY <1>5 DEF IsPort, IsEnd
  <2>5. f.state \in States /\ f.state \notin Active
    BY <1>5 DEF States, Active
  <2>6. f.remote \in Nat /\ f.token \in Tokens \cup {0}
    BY <1>5 DEF NoPeer
  <2>60. f.data \in BOOLEAN
    BY <1>5, Zenon
  <2>7. f.last \in Numbers \cup {Never} /\ f.out \in Seq(Entry) /\ Len(f.out) <= OutgoingCapacity
    BY <1>5, <2>1, <2>2
  <2> QED BY <1>5, <2>2, <2>3, <2>4, <2>5, <2>6, <2>60, <2>7 DEF IsEnd, Active
<1>7. Keeps(f, p.e)
  BY <1>5 DEF Keeps
<1>8. EndForFailure(p, sendEnd) = [q EXCEPT !.e = f]
  <2>1. EndForFailure(p, sendEnd) =
          LET g == [ClearSession(q.e) EXCEPT !.out = <<>>]
              b == Least(g.attempt + 1, 7)
          IN  [q EXCEPT !.e = IF g.role = "snd" THEN [g EXCEPT !.state = "IDLE"]
                              ELSE [g EXCEPT !.state = "BACKOFF", !.attempt = b,
                                             !.wait = Least(MaxBackoff, 2 ^ (b - 1))]]
    BY DEF EndForFailure, q
  <2>2. [ClearSession(q.e) EXCEPT !.out = <<>>] = e /\ e.attempt = p.e.attempt
    BY <1>1, <1>4 DEF e
  <2> QED BY <2>1, <2>2 DEF f, a, delay
<1> QED BY <1>1, <1>5, <1>6, <1>7, <1>8, Turns

LEMMA Connects ==
  ASSUME NEW T, Plain \subseteq T, NEW p, IsPort(p, T),
         p.e.token # 0, p.e.remote # NoPeer, p.e.data
  PROVE  LET q == MarkConnected(p) IN
         IsPort(q, T) /\ Keeps(q.e, p.e) /\ q.e.last = Never
<1> DEFINE e == [p.e EXCEPT !.state = "CONNECTED", !.quiet = 0, !.sync = 0,
                            !.last = Never, !.attempt = 0]
           c == [p EXCEPT !.e = e]
<1>1. IsEnd(e) /\ Keeps(e, p.e) /\ e.last = Never
  BY DEF IsPort, IsEnd, Fields, Keeps, States, Active
<1> HIDE DEF e
<1>2. IsPort(c, T) /\ c.e = e
  BY <1>1, Turns
<1>3. [p EXCEPT !.e.state = "CONNECTED", !.e.quiet = 0, !.e.sync = 0,
                !.e.last = Never, !.e.attempt = 0] = c
  BY DEF IsPort, e
<1> HIDE DEF c
<1>4. IsPort(SendSync(c), T) /\ Keeps(SendSync(c).e, e) /\ SendSync(c).e.last = e.last
  BY <1>2, Syncs DEF Fields
<1> QED BY <1>1, <1>2, <1>3, <1>4 DEF MarkConnected, Keeps

LEMMA Invites ==
  ASSUME NEW T, Plain \subseteq T, NEW p, IsPort(p, T), p.e.token # 0,
         p.e.tries < MaxInvitations
  PROVE  LET q == SendCurrentInvitation(p) IN
         /\ IsPort(q, T) /\ Keeps(q.e, p.e)
         /\ \A f \in Fields \ {"tries", "wait"} : q.e[f] = p.e[f]
<1> DEFINE s == IF p.e.state = "INVITING_DATA" THEN "data" ELSE "control"
           c == Control(p, s, "IN")
           e == [p.e EXCEPT !.tries = @ + 1, !.wait = InvitationInterval]
<1>1. p.e.token \in Tokens
  BY DEF IsPort, IsEnd
<1>2. IsPort(c, T) /\ c.e = p.e
  BY <1>1, Controls DEF Sockets, Kinds
<1>3. /\ DOMAIN e = Fields /\ e.tries = p.e.tries + 1 /\ e.wait = InvitationInterval
      /\ \A f \in Fields \ {"tries", "wait"} : e[f] = p.e[f]
  BY DEF IsPort, IsEnd, Fields
<1>4. SendCurrentInvitation(p) = [c EXCEPT !.e = e]
  BY <1>2 DEF SendCurrentInvitation
<1> HIDE DEF c, e
<1>5. e.tries \in 0..MaxInvitations /\ e.wait \in 0..MaxBackoff
  <2>1. p.e.tries \in 0..MaxInvitations
    BY DEF IsPort, IsEnd
  <2> QED BY <1>3, <2>1, Limits
<1>6. IsEnd(e) /\ Keeps(e, p.e)
  BY <1>3, <1>5 DEF IsPort, IsEnd, Keeps, Fields
<1> QED BY <1>2, <1>3, <1>4, <1>6, Turns

LEMMA Invited ==
  ASSUME NEW T, Plain \subseteq T, NEW p, IsPort(p, T), p.e.role = "snd",
         NEW d \in Packet, d.kind = "IN", NEW limited
  PROVE  LET q == HandleInvitation(p, d, limited) IN IsPort(q, T) /\ Keeps(q.e, p.e)
<1> DEFINE goal(q) == IsPort(q, T) /\ Keeps(q.e, p.e)
<1>1. d.token \in Tokens /\ d.token # 0 /\ d.ssrc \in Nat \ {0} /\ d.sock \in Sockets
  <2>1. d.token \in Tokens /\ d.ssrc \in Nat \ {0} /\ d.sock \in Sockets
    BY DEF Packet
  <2> QED BY <2>1, AppleMidiAssumption, Zenon
<1>2. ASSUME NEW q, goal(q), NEW kind \in {"OK", "NO"} PROVE goal(Answer(q, d, kind))
  BY <1>2, Answers
<1>3. ASSUME NEW e, IsEnd(e), Keeps(e, p.e) PROVE goal([p EXCEPT !.e = e])
  BY <1>3, Turns
<1>4. CASE SameSession(p.e, d) /\ d.sock = "data"
  <2> DEFINE e == [p.e EXCEPT !.data = TRUE, !.quiet = 0]
             q == [p EXCEPT !.e = e]
             r == IF q.e.state = "CONNECTED" THEN q ELSE MarkConnected(q)
  <2>1. IsEnd(e) /\ Keeps(e, p.e) /\ e.token # 0 /\ e.remote # NoPeer
    BY <1>1, <1>4 DEF IsPort, IsEnd, Fields, Keeps, SameSession, NoPeer
  <2>2. e.data
    BY DEF IsPort, IsEnd, Fields
  <2>3. [p EXCEPT !.e.data = TRUE, !.e.quiet = 0] = q
    BY DEF IsPort
  <2>4. HandleInvitation(p, d, limited) = Answer(r, d, "OK")
    BY <1>4, <2>3 DEF HandleInvitation
  <2> HIDE DEF e
  <2>5. IsPort(q, T) /\ q.e = e
    BY <2>1, Turns
  <2> HIDE DEF q
  <2>6. goal(r)
    <3>1. IsPort(MarkConnected(q), T) /\ Keeps(MarkConnected(q).e, e)
      BY <2>1, <2>2, <2>5, Connects
    <3> QED BY <2>1, <2>5, <3>1 DEF Keeps
  <2> HIDE DEF r, goal
  <2> QED BY <1>2, <2>4, <2>6 DEF goal
<1>5. CASE SameSession(p.e, d) /\ d.sock = "control"
  <2> DEFINE e == [p.e EXCEPT !.quiet = 0]
             q == [p EXCEPT !.e = e]
  <2>1. IsEnd(e) /\ Keeps(e, p.e)
    BY DEF IsPort, IsEnd, Fields, Keeps
  <2>2. HandleInvitation(p, d, limited) = Answer(q, d, "OK")
    BY <1>5 DEF HandleInvitation, IsPort
  <2> HIDE DEF e, goal
  <2>3. goal(q)
    BY <1>3, <2>1
  <2> HIDE DEF q
  <2> QED BY <1>2, <2>2, <2>3 DEF goal
<1>6. CASE ~SameSession(p.e, d)
  <2> DEFINE x == [p.e EXCEPT !.recent = @ \/ d.sock = "control"]
             e == [x EXCEPT !.token = d.token, !.remote = d.ssrc, !.data = FALSE, !.quiet = 0,
                            !.state = "INVITING_DATA"]
             q == [p EXCEPT !.e = x]
             r == [p EXCEPT !.e = e]
  <2>1. /\ DOMAIN x = Fields
        /\ \A f \in Fields \ {"recent"} : x[f] = p.e[f]
    BY DEF IsPort, IsEnd, Fields
  <2>2. HandleInvitation(p, d, limited) \in {Answer(q, d, "NO"), Answer(r, d, "OK")}
    <3>1. [p EXCEPT !.e.recent = @ \/ d.sock = "control"] = q
      BY DEF IsPort
    <3>2. [q EXCEPT !.e.token = d.token, !.e.remote = d.ssrc, !.e.data = FALSE, !.e.quiet = 0,
                    !.e.state = "INVITING_DATA"] = r
      BY DEF IsPort
    <3> HIDE DEF q, r
    <3> QED BY <1>6, <3>1, <3>2 DEF HandleInvitation
  <2> HIDE DEF x
  <2>3. IsEnd(x) /\ Keeps(x, p.e) /\ x.role = "snd"
    BY <2>1 DEF IsPort, IsEnd, Keeps, Fields
  <2>4. IsEnd(e) /\ Keeps(e, p.e)
    BY <1>1, <2>3 DEF IsEnd, Keeps, Fields, States, Active, NoPeer
  <2> HIDE DEF e, goal
  <2>5. goal(q) /\ goal(r)
    BY <1>3, <2>3, <2>4
  <2> HIDE DEF q, r
  <2> QED BY <1>2, <2>2, <2>5 DEF goal
<1>7. d.sock \in {"data", "control"}
  BY <1>1 DEF Sockets
<1> QED BY <1>4, <1>5, <1>6, <1>7

LEMMA Accepted ==
  ASSUME NEW T, Plain \subseteq T, NEW p, IsPort(p, T), p.e.role = "rcv", NEW d \in Packet
  PROVE  LET q == HandleAccept(p, d) IN
         IsPort(q, T) /\ Keeps(q.e, p.e) /\ GoesOnOrBegins(q.e, p.e)
<1>1. d.ssrc \in Nat \ {0} /\ d.sock \in Sockets
  BY DEF Packet
<1>2. CASE d.sock = "control" /\ p.e.state = "INVITING_CONTROL"
  <2> DEFINE e == [p.e EXCEPT !.remote = d.ssrc, !.tries = 0, !.state = "INVITING_DATA"]
             q == [p EXCEPT !.e = e]
             r == SendCurrentInvitation(q)
  <2>1. /\ IsEnd(e) /\ Keeps(e, p.e) /\ e.token # 0 /\ e.tries = 0 /\ e.state = "INVITING_DATA"
    BY <1>1, <1>2, Limits, SMTT(60) DEF IsPort, IsEnd, Fields, Keeps, States, Active, NoPeer
  <2>2. [p EXCEPT !.e.remote = d.ssrc, !.e.tries = 0, !.e.state = "INVITING_DATA"] = q
    BY DEF IsPort
  <2>3. HandleAccept(p, d) \in {p, r}
    BY <1>2, <2>2 DEF HandleAccept
  <2> HIDE DEF e
  <2>4. IsPort(q, T) /\ q.e = e
    BY <2>1, Turns
  <2> HIDE DEF q
  <2>5. IsPort(r, T) /\ Keeps(r.e, e) /\ r.e.state = e.state
    BY <2>1, <2>4, Limits, Invites DEF Fields
  <2> HIDE DEF r
  <2> QED BY <2>1, <2>3, <2>5 DEF Keeps, GoesOnOrBegins
<1>3. CASE d.sock = "data" /\ p.e.state = "INVITING_DATA"
  <2>1. HandleAccept(p, d) \in {p, MarkConnected(p)}
    BY <1>3 DEF HandleAccept
  <2>2. p.e.token # 0 /\ p.e.data /\ p.e.remote # NoPeer
    BY <1>3 DEF IsPort, IsEnd, Active
  <2>3. IsPort(MarkConnected(p), T) /\ Keeps(MarkConnected(p).e, p.e) /\ MarkConnected(p).e.last = Never
    BY <2>2, Connects
  <2> QED BY <1>3, <2>1, <2>3 DEF Keeps, GoesOnOrBegins
<1>4. CASE ~(d.sock = "control" /\ p.e.state = "INVITING_CONTROL")
           /\ ~(d.sock = "data" /\ p.e.state = "INVITING_DATA")
  BY <1>4 DEF HandleAccept, Keeps, GoesOnOrBegins
<1> QED BY <1>2, <1>3, <1>4

LEMMA Synced ==
  ASSUME NEW T, Plain \subseteq T, NEW p, IsPort(p, T), NEW d
  PROVE  LET q == HandleSync(p, d) IN
         IsPort(q, T) /\ Keeps(q.e, p.e) /\ GoesOn(q.e, p.e)
<1> DEFINE e == [p.e EXCEPT !.quiet = 0]
           q == [p EXCEPT !.e = e]
<1>1. IsEnd(e) /\ Keeps(e, p.e) /\ GoesOn(e, p.e)
  BY DEF IsPort, IsEnd, Fields, Keeps, GoesOn
<1>2. [p EXCEPT !.e.quiet = 0] = q
  BY DEF IsPort
<1>3. HandleSync(p, d) \in {p, q, Control(q, "data", "CK1"), Control(q, "data", "CK2")}
  BY <1>2 DEF HandleSync
<1> HIDE DEF e
<1>4. IsPort(q, T) /\ q.e = e
  BY <1>1, Turns
<1> HIDE DEF q
<1>5. ASSUME NEW kind \in {"CK1", "CK2"}
      PROVE  IsPort(Control(q, "data", kind), T) /\ Control(q, "data", kind).e = e
  BY <1>4, Controls DEF Sockets, Kinds
<1> QED BY <1>1, <1>3, <1>4, <1>5 DEF Keeps, GoesOn

\* One datagram at an end: only a Control Change that is new moves the number last seen.
LEMMA Handled ==
  ASSUME NEW T, Plain \subseteq T, NEW p, IsPort(p, T), NEW d \in Packet, NEW limited
  PROVE  LET q == HandleDatagram(p, d, limited) IN
         /\ IsPort(q, T) /\ Keeps(q.e, p.e)
         /\ p.e.role = "rcv" =>
              IF d.kind = "CC" /\ RtpIsNew(p.e, d)
              THEN q.e.state = "CONNECTED" /\ q.e.remote = p.e.remote /\ q.e.last = d.token
              ELSE GoesOnOrBegins(q.e, p.e)
<1> DEFINE q == HandleDatagram(p, d, limited)
<1>0. p.e.role \in Roles /\ IsPort(p, T) /\ Keeps(p.e, p.e) /\ GoesOnOrBegins(p.e, p.e)
  BY DEF IsPort, IsEnd, Keeps, GoesOnOrBegins
<1>1. CASE d.kind = "IN"
  <2>1. q = IF p.e.role = "snd" THEN HandleInvitation(p, d, limited) ELSE p
    BY <1>1 DEF HandleDatagram
  <2> QED BY <1>0, <1>1, <2>1, Invited
<1>2. CASE d.kind = "OK"
  <2>1. q = IF p.e.role = "rcv" THEN HandleAccept(p, d) ELSE p
    BY <1>2 DEF HandleDatagram
  <2> QED BY <1>0, <1>2, <2>1, Accepted
<1>3. CASE d.kind \in {"NO", "BY"}
  <2>1. PICK sendEnd \in BOOLEAN : q \in {p, EndForFailure(p, sendEnd)}
    BY <1>3 DEF HandleDatagram
  <2>2. LET r == EndForFailure(p, sendEnd) IN
        IsPort(r, T) /\ Keeps(r.e, p.e) /\ (p.e.role = "rcv" => r.e.state = "BACKOFF")
    BY Fails
  <2> QED BY <1>0, <1>3, <2>1, <2>2 DEF GoesOnOrBegins
<1>4. CASE d.kind = "CC"
  <2>1. CASE ~RtpIsNew(p.e, d)
    BY <1>0, <1>4, <2>1 DEF HandleDatagram
  <2>2. CASE RtpIsNew(p.e, d)
    <3> DEFINE e == [p.e EXCEPT !.last = d.token, !.quiet = 0]
    <3>1. d.token \in Numbers
      BY <1>4 DEF Packet
    <3>2. IsEnd(e) /\ Keeps(e, p.e) /\ e.state = p.e.state /\ e.remote = p.e.remote /\ e.last = d.token
      BY <3>1 DEF IsPort, IsEnd, Fields, Keeps
    <3>3. q = [p EXCEPT !.e = e]
      BY <1>4, <2>2 DEF HandleDatagram, IsPort
    <3> HIDE DEF e, q
    <3>4. IsPort(q, T) /\ q.e = e
      BY <3>2, <3>3, Turns
    <3>5. p.e.state = "CONNECTED"
      BY <2>2 DEF RtpIsNew
    <3> QED BY <1>4, <2>2, <3>2, <3>4, <3>5 DEF q
  <2> QED BY <2>1, <2>2
<1>5. CASE d.kind \in {"CK0", "CK1", "CK2"}
  <2>1. q = HandleSync(p, d)
    BY <1>5 DEF HandleDatagram
  <2>2. IsPort(q, T) /\ Keeps(q.e, p.e) /\ GoesOn(q.e, p.e)
    BY <2>1, Synced
  <2> QED BY <1>5, <2>2 DEF GoesOn, GoesOnOrBegins
<1>6. d.kind \in Kinds
  BY DEF Packet
<1> QED BY <1>1, <1>2, <1>3, <1>4, <1>5, <1>6 DEF Kinds
-----------------------------------------------------------------------------
(***************************************************************************)
(* A poll: flush, the discovery changes one at a time, and the timers.  No *)
(* session begins in it.                                                   *)
(***************************************************************************)
LEMMA GoesOnParts ==
  /\ \A e : Keeps(e, e) /\ GoesOn(e, e)
  /\ \A e, f, g : Keeps(f, e) /\ GoesOn(f, e) /\ Keeps(g, f) /\ GoesOn(g, f)
                    => Keeps(g, e) /\ GoesOn(g, e)
BY DEF Keeps, GoesOn

\* The datagrams a flush makes of the queue of end e.
Flushed(e) == [i \in DOMAIN e.out |-> Datagram(e, "data", "CC", e.out[i].sequence, e.out[i].cc)]

LEMMA Flushes ==
  ASSUME NEW T, NEW p, IsPort(p, T), Flushed(p.e) \in Seq(T)
  PROVE  LET q == FlushOutgoing(p) IN
         IsPort(q, T) /\ Keeps(q.e, p.e) /\ GoesOn(q.e, p.e)
<1> DEFINE q == FlushOutgoing(p)
           e == [p.e EXCEPT !.out = <<>>]
           more == [p.tx EXCEPT !["data"] = @ \o Flushed(p.e)]
           tx == IF Carried(p.e, p.e.remote) THEN more ELSE p.tx
<1>1. CASE p.e.state # "CONNECTED" \/ ~p.e.data
  BY <1>1, GoesOnParts DEF FlushOutgoing
<1>2. CASE ~(p.e.state # "CONNECTED" \/ ~p.e.data)
  <2>1. q = [e |-> e, tx |-> tx]
    BY <1>2 DEF FlushOutgoing, Flushed
  <2>2. IsEnd(e) /\ Keeps(e, p.e) /\ GoesOn(e, p.e)
    <3>1. <<>> \in Seq(Entry) /\ Len(<<>>) = 0 /\ 0 <= OutgoingCapacity
      BY EmptySeq, Limits
    <3>2. /\ DOMAIN e = Fields /\ e.out = <<>>
          /\ \A f \in Fields \ {"out"} : e[f] = p.e[f]
      BY DEF IsPort, IsEnd, Fields
    <3> HIDE DEF e
    <3> QED BY <3>1, <3>2 DEF IsPort, IsEnd, Keeps, GoesOn, Fields
  <2>3. tx \in [Sockets -> Seq(T)]
    <3>1. p.tx["data"] \in Seq(T) /\ p.tx \in [Sockets -> Seq(T)]
      BY DEF IsPort, Sockets
    <3> DEFINE w == p.tx["data"] \o Flushed(p.e)
    <3>2. w \in Seq(T)
      BY <3>1, ConcatProperties
    <3> HIDE DEF w
    <3>3. [p.tx EXCEPT !["data"] = w] \in [Sockets -> Seq(T)]
      BY <3>1, <3>2
    <3> QED BY <3>1, <3>3 DEF w
  <2> HIDE DEF e, tx, q
  <2>4. IsPort(q, T) /\ q.e = e
    BY <2>1, <2>2, <2>3 DEF IsPort
  <2> QED BY <2>2, <2>4 DEF q
<1> QED BY <1>1, <1>2

LEMMA ChangeApplied ==
  ASSUME NEW T, Plain \subseteq T, NEW p, IsPort(p, T), NEW kind
  PROVE  LET q == ApplyDiscoveryChange(p, kind) IN
         IsPort(q, T) /\ Keeps(q.e, p.e) /\ GoesOn(q.e, p.e)
<1> DEFINE e(k) == [p.e EXCEPT !.known = k]
           q(k) == [p EXCEPT !.e = e(k)]
<1>1. ASSUME NEW k \in BOOLEAN
      PROVE  IsPort(q(k), T) /\ Keeps(q(k).e, p.e) /\ GoesOn(q(k).e, p.e)
  <2> DEFINE f == e(k)
  <2>1. DOMAIN f = Fields /\ \A x \in Fields \ {"known"} : f[x] = p.e[x]
    BY DEF IsPort, IsEnd, Fields
  <2> HIDE DEF f
  <2>2. IsEnd(f) /\ Keeps(f, p.e) /\ GoesOn(f, p.e)
    BY <2>1 DEF IsPort, IsEnd, Keeps, GoesOn, Fields
  <2>3. q(k) = [p EXCEPT !.e = f]
    BY DEF f
  <2> HIDE DEF e, q
  <2> QED BY <2>2, <2>3, Turns
<1>2. [p EXCEPT !.e.known = TRUE] = q(TRUE) /\ [p EXCEPT !.e.known = FALSE] = q(FALSE)
  BY DEF IsPort
<1>3. ApplyDiscoveryChange(p, kind) \in {q(TRUE), q(FALSE), EndForFailure(q(FALSE), TRUE)}
  BY <1>2 DEF ApplyDiscoveryChange
<1> HIDE DEF q, e
<1>4. LET r == EndForFailure(q(FALSE), TRUE) IN
      IsPort(r, T) /\ Keeps(r.e, q(FALSE).e) /\ r.e.state # "CONNECTED"
  BY <1>1, Fails
<1> QED BY <1>1, <1>3, <1>4 DEF Keeps, GoesOn

LEMMA Counting ==
  ASSUME NEW n \in Nat, NEW T, 0 \in T, \A i \in 1..n : i - 1 \in T => i \in T
  PROVE  \A i \in 0..n : i \in T
<1> DEFINE S == {i \in 0..n : i \notin T}
<1> SUFFICES ASSUME S # {} PROVE FALSE
  OBVIOUS
<1>1. S \in SUBSET Nat
  OBVIOUS
<1>2. PICK m \in S : \A i \in S : m <= i
  BY <1>1, Smallest
<1>3. m \in 1..n /\ m \notin T
  BY <1>2
<1>4. m - 1 \in 0..n /\ ~(m <= m - 1)
  BY <1>3
<1>5. m - 1 \in T
  BY <1>2, <1>4
<1> QED BY <1>3, <1>5

LEMMA ApplyingChanges ==
  ASSUME NEW p, changes \in Seq({"add", "remove"})
  PROVE  LET after == Applying(p) IN
         /\ after[0] = p
         /\ \A i \in 1..Len(changes) : after[i] = ApplyDiscoveryChange(after[i - 1], changes[i])
<1> DEFINE N == Len(changes)
           Upto(n, f) == f = [i \in 0..n |-> IF i = 0 THEN p
                                             ELSE ApplyDiscoveryChange(f[i - 1], changes[i])]
           T == {n \in 0..N : \E f : Upto(n, f)}
<1>1. N \in Nat
  BY LenProperties
<1>2. 0 \in T
  <2> DEFINE f == [i \in 0..0 |-> p]
  <2>1. Upto(0, f)
    OBVIOUS
  <2>2. 0 \in 0..N
    BY <1>1
  <2> HIDE DEF Upto, f, N
  <2>3. \E g : Upto(0, g)
    BY <2>1
  <2> QED BY <2>2, <2>3
<1>3. ASSUME NEW n \in 1..N, n - 1 \in T PROVE n \in T
  <2>1. PICK f : Upto(n - 1, f)
    BY <1>3
  <2> DEFINE x == ApplyDiscoveryChange(f[n - 1], changes[n])
             g == [i \in 0..n |-> IF i = n THEN x ELSE f[i]]
             h == [i \in 0..n |-> IF i = 0 THEN p ELSE ApplyDiscoveryChange(g[i - 1], changes[i])]
  <2>2. ASSUME NEW i \in 0..n PROVE g[i] = h[i]
    <3>1. CASE i = 0
      <4>1. f[0] = p
        BY <1>1, <2>1
      <4> QED BY <3>1, <4>1
    <3>2. CASE i = n
      <4>1. g[n] = x /\ g[n - 1] = f[n - 1]
        BY <1>1
      <4>2. h[n] = ApplyDiscoveryChange(g[n - 1], changes[n])
        BY <1>1
      <4> QED BY <3>2, <4>1, <4>2
    <3>3. CASE i \in 1..(n - 1)
      <4>1. f[i] = ApplyDiscoveryChange(f[i - 1], changes[i])
        BY <1>1, <2>1, <3>3
      <4>2. g[i] = f[i] /\ g[i - 1] = f[i - 1]
        BY <1>1, <3>3
      <4>3. h[i] = ApplyDiscoveryChange(g[i - 1], changes[i])
        BY <1>1, <3>3
      <4> QED BY <4>1, <4>2, <4>3
    <3> QED BY <1>1, <3>1, <3>2, <3>3
  <2>3. g = h
    <3>1. DOMAIN g = 0..n /\ DOMAIN h = 0..n
      OBVIOUS
    <3>2. g = [i \in 0..n |-> g[i]] /\ h = [i \in 0..n |-> h[i]]
      OBVIOUS
    <3> HIDE DEF g, h
    <3> QED BY <2>2, <3>2
  <2> HIDE DEF g
  <2>4. Upto(n, g)
    BY <2>3 DEF h
  <2> QED BY <2>4
<1> HIDE DEF T
<1>4. N \in T
  <2> HIDE DEF N
  <2>1. \A i \in 1..N : i - 1 \in T => i \in T
    BY <1>3
  <2>2. \A i \in 0..N : i \in T
    BY <1>1, <1>2, <2>1, Counting
  <2> QED BY <1>1, <2>2
<1>5. PICK applying : Upto(N, applying)
  BY <1>4 DEF T
<1> DEFINE after == CHOOSE f : f = [i \in 0..N |-> IF i = 0 THEN p
                                     ELSE ApplyDiscoveryChange(f[i - 1], changes[i])]
<1>6. after = [i \in 0..N |-> IF i = 0 THEN p
                              ELSE ApplyDiscoveryChange(after[i - 1], changes[i])]
  BY <1>5, Zenon
<1>7. Applying(p) = after
  BY DEF Applying
<1> HIDE DEF after
<1> QED BY <1>1, <1>6, <1>7

LEMMA Applies ==
  ASSUME NEW T, Plain \subseteq T, NEW p, IsPort(p, T), changes \in Seq({"add", "remove"})
  PROVE  LET q == Applying(p)[Len(changes)] IN
         IsPort(q, T) /\ Keeps(q.e, p.e) /\ GoesOn(q.e, p.e)
<1> DEFINE after == Applying(p)
           good(q) == IsPort(q, T) /\ Keeps(q.e, p.e) /\ GoesOn(q.e, p.e)
           N == Len(changes)
           S == {i \in 0..N : good(after[i])}
<1>1. N \in Nat
  BY LenProperties
<1>2. after[0] = p /\ \A i \in 1..N : after[i] = ApplyDiscoveryChange(after[i - 1], changes[i])
  BY ApplyingChanges
<1> HIDE DEF after, N
<1>3. 0 \in S
  BY <1>1, <1>2, GoesOnParts
<1>4. ASSUME NEW i \in 1..N, i - 1 \in S PROVE i \in S
  <2> DEFINE q == after[i - 1]
             r == ApplyDiscoveryChange(q, changes[i])
  <2>1. good(q) /\ after[i] = r
    BY <1>2, <1>4
  <2> HIDE DEF q
  <2>2. IsPort(r, T) /\ Keeps(r.e, q.e) /\ GoesOn(r.e, q.e)
    BY <2>1, ChangeApplied
  <2> HIDE DEF r
  <2>3. good(r)
    BY <2>1, <2>2, GoesOnParts
  <2>4. good(after[i])
    BY <2>1, <2>3
  <2> HIDE DEF good
  <2>5. i \in 0..N
    BY <1>1
  <2> QED BY <2>4, <2>5
<1> HIDE DEF good
<1>5. N \in S
  <2> HIDE DEF S
  <2>1. \A i \in 1..N : i - 1 \in S => i \in S
    BY <1>4
  <2>2. \A i \in 0..N : i \in S
    BY <1>1, <1>3, <2>1, Counting
  <2> QED BY <1>1, <2>2
<1>6. good(after[N])
  BY <1>5
<1> QED BY <1>6 DEF good, after, N

LEMMA FreshToken == UnusedToken \in Tokens
<1> DEFINE seen == {snd.token, rcv.token}
                   \cup {d.token : d \in UNION {ToSet(net[r][s]) : r \in Roles, s \in Sockets}}
<1>1. UnusedToken = CHOOSE t \in Tokens : t \in seen => Tokens \subseteq seen
  BY DEF UnusedToken
<1> HIDE DEF seen
<1>2. \E t \in Tokens : t \in seen => Tokens \subseteq seen
  BY Limits
<1> QED BY <1>1, <1>2

LEMMA Begins ==
  ASSUME NEW T, Plain \subseteq T, NEW p, IsPort(p, T)
  PROVE  LET q == BeginInvitation(p) IN
         IsPort(q, T) /\ Keeps(q.e, p.e) /\ q.e.state # "CONNECTED"
<1> DEFINE u == UnusedToken
           e == [ClearSession(p.e) EXCEPT !.token = u, !.data = TRUE, !.state = "INVITING_CONTROL"]
           q == [p EXCEPT !.e = e]
           r == SendCurrentInvitation(q)
<1>1. u \in Tokens /\ u # 0
  <2>1. u \in Tokens
    BY FreshToken
  <2> QED BY <2>1, AppleMidiAssumption, Zenon
<1> HIDE DEF u
<1>2. /\ DOMAIN e = Fields /\ e.token = u /\ e.remote = NoPeer /\ e.data = TRUE
      /\ e.last = Never /\ e.tries = 0 /\ e.wait = 0 /\ e.state = "INVITING_CONTROL"
      /\ \A f \in {"role", "ssrc", "sequence", "attempt", "out"} : e[f] = p.e[f]
  BY DEF IsPort, IsEnd, ClearSession, Fields
<1> HIDE DEF e
<1>3. IsEnd(e)
  <2>1. e.remote \in Nat /\ e.last \in Numbers \cup {Never}
        /\ e.wait \in 0..MaxBackoff /\ e.tries \in 0..MaxInvitations
    BY <1>2, Limits DEF NoPeer
  <2>2. e.data \in BOOLEAN
    BY <1>2, Zenon
  <2> QED BY <1>1, <1>2, <2>1, <2>2 DEF IsPort, IsEnd, States, Active
<1>4. Keeps(e, p.e)
  BY <1>2 DEF Keeps
<1>5. IsPort(q, T) /\ q.e = e
  BY <1>3, Turns
<1> HIDE DEF q
<1>6. IsPort(r, T) /\ Keeps(r.e, e) /\ r.e.state = e.state
  <2>1. q.e.token # 0 /\ q.e.tries < MaxInvitations
    BY <1>1, <1>2, <1>5, Limits
  <2>2. IsPort(r, T) /\ Keeps(r.e, q.e) /\ \A f \in Fields \ {"tries", "wait"} : r.e[f] = q.e[f]
    BY <1>5, <2>1, Invites
  <2> HIDE DEF r
  <2> QED BY <1>5, <2>2 DEF Fields
<1>7. BeginInvitation(p) = r
  BY DEF BeginInvitation, r, q, e, u
<1> HIDE DEF r
<1> QED BY <1>2, <1>4, <1>6, <1>7 DEF Keeps

LEMMA TimersAdvanced ==
  ASSUME NEW T, Plain \subseteq T, NEW p, IsPort(p, T)
  PROVE  LET q == AdvanceTimers(p) IN
         IsPort(q, T) /\ Keeps(q.e, p.e) /\ GoesOn(q.e, p.e)
<1> DEFINE fail == EndForFailure(p, TRUE)
           sync == SendSync(p)
           again == SendCurrentInvitation(p)
           begin == BeginInvitation(p)
           idle == [p EXCEPT !.e.state = "IDLE"]
           good(q) == IsPort(q, T) /\ Keeps(q.e, p.e) /\ GoesOn(q.e, p.e)
<1>1. good(p)
  BY GoesOnParts
<1>2. good(fail)
  <2>1. IsPort(fail, T) /\ Keeps(fail.e, p.e) /\ fail.e.state # "CONNECTED"
    BY Fails
  <2> HIDE DEF fail
  <2> QED BY <2>1 DEF GoesOn
<1>3. good(sync)
  <2>1. IsPort(sync, T) /\ Keeps(sync.e, p.e) /\ \A f \in Fields \ {"sync"} : sync.e[f] = p.e[f]
    BY Syncs
  <2> HIDE DEF sync
  <2> QED BY <2>1 DEF GoesOn, Fields
<1>4. p.e.state \in Active /\ p.e.tries < MaxInvitations => good(again)
  <2> SUFFICES ASSUME p.e.state \in Active, p.e.tries < MaxInvitations PROVE good(again)
    OBVIOUS
  <2>1. p.e.token # 0
    BY DEF IsPort, IsEnd
  <2>2. IsPort(again, T) /\ Keeps(again.e, p.e)
        /\ \A f \in Fields \ {"tries", "wait"} : again.e[f] = p.e[f]
    BY <2>1, Invites
  <2> HIDE DEF again
  <2> QED BY <2>2 DEF GoesOn, Fields
<1>5. good(begin)
  <2>1. IsPort(begin, T) /\ Keeps(begin.e, p.e) /\ begin.e.state # "CONNECTED"
    BY Begins
  <2> HIDE DEF begin
  <2> QED BY <2>1 DEF GoesOn
<1>6. p.e.state \notin Active => good(idle)
  <2> SUFFICES ASSUME p.e.state \notin Active PROVE good(idle)
    OBVIOUS
  <2> DEFINE e == [p.e EXCEPT !.state = "IDLE"]
  <2>1. IsEnd(e) /\ Keeps(e, p.e) /\ GoesOn(e, p.e)
    BY DEF IsPort, IsEnd, Fields, States, Active, Keeps, GoesOn
  <2>2. idle = [p EXCEPT !.e = e]
    BY DEF IsPort
  <2> HIDE DEF e, idle
  <2> QED BY <2>1, <2>2, Turns
<1> HIDE DEF good, fail, sync, again, begin, idle
<1>7. CASE p.e.state = "CONNECTED"
  <2>1. AdvanceTimers(p) \in {fail, sync, p}
    BY <1>7 DEF AdvanceTimers, AdvanceSession, fail, sync
  <2> QED BY <1>1, <1>2, <1>3, <2>1 DEF good
<1>8. CASE p.e.state # "CONNECTED" /\ p.e.role = "snd"
  <2>1. AdvanceTimers(p) \in {fail, p}
    BY <1>8 DEF AdvanceTimers, AdvanceSender, fail
  <2> QED BY <1>1, <1>2, <2>1 DEF good
<1>9. CASE p.e.state # "CONNECTED" /\ p.e.role # "snd"
  <2>1. CASE p.e.state \in {"BACKOFF", "IDLE"}
    <3>1. AdvanceTimers(p) \in {p, begin, idle}
      BY <1>9, <2>1 DEF AdvanceTimers, AdvanceReceiver, begin, idle
    <3>2. p.e.state \notin Active
      BY <2>1 DEF Active
    <3> QED BY <1>1, <1>5, <1>6, <3>1, <3>2 DEF good
  <2>2. CASE p.e.state \in {"INVITING_CONTROL", "INVITING_DATA"} /\ p.e.wait = 0
    <3>1. p.e.tries \in 0..MaxInvitations /\ p.e.state \in Active
      BY <2>2 DEF IsPort, IsEnd, Active
    <3>2. AdvanceTimers(p) = IF p.e.tries >= MaxInvitations THEN fail ELSE again
      BY <1>9, <2>2 DEF AdvanceTimers, AdvanceReceiver, fail, again
    <3>3. ~(p.e.tries >= MaxInvitations) => p.e.tries < MaxInvitations
      BY <3>1, Limits
    <3> QED BY <1>2, <1>4, <3>1, <3>2, <3>3 DEF good
  <2>3. CASE /\ p.e.state \notin {"BACKOFF", "IDLE"}
             /\ ~(p.e.state \in {"INVITING_CONTROL", "INVITING_DATA"} /\ p.e.wait = 0)
    <3>1. AdvanceTimers(p) = p
      BY <1>9, <2>3 DEF AdvanceTimers, AdvanceReceiver
    <3> QED BY <1>1, <3>1 DEF good
  <2> QED BY <2>1, <2>2, <2>3
<1> QED BY <1>7, <1>8, <1>9

LEMMA Recovers ==
  ASSUME NEW e, IsEnd(e)
  PROVE  LET q == RecoverDiscovery(e) IN
         /\ IsEnd(q) /\ Keeps(q, e) /\ GoesOn(q, e) /\ q.state = e.state
<1> DEFINE fields == Fields \ {"was", "recovery", "recoverAt"}
           alike(q) == DOMAIN q = Fields /\ \A f \in fields : q[f] = e[f]
<1>1. ASSUME NEW q, alike(q), NEW a, NEW b, NEW c
      PROVE  /\ alike([q EXCEPT !.was = a]) /\ alike([q EXCEPT !.recoverAt = b])
             /\ alike([q EXCEPT !.recovery = c])
  BY <1>1 DEF Fields
<1>2. alike(e)
  BY DEF IsEnd
<1> DEFINE f0 == [e EXCEPT !.was = FALSE, !.recovery = 0, !.recoverAt = RecoveryInitial]
           f == IF e.was THEN f0 ELSE e
           g1 == [e EXCEPT !.was = TRUE, !.recoverAt = Never]
           g2 == [f EXCEPT !.recoverAt = Never]
           g3 == [f EXCEPT !.recovery = 0, !.recoverAt = RecoveryInitial]
           g == RecoveryPlanned(e)
<1> HIDE DEF alike
<1>3. alike(f0) /\ alike(f) /\ alike(g1)
  BY <1>1, <1>2
<1> HIDE DEF f0
<1>4. alike(g2) /\ alike(g3)
  BY <1>1, <1>3
<1>5. g \in {g1, g2, g3, f}
  BY DEF RecoveryPlanned, f0
<1> HIDE DEF f, g1, g2, g3
<1>6. alike(g)
  BY <1>3, <1>4, <1>5
<1> DEFINE n == Least(g.recovery + 1, ReannounceLimit)
           at == Least(RecoveryMax, RecoveryInitial * 2 ^ Least(n, 5))
           h == [g EXCEPT !.recovery = n, !.recoverAt = at]
<1>7. RecoverDiscovery(e) \in {g, h}
  BY DEF RecoverDiscovery
<1> HIDE DEF g, n, at
<1>8. alike(h)
  BY <1>1, <1>6
<1> HIDE DEF h
<1>9. alike(RecoverDiscovery(e))
  BY <1>6, <1>7, <1>8
<1> DEFINE q == RecoverDiscovery(e)
<1> HIDE DEF q
<1>10. DOMAIN q = Fields /\ \A x \in Fields \ {"was", "recovery", "recoverAt"} : q[x] = e[x]
  BY <1>9 DEF alike, q
<1>11. IsEnd(q) /\ Keeps(q, e) /\ GoesOn(q, e) /\ q.state = e.state
  BY <1>10 DEF IsEnd, Keeps, GoesOn, Fields
<1> QED BY <1>11 DEF q

LEMMA Ages ==
  ASSUME NEW e, IsEnd(e)
  PROVE  LET q == Aged(e) IN
         IsEnd(q) /\ \A f \in Fields \ {"quiet", "wait", "sync", "recoverAt", "recent"} : q[f] = e[f]
<1> DEFINE q == Aged(e)
<1>1. /\ DOMAIN q = Fields /\ q.wait = IF e.wait > 0 THEN e.wait - 1 ELSE e.wait
      /\ \A f \in Fields \ {"quiet", "wait", "sync", "recoverAt", "recent"} : q[f] = e[f]
  BY DEF Aged, IsEnd, Fields
<1> HIDE DEF q
<1>2. e.wait \in 0..MaxBackoff
  BY DEF IsEnd
<1>3. q.wait \in 0..MaxBackoff
  BY <1>1, <1>2, Limits
<1>4. IsEnd(q)
  BY <1>1, <1>3 DEF IsEnd, Fields
<1> QED BY <1>1, <1>4 DEF q
-----------------------------------------------------------------------------
(***************************************************************************)
(* The numbers across the steps.                                           *)
(***************************************************************************)
LEMMA NewestIsNumber ==
  ASSUME accepted \in [Bindings -> 0..MaxCC]
  PROVE  Newest \in 0..MaxCC /\ \A b \in Bindings : accepted[b] <= Newest
<1> DEFINE S == {0} \cup Range(accepted)
<1>1. S \subseteq 0..MaxCC /\ S # {} /\ MaxCC \in Nat
  BY Limits DEF Range
<1> HIDE DEF S
<1>2. Max(S) \in S /\ \A n \in S : n <= Max(S)
  BY <1>1, Largest
<1>3. Newest = Max(S)
  BY DEF Newest, S
<1>4. \A b \in Bindings : accepted[b] \in S
  BY DEF Range, S
<1> QED BY <1>1, <1>2, <1>3, <1>4

\* Whatever fits keeps fitting when more was sent, or by a new sender with a base of its own.
LEMMA FitGrows ==
  ASSUME NEW base, NEW more, NEW k \in Nat, NEW l \in Nat, NEW m \in Nat, NEW n \in Nat,
         k <= l, m <= n, \A i \in 1..k : more[i] = base[i]
  PROVE  Fit(base, k, m) \subseteq Fit(more, l, n)
<1> SUFFICES ASSUME NEW d \in Fit(base, k, m) PROVE d \in Fit(more, l, n)
  OBVIOUS
<1>1. CASE d.kind # "CC"
  BY <1>1 DEF Fit
<1>2. CASE d.kind = "CC"
  <2>1. d.ssrc \in 1..k /\ d.cc[2] \in 1..m /\ d.token = Number(base[d.ssrc], d.cc[2])
    BY <1>2 DEF Fit
  <2>2. d.ssrc \in 1..l /\ d.cc[2] \in 1..n /\ more[d.ssrc] = base[d.ssrc]
    BY <2>1
  <2> QED BY <2>1, <2>2 DEF Fit
<1> QED BY <1>1, <1>2

LEMMA PlainFits == \A base, k, n : Plain \subseteq Fit(base, k, n)
BY DEF Plain, Fit

LEMMA SeqGrows ==
  ASSUME NEW S, NEW T, S \subseteq T, NEW w \in Seq(S)
  PROVE  w \in Seq(T)
<1>1. Len(w) \in Nat /\ w \in [1..Len(w) -> S]
  BY LenProperties
<1>2. w \in [1..Len(w) -> T]
  BY <1>1
<1> QED BY <1>1, <1>2, SeqDef

\* What is taken off a sequence leaves one of the same kind.
LEMMA Remains ==
  ASSUME NEW S, NEW w \in Seq(S), NEW i \in 1..Len(w)
  PROVE  /\ RemoveAt(w, i) \in Seq(S) /\ Len(RemoveAt(w, i)) = Len(w) - 1
         /\ \A j \in 1..Len(w) - 1 : \E k \in 1..Len(w) : RemoveAt(w, i)[j] = w[k]
<1> DEFINE u == SubSeq(w, 1, i - 1)
           v == SubSeq(w, i + 1, Len(w))
<1>1. Len(w) \in Nat /\ i \in Nat
  BY LenProperties
<1>2. u \in Seq(S) /\ Len(u) = i - 1 /\ \A j \in 1..i - 1 : u[j] = w[j]
  BY <1>1, SubSeqProperties
<1>3. v \in Seq(S) /\ Len(v) = Len(w) - i /\ \A j \in 1..Len(w) - i : v[j] = w[j + i]
  <2>1. i + 1 \in 1..Len(w) + 1
    BY <1>1
  <2> QED BY <1>1, <2>1, SubSeqProperties
<1> HIDE DEF u, v
<1>4. u \o v \in Seq(S) /\ Len(u \o v) = Len(w) - 1
      /\ \A j \in 1..Len(w) - 1 : (u \o v)[j] = IF j <= i - 1 THEN u[j] ELSE v[j - (i - 1)]
  <2>1. u \o v \in Seq(S) /\ Len(u \o v) = Len(u) + Len(v)
        /\ \A j \in 1..Len(u) + Len(v) : (u \o v)[j] = IF j <= Len(u) THEN u[j] ELSE v[j - Len(u)]
    BY <1>2, <1>3, ConcatProperties
  <2> QED BY <1>1, <1>2, <1>3, <2>1
<1>5. ASSUME NEW j \in 1..Len(w) - 1 PROVE \E k \in 1..Len(w) : (u \o v)[j] = w[k]
  <2>1. CASE j <= i - 1
    <3>1. j \in 1..i - 1 /\ j \in 1..Len(w)
      BY <1>1, <2>1
    <3> QED BY <1>2, <1>4, <2>1, <3>1
  <2>2. CASE ~(j <= i - 1)
    <3>1. j - (i - 1) \in 1..Len(w) - i /\ j - (i - 1) + i = j + 1 /\ j + 1 \in 1..Len(w)
      BY <1>1, <2>2
    <3>2. v[j - (i - 1)] = w[j + 1]
      BY <1>3, <3>1
    <3> QED BY <1>4, <2>2, <3>1, <3>2
  <2> QED BY <2>1, <2>2
<1> QED BY <1>4, <1>5 DEF RemoveAt, u, v
-----------------------------------------------------------------------------
(***************************************************************************)
(* One step of the sender, one of the receiver.                            *)
(***************************************************************************)
Nets == [Roles -> [Sockets -> Seq(Packet)]]

\* What is on the way to the receiver fits base.
Fitting(network, base) ==
  \A s \in Sockets : network["rcv"][s] \in Seq(Fit(base, snd.ssrc, Newest))

Newer ==
  rcv'.last # rcv.last /\ rcv.state = "CONNECTED" /\ rcv'.state = "CONNECTED" => heard' > heard

LEMMA UnsentParts == \A T : Unsent \in [Sockets -> Seq(T)]
BY EmptySeq DEF Unsent

LEMMA Sendings ==
  ASSUME NEW network \in Nets, NEW r \in Roles, NEW tx \in [Sockets -> Seq(Packet)]
  PROVE  LET n == Sending(network, r, tx) IN
         /\ n \in Nets
         /\ r = "rcv" => n["rcv"] = network["rcv"]
         /\ r = "snd" => \A s \in Sockets : n["rcv"][s] = network["rcv"][s] \o tx[s]
<1> DEFINE o == OtherEnd(r)
           row == [s \in Sockets |-> network[o][s] \o tx[s]]
<1>1. o \in Roles /\ o # r /\ (r = "snd" => o = "rcv") /\ (r = "rcv" => o = "snd")
  BY DEF OtherEnd, Roles
<1>2. Sending(network, r, tx) = [network EXCEPT ![o] = row]
  BY DEF Sending
<1> HIDE DEF o
<1>3. row \in [Sockets -> Seq(Packet)]
  <2>1. ASSUME NEW s \in Sockets PROVE network[o][s] \o tx[s] \in Seq(Packet)
    <3>1. network[o][s] \in Seq(Packet) /\ tx[s] \in Seq(Packet)
      BY <1>1 DEF Nets
    <3> QED BY <3>1, ConcatProperties
  <2> QED BY <2>1
<1>4. \A s \in Sockets : row[s] = network[o][s] \o tx[s]
  OBVIOUS
<1> HIDE DEF row
<1> QED BY <1>1, <1>2, <1>3, <1>4 DEF Nets, Roles

LEMMA SendingsFit ==
  ASSUME NEW network \in Nets, NEW base, Fitting(network, base),
         NEW tx \in [Sockets -> Seq(Fit(base, snd.ssrc, Newest))]
  PROVE  Sending(network, "snd", tx) \in Nets /\ Fitting(Sending(network, "snd", tx), base)
<1> DEFINE F == Fit(base, snd.ssrc, Newest)
           n == Sending(network, "snd", tx)
<1>1. tx \in [Sockets -> Seq(Packet)]
  <2>1. F \subseteq Packet
    BY DEF Fit
  <2> HIDE DEF F
  <2>2. \A s \in Sockets : tx[s] \in Seq(Packet)
    BY <2>1, SeqGrows DEF F
  <2> QED BY <2>2
<1>2. n \in Nets /\ \A s \in Sockets : n["rcv"][s] = network["rcv"][s] \o tx[s]
  BY <1>1, Sendings DEF Roles
<1> HIDE DEF n, F
<1>3. ASSUME NEW s \in Sockets PROVE n["rcv"][s] \in Seq(F)
  <2>1. network["rcv"][s] \in Seq(F) /\ tx[s] \in Seq(F)
    BY DEF Fitting, F
  <2> QED BY <1>2, <2>1, ConcatProperties
<1> QED BY <1>2, <1>3 DEF Fitting, F, n

\* A socket from which something was taken leaves a network of the same kind.
LEMMA Replaces ==
  ASSUME net \in Nets, NEW base, Fitting(net, base), NEW r \in Roles, NEW s \in Sockets,
         NEW u \in Seq(Packet), r = "rcv" => u \in Seq(Fit(base, snd.ssrc, Newest))
  PROVE  LET left == [net EXCEPT ![r][s] = u] IN left \in Nets /\ Fitting(left, base)
<1> DEFINE F == Fit(base, snd.ssrc, Newest)
           left == [net EXCEPT ![r][s] = u]
<1>1. left \in Nets
  BY DEF Nets
<1>2. \A t \in Sockets : left["rcv"][t] \in Seq(F)
  <2> SUFFICES ASSUME NEW t \in Sockets PROVE left["rcv"][t] \in Seq(F)
    OBVIOUS
  <2>1. net["rcv"][t] \in Seq(F)
    BY DEF Fitting
  <2>2. left["rcv"][t] = IF r = "rcv" /\ s = t THEN u ELSE net["rcv"][t]
    BY DEF Nets, Roles
  <2> QED BY <2>1, <2>2
<1> QED BY <1>1, <1>2 DEF Fitting

LEMMA Takes ==
  ASSUME net \in Nets, NEW base, Fitting(net, base), NEW r \in Roles, NEW s \in Sockets,
         NEW i \in 1..Len(net[r][s])
  PROVE  LET left == [net EXCEPT ![r][s] = RemoveAt(@, i)] IN
         left \in Nets /\ Fitting(left, base) /\ net[r][s][i] \in Packet
         /\ (r = "rcv" => net[r][s][i] \in Fit(base, snd.ssrc, Newest))
<1> DEFINE w == net[r][s]
           u == RemoveAt(w, i)
           F == Fit(base, snd.ssrc, Newest)
<1>1. w \in Seq(Packet) /\ (r = "rcv" => w \in Seq(F))
  BY DEF Nets, Fitting
<1> HIDE DEF F
<1>2. u \in Seq(Packet) /\ (r = "rcv" => u \in Seq(F))
  BY <1>1, Remains
<1>3. w[i] \in Packet /\ (r = "rcv" => w[i] \in F)
  BY <1>1, LenProperties
<1> HIDE DEF u
<1>4. LET left == [net EXCEPT ![r][s] = u] IN left \in Nets /\ Fitting(left, base)
  BY <1>2, Replaces DEF F
<1> QED BY <1>3, <1>4 DEF F, u

\* What every step has to keep of the rest.
Rest ==
  /\ up' \in BOOLEAN /\ changes' \in Seq({"add", "remove"}) /\ faults' \in 0..MaxFaults

LEMMA SenderMoves ==
  ASSUME MidiInv, NEW base \in [Nat -> Numbers], Ordered(base), NEW q, IsEnd(q), Keeps(q, snd),
         snd' = q, UNCHANGED <<rcv, accepted, heard>>, Rest, net' \in Nets, Fitting(net', base)
  PROVE  MidiInv' /\ Newer
<1>1. Newest' = Newest
  BY DEF Newest
<1>2. q.ssrc = snd.ssrc /\ q.sequence = snd.sequence /\ q.role = "snd"
  BY DEF Keeps, MidiInv
<1>3. q.out = snd.out \/ q.out = <<>>
  BY DEF Keeps
<1>4. Ordered(base)'
  <2>1. \A i \in 1..Len(q.out) :
          /\ q.out[i].cc[2] \in 1..Newest
          /\ q.out[i].sequence = Number(base[snd.ssrc], q.out[i].cc[2])
    <3>1. CASE q.out = snd.out
      BY <3>1 DEF Ordered
    <3>2. CASE q.out = <<>>
      BY <3>2, EmptySeq
    <3> QED BY <1>3, <3>1, <3>2
  <2> QED BY <1>1, <1>2, <2>1 DEF Ordered, Fitting
<1>5. MidiInv'
  BY <1>2, <1>4 DEF MidiInv, Rest, Nets
<1> QED BY <1>5 DEF Newer

LEMMA ReceiverMoves ==
  ASSUME MidiInv, NEW base \in [Nat -> Numbers], Ordered(base), NEW q, IsEnd(q), Keeps(q, rcv),
         rcv' = q, UNCHANGED <<snd, accepted>>, Rest, net' \in Nets, Fitting(net', base),
         GoesOnOrBegins(q, rcv), heard' = IF q.state # "CONNECTED" THEN 0 ELSE heard
  PROVE  MidiInv' /\ Newer
<1>1. Newest' = Newest
  BY DEF Newest
<1>2. q.role = "rcv" /\ heard' \in 0..MaxCC
  BY Limits DEF Keeps, MidiInv
<1>3. Ordered(base)'
  <2>1. /\ q.state # "CONNECTED" => heard' = 0
        /\ q.state = "CONNECTED" =>
             IF q.last = Never THEN heard' = 0
             ELSE /\ q.remote \in 1..snd.ssrc /\ heard' \in 1..Newest
                  /\ q.last = Number(base[q.remote], heard')
    BY DEF Ordered, GoesOnOrBegins
  <2> QED BY <1>1, <2>1 DEF Ordered, Fitting
<1>4. MidiInv'
  BY <1>2, <1>3 DEF MidiInv, Rest, Nets
<1> QED BY <1>4 DEF Newer, GoesOnOrBegins

\* A Control Change within the window was made after the one heard before it.
LEMMA ReceiverHears ==
  ASSUME MidiInv, NEW base \in [Nat -> Numbers], Ordered(base), NEW q, IsEnd(q), Keeps(q, rcv),
         rcv' = q, UNCHANGED <<snd, accepted>>, Rest, net' \in Nets, Fitting(net', base),
         NEW d \in Fit(base, snd.ssrc, Newest), d.kind = "CC", RtpIsNew(rcv, d),
         q.state = "CONNECTED", q.remote = rcv.remote, q.last = d.token, heard' = d.cc[2]
  PROVE  MidiInv' /\ Newer
<1>1. Newest' = Newest /\ Newest \in 0..MaxCC
  BY NewestIsNumber DEF Newest, MidiInv
<1>2. /\ d.ssrc \in 1..snd.ssrc /\ d.cc[2] \in 1..Newest /\ d.token = Number(base[d.ssrc], d.cc[2])
      /\ d.ssrc = rcv.remote /\ rcv.state = "CONNECTED"
  BY DEF Fit, RtpIsNew
<1>3. d.token \in Numbers /\ d.token # Never
  <2>1. d.token \in Numbers
    BY DEF Fit, Packet
  <2> QED BY <2>1, Modulus DEF Numbers, Never
<1>4. q.role = "rcv" /\ heard' \in 0..MaxCC
  BY <1>1, <1>2, Limits DEF Keeps, MidiInv
<1>5. Ordered(base)'
  BY <1>1, <1>2, <1>3 DEF Ordered, Fitting
<1>6. MidiInv'
  BY <1>4, <1>5 DEF MidiInv, Rest, Nets
<1>7. heard' > heard
  <2>1. CASE rcv.last = Never
    <3>1. heard = 0
      BY <1>2, <2>1 DEF Ordered
    <3> QED BY <1>1, <1>2, <3>1
  <2>2. CASE rcv.last # Never
    <3>1. heard \in 1..Newest /\ rcv.last = Number(base[rcv.remote], heard)
      BY <1>2, <2>2 DEF Ordered
    <3>2. (d.token - rcv.last) % SequenceModulus \in 1..SequenceWindow
      BY <2>2 DEF RtpIsNew, SequenceIsNew
    <3> DEFINE b == base[d.ssrc]
               n == d.cc[2]
    <3>3. b \in Numbers /\ n \in 1..MaxCC /\ heard \in 1..MaxCC
      <4>1. d.ssrc \in Nat
        BY <1>2 DEF MidiInv, IsEnd
      <4> QED BY <1>1, <1>2, <3>1, <4>1, Limits
    <3>4. (Number(b, n) - Number(b, heard)) % SequenceModulus \in 1..SequenceWindow
      BY <1>2, <3>1, <3>2
    <3> HIDE DEF b, n
    <3>5. n > heard
      BY <3>3, <3>4, WindowIsNewer
    <3> QED BY <3>5 DEF n
  <2> QED BY <2>1, <2>2
<1> QED BY <1>6, <1>7 DEF Newer
-----------------------------------------------------------------------------
(***************************************************************************)
(* The actions.                                                            *)
(***************************************************************************)
LEMMA Start ==
  ASSUME NEW r \in Roles, IsEnd(End(r)), NEW T
  PROVE  LET p == [e |-> End(r), tx |-> Unsent] IN IsPort(p, T) /\ p.e = End(r) /\ p.tx = Unsent
BY UnsentParts DEF IsPort

LEMMA Ready ==
  ASSUME MidiInv, NEW base, Ordered(base)
  PROVE  /\ net \in Nets /\ Fitting(net, base)
         /\ \A r \in Roles : IsEnd(End(r)) /\ End(r).role = r
BY DEF MidiInv, Ordered, Fitting, Nets, End, Roles

LEMMA FreshIsEnd ==
  ASSUME NEW r \in Roles, NEW k \in Nat \ {0}
  PROVE  IsEnd(Fresh(r, k))
<1> DEFINE e == Fresh(r, k)
<1>1. /\ DOMAIN e = Fields /\ e.role = r /\ e.state = "IDLE" /\ e.ssrc = k /\ e.token = 0
      /\ e.remote = NoPeer /\ e.data = FALSE /\ e.tries = 0 /\ e.wait = 0 /\ e.attempt = 0
      /\ e.last = Never /\ e.out = <<>> /\ e.sequence = SequenceModulus - 1
  BY DEF Fresh, Fields
<1> HIDE DEF e
<1>2. e.sequence \in Numbers /\ e.tries \in 0..MaxInvitations /\ e.wait \in 0..MaxBackoff
      /\ e.attempt \in Nat /\ e.remote \in Nat
  BY <1>1, Modulus, Limits DEF Numbers, NoPeer
<1>3. e.out \in Seq(Entry) /\ Len(e.out) <= OutgoingCapacity
  BY <1>1, EmptySeq, Limits
<1>4. e.data \in BOOLEAN
  BY <1>1, Zenon
<1> QED BY <1>1, <1>2, <1>3, <1>4 DEF IsEnd, States, Active, e

LEMMA Received ==
  ASSUME MidiInv, NEW r \in Roles, NEW s \in Sockets, NEW i \in 1..Len(net[r][s]),
         NEW again \in BOOLEAN, Receive(r, s, i, again), faults' \in 0..MaxFaults
  PROVE  MidiInv' /\ Newer
<1>1. PICK base \in [Nat -> Numbers] : Ordered(base)
  BY DEF MidiInv
<1> DEFINE d == net[r][s][i]
           F == Fit(base, snd.ssrc, Newest)
           T == IF r = "snd" THEN F ELSE Packet
           left == IF again THEN net ELSE [net EXCEPT ![r][s] = RemoveAt(@, i)]
           p == [e |-> End(r), tx |-> Unsent]
           new == r = "rcv" /\ d.kind = "CC" /\ RtpIsNew(rcv, d)
<1>2. net \in Nets /\ Fitting(net, base) /\ IsEnd(End(r)) /\ End(r).role = r
  BY <1>1, Ready
<1>3. left \in Nets /\ Fitting(left, base) /\ d \in Packet /\ (r = "rcv" => d \in F)
  BY <1>2, Takes
<1>4. PICK limited \in BOOLEAN :
        \E q \in {HandleDatagram(p, d, limited)} :
          /\ Becomes(r, q.e) /\ net' = Sending(left, r, q.tx)
          /\ heard' = IF new THEN d.cc[2]
                      ELSE IF r = "rcv" /\ q.e.state # "CONNECTED" THEN 0 ELSE heard
  <2>1. \A S, x : x \in (IF S THEN BOOLEAN ELSE {FALSE}) => x \in BOOLEAN
    OBVIOUS
  <2> QED BY <2>1 DEF Receive
<1> DEFINE q == HandleDatagram(p, d, limited)
<1>5. /\ Becomes(r, q.e) /\ net' = Sending(left, r, q.tx)
      /\ heard' = IF new THEN d.cc[2]
                  ELSE IF r = "rcv" /\ q.e.state # "CONNECTED" THEN 0 ELSE heard
  BY <1>4
<1>6. UNCHANGED <<up, changes, accepted>> /\ Rest
  BY DEF Receive, Rest, MidiInv
<1>7. Plain \subseteq T
  BY PlainFits DEF Plain
<1>8. IsPort(p, T) /\ p.e = End(r)
  BY <1>2, Start
<1> HIDE DEF d, F, T, left, p, q
<1>9. /\ IsPort(q, T) /\ Keeps(q.e, End(r))
      /\ r = "rcv" =>
           IF new THEN q.e.state = "CONNECTED" /\ q.e.remote = rcv.remote /\ q.e.last = d.token
           ELSE GoesOnOrBegins(q.e, rcv)
  <2>1. /\ IsPort(q, T) /\ Keeps(q.e, p.e)
        /\ p.e.role = "rcv" =>
             IF d.kind = "CC" /\ RtpIsNew(p.e, d)
             THEN q.e.state = "CONNECTED" /\ q.e.remote = p.e.remote /\ q.e.last = d.token
             ELSE GoesOnOrBegins(q.e, p.e)
    BY <1>3, <1>7, <1>8, Handled DEF q
  <2>2. r = "rcv" => End(r) = rcv
    BY DEF End
  <2> QED BY <1>2, <1>8, <2>1, <2>2
<1>10. CASE r = "snd"
  <2>1. snd' = q.e /\ UNCHANGED <<rcv, accepted, heard>> /\ End(r) = snd
    BY <1>5, <1>6, <1>10 DEF Becomes, End
  <2>2. q.tx \in [Sockets -> Seq(F)] /\ IsEnd(q.e) /\ Keeps(q.e, snd)
    BY <1>9, <1>10, <2>1 DEF IsPort, T
  <2>3. net' \in Nets /\ Fitting(net', base)
    BY <1>3, <1>5, <1>10, <2>2, SendingsFit DEF F
  <2> QED BY <1>1, <1>6, <2>1, <2>2, <2>3, SenderMoves
<1>11. CASE r = "rcv"
  <2>1. rcv' = q.e /\ UNCHANGED <<snd, accepted>> /\ End(r) = rcv
    BY <1>5, <1>6, <1>11 DEF Becomes, End
  <2>2. q.tx \in [Sockets -> Seq(Packet)] /\ IsEnd(q.e) /\ Keeps(q.e, rcv)
    BY <1>9, <1>11, <2>1 DEF IsPort, T
  <2>3. net' \in Nets /\ Fitting(net', base)
    BY <1>3, <1>5, <1>11, <2>2, Sendings DEF Fitting
  <2>4. CASE new
    <3>1. /\ d \in Fit(base, snd.ssrc, Newest) /\ d.kind = "CC" /\ RtpIsNew(rcv, d)
          /\ q.e.state = "CONNECTED" /\ q.e.remote = rcv.remote /\ q.e.last = d.token
          /\ heard' = d.cc[2]
      BY <1>3, <1>5, <1>9, <1>11, <2>4 DEF F
    <3> QED BY <1>1, <1>6, <2>1, <2>2, <2>3, <3>1, ReceiverHears
  <2>5. CASE ~new
    <3>1. GoesOnOrBegins(q.e, rcv) /\ heard' = IF q.e.state # "CONNECTED" THEN 0 ELSE heard
      BY <1>5, <1>9, <1>11, <2>5
    <3> QED BY <1>1, <1>6, <2>1, <2>2, <2>3, <3>1, ReceiverMoves
  <2> QED BY <2>4, <2>5
<1> QED BY <1>10, <1>11 DEF Roles

LEMMA FaultCounts ==
  ASSUME MidiInv, Fault
  PROVE  faults' \in 0..MaxFaults
BY Limits DEF MidiInv, Fault

LEMMA ArrivesKeeps ==
  ASSUME MidiInv, Arrives \/ ArrivesTwice \/ Overtakes
  PROVE  MidiInv' /\ Newer
<1>1. PICK r \in Roles, s \in Sockets, i \in {1, 2}, again \in BOOLEAN :
        /\ Len(net[r][s]) >= i /\ Receive(r, s, i, again)
        /\ Fault \/ UNCHANGED faults
  <2>1. \A r \in Roles, s \in Sockets : net[r][s] \in Seq(Packet)
    BY DEF MidiInv
  <2>2. \A w \in Seq(Packet) : (w # <<>> => Len(w) >= 1) /\ (Len(w) > 1 => Len(w) >= 2)
    BY EmptySeq, LenProperties
  <2>3. CASE Arrives
    <3>1. PICK r \in Roles, s \in Sockets : net[r][s] # <<>> /\ Receive(r, s, 1, FALSE) /\ UNCHANGED faults
      BY <2>3 DEF Arrives
    <3>2. Len(net[r][s]) >= 1
      BY <2>1, <2>2, <3>1
    <3> QED BY <3>1, <3>2
  <2>4. CASE ArrivesTwice
    <3>1. PICK r \in Roles, s \in Sockets : net[r][s] # <<>> /\ Receive(r, s, 1, TRUE)
      BY <2>4 DEF ArrivesTwice
    <3>2. Len(net[r][s]) >= 1
      BY <2>1, <2>2, <3>1
    <3> QED BY <2>4, <3>1, <3>2 DEF ArrivesTwice
  <2>5. CASE Overtakes
    <3>1. PICK r \in Roles, s \in Sockets : Len(net[r][s]) > 1 /\ Receive(r, s, 2, FALSE)
      BY <2>5 DEF Overtakes
    <3>2. Len(net[r][s]) >= 2
      BY <2>1, <2>2, <3>1
    <3> QED BY <2>5, <3>1, <3>2 DEF Overtakes
  <2> QED BY <2>3, <2>4, <2>5
<1>2. i \in 1..Len(net[r][s])
  <2>1. net[r][s] \in Seq(Packet)
    BY DEF MidiInv
  <2>2. Len(net[r][s]) \in Nat
    BY <2>1, LenProperties
  <2> QED BY <1>1, <2>2
<1>3. faults' \in 0..MaxFaults
  BY <1>1, FaultCounts DEF MidiInv
<1> QED BY <1>1, <1>2, <1>3, Received

LEMMA IsLostKeeps ==
  ASSUME MidiInv, IsLost
  PROVE  MidiInv' /\ Newer
<1>1. PICK base \in [Nat -> Numbers] : Ordered(base)
  BY DEF MidiInv
<1>2. PICK r \in Roles, s \in Sockets : net[r][s] # <<>> /\ net' = [net EXCEPT ![r][s] = Tail(@)]
  BY DEF IsLost
<1>3. net \in Nets /\ Fitting(net, base) /\ IsEnd(snd)
  BY <1>1, Ready DEF MidiInv
<1> DEFINE w == net[r][s]
           F == Fit(base, snd.ssrc, Newest)
<1>4. w \in Seq(Packet) /\ (r = "rcv" => w \in Seq(F)) /\ w # <<>>
  BY <1>2, <1>3 DEF Nets, Fitting
<1> HIDE DEF F
<1>5. Tail(w) \in Seq(Packet) /\ (r = "rcv" => Tail(w) \in Seq(F))
  BY <1>4, HeadTailProperties
<1> DEFINE u == Tail(w)
<1> HIDE DEF u
<1>6. LET left == [net EXCEPT ![r][s] = u] IN left \in Nets /\ Fitting(left, base)
  BY <1>3, <1>5, Replaces DEF F, u
<1>7. net' \in Nets /\ Fitting(net', base)
  BY <1>2, <1>6 DEF u
<1>8. Rest /\ UNCHANGED <<snd, rcv, accepted, heard>> /\ Keeps(snd, snd)
  BY FaultCounts DEF IsLost, Rest, MidiInv, Keeps
<1> QED BY <1>1, <1>3, <1>7, <1>8, SenderMoves

LEMMA PollKeeps ==
  ASSUME MidiInv, NEW r \in Roles, Poll(r)
  PROVE  MidiInv' /\ Newer
<1>1. PICK base \in [Nat -> Numbers] : Ordered(base)
  BY DEF MidiInv
<1> DEFINE F == Fit(base, snd.ssrc, Newest)
           T == IF r = "snd" THEN F ELSE Packet
           start == [e |-> End(r), tx |-> Unsent]
           flushed == FlushOutgoing(start)
           found == IF r = "rcv" THEN Applying(flushed)[Len(changes)] ELSE flushed
           p == AdvanceTimers(found)
           q == RecoverDiscovery(p.e)
<1>2. net \in Nets /\ Fitting(net, base) /\ IsEnd(End(r)) /\ End(r).role = r
  BY <1>1, Ready
<1>3. Plain \subseteq T
  BY PlainFits DEF Plain
<1>4. IsPort(start, T) /\ start.e = End(r)
  BY <1>2, Start
<1>5. Flushed(End(r)) \in Seq(T)
  <2> DEFINE out == End(r).out
             w == Flushed(End(r))
  <2>1. out \in Seq(Entry) /\ Len(out) \in Nat /\ DOMAIN out = 1..Len(out)
    BY <1>2, LenProperties DEF IsEnd
  <2>2. w = [i \in 1..Len(out) |-> Datagram(End(r), "data", "CC", out[i].sequence, out[i].cc)]
    BY <2>1 DEF Flushed
  <2>3. ASSUME NEW i \in 1..Len(out)
        PROVE  Datagram(End(r), "data", "CC", out[i].sequence, out[i].cc) \in T
    <3> DEFINE d == Datagram(End(r), "data", "CC", out[i].sequence, out[i].cc)
    <3>1. out[i] \in Entry
      BY <2>1
    <3>2. out[i].sequence \in Nat /\ out[i].sequence \in Numbers /\ out[i].cc \in CCs
      <4>1. out[i].sequence \in Numbers /\ out[i].cc \in CCs
        BY <3>1 DEF Entry
      <4>2. Numbers \subseteq Nat
        BY Modulus DEF Numbers
      <4> QED BY <4>1, <4>2
    <3>3. End(r).ssrc \in Nat \ {0}
      BY <1>2 DEF IsEnd
    <3>4. d \in Packet
      BY <3>2, <3>3 DEF Datagram, Packet, Sockets, Kinds
    <3>5. CASE r = "snd"
      <4>1. /\ out = snd.out /\ d.ssrc = snd.ssrc /\ d.cc = out[i].cc /\ d.token = out[i].sequence
        BY <3>5 DEF End, Datagram
      <4>2. d.cc[2] \in 1..Newest /\ d.token = Number(base[d.ssrc], d.cc[2])
        BY <1>1, <4>1 DEF Ordered
      <4>3. d.ssrc \in 1..snd.ssrc
        <5>1. snd.ssrc \in Nat \ {0}
          BY <1>2, <3>5 DEF End, IsEnd
        <5> HIDE DEF d
        <5> QED BY <4>1, <5>1
      <4> QED BY <3>4, <3>5, <4>2, <4>3 DEF Fit
    <3>6. CASE r # "snd"
      BY <3>4, <3>6
    <3> QED BY <3>5, <3>6
  <2> HIDE DEF T, out
  <2>4. w \in [1..Len(out) -> T]
    BY <2>2, <2>3
  <2> HIDE DEF w
  <2>5. w \in Seq(T)
    BY <2>1, <2>4, SeqDef
  <2> QED BY <2>5 DEF w
<1> HIDE DEF T, start
<1>6. IsPort(flushed, T) /\ Keeps(flushed.e, End(r)) /\ GoesOn(flushed.e, End(r))
  <2>1. Flushed(start.e) \in Seq(T)
    BY <1>4, <1>5
  <2>2. IsPort(flushed, T) /\ Keeps(flushed.e, start.e) /\ GoesOn(flushed.e, start.e)
    BY <1>4, <2>1, Flushes
  <2> QED BY <1>4, <2>2
<1> HIDE DEF flushed
<1>7. IsPort(found, T) /\ Keeps(found.e, End(r)) /\ GoesOn(found.e, End(r))
  <2> DEFINE a == Applying(flushed)[Len(changes)]
  <2>1. IsPort(a, T) /\ Keeps(a.e, flushed.e) /\ GoesOn(a.e, flushed.e)
    BY <1>3, <1>6, Applies DEF MidiInv
  <2> HIDE DEF a
  <2>2. found = IF r = "rcv" THEN a ELSE flushed
    BY DEF a
  <2> HIDE DEF found
  <2> QED BY <1>6, <2>1, <2>2, GoesOnParts
<1> HIDE DEF found
<1>8. IsPort(p, T) /\ Keeps(p.e, End(r)) /\ GoesOn(p.e, End(r))
  <2>1. IsPort(p, T) /\ Keeps(p.e, found.e) /\ GoesOn(p.e, found.e)
    BY <1>3, <1>7, TimersAdvanced
  <2> HIDE DEF p
  <2> QED BY <1>7, <2>1, GoesOnParts
<1>9. Polled(r) = p
  BY DEF Polled, p, found, flushed, start
<1> HIDE DEF p
<1>10. IsEnd(q) /\ Keeps(q, End(r)) /\ GoesOn(q, End(r)) /\ q.state = p.e.state
  <2>1. IsEnd(q) /\ Keeps(q, p.e) /\ GoesOn(q, p.e) /\ q.state = p.e.state
    BY <1>8, Recovers DEF IsPort
  <2> HIDE DEF q
  <2> QED BY <1>8, <2>1, GoesOnParts
<1> HIDE DEF q
<1>11. /\ Becomes(r, q) /\ net' = Sending(net, r, p.tx)
       /\ heard' = (IF r = "rcv" /\ q.state # "CONNECTED" THEN 0 ELSE heard)
       /\ UNCHANGED accepted
  BY <1>9, <1>10 DEF Poll, q
<1>12. Rest
  <2>1. changes \in Seq({"add", "remove"}) /\ <<>> \in Seq({"add", "remove"})
        /\ <<"add">> \in Seq({"add", "remove"})
    BY EmptySeq DEF MidiInv
  <2>2. \A v, w \in Seq({"add", "remove"}) : v \o w \in Seq({"add", "remove"})
    BY ConcatProperties
  <2> DEFINE old == IF r = "rcv" THEN <<>> ELSE changes
             more == IF RecoveryDue(p.e) /\ up THEN <<"add">> ELSE <<>>
  <2>3. changes' = old \o more
    BY <1>9 DEF Poll
  <2>4. old \in Seq({"add", "remove"}) /\ more \in Seq({"add", "remove"})
    BY <2>1
  <2> HIDE DEF old, more
  <2>5. changes' \in Seq({"add", "remove"})
    BY <2>2, <2>3, <2>4
  <2> QED BY <2>5 DEF Poll, Rest, MidiInv
<1> HIDE DEF F
<1>13. CASE r = "snd"
  <2>1. snd' = q /\ UNCHANGED <<rcv, accepted, heard>> /\ End(r) = snd
    BY <1>11, <1>13 DEF Becomes, End
  <2>2. p.tx \in [Sockets -> Seq(F)]
    BY <1>8, <1>13 DEF IsPort, T
  <2>3. net' \in Nets /\ Fitting(net', base)
    BY <1>2, <1>11, <1>13, <2>2, SendingsFit DEF F
  <2> QED BY <1>1, <1>10, <1>12, <2>1, <2>3, SenderMoves
<1>14. CASE r = "rcv"
  <2>1. rcv' = q /\ UNCHANGED <<snd, accepted>> /\ End(r) = rcv
    BY <1>11, <1>14 DEF Becomes, End
  <2>2. p.tx \in [Sockets -> Seq(Packet)]
    BY <1>8, <1>14 DEF IsPort, T
  <2>3. net' \in Nets /\ Fitting(net', base)
    BY <1>2, <1>11, <1>14, <2>2, Sendings DEF Fitting
  <2>4. GoesOnOrBegins(q, rcv) /\ heard' = IF q.state # "CONNECTED" THEN 0 ELSE heard
    BY <1>10, <1>11, <1>14, <2>1 DEF GoesOn, GoesOnOrBegins
  <2> QED BY <1>1, <1>10, <1>12, <2>1, <2>3, <2>4, ReceiverMoves
<1> QED BY <1>13, <1>14 DEF Roles

LEMMA QueueCCKeeps ==
  ASSUME MidiInv, NEW b \in Bindings, QueueCC(b)
  PROVE  MidiInv' /\ Newer
<1>1. PICK base \in [Nat -> Numbers] : Ordered(base)
  BY DEF MidiInv
<1> DEFINE n == Newest + 1
           waiting == {i \in DOMAIN snd.out : snd.out[i].cc[1] = b}
           others == IF waiting = {} THEN snd.out ELSE RemoveAt(snd.out, Max(waiting))
           entry == [sequence |-> snd.sequence, cc |-> <<b, n>>]
           q == [snd EXCEPT !.sequence = (@ + 1) % SequenceModulus, !.out = Append(others, entry)]
<1>2. /\ n <= MaxCC /\ Len(others) < OutgoingCapacity /\ snd' = q
      /\ accepted' = [accepted EXCEPT ![b] = n]
      /\ UNCHANGED <<rcv, net, up, changes, handled, heard, faults>>
  BY DEF QueueCC
<1>3. /\ Newest \in 0..MaxCC /\ n \in 1..MaxCC /\ n \in Nat
      /\ accepted \in [Bindings -> 0..MaxCC] /\ \A c \in Bindings : accepted[c] <= Newest
  <2>1. accepted \in [Bindings -> 0..MaxCC]
    BY DEF MidiInv
  <2>2. Newest \in 0..MaxCC /\ \A c \in Bindings : accepted[c] <= Newest
    BY <2>1, NewestIsNumber
  <2> QED BY <1>2, <2>1, <2>2, Limits
<1>4. accepted' \in [Bindings -> 0..MaxCC] /\ Newest' = n
  <2>1. accepted' \in [Bindings -> 0..MaxCC]
    BY <1>2, <1>3
  <2> DEFINE S == {0} \cup Range(accepted')
  <2>2. S \subseteq 0..MaxCC /\ S # {} /\ MaxCC \in Nat
    BY <2>1, Limits DEF Range
  <2>3. n \in S /\ \A x \in S : x <= n
    <3>1. accepted'[b] = n /\ \A c \in Bindings : accepted'[c] <= n
      BY <1>2, <1>3
    <3> QED BY <1>3, <2>1, <3>1 DEF Range
  <2> HIDE DEF S
  <2>4. Max(S) \in S /\ \A x \in S : x <= Max(S)
    BY <2>2, Largest
  <2>5. n <= Max(S) /\ Max(S) <= n /\ Max(S) \in Nat
    <3>1. Max(S) \in 0..MaxCC /\ Max(S) <= n /\ n <= Max(S)
      BY <2>2, <2>3, <2>4
    <3> QED BY <3>1, Limits
  <2>6. Max(S) = n
    BY <1>3, <2>5
  <2>7. Newest' = Max(S)
    BY DEF Newest, S
  <2> QED BY <2>1, <2>6, <2>7
<1>5. snd.out \in Seq(Entry) /\ Len(snd.out) \in Nat /\ DOMAIN snd.out = 1..Len(snd.out)
      /\ snd.sequence \in Numbers /\ snd.ssrc \in Nat \ {0}
  BY LenProperties DEF MidiInv, IsEnd
<1>6. /\ others \in Seq(Entry)
      /\ \A j \in 1..Len(others) : \E k \in 1..Len(snd.out) : others[j] = snd.out[k]
  <2>1. CASE waiting = {}
    BY <1>5, <2>1
  <2>2. CASE waiting # {}
    <3>1. waiting \subseteq 0..Len(snd.out)
      BY <1>5
    <3> HIDE DEF waiting
    <3>2. Max(waiting) \in waiting
      BY <1>5, <2>2, <3>1, Largest
    <3>3. Max(waiting) \in 1..Len(snd.out)
      BY <1>5, <3>2 DEF waiting
    <3> DEFINE i == Max(waiting)
    <3> HIDE DEF i
    <3>4. /\ RemoveAt(snd.out, i) \in Seq(Entry) /\ Len(RemoveAt(snd.out, i)) = Len(snd.out) - 1
          /\ \A j \in 1..Len(snd.out) - 1 : \E k \in 1..Len(snd.out) : RemoveAt(snd.out, i)[j] = snd.out[k]
      <4>1. i \in 1..Len(snd.out)
        BY <3>3 DEF i
      <4> DEFINE w == snd.out
      <4>2. w \in Seq(Entry) /\ i \in 1..Len(w)
        BY <1>5, <4>1
      <4> HIDE DEF w
      <4>3. /\ RemoveAt(w, i) \in Seq(Entry) /\ Len(RemoveAt(w, i)) = Len(w) - 1
            /\ \A j \in 1..Len(w) - 1 : \E k \in 1..Len(w) : RemoveAt(w, i)[j] = w[k]
        BY <4>2, Remains
      <4> QED BY <4>3 DEF w
    <3>5. others = RemoveAt(snd.out, i)
      BY <2>2 DEF i
    <3> QED BY <3>4, <3>5
  <2> QED BY <2>1, <2>2
<1> HIDE DEF others
<1>7. entry \in Entry
  BY <1>3, <1>5 DEF Entry, CCs
<1>8. /\ Append(others, entry) \in Seq(Entry) /\ Len(others) \in Nat
      /\ Len(Append(others, entry)) = Len(others) + 1
      /\ \A j \in 1..Len(others) + 1 : Append(others, entry)[j] = IF j <= Len(others) THEN others[j] ELSE entry
  <2> HIDE DEF entry
  <2> QED BY <1>6, <1>7, LenProperties, AppendProperties
<1> DEFINE out == Append(others, entry)
           next == (snd.sequence + 1) % SequenceModulus
<1>9. snd.sequence = Number(base[snd.ssrc], n) /\ base[snd.ssrc] \in Numbers
  BY <1>1, <1>5 DEF Ordered
<1>10. next = Number(base[snd.ssrc], n + 1) /\ next \in Numbers
  <2>1. n \in 0..MaxCC /\ n + 1 \in 0..MaxCC + 1
    BY <1>3, Limits
  <2> QED BY <1>9, <2>1, NumberNext, NumberIsNumber
<1>11. ASSUME NEW j \in 1..Len(others) + 1
       PROVE  out[j].cc[2] \in 1..n /\ out[j].sequence = Number(base[snd.ssrc], out[j].cc[2])
  <2>1. CASE j <= Len(others)
    <3>1. j \in 1..Len(others) /\ out[j] = others[j]
      BY <1>8, <2>1
    <3>2. PICK k \in 1..Len(snd.out) : others[j] = snd.out[k]
      BY <1>6, <3>1
    <3>3. out[j].cc[2] \in 1..Newest /\ out[j].sequence = Number(base[snd.ssrc], out[j].cc[2])
      BY <1>1, <3>1, <3>2 DEF Ordered
    <3> QED BY <1>3, <3>3
  <2>2. CASE ~(j <= Len(others))
    <3>1. out[j] = entry
      BY <1>8, <2>2
    <3> QED BY <1>3, <1>9, <3>1
  <2> QED BY <2>1, <2>2
<1> HIDE DEF out, next, entry
<1>12. /\ DOMAIN q = Fields /\ q.sequence = next /\ q.out = out
       /\ \A f \in Fields \ {"sequence", "out"} : q[f] = snd[f]
  BY DEF MidiInv, IsEnd, Fields, out, next, entry
<1> HIDE DEF q, n
<1>13. IsEnd(q) /\ q.role = "snd" /\ q.ssrc = snd.ssrc
  <2>1. Len(out) <= OutgoingCapacity /\ out \in Seq(Entry)
    BY <1>2, <1>8, Limits DEF out
  <2> QED BY <1>10, <1>12, <2>1 DEF MidiInv, IsEnd, Fields
<1>14. Ordered(base)'
  <2>1. \A s \in Sockets : net["rcv"][s] \in Seq(Fit(base, snd.ssrc, n))
    <3>1. Fit(base, snd.ssrc, Newest) \subseteq Fit(base, snd.ssrc, n)
      <4>1. Newest \in Nat /\ Newest <= n /\ snd.ssrc \in Nat
        BY <1>3, <1>5 DEF n
      <4> QED BY <1>3, <4>1, FitGrows
    <3>2. \A s \in Sockets : net["rcv"][s] \in Seq(Fit(base, snd.ssrc, Newest))
      BY <1>1 DEF Ordered
    <3> QED BY <3>1, <3>2, SeqGrows
  <2>2. \A j \in 1..Len(out) : out[j].cc[2] \in 1..n /\ out[j].sequence = Number(base[snd.ssrc], out[j].cc[2])
    BY <1>8, <1>11 DEF out
  <2>3. q.sequence = Number(base[snd.ssrc], n + 1)
    BY <1>10, <1>12
  <2>4. rcv.state = "CONNECTED" =>
          IF rcv.last = Never THEN heard = 0
          ELSE /\ rcv.remote \in 1..snd.ssrc /\ heard \in 1..n
               /\ rcv.last = Number(base[rcv.remote], heard)
    BY <1>1, <1>3 DEF Ordered, n
  <2>5. rcv.state # "CONNECTED" => heard = 0
    BY <1>1 DEF Ordered
  <2> QED BY <1>2, <1>4, <1>12, <1>13, <2>1, <2>2, <2>3, <2>4, <2>5 DEF Ordered
<1>15. MidiInv'
  BY <1>2, <1>4, <1>13, <1>14 DEF MidiInv
<1> QED BY <1>2, <1>15 DEF Newer

LEMMA SenderRestartsKeeps ==
  ASSUME MidiInv, SenderRestarts
  PROVE  MidiInv' /\ Newer
<1>1. PICK base \in [Nat -> Numbers] : Ordered(base)
  BY DEF MidiInv
<1> DEFINE F == Fit(base, snd.ssrc, Newest)
           b == IF Newest = SequenceModulus - 1 THEN Newest ELSE SequenceModulus - 2 - Newest
           p == [e |-> snd, tx |-> Unsent]
           said == SendEnd(p)
<1>2. net \in Nets /\ Fitting(net, base) /\ IsEnd(snd) /\ snd.ssrc \in Nat \ {0}
  <2>1. snd.ssrc \in Nat \ {0}
    BY DEF MidiInv, IsEnd
  <2> QED BY <1>1, <2>1, Ready DEF MidiInv
<1>3. Newest \in 0..MaxCC
  BY NewestIsNumber DEF MidiInv
<1>4. b \in Numbers /\ Number(b, Newest + 1) = SequenceModulus - 1
  <2>1. SequenceModulus \in Nat \ {0} /\ Newest \in Nat /\ Newest <= SequenceModulus - 1
    BY <1>3, Modulus, AppleMidiAssumption
  <2> QED BY <2>1 DEF Number, Numbers
<1> HIDE DEF b
<1>k. PICK k \in Nat \ {0} : k = snd.ssrc + 1
  BY <1>2
<1>5. PICK more \in [Nat -> Numbers] : more[k] = b /\ \A i \in 1..snd.ssrc : more[i] = base[i]
  <2> DEFINE new == [base EXCEPT ![k] = b]
  <2>1. new \in [Nat -> Numbers] /\ new[k] = b /\ \A i \in 1..snd.ssrc : new[i] = base[i]
    BY <1>2, <1>4, <1>k
  <2> QED BY <2>1
<1> DEFINE q == Fresh("snd", k)
<1>6. PICK closed \in BOOLEAN :
        /\ net' = IF closed THEN Sending(net, "snd", said.tx) ELSE net
        /\ changes' = IF ~up THEN changes
                      ELSE changes \o (IF closed THEN <<"remove", "add">> ELSE <<"add">>)
  BY DEF SenderRestarts
<1>7. snd' = q /\ UNCHANGED <<rcv, up, accepted, handled, heard>> /\ faults' \in 0..MaxFaults
  BY <1>k, FaultCounts DEF SenderRestarts
<1>8. net' \in Nets /\ Fitting(net', base)
  <2>1. IsPort(p, F)
    BY <1>2, UnsentParts DEF IsPort
  <2>2. Plain \subseteq F
    BY PlainFits
  <2> HIDE DEF p, F
  <2>3. IsPort(said, F)
    BY <2>1, <2>2, Ends
  <2> HIDE DEF said
  <2>4. said.tx \in [Sockets -> Seq(F)]
    BY <2>3 DEF IsPort
  <2> QED BY <1>2, <1>6, <2>4, SendingsFit DEF F
<1>9. IsEnd(q) /\ q.role = "snd" /\ q.ssrc = k /\ q.out = <<>> /\ q.sequence = SequenceModulus - 1
  <2>1. IsEnd(q)
    BY <1>2, FreshIsEnd DEF Roles
  <2> QED BY <2>1 DEF Fresh
<1> HIDE DEF q
<1>10. Newest' = Newest
  BY <1>7 DEF Newest
<1>11. Ordered(more)'
  <2>1. \A s \in Sockets : net'["rcv"][s] \in Seq(Fit(more, k, Newest))
    <3>1. Fit(base, snd.ssrc, Newest) \subseteq Fit(more, k, Newest)
      <4>1. snd.ssrc \in Nat /\ k \in Nat /\ snd.ssrc <= k /\ Newest \in Nat /\ Newest <= Newest
        BY <1>2, <1>3, <1>k
      <4> QED BY <1>5, <4>1, FitGrows
    <3> QED BY <1>8, <3>1, SeqGrows DEF Fitting
  <2>2. \A i \in 1..Len(q.out) :
          q.out[i].cc[2] \in 1..Newest /\ q.out[i].sequence = Number(more[k], q.out[i].cc[2])
    BY <1>9, EmptySeq
  <2>3. q.sequence = Number(more[k], Newest + 1)
    BY <1>4, <1>5, <1>9
  <2>4. rcv.state # "CONNECTED" => heard = 0
    BY <1>1 DEF Ordered
  <2>5. rcv.state = "CONNECTED" =>
          IF rcv.last = Never THEN heard = 0
          ELSE /\ rcv.remote \in 1..k /\ heard \in 1..Newest
               /\ rcv.last = Number(more[rcv.remote], heard)
    <3> SUFFICES ASSUME rcv.state = "CONNECTED", rcv.last # Never
                 PROVE  /\ rcv.remote \in 1..k /\ heard \in 1..Newest
                        /\ rcv.last = Number(more[rcv.remote], heard)
      BY <1>1 DEF Ordered
    <3>1. rcv.remote \in 1..snd.ssrc /\ heard \in 1..Newest /\ rcv.last = Number(base[rcv.remote], heard)
      BY <1>1 DEF Ordered
    <3>2. rcv.remote \in 1..k
      BY <1>2, <1>k, <3>1
    <3> QED BY <1>5, <3>1, <3>2
  <2> QED BY <1>7, <1>9, <1>10, <2>1, <2>2, <2>3, <2>4, <2>5 DEF Ordered
<1>12. changes' \in Seq({"add", "remove"})
  <2>1. changes \in Seq({"add", "remove"})
    BY DEF MidiInv
  <2>2. <<"remove", "add">> \in Seq({"add", "remove"}) /\ <<"add">> \in Seq({"add", "remove"})
    OBVIOUS
  <2>3. \A w \in Seq({"add", "remove"}) : changes \o w \in Seq({"add", "remove"})
    BY <2>1, ConcatProperties
  <2> QED BY <1>6, <2>1, <2>2, <2>3
<1>13. MidiInv'
  <2>1. IsEnd(snd') /\ snd'.role = "snd" /\ IsEnd(rcv') /\ rcv'.role = "rcv"
    BY <1>7, <1>9 DEF MidiInv
  <2>2. \E x \in [Nat -> Numbers] : Ordered(x)'
    BY <1>5, <1>11
  <2> QED BY <1>7, <1>8, <1>12, <2>1, <2>2 DEF MidiInv, Nets
<1> QED BY <1>7, <1>13 DEF Newer

LEMMA ReceiverRestartsKeeps ==
  ASSUME MidiInv, ReceiverRestarts
  PROVE  MidiInv' /\ Newer
<1>1. PICK base \in [Nat -> Numbers] : Ordered(base)
  BY DEF MidiInv
<1> DEFINE p == [e |-> rcv, tx |-> Unsent]
           said == SendEnd(p)
           q == Fresh("rcv", rcv.ssrc + 1)
           s == [snd EXCEPT !.recent = FALSE]
           none == [t \in Sockets |-> <<>>]
<1>2. net \in Nets /\ IsEnd(rcv) /\ rcv.ssrc + 1 \in Nat \ {0}
  <2>1. rcv.ssrc \in Nat \ {0}
    BY DEF MidiInv, IsEnd
  <2> QED BY <1>1, <2>1, Ready DEF MidiInv
<1>3. PICK closed \in BOOLEAN :
        net' = [(IF closed THEN Sending(net, "rcv", said.tx) ELSE net) EXCEPT !["rcv"] = none]
  BY DEF ReceiverRestarts
<1>4. net' \in Nets /\ Fitting(net', base)
  <2>1. IsPort(p, Packet) /\ Plain \subseteq Packet
    BY <1>2, UnsentParts DEF IsPort, Plain
  <2> HIDE DEF p
  <2>2. IsPort(said, Packet)
    BY <2>1, Ends
  <2> HIDE DEF said
  <2>3. said.tx \in [Sockets -> Seq(Packet)]
    BY <2>2 DEF IsPort
  <2> DEFINE n == IF closed THEN Sending(net, "rcv", said.tx) ELSE net
  <2>4. n \in Nets
    BY <1>2, <2>3, Sendings DEF Roles
  <2> HIDE DEF n
  <2>5. none \in [Sockets -> Seq(Packet)] /\ none \in [Sockets -> Seq(Fit(base, snd.ssrc, Newest))]
    BY EmptySeq
  <2>6. net' = [n EXCEPT !["rcv"] = none]
    BY <1>3 DEF n
  <2> HIDE DEF none
  <2>7. net' \in Nets /\ net'["rcv"] = none
    BY <2>4, <2>5, <2>6 DEF Nets, Roles
  <2> QED BY <2>5, <2>7 DEF Fitting
<1>5. IsEnd(q) /\ q.role = "rcv" /\ q.state = "IDLE"
  <2>1. IsEnd(q)
    BY <1>2, FreshIsEnd DEF Roles
  <2> QED BY <2>1 DEF Fresh
<1>6. IsEnd(s) /\ \A f \in Fields \ {"recent"} : s[f] = snd[f]
  <2>1. DOMAIN s = Fields /\ \A f \in Fields \ {"recent"} : s[f] = snd[f]
    BY DEF MidiInv, IsEnd, Fields
  <2> HIDE DEF s
  <2> QED BY <2>1 DEF MidiInv, IsEnd, Fields
<1>7. /\ snd' = s /\ rcv' = q /\ heard' = 0 /\ UNCHANGED <<up, accepted, handled>>
      /\ changes' \in Seq({"add", "remove"}) /\ faults' \in 0..MaxFaults
  <2>1. <<"add">> \in Seq({"add", "remove"}) /\ <<>> \in Seq({"add", "remove"})
    BY EmptySeq
  <2> QED BY <2>1, FaultCounts DEF ReceiverRestarts
<1> HIDE DEF s, q
<1>8. Newest' = Newest
  BY <1>7 DEF Newest
<1>9. s.ssrc = snd.ssrc /\ s.out = snd.out /\ s.sequence = snd.sequence /\ s.role = "snd"
  BY <1>6 DEF Fields, MidiInv
<1>10. Ordered(base)'
  BY <1>1, <1>4, <1>5, <1>7, <1>8, <1>9 DEF Ordered, Fitting
<1>11. MidiInv'
  BY <1>4, <1>5, <1>6, <1>7, <1>9, <1>10, Limits DEF MidiInv, Nets
<1> QED BY <1>5, <1>7, <1>11 DEF Newer

\* A step that leaves both ends alone, or nothing on the way.
LEMMA OthersKeep ==
  ASSUME MidiInv, ServiceExpires \/ NetworkFails \/ NetworkReturns
  PROVE  MidiInv' /\ Newer
<1>1. PICK base \in [Nat -> Numbers] : Ordered(base)
  BY DEF MidiInv
<1>2. net \in Nets /\ Fitting(net, base) /\ IsEnd(snd)
  BY <1>1, Ready DEF MidiInv
<1>3. UNCHANGED <<snd, rcv, accepted, heard>> /\ Keeps(snd, snd)
  BY DEF ServiceExpires, NetworkFails, NetworkReturns, Keeps
<1>4. Rest
  <2>1. changes \in Seq({"add", "remove"}) /\ Append(changes, "remove") \in Seq({"add", "remove"})
    BY AppendProperties DEF MidiInv
  <2> QED BY <2>1, FaultCounts DEF MidiInv, Rest, ServiceExpires, NetworkFails, NetworkReturns
<1>5. net' \in Nets /\ Fitting(net', base)
  <2> DEFINE none == [r \in Roles |-> [s \in Sockets |-> <<>>]]
  <2>1. none \in Nets /\ Fitting(none, base)
    BY EmptySeq DEF Nets, Fitting, Roles
  <2> HIDE DEF none
  <2>2. net' \in {net, none}
    BY DEF ServiceExpires, NetworkFails, NetworkReturns, none
  <2> QED BY <1>2, <2>1, <2>2
<1> QED BY <1>1, <1>2, <1>3, <1>4, <1>5, SenderMoves

LEMMA ElapseKeeps ==
  ASSUME MidiInv, Tick \/ SlowTick
  PROVE  MidiInv' /\ Newer
<1>1. PICK base \in [Nat -> Numbers] : Ordered(base)
  BY DEF MidiInv
<1> DEFINE s == Aged(snd)
           r == Aged(rcv)
           aged == {"quiet", "wait", "sync", "recoverAt", "recent"}
<1>2. /\ IsEnd(s) /\ \A f \in Fields \ aged : s[f] = snd[f]
      /\ IsEnd(r) /\ \A f \in Fields \ aged : r[f] = rcv[f]
  BY Ages DEF MidiInv
<1>3. /\ snd' = s /\ rcv' = r /\ UNCHANGED <<net, up, changes, accepted, handled, heard>>
      /\ faults' \in 0..MaxFaults
  BY FaultCounts DEF Tick, SlowTick, Elapse, MidiInv
<1> HIDE DEF s, r
<1>4. /\ s.ssrc = snd.ssrc /\ s.out = snd.out /\ s.sequence = snd.sequence /\ s.role = "snd"
      /\ r.state = rcv.state /\ r.last = rcv.last /\ r.remote = rcv.remote /\ r.role = "rcv"
  BY <1>2 DEF Fields, MidiInv
<1>5. Newest' = Newest
  BY <1>3 DEF Newest
<1>6. Ordered(base)'
  BY <1>1, <1>3, <1>4, <1>5 DEF Ordered
<1>7. MidiInv'
  BY <1>2, <1>3, <1>4, <1>6 DEF MidiInv
<1> QED BY <1>3, <1>4, <1>7 DEF Newer

LEMMA MidiBegins == Init => MidiInv
<1> SUFFICES ASSUME Init PROVE MidiInv
  OBVIOUS
<1>1. /\ snd = Fresh("snd", 1) /\ rcv = Fresh("rcv", 1) /\ up = TRUE /\ changes = <<"add">>
      /\ accepted = [b \in Bindings |-> 0] /\ heard = 0 /\ faults = 0
      /\ net = [r \in Roles |-> [s \in Sockets |-> <<>>]]
  BY DEF Init
<1>2. IsEnd(snd) /\ IsEnd(rcv)
  BY <1>1, FreshIsEnd DEF Roles
<1>3. /\ snd.role = "snd" /\ rcv.role = "rcv" /\ snd.out = <<>> /\ rcv.state = "IDLE"
      /\ snd.ssrc = 1 /\ snd.sequence = SequenceModulus - 1
  BY <1>1 DEF Fresh
<1>4. accepted \in [Bindings -> 0..MaxCC] /\ Newest = 0
  <2>1. accepted \in [Bindings -> 0..MaxCC]
    BY <1>1, Limits
  <2>2. {0} \cup Range(accepted) = {0}
    BY <1>1 DEF Range
  <2>3. Max({0}) \in {0}
    <3>1. {0} # {} /\ {0} \subseteq 0..0 /\ 0 \in Nat
      OBVIOUS
    <3> QED BY <3>1, Largest
  <2> QED BY <2>1, <2>2, <2>3 DEF Newest
<1> DEFINE b == IF SequenceModulus = 1 THEN 0 ELSE SequenceModulus - 2
           base == [k \in Nat |-> b]
<1>5. b \in Numbers /\ Number(b, 1) = SequenceModulus - 1
  BY Modulus DEF Number, Numbers
<1> HIDE DEF b
<1>6. base \in [Nat -> Numbers] /\ base[1] = b
  BY <1>5
<1> HIDE DEF base
<1>7. Ordered(base)
  <2>1. \A s \in Sockets : net["rcv"][s] \in Seq(Fit(base, snd.ssrc, Newest))
    BY <1>1, EmptySeq DEF Roles
  <2>2. snd.sequence = Number(base[snd.ssrc], Newest + 1)
    BY <1>3, <1>4, <1>5, <1>6
  <2>3. 1..Len(snd.out) = {}
    BY <1>3, EmptySeq
  <2> QED BY <1>1, <1>3, <2>1, <2>2, <2>3 DEF Ordered
<1>8. net \in [Roles -> [Sockets -> Seq(Packet)]] /\ changes \in Seq({"add", "remove"})
  BY <1>1, EmptySeq
<1> QED BY <1>1, <1>2, <1>3, <1>4, <1>6, <1>7, <1>8, Limits DEF MidiInv

LEMMA MidiSteps ==
  ASSUME MidiInv, [Next]_vars
  PROVE  MidiInv' /\ Newer
<1>1. CASE UNCHANGED vars
  <2>1. Newest' = Newest
    BY <1>1 DEF vars, Newest
  <2>2. PICK base \in [Nat -> Numbers] : Ordered(base)
    BY DEF MidiInv
  <2>3. Ordered(base)'
    BY <1>1, <2>1, <2>2 DEF Ordered, vars
  <2>4. MidiInv'
    BY <1>1, <2>3 DEF MidiInv, vars
  <2> QED BY <1>1, <2>4 DEF vars, Newer
<1>2. CASE Next
  BY <1>2, QueueCCKeeps, ArrivesKeeps, IsLostKeeps, PollKeeps, SenderRestartsKeeps,
     ReceiverRestartsKeeps, OthersKeep, ElapseKeeps DEF Next
<1> QED BY <1>1, <1>2

(* The invariant of the session holds: both ends are consistent in         *)
(* themselves, and every Control Change of every sender carries the number *)
(* of its place (_handle_control, poll, send_cc_with_sequence and close of *)
(* remote_midi.py).                                                        *)
THEOREM MidiInvariant == Spec => []MidiInv
<1>1. Init => MidiInv
  BY MidiBegins
<1>2. MidiInv /\ [Next]_vars => MidiInv'
  BY MidiSteps
<1> QED BY <1>1, <1>2, PTL DEF Spec

(* The states, tokens, counters and queues of both ends stay in their      *)
(* ranges and agree with each other: an end has a token exactly while it   *)
(* invites or is in a session, and in a session it knows the other's SSRC  *)
(* and data port (_clear_session, _begin_invitation, _handle_accept and    *)
(* _mark_connected of remote_midi.py).                                     *)
THEOREM MidiTypeCorrect == Spec => []TypeOK
<1>1. MidiInv => TypeOK
  <2> SUFFICES ASSUME MidiInv PROVE TypeOK
    OBVIOUS
  <2>1. \A n \in Numbers \cup {Never} : n \in -1..SequenceModulus - 1
    BY Modulus DEF Numbers, Never
  <2>2. ASSUME NEW e, IsEnd(e)
        PROVE  /\ e.state \in {"IDLE", "INVITING_CONTROL", "INVITING_DATA", "CONNECTED", "BACKOFF"}
               /\ e.token \in Tokens \cup {0}
               /\ e.state \in {"INVITING_CONTROL", "INVITING_DATA", "CONNECTED"} <=> e.token # 0
               /\ e.state = "CONNECTED" => e.remote # NoPeer /\ e.data
               /\ Len(e.out) <= OutgoingCapacity
               /\ e.sequence \in 0..SequenceModulus - 1 /\ e.last \in -1..SequenceModulus - 1
               /\ e.tries \in 0..MaxInvitations /\ e.wait \in 0..MaxBackoff
    BY <2>1, <2>2 DEF IsEnd, States, Active, Numbers
  <2> QED BY <2>2 DEF MidiInv, TypeOK
<1> QED BY <1>1, MidiInvariant, PTL

(* Within a session the receiver passes Control Changes on in the order in *)
(* which they were made and each at most once, however datagrams are       *)
(* delayed, repeated and overtaken, whatever was coalesced or lost between *)
(* them and whichever sender was restarted (_handle_rtp and                *)
(* _sequence_is_new of remote_midi.py).                                    *)
THEOREM OrderIsKept == Spec => InOrderOnce
<1>1. MidiInv /\ [Next]_vars =>
        [rcv'.last # rcv.last /\ rcv.state = "CONNECTED" /\ rcv'.state = "CONNECTED"
           => heard' > heard]_vars
  BY MidiSteps DEF Newer
<1> QED BY <1>1, MidiInvariant, PTL DEF Spec, InOrderOnce

-----------------------------------------------------------------------------
(***************************************************************************)
(* A session without faults.  What the ends hand each other takes them     *)
(* through the stages of the invitation one datagram at a time, no time    *)
(* passes before both are connected, and from then on no time limit is     *)
(* reached: the receiver synchronizes before it and the sender answers.    *)
(* Every Control Change is passed on, waits or is on its way, or was       *)
(* superseded by one of which that is true (Flowing).                      *)
(***************************************************************************)
IsCC(d) == d.kind = "CC"

\* Row on the way to the receiver, out waiting at the sender, and what was heard of them.
Flowing(row, out, last, passed, made) ==
  /\ passed \in [Bindings -> Nat] /\ \A b \in Bindings : passed[b] <= last
  /\ \A i, j \in 1..Len(row) : IsCC(row[i]) /\ IsCC(row[j]) /\ i < j => row[i].cc[2] < row[j].cc[2]
  /\ \A i, j \in 1..Len(out) : i < j => out[i].cc[2] < out[j].cc[2]
  /\ \A i \in 1..Len(row), j \in 1..Len(out) : IsCC(row[i]) => row[i].cc[2] < out[j].cc[2]
  /\ \A i \in 1..Len(row) : IsCC(row[i]) => last < row[i].cc[2] /\ row[i].cc[2] <= made[row[i].cc[1]]
  /\ \A i \in 1..Len(out) : last < out[i].cc[2] /\ out[i].cc[2] <= made[out[i].cc[1]]
  /\ \A b \in Bindings :
       \/ passed[b] = made[b]
       \/ \E i \in 1..Len(row) : IsCC(row[i]) /\ row[i].cc = <<b, made[b]>>
       \/ \E i \in 1..Len(out) : out[i].cc = <<b, made[b]>>

\* The elements of a concatenation.
LEMMA Concatenated ==
  ASSUME NEW S, NEW v \in Seq(S), NEW u \in Seq(S)
  PROVE  /\ v \o u \in Seq(S) /\ Len(v) \in Nat /\ Len(u) \in Nat /\ Len(v \o u) = Len(v) + Len(u)
         /\ \A i \in 1..Len(v \o u) : (v \o u)[i] = IF i <= Len(v) THEN v[i] ELSE u[i - Len(v)]
BY LenProperties, ConcatProperties

\* Datagrams that are no Control Changes join the row.
LEMMA FlowingJoined ==
  ASSUME NEW row \in Seq(Packet), NEW out \in Seq(Entry), NEW last, NEW passed, NEW made,
         Flowing(row, out, last, passed, made),
         NEW more \in Seq(Packet), \A i \in 1..Len(more) : ~IsCC(more[i])
  PROVE  Flowing(row \o more, out, last, passed, made)
<1> DEFINE w == row \o more
<1>1. /\ Len(row) \in Nat /\ Len(more) \in Nat /\ Len(w) = Len(row) + Len(more)
      /\ \A i \in 1..Len(w) : w[i] = IF i <= Len(row) THEN row[i] ELSE more[i - Len(row)]
  BY Concatenated
<1>2. \A i \in 1..Len(row) : i \in 1..Len(w) /\ w[i] = row[i]
  BY <1>1
<1>3. \A i \in 1..Len(w) : IsCC(w[i]) => i \in 1..Len(row)
  BY <1>1
<1> HIDE DEF w, IsCC
<1>4. \A b \in Bindings : (\E i \in 1..Len(row) : IsCC(row[i]) /\ row[i].cc = <<b, made[b]>>)
        => \E i \in 1..Len(w) : IsCC(w[i]) /\ w[i].cc = <<b, made[b]>>
  BY <1>2
<1>5. \A i \in 1..Len(w) : IsCC(w[i]) => i \in 1..Len(row) /\ w[i] = row[i]
  BY <1>2, <1>3
<1> QED BY <1>4, <1>5 DEF Flowing, w

\* The first of the row is taken, and is none.
LEMMA FlowingTaken ==
  ASSUME NEW row \in Seq(Packet), NEW out \in Seq(Entry), NEW last, NEW passed, NEW made,
         Flowing(row, out, last, passed, made), Len(row) >= 1, ~IsCC(row[1]),
         NEW rest \in Seq(Packet), Len(rest) = Len(row) - 1,
         \A i \in 1..Len(rest) : rest[i] = row[i + 1]
  PROVE  Flowing(rest, out, last, passed, made)
<1>1. Len(row) \in Nat /\ Len(rest) \in Nat
  BY LenProperties
<1>2. \A i \in 1..Len(rest) : i + 1 \in 1..Len(row) /\ rest[i] = row[i + 1]
  BY <1>1
<1>3. \A i \in 1..Len(row) : IsCC(row[i]) => i - 1 \in 1..Len(rest) /\ rest[i - 1] = row[i]
  BY <1>1
<1> HIDE DEF IsCC
<1>4. \A b \in Bindings : (\E i \in 1..Len(row) : IsCC(row[i]) /\ row[i].cc = <<b, made[b]>>)
        => \E i \in 1..Len(rest) : IsCC(rest[i]) /\ rest[i].cc = <<b, made[b]>>
  BY <1>3
<1>5. \A i, j \in 1..Len(rest) : IsCC(rest[i]) /\ IsCC(rest[j]) /\ i < j => rest[i].cc[2] < rest[j].cc[2]
  <2> SUFFICES ASSUME NEW i \in 1..Len(rest), NEW j \in 1..Len(rest), IsCC(rest[i]), IsCC(rest[j]), i < j
               PROVE  rest[i].cc[2] < rest[j].cc[2]
    OBVIOUS
  <2>1. i + 1 < j + 1
    BY <1>1
  <2> QED BY <1>2, <2>1 DEF Flowing
<1> QED BY <1>2, <1>4, <1>5 DEF Flowing

\* The first of the row is a Control Change, and the receiver passes it on.
LEMMA FlowingPassed ==
  ASSUME NEW row \in Seq(Packet), NEW out \in Seq(Entry), NEW last \in Nat, NEW passed,
         NEW made \in [Bindings -> Nat],
         Flowing(row, out, last, passed, made), Len(row) >= 1, IsCC(row[1]),
         NEW rest \in Seq(Packet), Len(rest) = Len(row) - 1,
         \A i \in 1..Len(rest) : rest[i] = row[i + 1]
  PROVE  LET cc == row[1].cc IN
         Flowing(rest, out, cc[2], [passed EXCEPT ![cc[1]] = cc[2]], made)
<1> DEFINE c == row[1].cc[1]
           n == row[1].cc[2]
           p == [passed EXCEPT ![c] = n]
<1>1. Len(row) \in Nat /\ Len(rest) \in Nat /\ 1 \in 1..Len(row)
  BY LenProperties
<1>2. \A i \in 1..Len(rest) : i + 1 \in 1..Len(row) /\ rest[i] = row[i + 1] /\ 1 < i + 1
  BY <1>1
<1>3. c \in Bindings /\ n \in Nat
  <2>1. row[1] \in Packet
    BY <1>1
  <2>2. row[1].cc \in CCs
    BY <2>1 DEF Packet, IsCC
  <2> QED BY <2>2 DEF CCs
<1>4. last < n /\ n <= made[c]
  BY <1>1 DEF Flowing
<1>5. passed \in [Bindings -> Nat] /\ \A b \in Bindings : passed[b] <= last
  BY DEF Flowing
<1>6. p \in [Bindings -> Nat] /\ p[c] = n /\ \A b \in Bindings : b # c => p[b] = passed[b]
  BY <1>3, <1>5
<1> HIDE DEF p, n, c, IsCC
<1>7. \A b \in Bindings : p[b] <= n
  <2> SUFFICES ASSUME NEW b \in Bindings PROVE p[b] <= n
    OBVIOUS
  <2>1. CASE b = c
    BY <1>3, <1>6, <2>1
  <2>2. CASE b # c
    <3>1. p[b] = passed[b] /\ passed[b] <= last /\ passed[b] \in Nat
      BY <1>5, <1>6, <2>2
    <3> QED BY <1>3, <1>4, <3>1
  <2> QED BY <2>1, <2>2
<1>8. ASSUME NEW b \in Bindings
      PROVE  \/ p[b] = made[b]
             \/ \E i \in 1..Len(rest) : IsCC(rest[i]) /\ rest[i].cc = <<b, made[b]>>
             \/ \E i \in 1..Len(out) : out[i].cc = <<b, made[b]>>
  <2>1. CASE \E i \in 1..Len(out) : out[i].cc = <<b, made[b]>>
    BY <2>1
  <2>2. CASE \E i \in 1..Len(row) : IsCC(row[i]) /\ row[i].cc = <<b, made[b]>>
    <3>1. PICK i \in 1..Len(row) : IsCC(row[i]) /\ row[i].cc = <<b, made[b]>>
      BY <2>2
    <3>2. CASE i = 1
      BY <1>6, <3>1, <3>2 DEF c, n
    <3>3. CASE i # 1
      <4>1. i - 1 \in 1..Len(rest) /\ rest[i - 1] = row[i]
        BY <1>1, <3>3
      <4> QED BY <3>1, <4>1
    <3> QED BY <3>2, <3>3
  <2>3. CASE passed[b] = made[b]
    <3>1. b # c
      <4>1. passed[b] \in Nat /\ passed[b] <= last
        BY <1>5
      <4> QED BY <1>3, <1>4, <2>3, <4>1
    <3> QED BY <1>6, <2>3, <3>1
  <2> QED BY <2>1, <2>2, <2>3 DEF Flowing
<1>9. /\ \A i \in 1..Len(rest) : IsCC(rest[i]) => n < rest[i].cc[2] /\ rest[i].cc[2] <= made[rest[i].cc[1]]
      /\ \A i \in 1..Len(out) : n < out[i].cc[2] /\ out[i].cc[2] <= made[out[i].cc[1]]
  BY <1>1, <1>2 DEF Flowing, n
<1>10. \A i, j \in 1..Len(rest) : IsCC(rest[i]) /\ IsCC(rest[j]) /\ i < j => rest[i].cc[2] < rest[j].cc[2]
  <2> SUFFICES ASSUME NEW i \in 1..Len(rest), NEW j \in 1..Len(rest), IsCC(rest[i]), IsCC(rest[j]), i < j
               PROVE  rest[i].cc[2] < rest[j].cc[2]
    OBVIOUS
  <2>1. i + 1 < j + 1
    BY <1>1
  <2> QED BY <1>2, <2>1 DEF Flowing
<1>11. /\ \A i, j \in 1..Len(out) : i < j => out[i].cc[2] < out[j].cc[2]
       /\ \A i \in 1..Len(rest), j \in 1..Len(out) : IsCC(rest[i]) => rest[i].cc[2] < out[j].cc[2]
  BY <1>2 DEF Flowing
<1>12. Flowing(rest, out, n, p, made)
  BY <1>6, <1>7, <1>8, <1>9, <1>10, <1>11 DEF Flowing
<1> QED BY <1>12 DEF p, n, c

\* The queue becomes the end of the row.
LEMMA FlowingFlushed ==
  ASSUME NEW row \in Seq(Packet), NEW out \in Seq(Entry), NEW last, NEW passed, NEW made,
         Flowing(row, out, last, passed, made),
         NEW more \in Seq(Packet), Len(more) = Len(out),
         \A i \in 1..Len(more) : IsCC(more[i]) /\ more[i].cc = out[i].cc
  PROVE  Flowing(row \o more, <<>>, last, passed, made)
<1> DEFINE w == row \o more
           k == Len(row)
<1>1. /\ k \in Nat /\ Len(more) \in Nat /\ Len(w) = k + Len(more)
      /\ \A i \in 1..Len(w) : w[i] = IF i <= k THEN row[i] ELSE more[i - k]
  BY Concatenated
<1>2. \A i \in 1..k : i \in 1..Len(w) /\ w[i] = row[i]
  BY <1>1
<1>3. \A i \in 1..Len(out) : k + i \in 1..Len(w) /\ IsCC(w[k + i]) /\ w[k + i].cc = out[i].cc
  <2> SUFFICES ASSUME NEW i \in 1..Len(out)
               PROVE  k + i \in 1..Len(w) /\ IsCC(w[k + i]) /\ w[k + i].cc = out[i].cc
    OBVIOUS
  <2>1. i \in 1..Len(more) /\ k + i \in 1..Len(w) /\ ~(k + i <= k) /\ k + i - k = i
    BY <1>1
  <2>2. w[k + i] = more[i]
    BY <1>1, <2>1
  <2> HIDE DEF w, k, IsCC
  <2> QED BY <2>1, <2>2
<1>4. \A i \in 1..Len(w) : \/ i \in 1..k
                           \/ i - k \in 1..Len(out) /\ k + (i - k) = i
  BY <1>1
<1>5. Len(<<>>) = 0 /\ 1..0 = {}
  OBVIOUS
<1> HIDE DEF w, k, IsCC
<1>6. \A i \in 1..Len(w) : \/ i \in 1..k /\ w[i] = row[i]
                           \/ i - k \in 1..Len(out) /\ w[i].cc = out[i - k].cc
  BY <1>2, <1>3, <1>4
<1>7. \A i, j \in 1..Len(w) : IsCC(w[i]) /\ IsCC(w[j]) /\ i < j => w[i].cc[2] < w[j].cc[2]
  <2> SUFFICES ASSUME NEW i \in 1..Len(w), NEW j \in 1..Len(w), IsCC(w[i]), IsCC(w[j]), i < j
               PROVE  w[i].cc[2] < w[j].cc[2]
    OBVIOUS
  <2>1. CASE i \in 1..k /\ j \in 1..k
    BY <1>2, <2>1 DEF Flowing, k
  <2>2. CASE i \in 1..k /\ j \notin 1..k
    BY <1>2, <1>6, <2>2 DEF Flowing, k
  <2>3. CASE i \notin 1..k
    <3>1. j \notin 1..k /\ i - k < j - k
      BY <1>1, <2>3
    <3> QED BY <1>6, <2>3, <3>1 DEF Flowing
  <2> QED BY <2>1, <2>2, <2>3
<1>8. \A i \in 1..Len(w) : IsCC(w[i]) => last < w[i].cc[2] /\ w[i].cc[2] <= made[w[i].cc[1]]
  <2> SUFFICES ASSUME NEW i \in 1..Len(w), IsCC(w[i])
               PROVE  last < w[i].cc[2] /\ w[i].cc[2] <= made[w[i].cc[1]]
    OBVIOUS
  <2>1. CASE i \in 1..k /\ w[i] = row[i]
    BY <2>1 DEF Flowing, k
  <2>2. CASE i - k \in 1..Len(out) /\ w[i].cc = out[i - k].cc
    BY <2>2 DEF Flowing
  <2> QED BY <1>6, <2>1, <2>2
<1>9. ASSUME NEW b \in Bindings
      PROVE  passed[b] = made[b] \/ \E i \in 1..Len(w) : IsCC(w[i]) /\ w[i].cc = <<b, made[b]>>
  <2>1. CASE \E i \in 1..k : IsCC(row[i]) /\ row[i].cc = <<b, made[b]>>
    BY <1>2, <2>1
  <2>2. CASE \E i \in 1..Len(out) : out[i].cc = <<b, made[b]>>
    BY <1>3, <2>2
  <2> QED BY <2>1, <2>2 DEF Flowing, k
<1>10. Flowing(w, <<>>, last, passed, made)
  BY <1>5, <1>7, <1>8, <1>9 DEF Flowing
<1> QED BY <1>10 DEF w

\* What is taken off a sequence leaves the others in their order.
LEMMA Removed ==
  ASSUME NEW S, NEW w \in Seq(S), NEW i \in 1..Len(w)
  PROVE  LET u == RemoveAt(w, i) IN
         /\ u \in Seq(S) /\ Len(w) \in Nat /\ Len(u) = Len(w) - 1
         /\ \A j \in 1..Len(u) : u[j] = IF j < i THEN w[j] ELSE w[j + 1]
<1> DEFINE u == SubSeq(w, 1, i - 1)
           v == SubSeq(w, i + 1, Len(w))
<1>1. Len(w) \in Nat /\ i \in Nat
  BY LenProperties
<1>2. u \in Seq(S) /\ Len(u) = i - 1 /\ \A j \in 1..i - 1 : u[j] = w[j]
  BY <1>1, SubSeqProperties
<1>3. v \in Seq(S) /\ Len(v) = Len(w) - i /\ \A j \in 1..Len(w) - i : v[j] = w[j + i]
  <2>1. i + 1 \in 1..Len(w) + 1
    BY <1>1
  <2> QED BY <1>1, <2>1, SubSeqProperties
<1> HIDE DEF u, v
<1>4. /\ u \o v \in Seq(S) /\ Len(u \o v) = Len(u) + Len(v)
      /\ \A j \in 1..Len(u \o v) : (u \o v)[j] = IF j <= Len(u) THEN u[j] ELSE v[j - Len(u)]
  BY <1>2, <1>3, Concatenated
<1>5. Len(u \o v) = Len(w) - 1
  BY <1>1, <1>2, <1>3, <1>4
<1>6. ASSUME NEW j \in 1..Len(w) - 1
      PROVE  (u \o v)[j] = IF j < i THEN w[j] ELSE w[j + 1]
  <2>1. CASE j < i
    <3>1. j \in 1..i - 1 /\ j <= Len(u)
      BY <1>1, <1>2, <2>1
    <3> QED BY <1>2, <1>4, <1>5, <2>1, <3>1
  <2>2. CASE ~(j < i)
    <3>1. j - (i - 1) \in 1..Len(w) - i /\ ~(j <= Len(u)) /\ j - (i - 1) + i = j + 1
      BY <1>1, <1>2, <2>2
    <3>2. (u \o v)[j] = v[j - (i - 1)] /\ v[j - (i - 1)] = w[j + 1]
      BY <1>2, <1>3, <1>4, <1>5, <3>1
    <3> QED BY <2>2, <3>2
  <2> QED BY <2>1, <2>2
<1> QED BY <1>1, <1>4, <1>5, <1>6 DEF RemoveAt, u, v

\* A new Control Change takes the place of the one of its binding that waits.
LEMMA FlowingQueued ==
  ASSUME NEW row \in Seq(Packet), NEW out \in Seq(Entry), NEW last, NEW passed,
         NEW made \in [Bindings -> Nat], Flowing(row, out, last, passed, made),
         NEW b \in Bindings, NEW n \in Nat, last < n,
         \A i \in 1..Len(row) : IsCC(row[i]) => row[i].cc[2] < n,
         \A i \in 1..Len(out) : out[i].cc[2] < n,
         NEW others \in Seq(Entry),
         \/ others = out
         \/ \E k \in 1..Len(out) : others = RemoveAt(out, k) /\ out[k].cc[1] = b,
         NEW entry \in Entry, entry.cc = <<b, n>>
  PROVE  Flowing(row, Append(others, entry), last, passed, [made EXCEPT ![b] = n])
<1> DEFINE o == Append(others, entry)
           m == [made EXCEPT ![b] = n]
           N == Len(others)
<1>1. PICK at \in [1..N -> 1..Len(out)] :
        /\ \A i \in 1..N : others[i] = out[at[i]]
        /\ \A i, j \in 1..N : i < j => at[i] < at[j]
        /\ \A i \in 1..Len(out) : out[i].cc[1] = b \/ \E j \in 1..N : at[j] = i
  <2>1. CASE others = out
    <3> DEFINE f == [i \in 1..N |-> i]
    <3>1. f \in [1..N -> 1..Len(out)] /\ \A i \in 1..N : f[i] = i
      BY <2>1
    <3> HIDE DEF f
    <3> QED BY <2>1, <3>1
  <2>2. CASE \E k \in 1..Len(out) : others = RemoveAt(out, k) /\ out[k].cc[1] = b
    <3>1. PICK k \in 1..Len(out) : others = RemoveAt(out, k) /\ out[k].cc[1] = b
      BY <2>2
    <3>2. /\ Len(out) \in Nat /\ N = Len(out) - 1
          /\ \A j \in 1..N : others[j] = IF j < k THEN out[j] ELSE out[j + 1]
      BY <3>1, Removed
    <3> HIDE DEF N
    <3> DEFINE f == [j \in 1..N |-> IF j < k THEN j ELSE j + 1]
    <3>3. f \in [1..N -> 1..Len(out)]
      BY <3>2
    <3>4. /\ \A i \in 1..N : others[i] = out[f[i]]
          /\ \A i, j \in 1..N : i < j => f[i] < f[j]
      BY <3>2
    <3>5. ASSUME NEW i \in 1..Len(out), i # k PROVE \E j \in 1..N : f[j] = i
      <4>1. CASE i < k
        <5>1. i \in 1..N /\ f[i] = i
          BY <3>2, <4>1
        <5> QED BY <5>1
      <4>2. CASE ~(i < k)
        <5>1. i - 1 \in 1..N /\ f[i - 1] = i
          BY <3>2, <3>5, <4>2
        <5> QED BY <5>1
      <4> QED BY <4>1, <4>2
    <3> HIDE DEF f
    <3> QED BY <3>1, <3>3, <3>4, <3>5 DEF N
  <2> QED BY <2>1, <2>2
<1>2. /\ N \in Nat /\ Len(o) = N + 1 /\ o[N + 1] = entry
      /\ \A i \in 1..N : i \in 1..N + 1 /\ o[i] = out[at[i]] /\ at[i] \in 1..Len(out)
  <2>1. N \in Nat
    BY LenProperties
  <2>2. Len(o) = N + 1 /\ o[N + 1] = entry /\ \A i \in 1..N : o[i] = others[i]
    <3>1. \A i \in 1..Len(others) : Append(others, entry)[i] = others[i]
      BY AppendProperties
    <3>2. Append(others, entry)[Len(others) + 1] = entry /\ Len(Append(others, entry)) = Len(others) + 1
      BY AppendProperties
    <3> QED BY <3>1, <3>2
  <2> HIDE DEF o, N
  <2>3. \A i \in 1..N : i \in 1..N + 1 /\ at[i] \in 1..Len(out)
    BY <1>1, <2>1
  <2> QED BY <1>1, <2>1, <2>2, <2>3
<1>3. \A i \in 1..N + 1 : i = N + 1 \/ i \in 1..N
  BY <1>2
<1>4. m[b] = n /\ \A c \in Bindings : c # b => m[c] = made[c]
  OBVIOUS
<1> HIDE DEF o, m, N, IsCC
<1>5. /\ \A i \in 1..Len(row) : IsCC(row[i]) => row[i].cc[1] \in Bindings /\ row[i].cc[2] \in Nat
      /\ \A i \in 1..Len(out) : out[i].cc[1] \in Bindings /\ out[i].cc[2] \in Nat
  <2>1. \A d \in Packet : IsCC(d) => d.cc[1] \in Bindings /\ d.cc[2] \in Nat
    BY DEF Packet, CCs, IsCC
  <2>2. \A x \in Entry : x.cc[1] \in Bindings /\ x.cc[2] \in Nat
    BY DEF Entry, CCs
  <2>3. (\A i \in 1..Len(row) : row[i] \in Packet) /\ (\A i \in 1..Len(out) : out[i] \in Entry)
    BY LenProperties
  <2> QED BY <2>1, <2>2, <2>3
<1>6. \A c \in Bindings, v \in Nat : v < n /\ v <= made[c] => v <= m[c]
  <2> SUFFICES ASSUME NEW c \in Bindings, NEW v \in Nat, v < n, v <= made[c] PROVE v <= m[c]
    OBVIOUS
  <2>1. CASE c = b
    BY <1>4, <2>1
  <2>2. CASE c # b
    BY <1>4, <2>2
  <2> QED BY <2>1, <2>2
<1>7. /\ \A i \in 1..Len(row) : IsCC(row[i]) => last < row[i].cc[2] /\ row[i].cc[2] <= m[row[i].cc[1]]
      /\ \A i \in 1..Len(out) : last < out[i].cc[2] /\ out[i].cc[2] <= m[out[i].cc[1]]
  BY <1>5, <1>6 DEF Flowing
<1>8. entry.cc[1] = b /\ entry.cc[2] = n /\ n <= m[b]
  BY <1>4
<1>9. \A i \in 1..N + 1 : last < o[i].cc[2] /\ o[i].cc[2] <= m[o[i].cc[1]]
  BY <1>2, <1>3, <1>7, <1>8
<1>10. \A i, j \in 1..N + 1 : i < j => o[i].cc[2] < o[j].cc[2]
  <2> SUFFICES ASSUME NEW i \in 1..N + 1, NEW j \in 1..N + 1, i < j PROVE o[i].cc[2] < o[j].cc[2]
    OBVIOUS
  <2>1. i \in 1..N
    BY <1>2
  <2>2. CASE j \in 1..N
    <3>1. at[i] < at[j] /\ o[i] = out[at[i]] /\ o[j] = out[at[j]]
          /\ at[i] \in 1..Len(out) /\ at[j] \in 1..Len(out)
      BY <1>1, <1>2, <2>1, <2>2
    <3> QED BY <3>1 DEF Flowing
  <2>3. CASE j = N + 1
    BY <1>2, <1>8, <2>1, <2>3
  <2> QED BY <1>3, <2>2, <2>3
<1>11. \A i \in 1..Len(row), j \in 1..N + 1 : IsCC(row[i]) => row[i].cc[2] < o[j].cc[2]
  BY <1>2, <1>3, <1>8 DEF Flowing
<1>12. ASSUME NEW c \in Bindings
       PROVE  \/ passed[c] = m[c]
              \/ \E i \in 1..Len(row) : IsCC(row[i]) /\ row[i].cc = <<c, m[c]>>
              \/ \E i \in 1..N + 1 : o[i].cc = <<c, m[c]>>
  <2>1. CASE c = b
    <3>1. N + 1 \in 1..N + 1
      BY <1>2
    <3> QED BY <1>2, <1>4, <2>1, <3>1
  <2>2. CASE c # b
    <3>1. m[c] = made[c]
      BY <1>4, <2>2
    <3>2. CASE \E i \in 1..Len(out) : out[i].cc = <<c, made[c]>>
      <4>1. PICK i \in 1..Len(out) : out[i].cc = <<c, made[c]>>
        BY <3>2
      <4>2. PICK j \in 1..N : at[j] = i
        BY <1>1, <2>2, <4>1
      <4> QED BY <1>2, <3>1, <4>1, <4>2
    <3> QED BY <3>1, <3>2 DEF Flowing
  <2> QED BY <2>1, <2>2
<1>13. Flowing(row, o, last, passed, m)
  <2>1. /\ passed \in [Bindings -> Nat] /\ \A c \in Bindings : passed[c] <= last
        /\ \A i, j \in 1..Len(row) : IsCC(row[i]) /\ IsCC(row[j]) /\ i < j => row[i].cc[2] < row[j].cc[2]
    BY DEF Flowing
  <2>2. Len(o) = N + 1
    BY <1>2
  <2> QED BY <1>7, <1>9, <1>10, <1>11, <1>12, <2>1, <2>2 DEF Flowing
<1> QED BY <1>13 DEF o, m

-----------------------------------------------------------------------------
\* Nothing is on the way but to socket s of end r.
Only(r, s) == \A q \in Roles, z \in Sockets : q # r \/ z # s => net[q][z] = <<>>

\* A datagram of the session the receiver asks for.
About(d, s, kind) == d.sock = s /\ d.kind = kind /\ d.ssrc = 1 /\ d.token = rcv.token

Alone(r, s, kind) == Only(r, s) /\ Len(net[r][s]) = 1 /\ About(net[r][s][1], s, kind)

\* The receiver has not heard of the sender.
NotFound ==
  /\ rcv.state = "IDLE" /\ ~rcv.known /\ changes = <<"add">>
  /\ snd.state = "IDLE" /\ snd.remote = NoPeer /\ ~snd.recent
  /\ \A r \in Roles, s \in Sockets : net[r][s] = <<>>

\* It invites the sender, and no time has passed since.
Waits == rcv.known /\ changes = <<>> /\ rcv.wait > 0

Calls ==
  /\ Waits /\ rcv.state = "INVITING_CONTROL"
  /\ snd.state = "IDLE" /\ snd.remote = NoPeer /\ ~snd.recent
  /\ Alone("snd", "control", "IN")

\* The sender is in the session the receiver asks for.
Called == snd.remote = 1 /\ snd.token = rcv.token /\ snd.quiet = 0

Granted ==
  /\ Waits /\ Called /\ rcv.state = "INVITING_CONTROL" /\ snd.state = "INVITING_DATA"
  /\ Alone("rcv", "control", "OK")

CallsAgain ==
  /\ Waits /\ Called /\ rcv.state = "INVITING_DATA" /\ rcv.remote = 1 /\ snd.state = "INVITING_DATA"
  /\ Alone("snd", "data", "IN")

Answered ==
  /\ Waits /\ Called /\ rcv.state = "INVITING_DATA" /\ rcv.remote = 1 /\ snd.state = "CONNECTED"
  /\ Only("rcv", "data")
  /\ Len(net["rcv"]["data"]) >= 1 /\ About(net["rcv"]["data"][1], "data", "OK")
  /\ \A i \in 2..Len(net["rcv"]["data"]) : net["rcv"]["data"][i].kind = "CC"

OnTheWay(r, kind) == \E i \in 1..Len(net[r]["data"]) : net[r]["data"][i].kind = kind

\* Since the last synchronization both have waited no longer than the receiver has.
InTime ==
  /\ rcv.sync \in 0..SyncInterval /\ snd.quiet \in 0..SyncInterval /\ rcv.quiet \in 0..SyncInterval
  /\ OnTheWay("snd", "CK0") \/ snd.quiet + rcv.sync <= SyncInterval
  /\ OnTheWay("snd", "CK0") \/ OnTheWay("rcv", "CK1") \/ rcv.quiet + rcv.sync <= SyncInterval

Joined ==
  /\ rcv.known /\ changes = <<>>
  /\ rcv.state = "CONNECTED" /\ snd.state = "CONNECTED" /\ snd.remote = 1 /\ rcv.remote = 1
  /\ net["snd"]["control"] = <<>> /\ net["rcv"]["control"] = <<>>
  /\ \A i \in 1..Len(net["snd"]["data"]) :
       net["snd"]["data"][i].kind \in {"CK0", "CK2"} /\ net["snd"]["data"][i].ssrc = 1
  /\ \A i \in 1..Len(net["rcv"]["data"]) :
       net["rcv"]["data"][i].kind \in {"CC", "CK1"} /\ net["rcv"]["data"][i].ssrc = 1
  /\ InTime

Stage == NotFound \/ Calls \/ Granted \/ CallsAgain \/ Answered \/ Joined

\* Nobody was restarted, and nobody looks for the other again.
Calm ==
  /\ up /\ snd.ssrc = 1 /\ rcv.ssrc = 1
  /\ \A e \in {snd, rcv} : e.recoverAt = Never /\ (e.was => e.state = "CONNECTED")

Flows == Flowing(net["rcv"]["data"], snd.out, heard, handled, accepted)

Undisturbed == faults = 0 => Calm /\ Stage /\ Flows

LEMMA TimeLimits ==
  /\ SyncInterval \in Nat \ {0} /\ InactivityTimeout \in Nat /\ SyncInterval < InactivityTimeout
  /\ InvitationInterval \in Nat \ {0}
BY AppleMidiAssumption

\* What an end sends is added to the two rows of the other.
LEMMA SentTo ==
  ASSUME NEW network \in Nets, NEW r \in Roles, NEW tx \in [Sockets -> Seq(Packet)]
  PROVE  LET n == Sending(network, r, tx)
             o == OtherEnd(r)
         IN  /\ n[r] = network[r]
             /\ \A s \in Sockets : /\ n[o][s] = network[o][s] \o tx[s]
                                   /\ tx[s] = <<>> => n[o][s] = network[o][s]
                                   /\ network[o][s] = <<>> => n[o][s] = tx[s]
<1> DEFINE o == OtherEnd(r)
           row == [s \in Sockets |-> network[o][s] \o tx[s]]
<1>1. o \in Roles /\ o # r
  BY DEF OtherEnd, Roles
<1>2. Sending(network, r, tx) = [network EXCEPT ![o] = row]
  BY DEF Sending
<1> HIDE DEF o
<1>3. \A s \in Sockets : network[o][s] \in Seq(Packet) /\ tx[s] \in Seq(Packet)
  BY <1>1 DEF Nets
<1>4. \A s \in Sockets : /\ row[s] = network[o][s] \o tx[s]
                         /\ tx[s] = <<>> => row[s] = network[o][s]
                         /\ network[o][s] = <<>> => row[s] = tx[s]
  BY <1>3, ConcatEmptySeq
<1> HIDE DEF row
<1> QED BY <1>1, <1>2, <1>4 DEF Nets, o

\* An end that looks for nobody goes on so, while its session lasts or its peer is known.
LEMMA Recovered ==
  ASSUME NEW e, DOMAIN e = Fields, e.recoverAt = Never, e.was => e.state = "CONNECTED",
         e.role \in Roles, e.role = "rcv" /\ e.state # "CONNECTED" => e.known
  PROVE  LET q == RecoverDiscovery(e) IN
         /\ ~RecoveryDue(e)
         /\ DOMAIN q = Fields /\ q.recoverAt = Never /\ (q.was => q.state = "CONNECTED")
         /\ \A f \in Fields \ {"was", "recovery", "recoverAt"} : q[f] = e[f]
<1> DEFINE g == RecoveryPlanned(e)
           connected == [e EXCEPT !.was = TRUE, !.recoverAt = Never]
           never == [e EXCEPT !.recoverAt = Never]
<1>1. IF e.state = "CONNECTED" THEN g = connected ELSE g \in {never, e}
  <2>1. CASE e.state = "CONNECTED"
    BY <2>1 DEF RecoveryPlanned
  <2>2. CASE e.state # "CONNECTED" /\ e.role = "rcv"
    <3>1. g = never
      BY <2>2 DEF RecoveryPlanned
    <3> QED BY <2>2, <3>1
  <2>3. CASE e.state # "CONNECTED" /\ e.role = "snd"
    <3>1. g = IF e.recovery >= ReannounceLimit THEN never ELSE e
      BY <2>3 DEF RecoveryPlanned
    <3> QED BY <2>3, <3>1
  <2> QED BY <2>1, <2>2, <2>3 DEF Roles
<1>2. ASSUME NEW q \in {never, e}
      PROVE  /\ DOMAIN q = Fields /\ q.recoverAt = Never /\ (q.was => q.state = "CONNECTED")
             /\ \A f \in Fields \ {"was", "recovery", "recoverAt"} : q[f] = e[f]
  BY <1>2 DEF Fields
<1>3. /\ DOMAIN connected = Fields /\ connected.recoverAt = Never
      /\ connected.state = e.state
      /\ \A f \in Fields \ {"was", "recovery", "recoverAt"} : connected[f] = e[f]
  BY DEF Fields
<1> HIDE DEF g, connected, never
<1>4. /\ DOMAIN g = Fields /\ g.recoverAt = Never /\ (g.was => g.state = "CONNECTED")
      /\ \A f \in Fields \ {"was", "recovery", "recoverAt"} : g[f] = e[f]
  BY <1>1, <1>2, <1>3
<1>5. ~RecoveryDue(e)
  BY <1>4 DEF RecoveryDue, g, Never
<1> QED BY <1>4, <1>5 DEF RecoverDiscovery, g

\* tx holds one datagram, for socket s.
Holds(tx, s, d) ==
  /\ tx \in [Sockets -> Seq(Packet)] /\ tx[s] = <<d>>
  /\ \A z \in Sockets : z # s => tx[z] = <<>>

LEMMA Holding ==
  ASSUME NEW p, p.tx = Unsent, DOMAIN p = {"e", "tx"}, NEW s \in Sockets, NEW d \in Packet
  PROVE  LET q == [p EXCEPT !.tx[s] = Append(@, d)] IN
         /\ DOMAIN q = {"e", "tx"} /\ q.e = p.e /\ Holds(q.tx, s, d)
<1>1. Append(<<>>, d) = <<d>> /\ <<d>> \in Seq(Packet) /\ <<>> \in Seq(Packet)
  BY EmptySeq
<1>2. p.tx[s] = <<>>
  BY DEF Unsent
<1> DEFINE q == [p EXCEPT !.tx[s] = Append(@, d)]
<1>3. q = [p EXCEPT !.tx[s] = <<d>>]
  BY <1>1, <1>2
<1>4. q.tx = [p.tx EXCEPT ![s] = <<d>>] /\ q.e = p.e /\ DOMAIN q = {"e", "tx"}
  BY <1>3
<1> HIDE DEF q
<1> QED BY <1>1, <1>4 DEF Holds, Unsent

LEMMA ControlHolds ==
  ASSUME NEW p, p.tx = Unsent, DOMAIN p = {"e", "tx"}, IsEnd(p.e), Carried(p.e, p.e.remote),
         NEW s \in Sockets, NEW kind \in Kinds \ {"CC"}, kind = "IN" => p.e.token \in Tokens
  PROVE  LET q == Control(p, s, kind)
             d == Datagram(p.e, s, kind, p.e.token, <<>>)
         IN  DOMAIN q = {"e", "tx"} /\ q.e = p.e /\ Holds(q.tx, s, d) /\ d \in Packet
<1> DEFINE d == Datagram(p.e, s, kind, p.e.token, <<>>)
<1>1. p.e.token \in Nat /\ p.e.ssrc \in Nat \ {0}
  BY TokenIsNumber DEF IsEnd
<1>2. d \in Packet
  BY <1>1 DEF Datagram, Packet
<1> HIDE DEF d
<1>3. Control(p, s, kind) = [p EXCEPT !.tx[s] = Append(@, d)]
  BY DEF Control, d
<1> QED BY <1>2, <1>3, Holding DEF d

LEMMA AnswerHolds ==
  ASSUME NEW p, p.tx = Unsent, DOMAIN p = {"e", "tx"}, IsEnd(p.e), NEW d \in Packet,
         Carried(p.e, d.ssrc)
  PROVE  LET q == Answer(p, d, "OK")
             a == Datagram(p.e, d.sock, "OK", d.token, <<>>)
         IN  DOMAIN q = {"e", "tx"} /\ q.e = p.e /\ Holds(q.tx, d.sock, a) /\ a \in Packet
<1> DEFINE a == Datagram(p.e, d.sock, "OK", d.token, <<>>)
<1>1. a \in Packet /\ d.sock \in Sockets
  BY DEF IsEnd, Datagram, Packet, Kinds
<1> HIDE DEF a
<1>2. Answer(p, d, "OK") = [p EXCEPT !.tx[d.sock] = Append(@, a)]
  BY DEF Answer, a
<1> QED BY <1>1, <1>2, Holding DEF a

-----------------------------------------------------------------------------
LEMMA Rows ==
  ASSUME MidiInv
  PROVE  /\ net \in Nets /\ IsEnd(snd) /\ snd.role = "snd" /\ IsEnd(rcv) /\ rcv.role = "rcv"
         /\ \A r \in Roles, s \in Sockets : net[r][s] \in Seq(Packet) /\ Len(net[r][s]) \in Nat
         /\ rcv.state # "CONNECTED" => heard = 0
         /\ DOMAIN snd = Fields /\ DOMAIN rcv = Fields
<1>1. \A r \in Roles, s \in Sockets : net[r][s] \in Seq(Packet)
  BY DEF MidiInv
<1> QED BY <1>1, LenProperties DEF MidiInv, Nets, IsEnd, Ordered

\* In every stage the sender's session is young enough.
LEMMA SenderIsHeard ==
  ASSUME Stage
  PROVE  /\ snd.state \in {"IDLE", "INVITING_DATA", "CONNECTED"}
         /\ snd.state # "IDLE" => snd.remote = 1 /\ ~(snd.quiet >= InactivityTimeout)
<1>1. CASE NotFound \/ Calls
  BY <1>1 DEF NotFound, Calls
<1>2. CASE Granted \/ CallsAgain \/ Answered
  BY <1>2, TimeLimits DEF Granted, CallsAgain, Answered, Called
<1>3. CASE Joined
  BY <1>3, TimeLimits DEF Joined, InTime
<1> QED BY <1>1, <1>2, <1>3 DEF Stage

LEMMA FlushedRow ==
  ASSUME NEW e, IsEnd(e)
  PROVE  LET w == Flushed(e) IN
         /\ w \in Seq(Packet) /\ Len(w) = Len(e.out) /\ Len(w) \in Nat
         /\ \A i \in 1..Len(w) : w[i].kind = "CC" /\ w[i].cc = e.out[i].cc /\ w[i].ssrc = e.ssrc
<1> DEFINE out == e.out
           w == Flushed(e)
           D(i) == Datagram(e, "data", "CC", out[i].sequence, out[i].cc)
<1>1. out \in Seq(Entry) /\ Len(out) \in Nat /\ DOMAIN out = 1..Len(out)
  BY LenProperties DEF IsEnd
<1>2. w = [i \in 1..Len(out) |-> D(i)]
  BY <1>1 DEF Flushed
<1>3. ASSUME NEW i \in 1..Len(out)
      PROVE  D(i) \in Packet /\ D(i).kind = "CC" /\ D(i).cc = out[i].cc /\ D(i).ssrc = e.ssrc
  <2>1. out[i] \in Entry
    BY <1>1
  <2>2. out[i].sequence \in Nat /\ out[i].sequence \in Numbers /\ out[i].cc \in CCs
    <3>1. out[i].sequence \in Numbers /\ out[i].cc \in CCs
      BY <2>1 DEF Entry
    <3>2. Numbers \subseteq Nat
      BY Modulus DEF Numbers
    <3> QED BY <3>1, <3>2
  <2>3. e.ssrc \in Nat \ {0}
    BY DEF IsEnd
  <2> QED BY <2>2, <2>3 DEF Datagram, Packet, Sockets, Kinds
<1> HIDE DEF D
<1>4. w \in [1..Len(out) -> Packet] /\ \A i \in 1..Len(out) : w[i] = D(i)
  BY <1>2, <1>3
<1> HIDE DEF w, out
<1>5. w \in Seq(Packet) /\ Len(w) = Len(out)
  <2>1. w \in Seq(Packet)
    BY <1>1, <1>4, SeqDef
  <2>2. DOMAIN w = 1..Len(out)
    BY <1>4
  <2>3. Len(w) \in Nat /\ DOMAIN w = 1..Len(w)
    BY <2>1, LenProperties
  <2>4. ASSUME NEW a \in Nat, NEW b \in Nat, 1..a = 1..b PROVE a = b
    <3>1. (a = 0 \/ a \in 1..b) /\ (b = 0 \/ b \in 1..a)
      BY <2>4
    <3>2. 1..0 = {}
      OBVIOUS
    <3> QED BY <2>4, <3>1, <3>2
  <2> QED BY <1>1, <2>1, <2>2, <2>3, <2>4
<1> QED BY <1>1, <1>3, <1>4, <1>5 DEF w, out

LEMMA SenderPolls ==
  ASSUME MidiInv, Calm, Stage, Poll("snd")
  PROVE  /\ \A f \in Fields \ {"out", "was", "recovery", "recoverAt"} : snd'[f] = snd[f]
         /\ snd'.recoverAt = Never /\ (snd'.was => snd'.state = "CONNECTED")
         /\ UNCHANGED <<rcv, up, changes, accepted, handled, heard, faults>>
         /\ net'["snd"] = net["snd"] /\ net'["rcv"]["control"] = net["rcv"]["control"]
         /\ \/ snd'.out = snd.out /\ net'["rcv"]["data"] = net["rcv"]["data"]
            \/ /\ snd.state = "CONNECTED" /\ snd'.out = <<>>
               /\ net'["rcv"]["data"] = net["rcv"]["data"] \o Flushed(snd)
<1> DEFINE w == Flushed(snd)
           start == [e |-> snd, tx |-> Unsent]
           e1 == [snd EXCEPT !.out = <<>>]
           sent == [Unsent EXCEPT !["data"] = w]
           p == Polled("snd")
           q == RecoverDiscovery(p.e)
<1>0. /\ net \in Nets /\ IsEnd(snd) /\ snd.role = "snd" /\ DOMAIN snd = Fields
      /\ snd.state = "CONNECTED" => snd.data
  BY Rows DEF IsEnd
<1>1. w \in Seq(Packet)
  BY <1>0, FlushedRow
<1>2. /\ snd.state \in {"IDLE", "INVITING_DATA", "CONNECTED"}
      /\ snd.state # "IDLE" => snd.remote = 1 /\ ~(snd.quiet >= InactivityTimeout)
  BY SenderIsHeard
<1>3. IF snd.state = "CONNECTED" THEN p = [e |-> e1, tx |-> sent] ELSE p = start
  <2>1. p = AdvanceTimers(FlushOutgoing(start))
    BY DEF Polled, End
  <2>2. CASE snd.state = "CONNECTED"
    <3>1. Carried(snd, snd.remote)
      BY <1>2, <2>2 DEF Carried, Calm
    <3>2. [Unsent EXCEPT !["data"] = @ \o w] = sent
      <4>1. Unsent["data"] \o w = w
        BY <1>1, ConcatEmptySeq DEF Unsent, Sockets
      <4> HIDE DEF w
      <4> QED BY <4>1
    <3>3. FlushOutgoing(start) = [e |-> e1, tx |-> [Unsent EXCEPT !["data"] = @ \o w]]
      BY <1>0, <2>2, <3>1 DEF FlushOutgoing, Flushed
    <3> DEFINE flushed == [e |-> e1, tx |-> sent]
    <3>4. FlushOutgoing(start) = flushed
      BY <3>2, <3>3
    <3>5. /\ flushed.e.state = "CONNECTED" /\ flushed.e.role = "snd"
          /\ ~(flushed.e.quiet >= InactivityTimeout)
      BY <1>0, <1>2, <2>2 DEF Fields
    <3> HIDE DEF flushed
    <3>6. AdvanceTimers(flushed) = flushed
      BY <3>5 DEF AdvanceTimers, AdvanceSession
    <3> QED BY <2>1, <2>2, <3>4, <3>6 DEF flushed
  <2>3. CASE snd.state # "CONNECTED"
    <3>1. FlushOutgoing(start) = start
      BY <2>3 DEF FlushOutgoing
    <3>2. AdvanceTimers(start) = start
      BY <1>0, <1>2, <2>3 DEF AdvanceTimers, AdvanceSender
    <3> QED BY <2>1, <2>3, <3>1, <3>2
  <2> QED BY <2>2, <2>3
<1>4. p.tx \in [Sockets -> Seq(Packet)]
  <2>1. Unsent \in [Sockets -> Seq(Packet)]
    BY UnsentParts
  <2> HIDE DEF w, p
  <2>2. sent \in [Sockets -> Seq(Packet)]
    BY <1>1, <2>1
  <2> QED BY <1>3, <2>1, <2>2
<1>5. /\ snd' = q /\ UNCHANGED <<rcv, up, accepted, handled, heard, faults>>
      /\ net' = Sending(net, "snd", p.tx)
      /\ changes' = changes \o (IF RecoveryDue(p.e) /\ up THEN <<"add">> ELSE <<>>)
  BY DEF Poll, Becomes
<1>6. /\ DOMAIN p.e = Fields /\ \A f \in Fields \ {"out"} : p.e[f] = snd[f]
      /\ p.e.out = IF snd.state = "CONNECTED" THEN <<>> ELSE snd.out
  <2>1. /\ DOMAIN e1 = Fields /\ \A f \in Fields \ {"out"} : e1[f] = snd[f]
        /\ e1.out = <<>>
    BY <1>0 DEF Fields
  <2> HIDE DEF e1, p, sent
  <2> QED BY <1>0, <1>3, <2>1
<1> HIDE DEF p
<1>7. /\ ~RecoveryDue(p.e) /\ DOMAIN q = Fields /\ q.recoverAt = Never /\ (q.was => q.state = "CONNECTED")
      /\ \A f \in Fields \ {"was", "recovery", "recoverAt"} : q[f] = p.e[f]
  <2>1. /\ p.e.recoverAt = snd.recoverAt /\ p.e.was = snd.was /\ p.e.role = "snd"
        /\ p.e.state = snd.state
    BY <1>0, <1>6 DEF Fields
  <2>2. p.e.role \in Roles /\ p.e.recoverAt = Never /\ (p.e.was => p.e.state = "CONNECTED")
    BY <2>1 DEF Calm, Roles
  <2> QED BY <1>6, <2>1, <2>2, Recovered
<1> HIDE DEF q
<1>8. changes' = changes
  <2>1. changes \in Seq({"add", "remove"})
    BY DEF MidiInv
  <2> QED BY <1>5, <1>7, <2>1, ConcatEmptySeq
<1>9. /\ net'["snd"] = net["snd"]
      /\ \A s \in Sockets : /\ net'["rcv"][s] = net["rcv"][s] \o p.tx[s]
                            /\ p.tx[s] = <<>> => net'["rcv"][s] = net["rcv"][s]
  <2>1. "snd" \in Roles /\ OtherEnd("snd") = "rcv"
    BY DEF OtherEnd, Roles
  <2>2. LET n == Sending(net, "snd", p.tx)
            o == OtherEnd("snd")
        IN  /\ n["snd"] = net["snd"]
            /\ \A s \in Sockets : /\ n[o][s] = net[o][s] \o p.tx[s]
                                  /\ p.tx[s] = <<>> => n[o][s] = net[o][s]
                                  /\ net[o][s] = <<>> => n[o][s] = p.tx[s]
    BY <1>0, <1>4, <2>1, SentTo
  <2> QED BY <1>5, <2>1, <2>2
<1>10. /\ p.tx["control"] = <<>>
       /\ p.tx["data"] = IF snd.state = "CONNECTED" THEN w ELSE <<>>
  BY <1>3 DEF Unsent, Sockets
<1>11. /\ net'["rcv"]["control"] = net["rcv"]["control"]
       /\ net'["rcv"]["data"] = net["rcv"]["data"] \o p.tx["data"]
       /\ p.tx["data"] = <<>> => net'["rcv"]["data"] = net["rcv"]["data"]
  BY <1>9, <1>10 DEF Sockets
<1>12. \A f \in Fields \ {"out", "was", "recovery", "recoverAt"} : snd'[f] = snd[f]
  BY <1>5, <1>6, <1>7
<1>13. snd'.out = p.e.out
  BY <1>5, <1>7 DEF Fields
<1> QED BY <1>5, <1>6, <1>7, <1>8, <1>9, <1>10, <1>11, <1>12, <1>13

\* The stages after the receiver has heard of the sender.
LEMMA ReceiverIsCalm ==
  ASSUME Stage, ~NotFound
  PROVE  /\ rcv.known /\ changes = <<>>
         /\ rcv.state \in {"INVITING_CONTROL", "INVITING_DATA", "CONNECTED"}
         /\ rcv.state # "CONNECTED" => rcv.wait > 0
         /\ rcv.state = "CONNECTED" => Joined /\ ~(rcv.quiet >= InactivityTimeout)
<1>1. CASE Calls \/ Granted \/ CallsAgain \/ Answered
  BY <1>1 DEF Calls, Granted, CallsAgain, Answered, Waits
<1>2. CASE Joined
  BY <1>2, TimeLimits DEF Joined, InTime
<1> QED BY <1>1, <1>2 DEF Stage

\* What its poll does then: it synchronizes when it is time.
LEMMA ReceiverPolled ==
  ASSUME MidiInv, Calm, Stage, ~NotFound
  PROVE  LET p == Polled("rcv")
             d == Datagram(p.e, "data", "CK0", p.e.token, <<>>)
         IN  /\ DOMAIN p.e = Fields
             /\ \A f \in Fields \ {"sync"} : p.e[f] = rcv[f]
             /\ IF rcv.state = "CONNECTED" /\ rcv.sync = 0
                THEN p.e.sync = SyncInterval /\ d \in Packet /\ Holds(p.tx, "data", d)
                ELSE p.e.sync = rcv.sync /\ p.tx = Unsent
<1> DEFINE start == [e |-> rcv, tx |-> Unsent]
           w == Flushed(rcv)
           e1 == [rcv EXCEPT !.out = <<>>]
           flushed == FlushOutgoing(start)
           p == Polled("rcv")
<1>0. /\ IsEnd(rcv) /\ rcv.role = "rcv" /\ DOMAIN rcv = Fields /\ rcv.out = <<>>
      /\ rcv.state = "CONNECTED" => rcv.data
  BY Rows DEF IsEnd
<1>1. /\ rcv.known /\ changes = <<>>
      /\ rcv.state \in {"INVITING_CONTROL", "INVITING_DATA", "CONNECTED"}
      /\ rcv.state # "CONNECTED" => rcv.wait > 0
      /\ rcv.state = "CONNECTED" => Joined /\ ~(rcv.quiet >= InactivityTimeout)
  BY ReceiverIsCalm
<1>2. w = <<>>
  <2>1. w \in Seq(Packet) /\ Len(w) = 0
    BY <1>0, FlushedRow, EmptySeq
  <2> HIDE DEF w
  <2> QED BY <2>1, EmptySeq
<1>3. /\ DOMAIN flushed = {"e", "tx"} /\ flushed.tx = Unsent
      /\ DOMAIN flushed.e = Fields /\ \A f \in Fields : flushed.e[f] = rcv[f]
  <2>1. DOMAIN e1 = Fields /\ \A f \in Fields : e1[f] = rcv[f]
    BY <1>0 DEF Fields
  <2>2. [Unsent EXCEPT !["data"] = @ \o w] = Unsent
    <3>1. Unsent["data"] \o w = <<>>
      BY <1>2, ConcatEmptySeq, EmptySeq DEF Unsent, Sockets
    <3> HIDE DEF w
    <3>2. [Unsent EXCEPT !["data"] = @ \o w] = [Unsent EXCEPT !["data"] = <<>>]
      BY <3>1
    <3> QED BY <3>2 DEF Unsent
  <2>3. FlushOutgoing(start) \in {start, [e |-> e1, tx |-> Unsent]}
    <3>1. FlushOutgoing(start)
            \in {start, [e |-> e1, tx |-> [Unsent EXCEPT !["data"] = @ \o w]], [e |-> e1, tx |-> Unsent]}
      BY DEF FlushOutgoing, Flushed
    <3> HIDE DEF w, e1, start
    <3> QED BY <2>2, <3>1
  <2> HIDE DEF e1
  <2> QED BY <1>0, <2>1, <2>3
<1> HIDE DEF flushed
<1>4. /\ flushed.e.role = "rcv" /\ flushed.e.state = rcv.state /\ flushed.e.known = rcv.known
       /\ flushed.e.wait = rcv.wait /\ flushed.e.quiet = rcv.quiet /\ flushed.e.sync = rcv.sync
       /\ IsEnd(flushed.e)
  BY <1>0, <1>3 DEF IsEnd, Fields
<1>5. p = AdvanceTimers(flushed)
  <2>1. changes \in Seq({"add", "remove"}) /\ Len(changes) = 0
    BY <1>1, EmptySeq DEF MidiInv
  <2>2. Applying(flushed)[0] = flushed
    BY <2>1, ApplyingChanges
  <2>3. p = AdvanceTimers(Applying(flushed)[Len(changes)])
    BY DEF Polled, End, flushed, start
  <2> HIDE DEF p
  <2> QED BY <2>1, <2>2, <2>3
<1> DEFINE c == Control(flushed, "data", "CK0")
           e2 == [flushed.e EXCEPT !.sync = SyncInterval]
<1>6. p = IF rcv.state = "CONNECTED" /\ rcv.sync = 0 THEN [c EXCEPT !.e.sync = SyncInterval] ELSE flushed
  <2>1. CASE rcv.state = "CONNECTED"
    BY <1>1, <1>4, <1>5, <2>1 DEF AdvanceTimers, AdvanceSession, SendSync
  <2>2. CASE rcv.state # "CONNECTED"
    <3>1. ~(rcv.wait = 0)
      <4>1. rcv.wait \in Nat /\ rcv.wait > 0
        BY <1>0, <1>1, <2>2, Limits DEF IsEnd
      <4> QED BY <4>1
    <3>2. AdvanceTimers(flushed) = AdvanceReceiver(flushed)
      BY <1>4, <2>2 DEF AdvanceTimers
    <3>3. AdvanceReceiver(flushed) = flushed
      BY <1>1, <1>4, <2>2, <3>1 DEF AdvanceReceiver
    <3> QED BY <1>5, <2>2, <3>2, <3>3
  <2> QED BY <2>1, <2>2
<1>7. CASE ~(rcv.state = "CONNECTED" /\ rcv.sync = 0)
  BY <1>3, <1>4, <1>6, <1>7
<1>8. CASE rcv.state = "CONNECTED" /\ rcv.sync = 0
  <2> DEFINE d == Datagram(flushed.e, "data", "CK0", flushed.e.token, <<>>)
  <2>1. Carried(flushed.e, flushed.e.remote)
    BY <1>4 DEF Carried, Calm
  <2>2. DOMAIN c = {"e", "tx"} /\ c.e = flushed.e /\ Holds(c.tx, "data", d) /\ d \in Packet
    BY <1>3, <1>4, <2>1, ControlHolds DEF Sockets, Kinds
  <2>3. p = [c EXCEPT !.e = e2]
    <3> HIDE DEF c, p
    <3> QED BY <1>6, <1>8, <2>2
  <2>4. DOMAIN e2 = Fields /\ e2.sync = SyncInterval /\ \A f \in Fields \ {"sync"} : e2[f] = flushed.e[f]
    BY <1>3 DEF Fields
  <2> HIDE DEF c, p, e2
  <2>5. p.e = e2 /\ p.tx = c.tx
    BY <2>2, <2>3
  <2>6. Datagram(p.e, "data", "CK0", p.e.token, <<>>) = d
    BY <2>4, <2>5 DEF Datagram, Fields
  <2> HIDE DEF d
  <2>7. /\ DOMAIN p.e = Fields /\ \A f \in Fields \ {"sync"} : p.e[f] = rcv[f]
        /\ p.e.sync = SyncInterval /\ d \in Packet /\ Holds(p.tx, "data", d)
    BY <1>3, <2>2, <2>4, <2>5
  <2> QED BY <1>8, <2>6, <2>7 DEF p
<1> QED BY <1>7, <1>8

LEMMA ReceiverPolls ==
  ASSUME MidiInv, Calm, Stage, ~NotFound, Poll("rcv")
  PROVE  /\ \A f \in Fields \ {"was", "recovery", "recoverAt", "sync"} : rcv'[f] = rcv[f]
         /\ rcv'.recoverAt = Never /\ (rcv'.was => rcv'.state = "CONNECTED")
         /\ UNCHANGED <<snd, up, changes, accepted, handled, heard, faults>>
         /\ net'["rcv"] = net["rcv"] /\ net'["snd"]["control"] = net["snd"]["control"]
         /\ IF rcv.state = "CONNECTED" /\ rcv.sync = 0
            THEN rcv'.sync = SyncInterval
                 /\ \E d \in Packet : d.kind = "CK0" /\ d.ssrc = 1
                                      /\ net'["snd"]["data"] = net["snd"]["data"] \o <<d>>
            ELSE rcv'.sync = rcv.sync /\ net'["snd"]["data"] = net["snd"]["data"]
<1> DEFINE p == Polled("rcv")
           q == RecoverDiscovery(p.e)
           d == Datagram(p.e, "data", "CK0", p.e.token, <<>>)
           now == rcv.state = "CONNECTED" /\ rcv.sync = 0
<1>0. /\ net \in Nets /\ rcv.role = "rcv" /\ (rcv.state # "CONNECTED" => heard = 0)
  BY Rows
<1>1. /\ DOMAIN p.e = Fields
      /\ \A f \in Fields \ {"sync"} : p.e[f] = rcv[f]
      /\ IF now THEN p.e.sync = SyncInterval /\ d \in Packet /\ Holds(p.tx, "data", d)
                ELSE p.e.sync = rcv.sync /\ p.tx = Unsent
  BY ReceiverPolled
<1>2. rcv.known /\ changes = <<>>
  BY ReceiverIsCalm
<1>3. /\ rcv' = q /\ UNCHANGED <<snd, up, accepted, handled, faults>>
      /\ net' = Sending(net, "rcv", p.tx)
      /\ changes' = <<>> \o (IF RecoveryDue(p.e) /\ up THEN <<"add">> ELSE <<>>)
      /\ heard' = IF p.e.state # "CONNECTED" THEN 0 ELSE heard
  BY DEF Poll, Becomes
<1>4. d.kind = "CK0" /\ d.ssrc = p.e.ssrc
  BY DEF Datagram
<1> HIDE DEF p, d
<1>5. /\ p.e.recoverAt = Never /\ (p.e.was => p.e.state = "CONNECTED") /\ p.e.role = "rcv" /\ p.e.known
      /\ p.e.state = rcv.state /\ p.e.ssrc = 1
  <2>1. /\ p.e.recoverAt = rcv.recoverAt /\ p.e.was = rcv.was /\ p.e.role = rcv.role
        /\ p.e.known = rcv.known /\ p.e.state = rcv.state /\ p.e.ssrc = rcv.ssrc
    BY <1>1 DEF Fields
  <2> QED BY <1>0, <1>2, <2>1 DEF Calm
<1>6. /\ ~RecoveryDue(p.e) /\ DOMAIN q = Fields /\ q.recoverAt = Never /\ (q.was => q.state = "CONNECTED")
      /\ \A f \in Fields \ {"was", "recovery", "recoverAt"} : q[f] = p.e[f]
  BY <1>1, <1>5, Recovered DEF Roles
<1> HIDE DEF q
<1>7. changes' = changes /\ heard' = heard
  <2>1. <<>> \in Seq({"add"})
    BY EmptySeq
  <2>2. changes' = <<>>
    BY <1>3, <1>6, <2>1, ConcatEmptySeq
  <2> QED BY <1>0, <1>2, <1>3, <1>5, <2>2
<1>8. p.tx \in [Sockets -> Seq(Packet)]
  BY <1>1, UnsentParts DEF Holds
<1>9. /\ net'["rcv"] = net["rcv"]
      /\ \A s \in Sockets : /\ net'["snd"][s] = net["snd"][s] \o p.tx[s]
                            /\ p.tx[s] = <<>> => net'["snd"][s] = net["snd"][s]
  <2>1. "rcv" \in Roles /\ OtherEnd("rcv") = "snd"
    BY DEF OtherEnd, Roles
  <2>2. LET n == Sending(net, "rcv", p.tx)
            o == OtherEnd("rcv")
        IN  /\ n["rcv"] = net["rcv"]
            /\ \A s \in Sockets : /\ n[o][s] = net[o][s] \o p.tx[s]
                                  /\ p.tx[s] = <<>> => n[o][s] = net[o][s]
                                  /\ net[o][s] = <<>> => n[o][s] = p.tx[s]
    BY <1>0, <1>8, <2>1, SentTo
  <2> QED BY <1>3, <2>1, <2>2
<1>10. /\ p.tx["control"] = <<>>
       /\ p.tx["data"] = IF now THEN <<d>> ELSE <<>>
  BY <1>1 DEF Unsent, Sockets, Holds
<1>11. /\ net'["snd"]["control"] = net["snd"]["control"]
       /\ net'["snd"]["data"] = net["snd"]["data"] \o p.tx["data"]
       /\ p.tx["data"] = <<>> => net'["snd"]["data"] = net["snd"]["data"]
  BY <1>9, <1>10 DEF Sockets
<1>12. rcv'.sync = p.e.sync /\ \A f \in Fields \ {"was", "recovery", "recoverAt", "sync"} : rcv'[f] = rcv[f]
  BY <1>1, <1>3, <1>6 DEF Fields
<1>13. /\ rcv'.recoverAt = Never /\ (rcv'.was => rcv'.state = "CONNECTED")
       /\ UNCHANGED <<snd, up, changes, accepted, handled, heard, faults>>
  BY <1>3, <1>6, <1>7
<1>14. CASE now
  BY <1>1, <1>4, <1>5, <1>9, <1>10, <1>11, <1>12, <1>13, <1>14
<1>15. CASE ~now
  BY <1>1, <1>9, <1>10, <1>11, <1>12, <1>13, <1>15
<1> QED BY <1>14, <1>15

\* Its first poll finds the sender and invites it.
LEMMA ReceiverFinds ==
  ASSUME MidiInv, Calm, NotFound, Poll("rcv")
  PROVE  /\ Calls' /\ Calm' /\ UNCHANGED <<snd, up, accepted, handled, heard, faults>>
         /\ net'["rcv"] = net["rcv"]
<1> DEFINE start == [e |-> rcv, tx |-> Unsent]
           e1 == [rcv EXCEPT !.known = TRUE]
           found == [start EXCEPT !.e = e1]
           u == UnusedToken
           e2 == [ClearSession(e1) EXCEPT !.token = u, !.data = TRUE, !.state = "INVITING_CONTROL"]
           begun == [found EXCEPT !.e = e2]
           c == Control(begun, "control", "IN")
           e3 == [e2 EXCEPT !.tries = @ + 1, !.wait = InvitationInterval]
           d == Datagram(e2, "control", "IN", e2.token, <<>>)
           p == Polled("rcv")
           q == RecoverDiscovery(p.e)
<1>0. /\ net \in Nets /\ IsEnd(rcv) /\ rcv.role = "rcv" /\ DOMAIN rcv = Fields /\ heard = 0
  BY Rows DEF NotFound
<1>1. u \in Tokens /\ u # 0
  <2>1. u \in Tokens
    BY FreshToken
  <2> QED BY <2>1, AppleMidiAssumption, Zenon
<1> HIDE DEF u
<1>2. p = AdvanceTimers(found)
  <2>1. FlushOutgoing(start) = start
    BY DEF FlushOutgoing, NotFound
  <2>2. changes \in Seq({"add", "remove"}) /\ Len(changes) = 1 /\ changes[1] = "add"
    BY DEF NotFound, MidiInv
  <2>3. /\ Applying(start)[0] = start
        /\ Applying(start)[1] = ApplyDiscoveryChange(Applying(start)[0], changes[1])
    BY <2>2, ApplyingChanges
  <2>4. ApplyDiscoveryChange(start, "add") = found
    BY DEF ApplyDiscoveryChange
  <2>5. p = AdvanceTimers(Applying(FlushOutgoing(start))[Len(changes)])
    BY DEF Polled, End
  <2> HIDE DEF p, found
  <2> QED BY <2>1, <2>2, <2>3, <2>4, <2>5
<1>3. DOMAIN e1 = Fields /\ e1.known /\ \A f \in Fields \ {"known"} : e1[f] = rcv[f]
  BY <1>0 DEF Fields
<1>4. e1.role = "rcv" /\ e1.state = "IDLE"
  BY <1>0, <1>3 DEF NotFound, Fields
<1> HIDE DEF e1
<1>5. DOMAIN found = {"e", "tx"} /\ found.e = e1 /\ found.tx = Unsent
  OBVIOUS
<1> HIDE DEF found
<1>6. p = BeginInvitation(found)
  BY <1>2, <1>3, <1>4, <1>5 DEF AdvanceTimers, AdvanceReceiver
<1> HIDE DEF p
<1>7. /\ DOMAIN e2 = Fields /\ e2.token = u /\ e2.remote = NoPeer /\ e2.data = TRUE
      /\ e2.last = Never /\ e2.tries = 0 /\ e2.wait = 0 /\ e2.state = "INVITING_CONTROL"
      /\ \A f \in {"role", "ssrc", "sequence", "attempt", "out", "was", "recoverAt"} : e2[f] = rcv[f]
      /\ e2.known
  BY <1>3 DEF ClearSession, Fields
<1>8. DOMAIN begun = {"e", "tx"} /\ begun.e = e2 /\ begun.tx = Unsent
  BY <1>5
<1>9. p = SendCurrentInvitation(begun)
  <2>1. [found EXCEPT !.e = [ClearSession(@) EXCEPT !.token = UnusedToken,
                                                    !.data = TRUE, !.state = "INVITING_CONTROL"]] = begun
    BY <1>5 DEF u
  <2> HIDE DEF begun
  <2> QED BY <1>6, <2>1 DEF BeginInvitation
<1> HIDE DEF begun, e2
<1>10. /\ e2.role = "rcv" /\ e2.known /\ e2.ssrc = 1 /\ e2.recoverAt = Never /\ ~e2.was
       /\ e2.out = rcv.out /\ e2.sequence = rcv.sequence /\ e2.attempt = rcv.attempt
  BY <1>0, <1>7 DEF Calm, NotFound
<1>11. IsEnd(e2)
  <2>1. e2.remote \in Nat /\ e2.last \in Numbers \cup {Never}
        /\ e2.wait \in 0..MaxBackoff /\ e2.tries \in 0..MaxInvitations
    BY <1>7, Limits DEF NoPeer
  <2>2. e2.ssrc \in Nat \ {0}
    BY <1>10
  <2>3. e2.data \in BOOLEAN
    BY <1>7, Zenon
  <2> QED BY <1>0, <1>1, <1>7, <1>10, <2>1, <2>2, <2>3 DEF IsEnd, States, Active, Roles
<1>12. DOMAIN c = {"e", "tx"} /\ c.e = e2 /\ Holds(c.tx, "control", d) /\ d \in Packet
  <2>1. Carried(e2, e2.remote)
    BY <1>10 DEF Carried, Calm
  <2>2. e2.token \in Tokens
    BY <1>1, <1>7
  <2> QED BY <1>8, <1>11, <2>1, <2>2, ControlHolds DEF Sockets, Kinds
<1>13. p = [c EXCEPT !.e = e3]
  <2>1. p = [c EXCEPT !.e.tries = @ + 1, !.e.wait = InvitationInterval]
    BY <1>7, <1>8, <1>9 DEF SendCurrentInvitation
  <2> HIDE DEF c, p
  <2> QED BY <1>12, <2>1
<1>14. /\ DOMAIN e3 = Fields /\ e3.wait = InvitationInterval
       /\ \A f \in Fields \ {"tries", "wait"} : e3[f] = e2[f]
  BY <1>7 DEF Fields
<1> HIDE DEF c, p, e3
<1>15. p.e = e3 /\ p.tx = c.tx
  BY <1>12, <1>13
<1>16. /\ e3.role = "rcv" /\ e3.known /\ e3.ssrc = 1 /\ e3.recoverAt = Never /\ ~e3.was
       /\ e3.state = "INVITING_CONTROL" /\ e3.token = u
  BY <1>7, <1>10, <1>14 DEF Fields
<1>17. /\ d.sock = "control" /\ d.kind = "IN" /\ d.ssrc = 1 /\ d.token = u
  BY <1>7, <1>10 DEF Datagram
<1> HIDE DEF d
<1>18. /\ ~RecoveryDue(p.e) /\ DOMAIN q = Fields /\ q.recoverAt = Never
       /\ (q.was => q.state = "CONNECTED")
       /\ \A f \in Fields \ {"was", "recovery", "recoverAt"} : q[f] = e3[f]
  BY <1>14, <1>15, <1>16, Recovered DEF Roles
<1>19. /\ rcv' = q /\ UNCHANGED <<snd, up, accepted, handled, faults>>
       /\ net' = Sending(net, "rcv", p.tx)
       /\ changes' = <<>> \o (IF RecoveryDue(p.e) /\ up THEN <<"add">> ELSE <<>>)
       /\ heard' = IF p.e.state # "CONNECTED" THEN 0 ELSE heard
  BY DEF Poll, Becomes, p
<1> HIDE DEF q
<1>20. changes' = <<>> /\ heard' = heard
  <2>1. <<>> \in Seq({"add"})
    BY EmptySeq
  <2> QED BY <1>0, <1>15, <1>16, <1>18, <1>19, <2>1, ConcatEmptySeq
<1>21. p.tx \in [Sockets -> Seq(Packet)] /\ p.tx["control"] = <<d>> /\ p.tx["data"] = <<>>
  BY <1>12, <1>15 DEF Holds, Sockets
<1>22. /\ net'["rcv"] = net["rcv"]
       /\ net'["snd"]["control"] = <<d>> /\ net'["snd"]["data"] = <<>>
  <2>1. "rcv" \in Roles /\ OtherEnd("rcv") = "snd"
    BY DEF OtherEnd, Roles
  <2>2. LET n == Sending(net, "rcv", p.tx)
            o == OtherEnd("rcv")
        IN  /\ n["rcv"] = net["rcv"]
            /\ \A s \in Sockets : /\ n[o][s] = net[o][s] \o p.tx[s]
                                  /\ p.tx[s] = <<>> => n[o][s] = net[o][s]
                                  /\ net[o][s] = <<>> => n[o][s] = p.tx[s]
    BY <1>0, <1>21, <2>1, SentTo
  <2>3. net["snd"]["control"] = <<>> /\ net["snd"]["data"] = <<>>
    BY DEF NotFound, Roles, Sockets
  <2> QED BY <1>19, <1>21, <2>1, <2>2, <2>3 DEF Sockets
<1>23. /\ rcv'.known /\ rcv'.state = "INVITING_CONTROL" /\ rcv'.token = u /\ rcv'.ssrc = 1
       /\ rcv'.wait = InvitationInterval /\ rcv'.recoverAt = Never /\ ~rcv'.was
  BY <1>14, <1>16, <1>18, <1>19 DEF Fields
<1>24. Calm'
  BY <1>19, <1>23 DEF Calm
<1>25. Alone("snd", "control", "IN")'
  <2>1. Only("snd", "control")'
    <3>1. net'["rcv"]["control"] = <<>> /\ net'["rcv"]["data"] = <<>>
      BY <1>22 DEF NotFound, Roles, Sockets
    <3> QED BY <1>22, <3>1 DEF Only, Roles, Sockets
  <2>2. Len(<<d>>) = 1 /\ <<d>>[1] = d
    OBVIOUS
  <2> QED BY <1>17, <1>22, <1>23, <2>1, <2>2 DEF Alone, About
<1>26. Calls'
  <2>1. rcv'.wait > 0
    BY <1>23, TimeLimits
  <2> QED BY <1>19, <1>20, <1>23, <1>25, <2>1 DEF Calls, Waits, NotFound
<1> QED BY <1>19, <1>20, <1>22, <1>24, <1>26

-----------------------------------------------------------------------------
\* What the handler of the first datagram of a row makes of the rows.
Comes(r, s, rest, limited) ==
  LET row == net[r][s]
      d == row[1]
      o == OtherEnd(r)
      q == HandleDatagram([e |-> End(r), tx |-> Unsent], d, limited)
      new == r = "rcv" /\ d.kind = "CC" /\ RtpIsNew(rcv, d)
  IN  /\ r = "snd" /\ ~snd.recent => ~limited
      /\ d \in Packet /\ Len(row) \in Nat /\ Len(row) >= 1 /\ Len(rest) = Len(row) - 1
      /\ \A i \in 1..Len(rest) : rest[i] = row[i + 1]
      /\ Becomes(r, q.e)
      /\ q.tx \in [Sockets -> Seq(Packet)]
      /\ net'[r][s] = rest /\ \A z \in Sockets : z # s => net'[r][z] = net[r][z]
      /\ \A z \in Sockets : /\ net'[o][z] = net[o][z] \o q.tx[z]
                            /\ q.tx[z] = <<>> => net'[o][z] = net[o][z]
                            /\ net[o][z] = <<>> => net'[o][z] = q.tx[z]
      /\ heard' = IF new THEN d.cc[2]
                  ELSE IF r = "rcv" /\ q.e.state # "CONNECTED" THEN 0 ELSE heard
      /\ handled' = IF new THEN [handled EXCEPT ![d.cc[1]] = d.cc[2]] ELSE handled
      /\ UNCHANGED <<up, changes, accepted>>

LEMMA Arrived ==
  ASSUME MidiInv, NEW r \in Roles, NEW s \in Sockets, net[r][s] # <<>>, Receive(r, s, 1, FALSE)
  PROVE  \E rest \in Seq(Packet), limited \in BOOLEAN : Comes(r, s, rest, limited)
<1> DEFINE row == net[r][s]
           d == row[1]
           o == OtherEnd(r)
           rest == RemoveAt(row, 1)
           left == [net EXCEPT ![r][s] = rest]
           start == [e |-> End(r), tx |-> Unsent]
           new == r = "rcv" /\ d.kind = "CC" /\ RtpIsNew(rcv, d)
<1>1. /\ net \in Nets /\ row \in Seq(Packet) /\ Len(row) \in Nat /\ Len(row) >= 1
      /\ IsEnd(End(r)) /\ o \in Roles /\ o # r
  <2>1. row \in Seq(Packet) /\ Len(row) \in Nat \ {0}
    BY Rows, EmptySeq
  <2> QED BY <2>1, Rows DEF End, OtherEnd, Roles
<1>2. /\ rest \in Seq(Packet) /\ Len(rest) = Len(row) - 1 /\ d \in Packet
      /\ \A i \in 1..Len(rest) : rest[i] = row[i + 1]
  <2>1. 1 \in 1..Len(row)
    BY <1>1
  <2>2. /\ rest \in Seq(Packet) /\ Len(rest) = Len(row) - 1
        /\ \A i \in 1..Len(rest) : rest[i] = IF i < 1 THEN row[i] ELSE row[i + 1]
    BY <1>1, <2>1, Removed
  <2>3. Len(rest) \in Nat
    BY <1>1, <2>2
  <2>4. \A i \in 1..Len(rest) : ~(i < 1)
    BY <2>3
  <2> QED BY <1>1, <2>1, <2>2, <2>4
<1>3. PICK limited \in BOOLEAN :
        /\ r = "snd" /\ ~snd.recent => ~limited
        /\ \E q \in {HandleDatagram(start, d, limited)} :
             /\ Becomes(r, q.e) /\ net' = Sending(left, r, q.tx)
             /\ heard' = IF new THEN d.cc[2]
                         ELSE IF r = "rcv" /\ q.e.state # "CONNECTED" THEN 0 ELSE heard
  <2>1. \A S, x : x \in (IF S THEN BOOLEAN ELSE {FALSE}) => x \in BOOLEAN /\ (~S => ~x)
    OBVIOUS
  <2> QED BY <2>1 DEF Receive
<1> DEFINE q == HandleDatagram(start, d, limited)
<1>4. /\ Becomes(r, q.e) /\ net' = Sending(left, r, q.tx)
      /\ heard' = IF new THEN d.cc[2]
                  ELSE IF r = "rcv" /\ q.e.state # "CONNECTED" THEN 0 ELSE heard
  BY <1>3
<1>5. /\ handled' = IF new THEN [handled EXCEPT ![d.cc[1]] = d.cc[2]] ELSE handled
      /\ UNCHANGED <<up, changes, accepted>>
  BY DEF Receive
<1>6. q.tx \in [Sockets -> Seq(Packet)]
  <2>1. IsPort(start, Packet) /\ Plain \subseteq Packet
    BY <1>1, Start DEF Plain
  <2> HIDE DEF start, d
  <2>2. IsPort(q, Packet)
    BY <1>2, <2>1, Handled
  <2> QED BY <2>2 DEF IsPort
<1> HIDE DEF q, rest
<1>7. /\ left \in Nets /\ left[r][s] = rest
      /\ \A z \in Sockets : z # s => left[r][z] = net[r][z]
      /\ left[o] = net[o]
  BY <1>1, <1>2 DEF Nets
<1> HIDE DEF left, o
<1>8. /\ net'[r] = left[r]
      /\ \A z \in Sockets : /\ net'[o][z] = left[o][z] \o q.tx[z]
                            /\ q.tx[z] = <<>> => net'[o][z] = left[o][z]
                            /\ left[o][z] = <<>> => net'[o][z] = q.tx[z]
  BY <1>4, <1>6, <1>7, SentTo DEF o
<1> HIDE DEF start
<1>9. /\ net'[r][s] = rest /\ \A z \in Sockets : z # s => net'[r][z] = net[r][z]
      /\ \A z \in Sockets : /\ net'[o][z] = net[o][z] \o q.tx[z]
                            /\ q.tx[z] = <<>> => net'[o][z] = net[o][z]
                            /\ net[o][z] = <<>> => net'[o][z] = q.tx[z]
  BY <1>7, <1>8
<1>10. Comes(r, s, rest, limited)
  BY <1>1, <1>2, <1>3, <1>4, <1>5, <1>6, <1>9 DEF Comes, q, start, o
<1> QED BY <1>2, <1>10

\* The last of a row leaves none.
LEMMA NoneLeft ==
  ASSUME NEW w \in Seq(Packet), Len(w) = 0
  PROVE  w = <<>>
BY EmptySeq

LEMMA OthersEnd == OtherEnd("snd") = "rcv" /\ OtherEnd("rcv") = "snd"
BY DEF OtherEnd

\* The sender accepts the first invitation: it is in no session, and has not answered one just now.
LEMMA InvitationArrives ==
  ASSUME MidiInv, Calm, Calls, Receive("snd", "control", 1, FALSE)
  PROVE  /\ Granted' /\ Calm' /\ UNCHANGED <<rcv, accepted, handled, heard>> /\ snd'.out = snd.out
         /\ net'["rcv"]["data"] = net["rcv"]["data"]
<1> DEFINE d == net["snd"]["control"][1]
           start == [e |-> snd, tx |-> Unsent]
           x == [snd EXCEPT !.recent = @ \/ d.sock = "control"]
           e == [x EXCEPT !.token = d.token, !.remote = d.ssrc, !.data = FALSE, !.quiet = 0,
                          !.state = "INVITING_DATA"]
           known == [start EXCEPT !.e = x]
           r == [start EXCEPT !.e = e]
           a == Datagram(e, "control", "OK", d.token, <<>>)
<1>0. /\ snd.role = "snd" /\ DOMAIN snd = Fields /\ IsEnd(snd) /\ IsEnd(rcv)
  BY Rows
<1>1. /\ d.sock = "control" /\ d.kind = "IN" /\ d.ssrc = 1 /\ d.token = rcv.token
      /\ Len(net["snd"]["control"]) = 1
  BY DEF Calls, Alone, About
<1>2. PICK rest \in Seq(Packet), limited \in BOOLEAN :
        LET q == HandleDatagram(start, d, limited)
        IN  /\ ~limited /\ d \in Packet /\ rest = <<>>
            /\ snd' = q.e /\ rcv' = rcv
            /\ net'["snd"]["control"] = rest /\ net'["snd"]["data"] = net["snd"]["data"]
            /\ \A z \in Sockets : net["rcv"][z] = <<>> => net'["rcv"][z] = q.tx[z]
            /\ heard' = heard /\ handled' = handled
            /\ UNCHANGED <<up, changes, accepted>>
  <2>1. "snd" \in Roles /\ "control" \in Sockets /\ "data" \in Sockets /\ net["snd"]["control"] # <<>>
    BY <1>1, EmptySeq DEF Roles, Sockets
  <2>2. PICK rest \in Seq(Packet), limited \in BOOLEAN : Comes("snd", "control", rest, limited)
    BY <2>1, Arrived
  <2>3. Len(rest) = 0
    BY <1>1, <2>2 DEF Comes
  <2>4. rest = <<>>
    BY <2>3, NoneLeft
  <2>5. ~limited
    BY <2>2 DEF Comes, Calls
  <2> QED BY <2>1, <2>2, <2>4, <2>5, OthersEnd DEF Comes, Becomes, End
<1> HIDE DEF d
<1> DEFINE q == HandleDatagram(start, d, limited)
<1>3. d.token # 0 /\ d.token # snd.token /\ d.token \in Tokens
  <2>1. snd.token = 0 /\ rcv.token # 0 /\ rcv.token \in Tokens \cup {0}
    BY <1>0 DEF Calls, IsEnd, Active
  <2> QED BY <1>1, <2>1
<1>4. q = Answer(r, d, "OK")
  <2>1. [start EXCEPT !.e.recent = @ \/ d.sock = "control"] = known
    OBVIOUS
  <2>2. [known EXCEPT !.e.token = d.token, !.e.remote = d.ssrc, !.e.data = FALSE, !.e.quiet = 0,
                      !.e.state = "INVITING_DATA"] = r
    OBVIOUS
  <2>3. known.e.remote = NoPeer
    BY <1>0 DEF Calls, Fields
  <2>4. q = HandleInvitation(start, d, limited)
    BY <1>0, <1>1 DEF HandleDatagram
  <2>5. ~SameSession(start.e, d)
    BY <1>3 DEF SameSession
  <2> HIDE DEF known, r, q
  <2>6. HandleInvitation(start, d, limited)
          = IF limited \/ known.e.remote # NoPeer \/ d.sock = "data" THEN Answer(known, d, "NO")
            ELSE Answer([known EXCEPT !.e.token = d.token, !.e.remote = d.ssrc, !.e.data = FALSE,
                                      !.e.quiet = 0, !.e.state = "INVITING_DATA"], d, "OK")
    BY <2>1, <2>5 DEF HandleInvitation
  <2>7. ~(limited \/ known.e.remote # NoPeer \/ d.sock = "data")
    BY <1>1, <1>2, <2>3
  <2> QED BY <2>2, <2>4, <2>6, <2>7
<1> HIDE DEF q
<1>5. /\ DOMAIN e = Fields /\ e.token = d.token /\ e.remote = 1 /\ e.data = FALSE /\ e.quiet = 0
      /\ e.state = "INVITING_DATA"
      /\ \A f \in Fields \ {"token", "remote", "data", "quiet", "state", "recent"} : e[f] = snd[f]
  BY <1>0, <1>1 DEF Fields
<1>6. DOMAIN r = {"e", "tx"} /\ r.e = e /\ r.tx = Unsent
  OBVIOUS
<1> HIDE DEF x, e, r
<1>7. /\ e.role = "snd" /\ e.ssrc = 1 /\ e.out = snd.out /\ e.recoverAt = Never /\ e.was = snd.was
      /\ ~e.was
  BY <1>0, <1>5 DEF Fields, Calm, Calls
<1>8. IsEnd(e)
  <2>1. e.data \in BOOLEAN
    BY <1>5, Zenon
  <2>2. e.tries = snd.tries /\ e.wait = snd.wait /\ e.attempt = snd.attempt /\ e.last = snd.last
        /\ e.sequence = snd.sequence
    BY <1>5 DEF Fields
  <2> QED BY <1>0, <1>3, <1>5, <1>7, <2>1, <2>2 DEF IsEnd, States, Active, NoPeer, Roles
<1>9. q.e = e /\ Holds(q.tx, "control", a)
  <2>1. Carried(e, d.ssrc)
    BY <1>1, <1>7 DEF Carried, Calm
  <2>2. LET v == Answer(r, d, "OK")
        IN  v.e = r.e /\ Holds(v.tx, d.sock, Datagram(r.e, d.sock, "OK", d.token, <<>>))
    BY <1>2, <1>6, <1>8, <2>1, AnswerHolds
  <2> QED BY <1>1, <1>4, <1>6, <2>2
<1>10. a.sock = "control" /\ a.kind = "OK" /\ a.ssrc = 1 /\ a.token = rcv.token
  BY <1>1, <1>7 DEF Datagram
<1> HIDE DEF a, start
<1>11. /\ snd' = e /\ rcv' = rcv /\ net'["snd"]["control"] = <<>> /\ net'["snd"]["data"] = <<>>
       /\ net'["rcv"]["control"] = <<a>> /\ net'["rcv"]["data"] = <<>> /\ net["rcv"]["data"] = <<>>
       /\ UNCHANGED <<up, changes, accepted, handled, heard>>
  <2>1. net["snd"]["data"] = <<>> /\ net["rcv"]["control"] = <<>> /\ net["rcv"]["data"] = <<>>
    BY DEF Calls, Alone, Only, Roles, Sockets
  <2>2. q.tx["control"] = <<a>> /\ q.tx["data"] = <<>>
    BY <1>9 DEF Holds, Sockets
  <2> QED BY <1>2, <1>9, <2>1, <2>2 DEF q, Sockets
<1>12. Alone("rcv", "control", "OK")'
  <2>1. Only("rcv", "control")'
    BY <1>11 DEF Only, Roles, Sockets
  <2>2. Len(<<a>>) = 1 /\ <<a>>[1] = a
    OBVIOUS
  <2> QED BY <1>10, <1>11, <2>1, <2>2 DEF Alone, About
<1>13. Calm'
  BY <1>7, <1>11 DEF Calm
<1>14. Granted'
  BY <1>1, <1>5, <1>11, <1>12 DEF Calls, Granted, Waits, Called
<1> QED BY <1>7, <1>11, <1>13, <1>14

\* The receiver goes on to the data socket.
LEMMA GrantArrives ==
  ASSUME MidiInv, Calm, Granted, Receive("rcv", "control", 1, FALSE)
  PROVE  /\ CallsAgain' /\ Calm' /\ UNCHANGED <<snd, accepted, handled, heard>>
         /\ net'["rcv"]["data"] = net["rcv"]["data"]
<1> DEFINE d == net["rcv"]["control"][1]
           start == [e |-> rcv, tx |-> Unsent]
           e1 == [rcv EXCEPT !.remote = d.ssrc, !.tries = 0, !.state = "INVITING_DATA"]
           r == [start EXCEPT !.e = e1]
           c == Control(r, "data", "IN")
           e2 == [e1 EXCEPT !.tries = @ + 1, !.wait = InvitationInterval]
           a == Datagram(e1, "data", "IN", e1.token, <<>>)
<1>0. /\ rcv.role = "rcv" /\ DOMAIN rcv = Fields /\ IsEnd(rcv) /\ heard = 0
  BY Rows DEF Granted
<1>1. /\ d.sock = "control" /\ d.kind = "OK" /\ d.ssrc = 1 /\ d.token = rcv.token
      /\ Len(net["rcv"]["control"]) = 1
  BY DEF Granted, Alone, About
<1>2. PICK rest \in Seq(Packet), limited \in BOOLEAN :
        LET q == HandleDatagram(start, d, limited)
        IN  /\ rest = <<>> /\ rcv' = q.e /\ snd' = snd
            /\ net'["rcv"]["control"] = rest /\ net'["rcv"]["data"] = net["rcv"]["data"]
            /\ \A z \in Sockets : net["snd"][z] = <<>> => net'["snd"][z] = q.tx[z]
            /\ heard' = (IF q.e.state # "CONNECTED" THEN 0 ELSE heard) /\ handled' = handled
            /\ UNCHANGED <<up, changes, accepted>>
  <2>1. "rcv" \in Roles /\ "control" \in Sockets /\ "data" \in Sockets /\ net["rcv"]["control"] # <<>>
    BY <1>1, EmptySeq DEF Roles, Sockets
  <2>2. PICK rest \in Seq(Packet), limited \in BOOLEAN : Comes("rcv", "control", rest, limited)
    BY <2>1, Arrived
  <2>3. Len(rest) = 0
    BY <1>1, <2>2 DEF Comes
  <2>4. rest = <<>>
    BY <2>3, NoneLeft
  <2>5. d.kind # "CC"
    BY <1>1
  <2> QED BY <2>1, <2>2, <2>4, <2>5, OthersEnd DEF Comes, Becomes, End
<1> HIDE DEF d
<1> DEFINE q == HandleDatagram(start, d, limited)
<1>3. /\ DOMAIN e1 = Fields /\ e1.remote = 1 /\ e1.tries = 0 /\ e1.state = "INVITING_DATA"
      /\ \A f \in Fields \ {"remote", "tries", "state"} : e1[f] = rcv[f]
  BY <1>0, <1>1 DEF Fields
<1>4. q = SendCurrentInvitation(r)
  <2>1. [start EXCEPT !.e.remote = d.ssrc, !.e.tries = 0, !.e.state = "INVITING_DATA"] = r
    OBVIOUS
  <2>2. q = HandleAccept(start, d)
    BY <1>0, <1>1 DEF HandleDatagram
  <2>3. start.e.known /\ start.e.state = "INVITING_CONTROL" /\ d.token = start.e.token
    BY <1>1 DEF Granted, Waits
  <2> HIDE DEF r, start, q
  <2>4. HandleAccept(start, d) = SendCurrentInvitation(
          [start EXCEPT !.e.remote = d.ssrc, !.e.tries = 0, !.e.state = "INVITING_DATA"])
    BY <1>1, <2>3 DEF HandleAccept
  <2> QED BY <2>1, <2>2, <2>4
<1> HIDE DEF q, e1
<1>5. DOMAIN r = {"e", "tx"} /\ r.e = e1 /\ r.tx = Unsent
  OBVIOUS
<1> HIDE DEF r
<1>6. /\ e1.role = "rcv" /\ e1.ssrc = 1 /\ e1.out = rcv.out /\ e1.recoverAt = Never /\ e1.was = rcv.was
      /\ e1.token = rcv.token /\ e1.token \in Tokens /\ e1.known /\ ~e1.was
  <2>1. rcv.token # 0 /\ rcv.token \in Tokens \cup {0}
    BY <1>0 DEF Granted, IsEnd, Active
  <2> QED BY <1>0, <1>3, <2>1 DEF Fields, Calm, Granted, Waits
<1>7. IsEnd(e1)
  <2>1. /\ e1.data = rcv.data /\ e1.wait = rcv.wait /\ e1.attempt = rcv.attempt /\ e1.last = rcv.last
        /\ e1.sequence = rcv.sequence
    BY <1>3 DEF Fields
  <2>2. e1.token # 0 /\ rcv.token # 0
    BY <1>0, <1>6 DEF Granted, IsEnd, Active
  <2> QED BY <1>0, <1>3, <1>6, <2>1, <2>2, Limits DEF IsEnd, States, Active, NoPeer, Roles
<1>8. DOMAIN c = {"e", "tx"} /\ c.e = e1 /\ Holds(c.tx, "data", a) /\ a \in Packet
  <2>1. Carried(e1, e1.remote)
    BY <1>6 DEF Carried, Calm
  <2> QED BY <1>5, <1>6, <1>7, <2>1, ControlHolds DEF Sockets, Kinds
<1>9. q = [c EXCEPT !.e = e2]
  <2>1. q = [c EXCEPT !.e.tries = @ + 1, !.e.wait = InvitationInterval]
    BY <1>3, <1>4, <1>5 DEF SendCurrentInvitation
  <2> HIDE DEF c
  <2> QED BY <1>8, <2>1
<1>10. /\ DOMAIN e2 = Fields /\ e2.wait = InvitationInterval
       /\ \A f \in Fields \ {"tries", "wait"} : e2[f] = e1[f]
  BY <1>3 DEF Fields
<1> HIDE DEF c, e2
<1>11. q.e = e2 /\ q.tx = c.tx
  BY <1>8, <1>9
<1>12. a.sock = "data" /\ a.kind = "IN" /\ a.ssrc = 1 /\ a.token = rcv.token
  BY <1>6 DEF Datagram
<1>13. /\ e2.role = "rcv" /\ e2.ssrc = 1 /\ e2.recoverAt = Never /\ ~e2.was /\ e2.token = rcv.token
       /\ e2.known /\ e2.state = "INVITING_DATA" /\ e2.remote = 1 /\ e2.wait > 0
  BY <1>3, <1>6, <1>10, TimeLimits DEF Fields
<1> HIDE DEF a, start
<1>14. /\ rcv' = e2 /\ snd' = snd /\ net'["rcv"]["control"] = <<>> /\ net'["rcv"]["data"] = <<>>
       /\ net'["snd"]["data"] = <<a>> /\ net'["snd"]["control"] = <<>> /\ net["rcv"]["data"] = <<>>
       /\ UNCHANGED <<up, changes, accepted, handled, heard>>
  <2>1. net["rcv"]["data"] = <<>> /\ net["snd"]["control"] = <<>> /\ net["snd"]["data"] = <<>>
    BY DEF Granted, Alone, Only, Roles, Sockets
  <2>2. q.tx["data"] = <<a>> /\ q.tx["control"] = <<>>
    BY <1>8, <1>11 DEF Holds, Sockets
  <2>3. q.e.state # "CONNECTED"
    BY <1>11, <1>13
  <2> QED BY <1>0, <1>2, <1>11, <2>1, <2>2, <2>3 DEF q, Sockets
<1>15. Alone("snd", "data", "IN")'
  <2>1. Only("snd", "data")'
    BY <1>14 DEF Only, Roles, Sockets
  <2>2. Len(<<a>>) = 1 /\ <<a>>[1] = a
    OBVIOUS
  <2> QED BY <1>12, <1>13, <1>14, <2>1, <2>2 DEF Alone, About
<1>16. Calm'
  BY <1>13, <1>14 DEF Calm
<1>17. CallsAgain'
  BY <1>13, <1>14, <1>15 DEF Granted, CallsAgain, Waits, Called
<1> QED BY <1>14, <1>16, <1>17

\* With the invitation on the data socket the sender is connected.
LEMMA SecondInvitationArrives ==
  ASSUME MidiInv, Calm, CallsAgain, Receive("snd", "data", 1, FALSE)
  PROVE  /\ Answered' /\ Calm' /\ UNCHANGED <<rcv, accepted, handled, heard>> /\ snd'.out = snd.out
         /\ \E a \in Packet : a.kind = "OK" /\ net'["rcv"]["data"] = net["rcv"]["data"] \o <<a>>
<1> DEFINE d == net["snd"]["data"][1]
           start == [e |-> snd, tx |-> Unsent]
           e1 == [snd EXCEPT !.data = TRUE, !.quiet = 0]
           r == [start EXCEPT !.e = e1]
           e2 == [e1 EXCEPT !.state = "CONNECTED", !.quiet = 0, !.sync = 0, !.last = Never, !.attempt = 0]
           c == [r EXCEPT !.e = e2]
           a == Datagram(e2, "data", "OK", d.token, <<>>)
<1>0. /\ snd.role = "snd" /\ DOMAIN snd = Fields /\ IsEnd(snd)
  BY Rows
<1>1. /\ d.sock = "data" /\ d.kind = "IN" /\ d.ssrc = 1 /\ d.token = rcv.token
      /\ Len(net["snd"]["data"]) = 1
  BY DEF CallsAgain, Alone, About
<1>2. PICK rest \in Seq(Packet), limited \in BOOLEAN :
        LET q == HandleDatagram(start, d, limited)
        IN  /\ d \in Packet /\ rest = <<>> /\ snd' = q.e /\ rcv' = rcv
            /\ net'["snd"]["data"] = rest /\ net'["snd"]["control"] = net["snd"]["control"]
            /\ \A z \in Sockets : net["rcv"][z] = <<>> => net'["rcv"][z] = q.tx[z]
            /\ UNCHANGED <<up, changes, accepted, heard, handled>>
  <2>1. "snd" \in Roles /\ "control" \in Sockets /\ "data" \in Sockets /\ net["snd"]["data"] # <<>>
    BY <1>1, EmptySeq DEF Roles, Sockets
  <2>2. PICK rest \in Seq(Packet), limited \in BOOLEAN : Comes("snd", "data", rest, limited)
    BY <2>1, Arrived
  <2>3. Len(rest) = 0
    BY <1>1, <2>2 DEF Comes
  <2>4. rest = <<>>
    BY <2>3, NoneLeft
  <2> QED BY <2>1, <2>2, <2>4, OthersEnd DEF Comes, Becomes, End
<1> HIDE DEF d
<1> DEFINE q == HandleDatagram(start, d, limited)
<1>3. /\ DOMAIN e1 = Fields /\ e1.data = TRUE /\ e1.quiet = 0
      /\ \A f \in Fields \ {"data", "quiet"} : e1[f] = snd[f]
  BY <1>0 DEF Fields
<1>4. e1.role = "snd" /\ e1.state = "INVITING_DATA"
  BY <1>0, <1>3 DEF CallsAgain, Fields
<1>5. /\ DOMAIN e2 = Fields /\ e2.state = "CONNECTED" /\ e2.quiet = 0 /\ e2.last = Never /\ e2.attempt = 0
      /\ e2.data = TRUE
      /\ \A f \in Fields \ {"data", "quiet", "state", "sync", "last", "attempt"} : e2[f] = snd[f]
  BY <1>3 DEF Fields
<1>6. q = Answer(c, d, "OK")
  <2>1. [start EXCEPT !.e.data = TRUE, !.e.quiet = 0] = r
    OBVIOUS
  <2>2. r.e = e1
    OBVIOUS
  <2>3. [r EXCEPT !.e.state = "CONNECTED", !.e.quiet = 0, !.e.sync = 0,
                  !.e.last = Never, !.e.attempt = 0] = c
    OBVIOUS
  <2>4. SameSession(start.e, d) /\ start.e.role = "snd"
    BY <1>0, <1>1 DEF SameSession, CallsAgain, Called
  <2> HIDE DEF e1, e2, r, c, start, q
  <2>5. MarkConnected(r) = c
    BY <1>4, <2>2, <2>3 DEF MarkConnected
  <2>6. q = HandleInvitation(start, d, limited)
    BY <1>1, <2>4 DEF HandleDatagram, q
  <2>7. HandleInvitation(start, d, limited) = Answer(MarkConnected(r), d, "OK")
    BY <1>1, <1>4, <2>1, <2>2, <2>4 DEF HandleInvitation
  <2> QED BY <2>5, <2>6, <2>7
<1>7. DOMAIN c = {"e", "tx"} /\ c.e = e2 /\ c.tx = Unsent
  OBVIOUS
<1> HIDE DEF e1, e2, r, c, q
<1>8. /\ e2.role = "snd" /\ e2.ssrc = 1 /\ e2.out = snd.out /\ e2.recoverAt = Never
      /\ e2.remote = 1 /\ e2.token = rcv.token /\ e2.token # 0
  <2>1. snd.token # 0
    BY <1>0 DEF CallsAgain, IsEnd, Active
  <2> QED BY <1>0, <1>5, <2>1 DEF Fields, Calm, CallsAgain, Called
<1>9. IsEnd(e2)
  <2>1. /\ e2.tries = snd.tries /\ e2.wait = snd.wait /\ e2.sequence = snd.sequence /\ e2.token = snd.token
        /\ e2.out = snd.out
    BY <1>5 DEF Fields
  <2>2. e2.data \in BOOLEAN
    BY <1>5, Zenon
  <2> QED BY <1>0, <1>5, <1>8, <2>1, <2>2 DEF IsEnd, States, Active, NoPeer, Roles
<1>10. q.e = e2 /\ Holds(q.tx, "data", a) /\ a \in Packet
  <2>1. Carried(e2, d.ssrc)
    BY <1>1, <1>8 DEF Carried, Calm
  <2>2. LET v == Answer(c, d, "OK")
            b == Datagram(c.e, d.sock, "OK", d.token, <<>>)
        IN  v.e = c.e /\ Holds(v.tx, d.sock, b) /\ b \in Packet
    BY <1>2, <1>7, <1>9, <2>1, AnswerHolds
  <2> QED BY <1>1, <1>6, <1>7, <2>2
<1>11. a.sock = "data" /\ a.kind = "OK" /\ a.ssrc = 1 /\ a.token = rcv.token
  BY <1>1, <1>8 DEF Datagram
<1> HIDE DEF a, start
<1>12. /\ snd' = e2 /\ rcv' = rcv /\ net'["snd"]["control"] = <<>> /\ net'["snd"]["data"] = <<>>
       /\ net'["rcv"]["data"] = <<a>> /\ net'["rcv"]["control"] = <<>> /\ net["rcv"]["data"] = <<>>
       /\ UNCHANGED <<up, changes, accepted, handled, heard>>
  <2>1. net["snd"]["control"] = <<>> /\ net["rcv"]["control"] = <<>> /\ net["rcv"]["data"] = <<>>
    BY DEF CallsAgain, Alone, Only, Roles, Sockets
  <2>2. q.tx["data"] = <<a>> /\ q.tx["control"] = <<>>
    BY <1>10 DEF Holds, Sockets
  <2> QED BY <1>2, <1>10, <2>1, <2>2 DEF q, Sockets
<1>13. Len(<<a>>) = 1 /\ <<a>>[1] = a /\ 2..1 = {}
  OBVIOUS
<1>14. Calm'
  BY <1>5, <1>8, <1>12 DEF Calm
<1>15. Answered'
  <2>1. Only("rcv", "data")'
    BY <1>12 DEF Only, Roles, Sockets
  <2> QED BY <1>5, <1>8, <1>11, <1>12, <1>13, <2>1 DEF CallsAgain, Answered, Waits, Called, About
<1>16. net'["rcv"]["data"] = net["rcv"]["data"] \o <<a>>
  <2>1. <<a>> \in Seq(Packet)
    BY <1>10
  <2> QED BY <1>12, <2>1, ConcatEmptySeq
<1> QED BY <1>8, <1>10, <1>11, <1>12, <1>14, <1>15, <1>16

\* The first of a row is taken off it.
Leaves(rest, row) ==
  /\ rest \in Seq(Packet) /\ Len(row) >= 1 /\ Len(rest) = Len(row) - 1
  /\ \A i \in 1..Len(rest) : rest[i] = row[i + 1]

\* What is on the way to the receiver is of the one sender there has been.
LEMMA OneSender ==
  ASSUME MidiInv, Calm
  PROVE  \A i \in 1..Len(net["rcv"]["data"]) :
           net["rcv"]["data"][i].kind = "CC" => net["rcv"]["data"][i].ssrc = 1
<1>1. PICK base \in [Nat -> Numbers] : Ordered(base)
  BY DEF MidiInv
<1>2. net["rcv"]["data"] \in Seq(Fit(base, snd.ssrc, Newest))
  BY <1>1 DEF Ordered, Sockets
<1>3. \A d \in Fit(base, snd.ssrc, Newest) : d.kind = "CC" => d.ssrc = 1
  BY DEF Fit, Calm
<1> QED BY <1>2, <1>3, ElementOfSeq

\* With the answer the receiver is connected, and synchronizes.
LEMMA AnswerArrives ==
  ASSUME MidiInv, Calm, Answered, Receive("rcv", "data", 1, FALSE)
  PROVE  /\ Joined' /\ Calm' /\ UNCHANGED <<snd, accepted, handled, heard>>
         /\ Leaves(net'["rcv"]["data"], net["rcv"]["data"])
         /\ net["rcv"]["data"][1].kind = "OK"
<1> DEFINE row == net["rcv"]["data"]
           d == row[1]
           start == [e |-> rcv, tx |-> Unsent]
           e1 == [rcv EXCEPT !.state = "CONNECTED", !.quiet = 0, !.sync = 0, !.last = Never, !.attempt = 0]
           r == [start EXCEPT !.e = e1]
           c == Control(r, "data", "CK0")
           e2 == [e1 EXCEPT !.sync = SyncInterval]
           a == Datagram(e1, "data", "CK0", e1.token, <<>>)
<1>0. /\ rcv.role = "rcv" /\ DOMAIN rcv = Fields /\ IsEnd(rcv) /\ Len(row) \in Nat
  BY Rows DEF Roles, Sockets
<1>1. /\ d.sock = "data" /\ d.kind = "OK" /\ d.ssrc = 1 /\ d.token = rcv.token
      /\ Len(row) >= 1
  BY DEF Answered, About
<1>2. PICK rest \in Seq(Packet), limited \in BOOLEAN :
        LET q == HandleDatagram(start, d, limited)
        IN  /\ Len(rest) = Len(row) - 1 /\ \A i \in 1..Len(rest) : rest[i] = row[i + 1]
            /\ rcv' = q.e /\ snd' = snd
            /\ net'["rcv"]["data"] = rest /\ net'["rcv"]["control"] = net["rcv"]["control"]
            /\ \A z \in Sockets : net["snd"][z] = <<>> => net'["snd"][z] = q.tx[z]
            /\ heard' = (IF q.e.state # "CONNECTED" THEN 0 ELSE heard) /\ handled' = handled
            /\ UNCHANGED <<up, changes, accepted>>
  <2>1. "rcv" \in Roles /\ "control" \in Sockets /\ "data" \in Sockets /\ net["rcv"]["data"] # <<>>
    BY <1>1, EmptySeq DEF Roles, Sockets
  <2>2. PICK rest \in Seq(Packet), limited \in BOOLEAN : Comes("rcv", "data", rest, limited)
    BY <2>1, Arrived
  <2>3. d.kind # "CC"
    BY <1>1
  <2>4. Len(rest) = Len(row) - 1 /\ \A i \in 1..Len(rest) : rest[i] = row[i + 1]
    BY <2>2 DEF Comes
  <2> HIDE DEF row
  <2>5. LET q == HandleDatagram(start, d, limited)
        IN  /\ rcv' = q.e /\ snd' = snd
            /\ net'["rcv"]["data"] = rest /\ net'["rcv"]["control"] = net["rcv"]["control"]
            /\ \A z \in Sockets : net["snd"][z] = <<>> => net'["snd"][z] = q.tx[z]
            /\ heard' = (IF q.e.state # "CONNECTED" THEN 0 ELSE heard) /\ handled' = handled
            /\ UNCHANGED <<up, changes, accepted>>
    BY <2>1, <2>2, <2>3, OthersEnd DEF Comes, Becomes, End, row
  <2> QED BY <2>4, <2>5
<1> DEFINE q == HandleDatagram(start, d, limited)
<1>3. \A i \in 1..Len(rest) : rest[i].kind = "CC" /\ rest[i].ssrc = 1
  <2> SUFFICES ASSUME NEW i \in 1..Len(rest) PROVE rest[i].kind = "CC" /\ rest[i].ssrc = 1
    OBVIOUS
  <2>1. i + 1 \in 2..Len(row) /\ i + 1 \in 1..Len(row)
    BY <1>0, <1>2
  <2> QED BY <1>2, <2>1, OneSender DEF Answered
<1> HIDE DEF d
<1>4. /\ DOMAIN e1 = Fields /\ e1.state = "CONNECTED" /\ e1.quiet = 0 /\ e1.last = Never /\ e1.attempt = 0
      /\ \A f \in Fields \ {"state", "quiet", "sync", "last", "attempt"} : e1[f] = rcv[f]
  BY <1>0 DEF Fields
<1>5. q = SendSync(r)
  <2>1. [start EXCEPT !.e.state = "CONNECTED", !.e.quiet = 0, !.e.sync = 0,
                      !.e.last = Never, !.e.attempt = 0] = r
    OBVIOUS
  <2>2. q = HandleAccept(start, d)
    BY <1>0, <1>1 DEF HandleDatagram
  <2>3. start.e.known /\ start.e.state = "INVITING_DATA" /\ d.token = start.e.token
        /\ start.e.remote = 1 /\ start.e.role = "rcv"
    BY <1>0, <1>1 DEF Answered, Waits
  <2> HIDE DEF r, start, q, e1
  <2>4. HandleAccept(start, d) = MarkConnected(start)
    BY <1>1, <2>3 DEF HandleAccept
  <2>5. MarkConnected(start) = SendSync(r)
    BY <2>1, <2>3 DEF MarkConnected
  <2> QED BY <2>2, <2>4, <2>5
<1> HIDE DEF q, e1
<1>6. DOMAIN r = {"e", "tx"} /\ r.e = e1 /\ r.tx = Unsent
  OBVIOUS
<1> HIDE DEF r
<1>7. /\ e1.role = "rcv" /\ e1.ssrc = 1 /\ e1.out = rcv.out /\ e1.recoverAt = Never
      /\ e1.remote = 1 /\ e1.token = rcv.token /\ e1.known /\ e1.token # 0 /\ e1.data
  <2>1. rcv.token # 0 /\ rcv.data
    BY <1>0 DEF Answered, IsEnd, Active
  <2> QED BY <1>0, <1>4, <2>1 DEF Fields, Calm, Answered, Waits
<1>8. IsEnd(e1)
  <2>1. /\ e1.tries = rcv.tries /\ e1.wait = rcv.wait /\ e1.sequence = rcv.sequence /\ e1.data = rcv.data
    BY <1>4 DEF Fields
  <2> QED BY <1>0, <1>4, <1>7, <2>1 DEF IsEnd, States, Active, NoPeer, Roles
<1>9. DOMAIN c = {"e", "tx"} /\ c.e = e1 /\ Holds(c.tx, "data", a)
  <2>1. Carried(e1, e1.remote)
    BY <1>7 DEF Carried, Calm
  <2> QED BY <1>6, <1>8, <2>1, ControlHolds DEF Sockets, Kinds
<1>10. q = [c EXCEPT !.e = e2]
  <2>1. q = [c EXCEPT !.e.sync = SyncInterval]
    BY <1>5 DEF SendSync
  <2> HIDE DEF c
  <2> QED BY <1>9, <2>1
<1>11. /\ DOMAIN e2 = Fields /\ e2.sync = SyncInterval /\ \A f \in Fields \ {"sync"} : e2[f] = e1[f]
  BY <1>4 DEF Fields
<1> HIDE DEF c, e2
<1>12. q.e = e2 /\ q.tx = c.tx
  BY <1>9, <1>10
<1>13. a.kind = "CK0" /\ a.ssrc = 1
  BY <1>7 DEF Datagram
<1>14. /\ e2.ssrc = 1 /\ e2.recoverAt = Never /\ e2.known /\ e2.state = "CONNECTED" /\ e2.remote = 1
       /\ e2.quiet = 0 /\ e2.sync = SyncInterval
  BY <1>4, <1>7, <1>11 DEF Fields
<1> HIDE DEF a, start
<1>15. /\ rcv' = e2 /\ snd' = snd /\ net'["rcv"]["control"] = <<>> /\ net'["rcv"]["data"] = rest
       /\ net'["snd"]["data"] = <<a>> /\ net'["snd"]["control"] = <<>>
       /\ UNCHANGED <<up, changes, accepted, handled, heard>>
  <2>1. net["rcv"]["control"] = <<>> /\ net["snd"]["control"] = <<>> /\ net["snd"]["data"] = <<>>
    BY DEF Answered, Only, Roles, Sockets
  <2>2. q.tx["data"] = <<a>> /\ q.tx["control"] = <<>>
    BY <1>9, <1>12 DEF Holds, Sockets
  <2> QED BY <1>2, <1>12, <1>14, <2>1, <2>2 DEF q, Sockets
<1>16. Len(<<a>>) = 1 /\ <<a>>[1] = a /\ 1..1 = {1}
  OBVIOUS
<1>17. Calm'
  BY <1>14, <1>15 DEF Calm
<1>18. InTime'
  <2>1. OnTheWay("snd", "CK0")'
    BY <1>13, <1>15, <1>16 DEF OnTheWay
  <2>2. rcv'.sync \in 0..SyncInterval /\ snd'.quiet \in 0..SyncInterval /\ rcv'.quiet \in 0..SyncInterval
    BY <1>14, <1>15, TimeLimits DEF Answered, Called
  <2> QED BY <2>1, <2>2 DEF InTime
<1>19. Joined'
  BY <1>3, <1>13, <1>14, <1>15, <1>16, <1>18 DEF Answered, Waits, Called, Joined
<1> QED BY <1>1, <1>2, <1>15, <1>17, <1>19 DEF Leaves, d

\* A row that is all but its first, or longer by one.
LEMMA Leaving ==
  ASSUME NEW row \in Seq(Packet), NEW rest, Leaves(rest, row)
  PROVE  /\ Len(row) \in Nat /\ Len(rest) \in Nat
         /\ \A i \in 1..Len(rest) : i + 1 \in 1..Len(row) /\ rest[i] = row[i + 1]
         /\ \A i \in 1..Len(row) : i = 1 \/ (i - 1 \in 1..Len(rest) /\ rest[i - 1] = row[i])
<1>1. Len(row) \in Nat /\ Len(rest) \in Nat
  BY LenProperties DEF Leaves
<1> QED BY <1>1 DEF Leaves

LEMMA Longer ==
  ASSUME NEW row \in Seq(Packet), NEW d \in Packet
  PROVE  LET w == row \o <<d>> IN
         /\ w \in Seq(Packet) /\ Len(row) + 1 \in 1..Len(w) /\ w[Len(row) + 1] = d
         /\ \A i \in 1..Len(row) : i \in 1..Len(w) /\ w[i] = row[i]
         /\ \A i \in 1..Len(w) : i \in 1..Len(row) \/ w[i] = d
<1> DEFINE one == <<d>>
           w == row \o one
<1>1. one \in Seq(Packet) /\ Len(one) = 1 /\ one[1] = d
  OBVIOUS
<1> HIDE DEF one
<1>2. /\ w \in Seq(Packet) /\ Len(row) \in Nat /\ Len(w) = Len(row) + 1
      /\ \A i \in 1..Len(w) : w[i] = IF i <= Len(row) THEN row[i] ELSE one[i - Len(row)]
  <2>1. /\ w \in Seq(Packet) /\ Len(row) \in Nat /\ Len(w) = Len(row) + Len(one)
        /\ \A i \in 1..Len(w) : w[i] = IF i <= Len(row) THEN row[i] ELSE one[i - Len(row)]
    BY <1>1, Concatenated
  <2> HIDE DEF w
  <2> QED BY <1>1, <2>1
<1> HIDE DEF w
<1>3. Len(row) + 1 \in 1..Len(w) /\ ~(Len(row) + 1 <= Len(row)) /\ Len(row) + 1 - Len(row) = 1
  BY <1>2
<1>4. w[Len(row) + 1] = d
  BY <1>1, <1>2, <1>3
<1>5. \A i \in 1..Len(w) : i \in 1..Len(row) \/ i = Len(row) + 1
  BY <1>2
<1>6. \A i \in 1..Len(row) : i \in 1..Len(w) /\ w[i] = row[i]
  BY <1>2
<1> QED BY <1>2, <1>3, <1>4, <1>5, <1>6 DEF w, one

\* The sender answers a synchronization.
LEMMA SyncArrives ==
  ASSUME MidiInv, Calm, Joined, net["snd"]["data"] # <<>>, Receive("snd", "data", 1, FALSE)
  PROVE  /\ Joined' /\ Calm' /\ UNCHANGED <<rcv, accepted, handled, heard>> /\ snd'.out = snd.out
         /\ \/ net'["rcv"]["data"] = net["rcv"]["data"]
            \/ \E a \in Packet : a.kind = "CK1" /\ net'["rcv"]["data"] = net["rcv"]["data"] \o <<a>>
<1> DEFINE row == net["snd"]["data"]
           back == net["rcv"]["data"]
           d == row[1]
           start == [e |-> snd, tx |-> Unsent]
           e1 == [snd EXCEPT !.quiet = 0]
           r == [start EXCEPT !.e = e1]
           a == Datagram(e1, "data", "CK1", e1.token, <<>>)
<1>0. /\ snd.role = "snd" /\ DOMAIN snd = Fields /\ IsEnd(snd) /\ row \in Seq(Packet) /\ back \in Seq(Packet)
      /\ rcv.role = "rcv"
  BY Rows DEF Roles, Sockets
<1>1. PICK rest \in Seq(Packet), limited \in BOOLEAN :
        LET q == HandleDatagram(start, d, limited)
        IN  /\ Leaves(rest, row)
            /\ rcv' = rcv /\ snd' = q.e
            /\ net'["snd"]["data"] = rest /\ net'["snd"]["control"] = net["snd"]["control"]
            /\ \A z \in Sockets : /\ net'["rcv"][z] = net["rcv"][z] \o q.tx[z]
                                  /\ q.tx[z] = <<>> => net'["rcv"][z] = net["rcv"][z]
            /\ UNCHANGED <<up, changes, accepted, heard, handled>>
  <2>1. "snd" \in Roles /\ "control" \in Sockets /\ "data" \in Sockets
    BY DEF Roles, Sockets
  <2>2. PICK rest \in Seq(Packet), limited \in BOOLEAN : Comes("snd", "data", rest, limited)
    BY <2>1, Arrived
  <2>3. Leaves(rest, row)
    BY <2>2 DEF Comes, Leaves
  <2> HIDE DEF row
  <2>4. LET q == HandleDatagram(start, d, limited)
        IN  /\ rcv' = rcv /\ snd' = q.e
            /\ net'["snd"]["data"] = rest /\ net'["snd"]["control"] = net["snd"]["control"]
            /\ \A z \in Sockets : /\ net'["rcv"][z] = net["rcv"][z] \o q.tx[z]
                                  /\ q.tx[z] = <<>> => net'["rcv"][z] = net["rcv"][z]
            /\ UNCHANGED <<up, changes, accepted, heard, handled>>
    BY <2>1, <2>2, OthersEnd DEF Comes, Becomes, End, row
  <2> QED BY <2>3, <2>4
<1> DEFINE q == HandleDatagram(start, d, limited)
<1>2. /\ Len(row) \in Nat /\ Len(rest) \in Nat
      /\ \A i \in 1..Len(rest) : i + 1 \in 1..Len(row) /\ rest[i] = row[i + 1]
      /\ \A i \in 1..Len(row) : i = 1 \/ (i - 1 \in 1..Len(rest) /\ rest[i - 1] = row[i])
  BY <1>0, <1>1, Leaving
<1>3. 1 \in 1..Len(row)
  BY <1>0, <1>2, EmptySeq
<1>4. d.kind \in {"CK0", "CK2"} /\ d.ssrc = 1
  BY <1>3 DEF Joined
<1> HIDE DEF d, row, back
<1>5. DOMAIN e1 = Fields /\ e1.quiet = 0 /\ \A f \in Fields \ {"quiet"} : e1[f] = snd[f]
  BY <1>0 DEF Fields
<1>6. q = IF d.kind = "CK0" THEN Control(r, "data", "CK1") ELSE r
  <2>1. [start EXCEPT !.e.quiet = 0] = r
    OBVIOUS
  <2>2. start.e.state = "CONNECTED" /\ start.e.data /\ start.e.remote = 1 /\ start.e.remote # NoPeer
    BY <1>0 DEF Joined, IsEnd, NoPeer
  <2> HIDE DEF r, start, q
  <2>3. q = HandleSync(start, d)
    BY <1>4 DEF HandleDatagram, q
  <2>4. HandleSync(start, d) = IF d.kind = "CK0" THEN Control(r, "data", "CK1") ELSE r
    BY <1>4, <2>1, <2>2 DEF HandleSync
  <2> QED BY <2>3, <2>4
<1> HIDE DEF q, e1
<1>7. DOMAIN r = {"e", "tx"} /\ r.e = e1 /\ r.tx = Unsent
  OBVIOUS
<1> HIDE DEF r
<1>8. /\ e1.role = "snd" /\ e1.ssrc = 1 /\ e1.out = snd.out /\ e1.recoverAt = Never
      /\ e1.remote = 1 /\ e1.state = "CONNECTED"
  BY <1>0, <1>5 DEF Fields, Calm, Joined
<1>9. IsEnd(e1)
  <2>1. /\ e1.tries = snd.tries /\ e1.wait = snd.wait /\ e1.sequence = snd.sequence /\ e1.data = snd.data
        /\ e1.token = snd.token /\ e1.last = snd.last /\ e1.attempt = snd.attempt /\ e1.remote = snd.remote
        /\ e1.state = snd.state /\ e1.role = snd.role /\ e1.ssrc = snd.ssrc /\ e1.out = snd.out
    BY <1>5 DEF Fields
  <2> QED BY <1>0, <1>5, <2>1 DEF IsEnd
<1>10. /\ q.e = e1
       /\ q.tx["control"] = <<>>
       /\ IF d.kind = "CK0" THEN q.tx["data"] = <<a>> /\ a \in Packet ELSE q.tx["data"] = <<>>
  <2>1. CASE d.kind = "CK0"
    <3>1. Carried(e1, e1.remote)
      BY <1>8 DEF Carried, Calm
    <3>2. LET c == Control(r, "data", "CK1") IN c.e = e1 /\ Holds(c.tx, "data", a) /\ a \in Packet
      BY <1>7, <1>9, <3>1, ControlHolds DEF Sockets, Kinds
    <3> QED BY <1>6, <2>1, <3>2 DEF Holds, Sockets
  <2>2. CASE d.kind # "CK0"
    BY <1>6, <1>7, <2>2 DEF Unsent, Sockets
  <2> QED BY <2>1, <2>2
<1>11. a.kind = "CK1" /\ a.ssrc = 1
  BY <1>8 DEF Datagram
<1> HIDE DEF a, start
<1>12. /\ snd' = e1 /\ rcv' = rcv /\ net'["snd"]["control"] = <<>> /\ net'["snd"]["data"] = rest
       /\ net'["rcv"]["control"] = <<>>
       /\ net'["rcv"]["data"] = IF d.kind = "CK0" THEN back \o <<a>> ELSE back
       /\ UNCHANGED <<up, changes, accepted, handled, heard>>
  BY <1>1, <1>10 DEF Joined, q, Sockets, back
<1> DEFINE w == back \o <<a>>
           more == IF d.kind = "CK0" THEN w ELSE back
<1>13. d.kind = "CK0" =>
         /\ \A i \in 1..Len(back) : i \in 1..Len(w) /\ w[i] = back[i]
         /\ \A i \in 1..Len(w) : i \in 1..Len(back) \/ w[i] = a
         /\ \E i \in 1..Len(w) : w[i] = a
  <2> SUFFICES ASSUME d.kind = "CK0"
               PROVE  /\ \A i \in 1..Len(back) : i \in 1..Len(w) /\ w[i] = back[i]
                      /\ \A i \in 1..Len(w) : i \in 1..Len(back) \/ w[i] = a
                      /\ \E i \in 1..Len(w) : w[i] = a
    OBVIOUS
  <2>1. back \in Seq(Packet) /\ a \in Packet
    BY <1>0, <1>10 DEF back
  <2>2. /\ Len(back) + 1 \in 1..Len(w) /\ w[Len(back) + 1] = a
        /\ \A i \in 1..Len(back) : i \in 1..Len(w) /\ w[i] = back[i]
        /\ \A i \in 1..Len(w) : i \in 1..Len(back) \/ w[i] = a
    BY <2>1, Longer
  <2> HIDE DEF w
  <2> QED BY <2>2
<1> HIDE DEF w
<1>14. /\ \A i \in 1..Len(more) : more[i].kind \in {"CC", "CK1"} /\ more[i].ssrc = 1
       /\ OnTheWay("rcv", "CK1") \/ d.kind = "CK0" => \E i \in 1..Len(more) : more[i].kind = "CK1"
  <2>1. /\ \A i \in 1..Len(back) : back[i].kind \in {"CC", "CK1"} /\ back[i].ssrc = 1
        /\ OnTheWay("rcv", "CK1") => \E i \in 1..Len(back) : back[i].kind = "CK1"
    BY DEF Joined, OnTheWay, back
  <2>2. CASE d.kind = "CK0"
    <3>1. \A i \in 1..Len(w) : w[i].kind \in {"CC", "CK1"} /\ w[i].ssrc = 1
      BY <1>11, <1>13, <2>1, <2>2
    <3>2. \E i \in 1..Len(w) : w[i].kind = "CK1"
      BY <1>11, <1>13, <2>2
    <3> QED BY <2>2, <3>1, <3>2
  <2>3. CASE d.kind # "CK0"
    BY <2>1, <2>3
  <2> QED BY <2>2, <2>3
<1>15. OnTheWay("snd", "CK0") => d.kind = "CK0" \/ \E i \in 1..Len(rest) : rest[i].kind = "CK0"
  BY <1>2 DEF OnTheWay, d, row
<1>16. \A i \in 1..Len(rest) : rest[i].kind \in {"CK0", "CK2"} /\ rest[i].ssrc = 1
  BY <1>2 DEF Joined, row
<1>17. Calm'
  BY <1>8, <1>12 DEF Calm
<1>18. InTime'
  <2>1. /\ rcv.sync \in 0..SyncInterval /\ rcv.quiet \in 0..SyncInterval
        /\ OnTheWay("snd", "CK0") \/ OnTheWay("rcv", "CK1") \/ rcv.quiet + rcv.sync <= SyncInterval
    BY DEF Joined, InTime
  <2>2. snd'.quiet = 0 /\ 0 \in 0..SyncInterval /\ 0 + rcv.sync <= SyncInterval
    BY <1>5, <1>12, <2>1, TimeLimits
  <2>3. (\E i \in 1..Len(rest) : rest[i].kind = "CK0") => OnTheWay("snd", "CK0")'
    BY <1>12 DEF OnTheWay
  <2>4. (\E i \in 1..Len(more) : more[i].kind = "CK1") => OnTheWay("rcv", "CK1")'
    BY <1>12 DEF OnTheWay, w
  <2> HIDE DEF more
  <2>5. OnTheWay("snd", "CK0")' \/ OnTheWay("rcv", "CK1")' \/ rcv.quiet + rcv.sync <= SyncInterval
    BY <1>14, <1>15, <2>1, <2>3, <2>4
  <2> QED BY <1>12, <2>1, <2>2, <2>5 DEF InTime
<1>19. Joined'
  <2>1. net'["rcv"]["data"] = more
    BY <1>12 DEF w
  <2> HIDE DEF more
  <2>2. /\ rcv'.known /\ changes' = <<>> /\ rcv'.state = "CONNECTED" /\ snd'.state = "CONNECTED"
        /\ snd'.remote = 1 /\ rcv'.remote = 1
        /\ net'["snd"]["control"] = <<>> /\ net'["rcv"]["control"] = <<>>
    BY <1>8, <1>12 DEF Joined
  <2>3. \A i \in 1..Len(net'["snd"]["data"]) :
          net'["snd"]["data"][i].kind \in {"CK0", "CK2"} /\ net'["snd"]["data"][i].ssrc = 1
    BY <1>12, <1>16
  <2>4. \A i \in 1..Len(net'["rcv"]["data"]) :
          net'["rcv"]["data"][i].kind \in {"CC", "CK1"} /\ net'["rcv"]["data"][i].ssrc = 1
    BY <1>14, <2>1
  <2> QED BY <1>18, <2>2, <2>3, <2>4 DEF Joined
<1> QED BY <1>8, <1>10, <1>11, <1>12, <1>17, <1>19 DEF back

\* Of two Control Changes of a sender, the later one is within the window of the earlier one.
LEMMA LaterIsInWindow ==
  ASSUME MaxCC <= SequenceWindow + 1, NEW b \in Numbers, NEW m \in 1..MaxCC, NEW n \in 1..MaxCC, m < n
  PROVE  (Number(b, n) - Number(b, m)) % SequenceModulus \in 1..SequenceWindow
<1> DEFINE M == SequenceModulus
           d == Number(b, n) - Number(b, m)
<1>1. M \in Nat \ {0} /\ b \in 0..M - 1 /\ MaxCC \in Nat /\ SequenceWindow \in Nat \ {0}
      /\ MaxCC + SequenceWindow <= M
  BY Modulus, AppleMidiAssumption DEF Numbers
<1>2. \A x \in 0..M - 1 : x % M = x
  BY <1>1, SMTT(30)
<1>3. \A x \in Int : 0 - M <= x /\ x < 0 => x % M = x + M
  BY <1>1, SMTT(30)
<1>4. d \in {n - m, n - m - M} /\ n - m \in 1..SequenceWindow /\ n - m < M
  BY <1>1 DEF Number
<1> HIDE DEF M, d
<1>5. CASE d = n - m
  <2>1. d % M = n - m
    BY <1>1, <1>2, <1>4, <1>5
  <2> QED BY <1>4, <2>1 DEF M, d
<1>6. CASE d = n - m - M
  <2>1. d % M = d + M
    BY <1>1, <1>3, <1>4, <1>6
  <2>2. d + M = n - m
    BY <1>1, <1>4, <1>6
  <2> QED BY <1>4, <2>1, <2>2 DEF M, d
<1> QED BY <1>4, <1>5, <1>6

\* What the receiver has not heard of yet it takes for new.
LEMMA LaterIsNew ==
  ASSUME MidiInv, Calm, MaxCC <= SequenceWindow + 1, rcv.state = "CONNECTED", rcv.remote = 1,
         NEW i \in 1..Len(net["rcv"]["data"]), net["rcv"]["data"][i].kind = "CC",
         heard < net["rcv"]["data"][i].cc[2]
  PROVE  RtpIsNew(rcv, net["rcv"]["data"][i])
<1> DEFINE d == net["rcv"]["data"][i]
           n == d.cc[2]
<1>1. PICK base \in [Nat -> Numbers] : Ordered(base)
  BY DEF MidiInv
<1>2. net["rcv"]["data"] \in Seq(Fit(base, snd.ssrc, Newest))
  BY <1>1 DEF Ordered, Sockets
<1>3. d \in Fit(base, snd.ssrc, Newest)
  BY <1>2, ElementOfSeq
<1> HIDE DEF d
<1>4. d.ssrc = 1 /\ n \in 1..Newest /\ d.token = Number(base[1], n)
  BY <1>3 DEF Fit, Calm, d
<1>5. Newest \in 0..MaxCC /\ MaxCC \in Nat
  BY NewestIsNumber, Limits DEF MidiInv
<1>6. SequenceIsNew(rcv, d.token)
  <2>1. CASE rcv.last = Never
    BY <2>1 DEF SequenceIsNew
  <2>2. CASE rcv.last # Never
    <3>1. heard \in 1..Newest /\ rcv.last = Number(base[1], heard)
      BY <1>1, <2>2 DEF Ordered
    <3>2. base[1] \in Numbers /\ heard \in 1..MaxCC /\ n \in 1..MaxCC /\ heard < n
      <4>1. 1 \in Nat
        OBVIOUS
      <4> QED BY <1>4, <1>5, <3>1, <4>1 DEF d
    <3> HIDE DEF n
    <3>3. (Number(base[1], n) - Number(base[1], heard)) % SequenceModulus \in 1..SequenceWindow
      BY <3>2, LaterIsInWindow
    <3> QED BY <1>4, <3>1, <3>3 DEF SequenceIsNew
  <2> QED BY <2>1, <2>2
<1> QED BY <1>4, <1>6 DEF RtpIsNew, d

\* What comes to the receiver in the session.
LEMMA DataComes ==
  ASSUME MidiInv, net["rcv"]["data"] # <<>>, Receive("rcv", "data", 1, FALSE)
  PROVE  LET row == net["rcv"]["data"]
             d == row[1]
         IN  \E rest \in Seq(Packet), limited \in BOOLEAN :
               LET q == HandleDatagram([e |-> rcv, tx |-> Unsent], d, limited)
                   new == d.kind = "CC" /\ RtpIsNew(rcv, d)
               IN  /\ Leaves(rest, row) /\ d \in Packet
                   /\ snd' = snd /\ rcv' = q.e
                   /\ net'["rcv"]["data"] = rest /\ net'["rcv"]["control"] = net["rcv"]["control"]
                   /\ \A z \in Sockets : /\ net'["snd"][z] = net["snd"][z] \o q.tx[z]
                                         /\ q.tx[z] = <<>> => net'["snd"][z] = net["snd"][z]
                   /\ heard' = (IF new THEN d.cc[2]
                                ELSE IF q.e.state # "CONNECTED" THEN 0 ELSE heard)
                   /\ handled' = (IF new THEN [handled EXCEPT ![d.cc[1]] = d.cc[2]] ELSE handled)
                   /\ UNCHANGED <<up, changes, accepted>>
<1> DEFINE row == net["rcv"]["data"]
           d == row[1]
<1>1. "rcv" \in Roles /\ "control" \in Sockets /\ "data" \in Sockets
  BY DEF Roles, Sockets
<1>2. PICK rest \in Seq(Packet), limited \in BOOLEAN : Comes("rcv", "data", rest, limited)
  BY <1>1, Arrived
<1>3. Leaves(rest, row) /\ d \in Packet
  BY <1>2 DEF Comes, Leaves
<1> DEFINE q == HandleDatagram([e |-> rcv, tx |-> Unsent], d, limited)
           new == d.kind = "CC" /\ RtpIsNew(rcv, d)
<1>4. /\ snd' = snd /\ rcv' = q.e
      /\ net'["rcv"]["data"] = rest /\ net'["rcv"]["control"] = net["rcv"]["control"]
      /\ \A z \in Sockets : /\ net'["snd"][z] = net["snd"][z] \o q.tx[z]
                            /\ q.tx[z] = <<>> => net'["snd"][z] = net["snd"][z]
      /\ UNCHANGED <<up, changes, accepted>>
  <2> HIDE DEF row
  <2> QED BY <1>1, <1>2, OthersEnd DEF Comes, Becomes, End, row
<1>5. /\ heard' = (IF new THEN d.cc[2] ELSE IF q.e.state # "CONNECTED" THEN 0 ELSE heard)
      /\ handled' = (IF new THEN [handled EXCEPT ![d.cc[1]] = d.cc[2]] ELSE handled)
  BY <1>2 DEF Comes, End
<1> HIDE DEF q, new, d, row
<1> QED BY <1>3, <1>4, <1>5 DEF q, new, d, row

\* The receiver answers the answer.
LEMMA SyncReturns ==
  ASSUME MidiInv, Calm, Joined, net["rcv"]["data"] # <<>>, net["rcv"]["data"][1].kind # "CC",
         Receive("rcv", "data", 1, FALSE)
  PROVE  /\ Joined' /\ Calm' /\ UNCHANGED <<snd, accepted, handled, heard>>
         /\ Leaves(net'["rcv"]["data"], net["rcv"]["data"])
<1> DEFINE row == net["rcv"]["data"]
           back == net["snd"]["data"]
           d == row[1]
           start == [e |-> rcv, tx |-> Unsent]
           e1 == [rcv EXCEPT !.quiet = 0]
           r == [start EXCEPT !.e = e1]
           a == Datagram(e1, "data", "CK2", e1.token, <<>>)
<1>0. /\ rcv.role = "rcv" /\ DOMAIN rcv = Fields /\ IsEnd(rcv) /\ row \in Seq(Packet) /\ back \in Seq(Packet)
  BY Rows DEF Roles, Sockets
<1>1. PICK rest \in Seq(Packet), limited \in BOOLEAN :
        LET q == HandleDatagram(start, d, limited)
        IN  /\ Leaves(rest, row)
            /\ snd' = snd /\ rcv' = q.e
            /\ net'["rcv"]["data"] = rest /\ net'["rcv"]["control"] = net["rcv"]["control"]
            /\ \A z \in Sockets : /\ net'["snd"][z] = net["snd"][z] \o q.tx[z]
                                  /\ q.tx[z] = <<>> => net'["snd"][z] = net["snd"][z]
            /\ heard' = (IF q.e.state # "CONNECTED" THEN 0 ELSE heard)
            /\ UNCHANGED <<up, changes, accepted, handled>>
  <2>1. d.kind # "CC"
    OBVIOUS
  <2> HIDE DEF row
  <2> QED BY <2>1, DataComes DEF row
<1> DEFINE q == HandleDatagram(start, d, limited)
<1>2. /\ Len(row) \in Nat /\ Len(rest) \in Nat
      /\ \A i \in 1..Len(rest) : i + 1 \in 1..Len(row) /\ rest[i] = row[i + 1]
      /\ \A i \in 1..Len(row) : i = 1 \/ (i - 1 \in 1..Len(rest) /\ rest[i - 1] = row[i])
  BY <1>0, <1>1, Leaving
<1>3. 1 \in 1..Len(row)
  BY <1>0, <1>2, EmptySeq
<1>4. d.kind = "CK1" /\ d.ssrc = 1
  BY <1>3 DEF Joined
<1> HIDE DEF d, row, back
<1>5. DOMAIN e1 = Fields /\ e1.quiet = 0 /\ \A f \in Fields \ {"quiet"} : e1[f] = rcv[f]
  BY <1>0 DEF Fields
<1>6. q = Control(r, "data", "CK2")
  <2>1. [start EXCEPT !.e.quiet = 0] = r
    OBVIOUS
  <2>2. start.e.state = "CONNECTED" /\ start.e.data /\ start.e.remote = 1 /\ start.e.remote # NoPeer
    BY <1>0 DEF Joined, IsEnd, NoPeer
  <2> HIDE DEF r, start, q
  <2>3. q = HandleSync(start, d)
    BY <1>4 DEF HandleDatagram, q
  <2>4. HandleSync(start, d) = Control(r, "data", "CK2")
    BY <1>4, <2>1, <2>2 DEF HandleSync
  <2> QED BY <2>3, <2>4
<1> HIDE DEF q, e1
<1>7. DOMAIN r = {"e", "tx"} /\ r.e = e1 /\ r.tx = Unsent
  OBVIOUS
<1> HIDE DEF r
<1>8. /\ e1.role = "rcv" /\ e1.ssrc = 1 /\ e1.out = rcv.out /\ e1.recoverAt = Never
      /\ e1.remote = 1 /\ e1.state = "CONNECTED" /\ e1.known /\ e1.sync = rcv.sync
  BY <1>0, <1>5 DEF Fields, Calm, Joined
<1>9. IsEnd(e1)
  <2>1. /\ e1.tries = rcv.tries /\ e1.wait = rcv.wait /\ e1.sequence = rcv.sequence /\ e1.data = rcv.data
        /\ e1.token = rcv.token /\ e1.last = rcv.last /\ e1.attempt = rcv.attempt /\ e1.remote = rcv.remote
        /\ e1.state = rcv.state /\ e1.role = rcv.role /\ e1.ssrc = rcv.ssrc /\ e1.out = rcv.out
    BY <1>5 DEF Fields
  <2> QED BY <1>0, <1>5, <2>1 DEF IsEnd
<1>10. q.e = e1 /\ q.tx["control"] = <<>> /\ q.tx["data"] = <<a>> /\ a \in Packet
  <2>1. Carried(e1, e1.remote)
    BY <1>8 DEF Carried, Calm
  <2>2. LET c == Control(r, "data", "CK2") IN c.e = e1 /\ Holds(c.tx, "data", a) /\ a \in Packet
    BY <1>7, <1>9, <2>1, ControlHolds DEF Sockets, Kinds
  <2> QED BY <1>6, <2>2 DEF Holds, Sockets
<1>11. a.kind = "CK2" /\ a.ssrc = 1
  BY <1>8 DEF Datagram
<1> HIDE DEF a, start
<1> DEFINE w == back \o <<a>>
<1>12. /\ rcv' = e1 /\ snd' = snd /\ net'["rcv"]["control"] = <<>> /\ net'["rcv"]["data"] = rest
       /\ net'["snd"]["control"] = <<>> /\ net'["snd"]["data"] = w
       /\ UNCHANGED <<up, changes, accepted, handled, heard>>
  BY <1>1, <1>8, <1>10 DEF Joined, q, Sockets, back
<1>13. /\ \A i \in 1..Len(back) : i \in 1..Len(w) /\ w[i] = back[i]
       /\ \A i \in 1..Len(w) : i \in 1..Len(back) \/ w[i] = a
  <2>1. back \in Seq(Packet) /\ a \in Packet
    BY <1>0, <1>10 DEF back
  <2> QED BY <2>1, Longer
<1> HIDE DEF w
<1>14. \A i \in 1..Len(w) : w[i].kind \in {"CK0", "CK2"} /\ w[i].ssrc = 1
  <2>1. \A i \in 1..Len(back) : back[i].kind \in {"CK0", "CK2"} /\ back[i].ssrc = 1
    BY DEF Joined, back
  <2> QED BY <1>11, <1>13, <2>1
<1>15. OnTheWay("snd", "CK0") => OnTheWay("snd", "CK0")'
  <2>1. OnTheWay("snd", "CK0") => \E i \in 1..Len(w) : w[i].kind = "CK0"
    BY <1>13 DEF OnTheWay, back
  <2> QED BY <1>12, <2>1 DEF OnTheWay
<1>16. \A i \in 1..Len(rest) : rest[i].kind \in {"CC", "CK1"} /\ rest[i].ssrc = 1
  BY <1>2 DEF Joined, row
<1>17. Calm'
  BY <1>8, <1>12 DEF Calm
<1>18. InTime'
  <2>1. /\ rcv.sync \in 0..SyncInterval /\ snd.quiet \in 0..SyncInterval
        /\ OnTheWay("snd", "CK0") \/ snd.quiet + rcv.sync <= SyncInterval
    BY DEF Joined, InTime
  <2>2. rcv'.quiet = 0 /\ rcv'.sync = rcv.sync /\ 0 \in 0..SyncInterval /\ 0 + rcv.sync <= SyncInterval
    BY <1>5, <1>8, <1>12, <2>1, TimeLimits
  <2> QED BY <1>12, <1>15, <2>1, <2>2 DEF InTime
<1>19. Joined'
  <2>1. /\ rcv'.known /\ changes' = <<>> /\ rcv'.state = "CONNECTED" /\ snd'.state = "CONNECTED"
        /\ snd'.remote = 1 /\ rcv'.remote = 1
        /\ net'["snd"]["control"] = <<>> /\ net'["rcv"]["control"] = <<>>
    BY <1>8, <1>12 DEF Joined
  <2>2. /\ \A i \in 1..Len(net'["snd"]["data"]) :
             net'["snd"]["data"][i].kind \in {"CK0", "CK2"} /\ net'["snd"]["data"][i].ssrc = 1
        /\ \A i \in 1..Len(net'["rcv"]["data"]) :
             net'["rcv"]["data"][i].kind \in {"CC", "CK1"} /\ net'["rcv"]["data"][i].ssrc = 1
    BY <1>12, <1>14, <1>16
  <2> QED BY <1>18, <2>1, <2>2 DEF Joined
<1> QED BY <1>1, <1>12, <1>17, <1>19 DEF row

\* The receiver passes a new Control Change on.
LEMMA ChangeArrives ==
  ASSUME MidiInv, Calm, Joined, net["rcv"]["data"] # <<>>, net["rcv"]["data"][1].kind = "CC",
         RtpIsNew(rcv, net["rcv"]["data"][1]), Receive("rcv", "data", 1, FALSE)
  PROVE  LET d == net["rcv"]["data"][1] IN
         /\ Joined' /\ Calm' /\ UNCHANGED <<snd, accepted>>
         /\ heard' = d.cc[2] /\ handled' = [handled EXCEPT ![d.cc[1]] = d.cc[2]]
         /\ Leaves(net'["rcv"]["data"], net["rcv"]["data"])
<1> DEFINE row == net["rcv"]["data"]
           back == net["snd"]["data"]
           d == row[1]
           start == [e |-> rcv, tx |-> Unsent]
           e1 == [rcv EXCEPT !.last = d.token, !.quiet = 0]
           r == [start EXCEPT !.e = e1]
<1>0. /\ rcv.role = "rcv" /\ DOMAIN rcv = Fields /\ row \in Seq(Packet) /\ back \in Seq(Packet)
  BY Rows DEF Roles, Sockets
<1>1. d.kind = "CC" /\ RtpIsNew(rcv, d)
  OBVIOUS
<1>2. PICK rest \in Seq(Packet), limited \in BOOLEAN :
        LET q == HandleDatagram(start, d, limited)
        IN  /\ Leaves(rest, row)
            /\ snd' = snd /\ rcv' = q.e
            /\ net'["rcv"]["data"] = rest /\ net'["rcv"]["control"] = net["rcv"]["control"]
            /\ \A z \in Sockets : q.tx[z] = <<>> => net'["snd"][z] = net["snd"][z]
            /\ heard' = d.cc[2] /\ handled' = [handled EXCEPT ![d.cc[1]] = d.cc[2]]
            /\ UNCHANGED <<up, changes, accepted>>
  <2> HIDE DEF row
  <2> QED BY <1>1, DataComes DEF row
<1> DEFINE q == HandleDatagram(start, d, limited)
<1>3. /\ Len(row) \in Nat /\ Len(rest) \in Nat
      /\ \A i \in 1..Len(rest) : i + 1 \in 1..Len(row) /\ rest[i] = row[i + 1]
      /\ \A i \in 1..Len(row) : i = 1 \/ (i - 1 \in 1..Len(rest) /\ rest[i - 1] = row[i])
  BY <1>0, <1>2, Leaving
<1> HIDE DEF d, row, back
<1>4. DOMAIN e1 = Fields /\ e1.quiet = 0 /\ \A f \in Fields \ {"quiet", "last"} : e1[f] = rcv[f]
  BY <1>0 DEF Fields
<1>5. q.e = e1 /\ \A z \in Sockets : q.tx[z] = <<>>
  <2>1. [start EXCEPT !.e.last = d.token, !.e.quiet = 0] = r
    OBVIOUS
  <2>2. start.e = rcv
    OBVIOUS
  <2>3. r.e = e1 /\ \A z \in Sockets : r.tx[z] = <<>>
    BY DEF Unsent
  <2> HIDE DEF r, start
  <2>4. q = r
    BY <1>1, <2>1, <2>2 DEF HandleDatagram
  <2> QED BY <2>3, <2>4
<1> HIDE DEF q, e1
<1>6. /\ e1.ssrc = 1 /\ e1.recoverAt = Never /\ e1.remote = 1 /\ e1.state = "CONNECTED" /\ e1.known
      /\ e1.sync = rcv.sync
  BY <1>4 DEF Fields, Calm, Joined
<1> HIDE DEF start
<1>7. /\ rcv' = e1 /\ snd' = snd /\ net'["rcv"]["control"] = <<>> /\ net'["rcv"]["data"] = rest
      /\ net'["snd"]["control"] = <<>> /\ net'["snd"]["data"] = back
      /\ UNCHANGED <<up, changes, accepted>>
  BY <1>2, <1>5 DEF Joined, q, Sockets, back
<1>8. \A i \in 1..Len(rest) : rest[i].kind \in {"CC", "CK1"} /\ rest[i].ssrc = 1
  <2>1. \A i \in 1..Len(row) : row[i].kind \in {"CC", "CK1"} /\ row[i].ssrc = 1
    BY DEF Joined, row
  <2> QED BY <1>3, <2>1
<1>9. Calm'
  BY <1>6, <1>7 DEF Calm
<1>10. InTime'
  <2>1. /\ rcv.sync \in 0..SyncInterval /\ snd.quiet \in 0..SyncInterval
        /\ OnTheWay("snd", "CK0") \/ snd.quiet + rcv.sync <= SyncInterval
    BY DEF Joined, InTime
  <2>2. rcv'.quiet = 0 /\ rcv'.sync = rcv.sync /\ 0 \in 0..SyncInterval /\ 0 + rcv.sync <= SyncInterval
    BY <1>4, <1>6, <1>7, <2>1, TimeLimits
  <2>3. OnTheWay("snd", "CK0")' <=> OnTheWay("snd", "CK0")
    BY <1>7 DEF OnTheWay, back
  <2> QED BY <1>7, <2>1, <2>2, <2>3 DEF InTime
<1>11. Joined'
  <2>1. /\ rcv'.known /\ changes' = <<>> /\ rcv'.state = "CONNECTED" /\ snd'.state = "CONNECTED"
        /\ snd'.remote = 1 /\ rcv'.remote = 1
        /\ net'["snd"]["control"] = <<>> /\ net'["rcv"]["control"] = <<>>
    BY <1>6, <1>7 DEF Joined
  <2>2. \A i \in 1..Len(back) : back[i].kind \in {"CK0", "CK2"} /\ back[i].ssrc = 1
    BY DEF Joined, back
  <2>3. /\ \A i \in 1..Len(net'["snd"]["data"]) :
             net'["snd"]["data"][i].kind \in {"CK0", "CK2"} /\ net'["snd"]["data"][i].ssrc = 1
        /\ \A i \in 1..Len(net'["rcv"]["data"]) :
             net'["rcv"]["data"][i].kind \in {"CC", "CK1"} /\ net'["rcv"]["data"][i].ssrc = 1
    BY <1>7, <1>8, <2>2
  <2> QED BY <1>10, <2>1, <2>3 DEF Joined
<1> QED BY <1>2, <1>7, <1>9, <1>11 DEF row, d

\* Where a datagram may be on the way.
LEMMA OnlyThere ==
  ASSUME NEW r \in Roles, NEW s \in Sockets, NEW q, NEW z, Only(q, z), net[r][s] # <<>>
  PROVE  r = q /\ s = z
BY DEF Only

\* One datagram that is no Control Change joins the row.
LEMMA FlowingGrows ==
  ASSUME NEW row \in Seq(Packet), NEW out \in Seq(Entry), NEW last, NEW passed, NEW made,
         Flowing(row, out, last, passed, made), NEW a \in Packet, ~IsCC(a)
  PROVE  Flowing(row \o <<a>>, out, last, passed, made)
<1> DEFINE more == <<a>>
<1>1. more \in Seq(Packet) /\ Len(more) = 1 /\ more[1] = a
  OBVIOUS
<1> HIDE DEF more
<1>2. \A i \in 1..Len(more) : ~IsCC(more[i])
  BY <1>1
<1>3. Flowing(row \o more, out, last, passed, made)
  BY <1>1, <1>2, FlowingJoined
<1> QED BY <1>3 DEF more

LEMMA ArrivalGoesOn ==
  ASSUME MaxCC <= SequenceWindow + 1, MidiInv, Calm, Stage, Flows, Arrives
  PROVE  Calm' /\ Stage' /\ Flows'
<1> DEFINE row == net["rcv"]["data"]
<1>1. PICK r \in Roles, s \in Sockets : net[r][s] # <<>> /\ Receive(r, s, 1, FALSE)
  BY DEF Arrives
<1>2. /\ row \in Seq(Packet) /\ snd.out \in Seq(Entry) /\ accepted \in [Bindings -> Nat]
      /\ heard \in Nat
  <2>1. accepted \in [Bindings -> 0..MaxCC] /\ heard \in 0..MaxCC /\ MaxCC \in Nat
    BY Limits DEF MidiInv
  <2> QED BY <2>1, Rows DEF IsEnd, Roles, Sockets
<1>3. CASE NotFound
  BY <1>1, <1>3 DEF NotFound
<1>4. CASE Calls
  <2>1. r = "snd" /\ s = "control"
    BY <1>1, <1>4, OnlyThere DEF Calls, Alone
  <2>2. /\ Granted' /\ Calm' /\ UNCHANGED <<accepted, handled, heard>> /\ snd'.out = snd.out
        /\ net'["rcv"]["data"] = net["rcv"]["data"]
    BY <1>1, <1>4, <2>1, InvitationArrives
  <2> QED BY <2>2 DEF Stage, Flows
<1>5. CASE Granted
  <2>1. r = "rcv" /\ s = "control"
    BY <1>1, <1>5, OnlyThere DEF Granted, Alone
  <2>2. /\ CallsAgain' /\ Calm' /\ UNCHANGED <<snd, accepted, handled, heard>>
        /\ net'["rcv"]["data"] = net["rcv"]["data"]
    BY <1>1, <1>5, <2>1, GrantArrives
  <2> QED BY <2>2 DEF Stage, Flows
<1>6. CASE CallsAgain
  <2>1. r = "snd" /\ s = "data"
    BY <1>1, <1>6, OnlyThere DEF CallsAgain, Alone
  <2>2. /\ Answered' /\ Calm' /\ UNCHANGED <<accepted, handled, heard>> /\ snd'.out = snd.out
        /\ \E a \in Packet : a.kind = "OK" /\ net'["rcv"]["data"] = row \o <<a>>
    BY <1>1, <1>6, <2>1, SecondInvitationArrives
  <2>3. PICK a \in Packet : a.kind = "OK" /\ net'["rcv"]["data"] = row \o <<a>>
    BY <2>2
  <2> QED BY <1>2, <2>2, <2>3, FlowingGrows DEF Stage, Flows, IsCC
<1>7. CASE Answered
  <2>1. r = "rcv" /\ s = "data"
    BY <1>1, <1>7, OnlyThere DEF Answered
  <2>2. /\ Joined' /\ Calm' /\ UNCHANGED <<snd, accepted, handled, heard>>
        /\ Leaves(net'["rcv"]["data"], row) /\ row[1].kind = "OK"
    BY <1>1, <1>7, <2>1, AnswerArrives
  <2>3. Flowing(net'["rcv"]["data"], snd.out, heard, handled, accepted)
    <3> HIDE DEF row
    <3>1. ~IsCC(row[1]) /\ Flowing(row, snd.out, heard, handled, accepted)
      BY <2>2 DEF IsCC, Flows, row
    <3> QED BY <1>2, <2>2, <3>1, FlowingTaken DEF Leaves
  <2> QED BY <2>2, <2>3 DEF Stage, Flows
<1>8. CASE Joined
  <2>1. s = "data"
    BY <1>1, <1>8 DEF Joined, Roles, Sockets
  <2>2. CASE r = "snd"
    <3>1. /\ Joined' /\ Calm' /\ UNCHANGED <<accepted, handled, heard>> /\ snd'.out = snd.out
          /\ \/ net'["rcv"]["data"] = row
             \/ \E a \in Packet : a.kind = "CK1" /\ net'["rcv"]["data"] = row \o <<a>>
      BY <1>1, <1>8, <2>1, <2>2, SyncArrives
    <3>2. Flowing(net'["rcv"]["data"], snd.out, heard, handled, accepted)
      <4>1. CASE net'["rcv"]["data"] = row
        BY <4>1 DEF Flows
      <4>2. CASE \E a \in Packet : a.kind = "CK1" /\ net'["rcv"]["data"] = row \o <<a>>
        <5>1. PICK a \in Packet : a.kind = "CK1" /\ net'["rcv"]["data"] = row \o <<a>>
          BY <4>2
        <5> QED BY <1>2, <5>1, FlowingGrows DEF Flows, IsCC
      <4> QED BY <3>1, <4>1, <4>2
    <3> QED BY <3>1, <3>2 DEF Stage, Flows
  <2>3. CASE r = "rcv" /\ row[1].kind # "CC"
    <3>1. /\ Joined' /\ Calm' /\ UNCHANGED <<snd, accepted, handled, heard>>
          /\ Leaves(net'["rcv"]["data"], row)
      BY <1>1, <1>8, <2>1, <2>3, SyncReturns
    <3>2. Flowing(net'["rcv"]["data"], snd.out, heard, handled, accepted)
      <4> HIDE DEF row
      <4>1. ~IsCC(row[1]) /\ Flowing(row, snd.out, heard, handled, accepted)
        BY <2>3 DEF IsCC, Flows, row
      <4> QED BY <1>2, <3>1, <4>1, FlowingTaken DEF Leaves
    <3> QED BY <3>1, <3>2 DEF Stage, Flows
  <2>4. CASE r = "rcv" /\ row[1].kind = "CC"
    <3> DEFINE d == row[1]
    <3>1. 1 \in 1..Len(row) /\ Len(row) \in Nat
      BY <1>1, <1>2, <2>1, <2>4, EmptySeq, LenProperties
    <3>2. heard < d.cc[2]
      BY <2>4, <3>1 DEF Flows, Flowing, IsCC
    <3>3. RtpIsNew(rcv, d)
      BY <1>8, <2>4, <3>1, <3>2, LaterIsNew DEF Joined
    <3>4. /\ Joined' /\ Calm' /\ UNCHANGED <<snd, accepted>>
          /\ heard' = d.cc[2] /\ handled' = [handled EXCEPT ![d.cc[1]] = d.cc[2]]
          /\ Leaves(net'["rcv"]["data"], row)
      BY <1>1, <1>8, <2>1, <2>4, <3>3, ChangeArrives
    <3>5. Flowing(net'["rcv"]["data"], snd.out, d.cc[2], [handled EXCEPT ![d.cc[1]] = d.cc[2]], accepted)
      <4> HIDE DEF row
      <4>1. IsCC(row[1]) /\ Flowing(row, snd.out, heard, handled, accepted) /\ Len(row) >= 1
        BY <2>4, <3>1 DEF IsCC, Flows, row
      <4> QED BY <1>2, <3>4, <4>1, FlowingPassed DEF Leaves
    <3> QED BY <3>4, <3>5 DEF Stage, Flows
  <2> QED BY <2>2, <2>3, <2>4 DEF Roles
<1> QED BY <1>3, <1>4, <1>5, <1>6, <1>7, <1>8 DEF Stage

-----------------------------------------------------------------------------
\* What a stage speaks of.
LEMMA StageStays ==
  ASSUME Stage, changes' = changes,
         \A f \in {"state", "remote", "token", "quiet", "recent"} : snd'[f] = snd[f],
         \A f \in {"state", "remote", "token", "quiet", "known", "wait", "sync"} : rcv'[f] = rcv[f],
         \A r \in Roles, s \in Sockets : net'[r][s] = net[r][s]
  PROVE  Stage'
<1>1. /\ snd'.state = snd.state /\ snd'.remote = snd.remote /\ snd'.token = snd.token
      /\ snd'.quiet = snd.quiet /\ snd'.recent = snd.recent
      /\ rcv'.state = rcv.state /\ rcv'.remote = rcv.remote /\ rcv'.token = rcv.token
      /\ rcv'.quiet = rcv.quiet /\ rcv'.known = rcv.known /\ rcv'.wait = rcv.wait /\ rcv'.sync = rcv.sync
  OBVIOUS
<1>2. (Waits => Waits') /\ (Called => Called')
  BY <1>1 DEF Waits, Called
<1>3. \A r \in Roles, s \in Sockets : Only(r, s) => Only(r, s)'
  BY DEF Only
<1>4. \A r \in Roles, s \in Sockets, kind \in Kinds : Alone(r, s, kind) => Alone(r, s, kind)'
  BY <1>1, <1>3 DEF Alone, About
<1>5. CASE NotFound
  BY <1>1, <1>5 DEF NotFound, Stage
<1>6. CASE Calls
  BY <1>1, <1>2, <1>4, <1>6 DEF Calls, Stage, Roles, Sockets, Kinds
<1>7. CASE Granted
  BY <1>1, <1>2, <1>4, <1>7 DEF Granted, Stage, Roles, Sockets, Kinds
<1>8. CASE CallsAgain
  BY <1>1, <1>2, <1>4, <1>8 DEF CallsAgain, Stage, Roles, Sockets, Kinds
<1>9. CASE Answered
  BY <1>1, <1>2, <1>3, <1>9 DEF Answered, About, Stage, Roles, Sockets, Kinds
<1>10. CASE Joined
  <2>1. InTime'
    <3>1. InTime /\ \A r \in Roles, kind \in Kinds : OnTheWay(r, kind)' <=> OnTheWay(r, kind)
      BY <1>10 DEF Joined, OnTheWay, Sockets
    <3> QED BY <1>1, <3>1 DEF InTime, Roles, Kinds
  <2> QED BY <1>1, <1>10, <2>1 DEF Joined, Stage, Roles, Sockets, Kinds
<1> QED BY <1>5, <1>6, <1>7, <1>8, <1>9, <1>10 DEF Stage

LEMMA QueueingGoesOn ==
  ASSUME MidiInv, Calm, Stage, Flows, NEW b \in Bindings, QueueCC(b)
  PROVE  Calm' /\ Stage' /\ Flows'
<1> DEFINE n == Newest + 1
           waiting == {i \in DOMAIN snd.out : snd.out[i].cc[1] = b}
           others == IF waiting = {} THEN snd.out ELSE RemoveAt(snd.out, Max(waiting))
           entry == [sequence |-> snd.sequence, cc |-> <<b, n>>]
           row == net["rcv"]["data"]
<1>1. /\ IsEnd(snd) /\ DOMAIN snd = Fields /\ row \in Seq(Packet)
      /\ accepted \in [Bindings -> 0..MaxCC] /\ heard \in 0..MaxCC /\ MaxCC \in Nat
  BY Rows, Limits DEF MidiInv, Roles, Sockets
<1>2. Newest \in 0..MaxCC /\ (\A c \in Bindings : accepted[c] <= Newest) /\ n \in Nat
  BY <1>1, NewestIsNumber
<1>3. snd.out \in Seq(Entry) /\ Len(snd.out) \in Nat /\ DOMAIN snd.out = 1..Len(snd.out)
  BY <1>1, LenProperties DEF IsEnd
<1>4. /\ snd' = [snd EXCEPT !.sequence = (@ + 1) % SequenceModulus, !.out = Append(others, entry)]
      /\ accepted' = [accepted EXCEPT ![b] = n]
      /\ UNCHANGED <<rcv, net, up, changes, handled, heard, faults>>
  BY DEF QueueCC
<1>5. /\ others \in Seq(Entry)
      /\ \/ others = snd.out
         \/ \E k \in 1..Len(snd.out) : others = RemoveAt(snd.out, k) /\ snd.out[k].cc[1] = b
  <2>1. CASE waiting = {}
    BY <1>3, <2>1
  <2>2. CASE waiting # {}
    <3> DEFINE k == Max(waiting)
    <3>1. waiting \subseteq 0..Len(snd.out)
      BY <1>3
    <3>2. k \in waiting
      <4> HIDE DEF waiting
      <4> QED BY <1>3, <2>2, <3>1, Largest
    <3> HIDE DEF k
    <3>3. k \in 1..Len(snd.out) /\ snd.out[k].cc[1] = b
      BY <1>3, <3>2
    <3>4. RemoveAt(snd.out, k) \in Seq(Entry)
      BY <1>3, <3>3, Removed
    <3> HIDE DEF waiting
    <3> QED BY <2>2, <3>3, <3>4 DEF k
  <2> QED BY <2>1, <2>2
<1> HIDE DEF others, waiting
<1>6. entry \in Entry /\ entry.cc = <<b, n>>
  <2>1. snd.sequence \in Numbers
    BY <1>1 DEF IsEnd
  <2> HIDE DEF n
  <2> QED BY <1>2, <2>1 DEF Entry, CCs
<1>7. /\ DOMAIN snd' = Fields /\ snd'.out = Append(others, entry)
      /\ \A f \in Fields \ {"sequence", "out"} : snd'[f] = snd[f]
  BY <1>1, <1>4 DEF Fields
<1> HIDE DEF entry
<1>8. accepted \in [Bindings -> Nat] /\ heard \in Nat /\ handled \in [Bindings -> Nat]
  BY <1>1 DEF Flows, Flowing
<1>9. /\ \A i \in 1..Len(row) : IsCC(row[i]) => row[i].cc[2] < n
      /\ \A i \in 1..Len(snd.out) : snd.out[i].cc[2] < n
      /\ heard < n
  <2>1. PICK base \in [Nat -> Numbers] : Ordered(base)
    BY DEF MidiInv
  <2>2. ASSUME NEW i \in 1..Len(row), IsCC(row[i]) PROVE row[i].cc[2] < n
    <3>1. row \in Seq(Fit(base, snd.ssrc, Newest))
      BY <2>1 DEF Ordered, Sockets
    <3>2. row[i] \in Fit(base, snd.ssrc, Newest)
      BY <3>1, ElementOfSeq
    <3>3. row[i].cc[2] \in 1..Newest
      BY <2>2, <3>2 DEF Fit, IsCC
    <3> QED BY <1>2, <3>3
  <2>3. \A i \in 1..Len(snd.out) : snd.out[i].cc[2] \in 1..Newest
    BY <2>1 DEF Ordered
  <2>4. heard \in 0..Newest
    BY <1>2, <2>1 DEF Ordered
  <2> QED BY <1>2, <2>2, <2>3, <2>4
<1>10. Flowing(row, Append(others, entry), heard, handled, [accepted EXCEPT ![b] = n])
  <2> HIDE DEF row, n
  <2>1. Flowing(row, snd.out, heard, handled, accepted)
    BY DEF Flows, row
  <2> QED BY <1>1, <1>2, <1>3, <1>5, <1>6, <1>8, <1>9, <2>1, FlowingQueued
<1>11. Flows'
  BY <1>4, <1>7, <1>10 DEF Flows
<1>12. Stage'
  BY <1>4, <1>7, StageStays DEF Fields
<1>13. Calm'
  BY <1>4, <1>7 DEF Calm, Fields
<1> QED BY <1>11, <1>12, <1>13

\* The sender flushes its queue when it is connected.
LEMMA SenderPollGoesOn ==
  ASSUME MidiInv, Calm, Stage, Flows, Poll("snd")
  PROVE  Calm' /\ Stage' /\ Flows'
<1> DEFINE row == net["rcv"]["data"]
           w == Flushed(snd)
<1>1. /\ \A f \in Fields \ {"out", "was", "recovery", "recoverAt"} : snd'[f] = snd[f]
      /\ snd'.recoverAt = Never /\ (snd'.was => snd'.state = "CONNECTED")
      /\ UNCHANGED <<rcv, up, changes, accepted, handled, heard, faults>>
      /\ net'["snd"] = net["snd"] /\ net'["rcv"]["control"] = net["rcv"]["control"]
      /\ \/ snd'.out = snd.out /\ net'["rcv"]["data"] = row
         \/ snd.state = "CONNECTED" /\ snd'.out = <<>> /\ net'["rcv"]["data"] = row \o w
  BY SenderPolls
<1>2. /\ snd'.state = snd.state /\ snd'.remote = snd.remote /\ snd'.token = snd.token
      /\ snd'.quiet = snd.quiet /\ snd'.recent = snd.recent /\ snd'.ssrc = snd.ssrc
  BY <1>1 DEF Fields
<1>3. Calm'
  BY <1>1, <1>2 DEF Calm
<1>4. CASE snd'.out = snd.out /\ net'["rcv"]["data"] = row
  <2>1. \A r \in Roles, s \in Sockets : net'[r][s] = net[r][s]
    BY <1>1, <1>4 DEF Roles, Sockets
  <2>2. Stage'
    BY <1>1, <1>2, <2>1, StageStays
  <2> QED BY <1>1, <1>3, <1>4, <2>2 DEF Flows
<1>5. CASE snd.state = "CONNECTED" /\ snd'.out = <<>> /\ net'["rcv"]["data"] = row \o w
  <2>1. /\ row \in Seq(Packet) /\ IsEnd(snd) /\ snd.ssrc = 1
    BY Rows DEF Roles, Sockets, Calm
  <2>2. /\ w \in Seq(Packet) /\ Len(w) = Len(snd.out)
        /\ \A i \in 1..Len(w) : w[i].kind = "CC" /\ w[i].cc = snd.out[i].cc /\ w[i].ssrc = 1
    BY <2>1, FlushedRow
  <2> HIDE DEF row, w
  <2>3. Flows'
    <3>1. Flowing(row \o w, <<>>, heard, handled, accepted)
      <4>1. snd.out \in Seq(Entry) /\ Flowing(row, snd.out, heard, handled, accepted)
        BY <2>1 DEF IsEnd, Flows, row
      <4> QED BY <2>1, <2>2, <4>1, FlowingFlushed DEF IsCC
    <3> QED BY <1>1, <1>5, <3>1 DEF Flows
  <2> DEFINE z == row \o w
  <2>4. /\ Len(row) \in Nat /\ Len(w) \in Nat /\ Len(z) = Len(row) + Len(w)
        /\ \A i \in 1..Len(z) : z[i] = IF i <= Len(row) THEN row[i] ELSE w[i - Len(row)]
    BY <2>1, <2>2, Concatenated
  <2> HIDE DEF z
  <2>5. /\ \A i \in 1..Len(row) : i \in 1..Len(z) /\ z[i] = row[i]
        /\ \A i \in 1..Len(z) : i \in 1..Len(row) \/ (i - Len(row) \in 1..Len(w) /\ z[i] = w[i - Len(row)])
    BY <2>4
  <2>6. \A i \in 1..Len(z) : (i \in 1..Len(row) /\ z[i] = row[i]) \/ (z[i].kind = "CC" /\ z[i].ssrc = 1)
    BY <2>2, <2>5
  <2>7. net'["rcv"]["data"] = z
    BY <1>5 DEF z
  <2>8. CASE Answered
    <3>1. 1 \in 1..Len(row) /\ z[1] = row[1] /\ Len(z) >= 1
      BY <2>4, <2>5, <2>8 DEF Answered, row
    <3>2. \A i \in 2..Len(z) : z[i].kind = "CC"
      <4> SUFFICES ASSUME NEW i \in 2..Len(z), i \in 1..Len(row), z[i] = row[i] PROVE z[i].kind = "CC"
        <5>1. \A i \in 2..Len(z) : i \in 1..Len(z)
          BY <2>4
        <5> QED BY <2>6, <5>1
      <4>1. i \in 2..Len(row)
        BY <2>4
      <4> QED BY <2>8, <4>1 DEF Answered, row
    <3>3. Only("rcv", "data")'
      BY <1>1, <2>8 DEF Answered, Only, Roles, Sockets
    <3>4. About(net["rcv"]["data"][1], "data", "OK")'
      <4>1. About(row[1], "data", "OK") /\ net'["rcv"]["data"][1] = row[1] /\ rcv' = rcv
        BY <1>1, <2>7, <2>8, <3>1 DEF Answered, row
      <4> QED BY <4>1 DEF About
    <3>5. Waits' /\ Called'
      BY <1>1, <1>2, <2>8 DEF Answered, Waits, Called
    <3>6. Answered'
      BY <1>1, <1>2, <2>7, <2>8, <3>1, <3>2, <3>3, <3>4, <3>5 DEF Answered
    <3> QED BY <1>3, <2>3, <3>6 DEF Stage
  <2>9. CASE Joined
    <3>1. \A i \in 1..Len(z) : z[i].kind \in {"CC", "CK1"} /\ z[i].ssrc = 1
      <4>1. \A i \in 1..Len(row) : row[i].kind \in {"CC", "CK1"} /\ row[i].ssrc = 1
        BY <2>9 DEF Joined, row
      <4> QED BY <2>6, <4>1
    <3>2. OnTheWay("rcv", "CK1") => OnTheWay("rcv", "CK1")'
      <4>1. OnTheWay("rcv", "CK1") => \E i \in 1..Len(z) : z[i].kind = "CK1"
        BY <2>5 DEF OnTheWay, row
      <4> QED BY <2>7, <4>1 DEF OnTheWay
    <3>3. OnTheWay("snd", "CK0")' <=> OnTheWay("snd", "CK0")
      BY <1>1 DEF OnTheWay
    <3>4. InTime'
      BY <1>1, <1>2, <2>9, <3>2, <3>3 DEF Joined, InTime
    <3>5. Joined'
      BY <1>1, <1>2, <2>7, <2>9, <3>1, <3>4 DEF Joined
    <3> QED BY <1>3, <2>3, <3>5 DEF Stage
  <2> QED BY <1>5, <2>8, <2>9 DEF Stage, NotFound, Calls, Granted, CallsAgain
<1> QED BY <1>1, <1>4, <1>5

\* The receiver finds the sender, waits for its answer, or synchronizes when it is time.
LEMMA ReceiverPollGoesOn ==
  ASSUME MidiInv, Calm, Stage, Flows, Poll("rcv")
  PROVE  Calm' /\ Stage' /\ Flows'
<1>1. CASE NotFound
  BY <1>1, ReceiverFinds DEF Stage, Flows
<1>2. CASE ~NotFound
  <2> DEFINE back == net["snd"]["data"]
             now == rcv.state = "CONNECTED" /\ rcv.sync = 0
  <2>1. /\ \A f \in Fields \ {"was", "recovery", "recoverAt", "sync"} : rcv'[f] = rcv[f]
        /\ rcv'.recoverAt = Never /\ (rcv'.was => rcv'.state = "CONNECTED")
        /\ UNCHANGED <<snd, up, changes, accepted, handled, heard, faults>>
        /\ net'["rcv"] = net["rcv"] /\ net'["snd"]["control"] = net["snd"]["control"]
        /\ IF now
           THEN rcv'.sync = SyncInterval
                /\ \E d \in Packet : d.kind = "CK0" /\ d.ssrc = 1 /\ net'["snd"]["data"] = back \o <<d>>
           ELSE rcv'.sync = rcv.sync /\ net'["snd"]["data"] = back
    BY <1>2, ReceiverPolls
  <2>2. /\ rcv'.state = rcv.state /\ rcv'.remote = rcv.remote /\ rcv'.token = rcv.token
        /\ rcv'.quiet = rcv.quiet /\ rcv'.known = rcv.known /\ rcv'.wait = rcv.wait
        /\ rcv'.ssrc = rcv.ssrc
    BY <2>1 DEF Fields
  <2>3. Calm'
    BY <2>1, <2>2 DEF Calm
  <2>4. Flows'
    BY <2>1 DEF Flows
  <2>5. CASE ~now
    <3>1. \A r \in Roles, s \in Sockets : net'[r][s] = net[r][s]
      BY <2>1, <2>5 DEF Roles, Sockets
    <3>2. rcv'.sync = rcv.sync
      BY <2>1, <2>5
    <3>3. \A f \in {"state", "remote", "token", "quiet", "known", "wait", "sync"} : rcv'[f] = rcv[f]
      BY <2>2, <3>2
    <3>4. Stage'
      BY <2>1, <3>1, <3>3, StageStays
    <3> QED BY <2>3, <2>4, <3>4
  <2>6. CASE now
    <3>1. Joined
      BY <1>2, <2>6, ReceiverIsCalm
    <3>2. PICK d \in Packet : d.kind = "CK0" /\ d.ssrc = 1 /\ net'["snd"]["data"] = back \o <<d>>
      BY <2>1, <2>6
    <3> DEFINE w == back \o <<d>>
    <3>3. back \in Seq(Packet)
      BY Rows DEF Roles, Sockets
    <3>4. /\ Len(back) + 1 \in 1..Len(w) /\ w[Len(back) + 1] = d
          /\ \A i \in 1..Len(w) : i \in 1..Len(back) \/ w[i] = d
          /\ \A i \in 1..Len(back) : w[i] = back[i]
      <4> HIDE DEF back
      <4> QED BY <3>3, Longer
    <3> HIDE DEF w, back
    <3>5. net'["snd"]["data"] = w
      BY <3>2 DEF w
    <3>6. OnTheWay("snd", "CK0")'
      BY <3>2, <3>4, <3>5 DEF OnTheWay
    <3>7. \A i \in 1..Len(w) : w[i].kind \in {"CK0", "CK2"} /\ w[i].ssrc = 1
      <4>1. \A i \in 1..Len(back) : back[i].kind \in {"CK0", "CK2"} /\ back[i].ssrc = 1
        BY <3>1 DEF Joined, back
      <4> QED BY <3>2, <3>4, <4>1
    <3>8. InTime'
      <4>1. snd.quiet \in 0..SyncInterval /\ rcv.quiet \in 0..SyncInterval
        BY <3>1 DEF Joined, InTime
      <4>2. rcv'.sync = SyncInterval /\ SyncInterval \in 0..SyncInterval
        BY <2>1, <2>6, TimeLimits
      <4> QED BY <2>1, <2>2, <3>6, <4>1, <4>2 DEF InTime
    <3>9. Joined'
      BY <2>1, <2>2, <3>1, <3>5, <3>7, <3>8 DEF Joined
    <3> QED BY <2>3, <2>4, <3>9 DEF Stage
  <2> QED BY <2>5, <2>6
<1> QED BY <1>1, <1>2

\* Time passes only in the session, and not when the receiver has to synchronize.
LEMMA TickGoesOn ==
  ASSUME MidiInv, Calm, Stage, Flows, Tick
  PROVE  Calm' /\ Stage' /\ Flows'
<1>1. /\ changes = <<>> /\ (\A r \in Roles, s \in Sockets : net[r][s] = <<>>)
      /\ Polled("rcv").tx = Unsent
      /\ snd' = Aged(snd) /\ rcv' = Aged(rcv)
      /\ UNCHANGED <<net, up, changes, accepted, handled, heard, faults>>
  BY DEF Tick, AllSettled, Elapse, Roles
<1>2. Len(<<>>) = 0 /\ <<"add">> # <<>> /\ 1..0 = {}
  OBVIOUS
<1>3. Joined
  BY <1>1, <1>2 DEF Stage, NotFound, Calls, Granted, CallsAgain, Answered, Alone, Roles, Sockets
<1>4. rcv.sync # 0
  <2> SUFFICES ASSUME rcv.sync = 0 PROVE FALSE
    OBVIOUS
  <2> DEFINE p == Polled("rcv")
             d == Datagram(p.e, "data", "CK0", p.e.token, <<>>)
  <2>1. ~NotFound
    BY <1>1, <1>2 DEF NotFound
  <2>2. Holds(p.tx, "data", d)
    BY <1>3, <2>1, ReceiverPolled DEF Joined
  <2> HIDE DEF d
  <2>3. <<d>> # <<>>
    OBVIOUS
  <2> QED BY <1>1, <2>2, <2>3 DEF Holds, Unsent, Sockets
<1>5. DOMAIN snd = Fields /\ DOMAIN rcv = Fields
  BY Rows
<1>6. ASSUME NEW e, DOMAIN e = Fields
      PROVE  /\ \A f \in {"state", "remote", "token", "ssrc", "was", "known", "out"} : Aged(e)[f] = e[f]
             /\ Aged(e).quiet = (IF e.token # 0 THEN Least(e.quiet + 1, InactivityTimeout) ELSE e.quiet)
             /\ Aged(e).sync = (IF e.sync > 0 THEN e.sync - 1 ELSE e.sync)
             /\ Aged(e).recoverAt = (IF e.recoverAt > 0 THEN e.recoverAt - 1 ELSE e.recoverAt)
  BY <1>6 DEF Aged, Fields
<1>7. /\ snd'.state = snd.state /\ snd'.remote = snd.remote /\ snd'.ssrc = snd.ssrc /\ snd'.was = snd.was
      /\ snd'.out = snd.out
      /\ rcv'.state = rcv.state /\ rcv'.remote = rcv.remote /\ rcv'.ssrc = rcv.ssrc /\ rcv'.was = rcv.was
      /\ rcv'.known = rcv.known
  BY <1>1, <1>5, <1>6
<1>8. snd'.recoverAt = Never /\ rcv'.recoverAt = Never
  <2>1. ~(Never > 0)
    BY DEF Never
  <2> QED BY <1>1, <1>5, <1>6, <2>1 DEF Calm
<1>9. Calm'
  BY <1>1, <1>7, <1>8 DEF Calm
<1>10. Flows'
  BY <1>1, <1>7 DEF Flows
<1>11. ~OnTheWay("snd", "CK0") /\ ~OnTheWay("rcv", "CK1")
  BY <1>1, <1>2 DEF OnTheWay, Roles, Sockets
<1>12. InTime'
  <2>1. /\ rcv.sync \in 1..SyncInterval /\ snd.quiet \in Nat /\ rcv.quiet \in Nat /\ SyncInterval \in Nat
        /\ InactivityTimeout \in Nat
        /\ snd.quiet + rcv.sync <= SyncInterval /\ rcv.quiet + rcv.sync <= SyncInterval
    BY <1>3, <1>4, <1>11, TimeLimits DEF Joined, InTime
  <2>2. rcv'.sync = rcv.sync - 1
    BY <1>1, <1>5, <1>6, <2>1
  <2>3. ASSUME NEW q \in Nat, q + rcv.sync <= SyncInterval, NEW t,
               NEW x, x = IF t # 0 THEN Least(q + 1, InactivityTimeout) ELSE q
        PROVE  x \in 0..SyncInterval /\ x + (rcv.sync - 1) <= SyncInterval
    BY <2>1, <2>3 DEF Least
  <2>4. /\ snd'.quiet \in 0..SyncInterval /\ snd'.quiet + rcv'.sync <= SyncInterval
        /\ rcv'.quiet \in 0..SyncInterval /\ rcv'.quiet + rcv'.sync <= SyncInterval
    <3>1. /\ snd'.quiet = (IF snd.token # 0 THEN Least(snd.quiet + 1, InactivityTimeout) ELSE snd.quiet)
          /\ rcv'.quiet = (IF rcv.token # 0 THEN Least(rcv.quiet + 1, InactivityTimeout) ELSE rcv.quiet)
      BY <1>1, <1>5, <1>6
    <3>2. snd'.quiet \in 0..SyncInterval /\ snd'.quiet + (rcv.sync - 1) <= SyncInterval
      BY <2>1, <2>3, <3>1
    <3>3. rcv'.quiet \in 0..SyncInterval /\ rcv'.quiet + (rcv.sync - 1) <= SyncInterval
      BY <2>1, <2>3, <3>1
    <3> QED BY <2>2, <3>2, <3>3
  <2>5. rcv'.sync \in 0..SyncInterval
    BY <2>1, <2>2
  <2> QED BY <2>4, <2>5 DEF InTime
<1>13. Joined'
  BY <1>1, <1>3, <1>7, <1>12 DEF Joined
<1> QED BY <1>9, <1>10, <1>13 DEF Stage

-----------------------------------------------------------------------------
LEMMA UndisturbedBegins == Init => Undisturbed
<1> SUFFICES ASSUME Init PROVE Calm /\ Stage /\ Flows
  BY DEF Undisturbed
<1>1. /\ snd = Fresh("snd", 1) /\ rcv = Fresh("rcv", 1) /\ up = TRUE /\ changes = <<"add">>
      /\ net = [r \in Roles |-> [s \in Sockets |-> <<>>]]
      /\ accepted = [b \in Bindings |-> 0] /\ handled = accepted /\ heard = 0
  BY DEF Init
<1>2. \A e \in {snd, rcv} : /\ e.state = "IDLE" /\ e.ssrc = 1 /\ e.remote = NoPeer /\ e.recoverAt = Never
                            /\ ~e.was /\ ~e.known /\ ~e.recent /\ e.out = <<>>
  BY <1>1 DEF Fresh
<1>3. \A r \in Roles, s \in Sockets : net[r][s] = <<>>
  BY <1>1
<1>4. Calm
  BY <1>1, <1>2 DEF Calm
<1>5. NotFound
  BY <1>1, <1>2, <1>3 DEF NotFound
<1>6. Flows
  <2>1. net["rcv"]["data"] = <<>> /\ snd.out = <<>>
    BY <1>2, <1>3 DEF Roles, Sockets
  <2>2. Len(<<>>) = 0 /\ 1..0 = {}
    OBVIOUS
  <2>3. accepted \in [Bindings -> Nat] /\ \A b \in Bindings : accepted[b] = 0
    BY <1>1
  <2> QED BY <1>1, <2>1, <2>2, <2>3 DEF Flows, Flowing
<1> QED BY <1>4, <1>5, <1>6 DEF Stage

LEMMA UndisturbedSteps ==
  ASSUME MaxCC <= SequenceWindow + 1, MidiInv, Undisturbed, [Next]_vars
  PROVE  Undisturbed'
<1> SUFFICES ASSUME faults' = 0 PROVE Calm' /\ Stage' /\ Flows'
  BY DEF Undisturbed
<1>1. ~Fault
  BY DEF Fault, MidiInv
<1>2. faults = 0
  BY <1>1 DEF Next, vars, QueueCC, Arrives, ArrivesTwice, Overtakes, IsLost, Poll, SenderRestarts,
              ReceiverRestarts, ServiceExpires, NetworkFails, NetworkReturns, Tick, SlowTick
<1>3. Calm /\ Stage /\ Flows
  BY <1>2 DEF Undisturbed
<1>4. CASE UNCHANGED vars
  BY <1>3, <1>4 DEF vars, Calm, Stage, Flows, NotFound, Calls, Granted, CallsAgain, Answered, Joined,
     Waits, Called, Alone, Only, About, InTime, OnTheWay
<1>5. ASSUME NEW b \in Bindings, QueueCC(b) PROVE Calm' /\ Stage' /\ Flows'
  BY <1>3, <1>5, QueueingGoesOn
<1>6. CASE Arrives
  BY <1>3, <1>6, ArrivalGoesOn
<1>7. ASSUME NEW r \in Roles, Poll(r) PROVE Calm' /\ Stage' /\ Flows'
  BY <1>3, <1>7, SenderPollGoesOn, ReceiverPollGoesOn DEF Roles
<1>8. CASE Tick
  BY <1>3, <1>8, TickGoesOn
<1>9. CASE NetworkReturns
  BY <1>3, <1>9 DEF NetworkReturns, Calm
<1> QED BY <1>1, <1>4, <1>5, <1>6, <1>7, <1>8, <1>9 DEF Next, ArrivesTwice, Overtakes, IsLost,
           SenderRestarts, ReceiverRestarts, ServiceExpires, NetworkFails, SlowTick

(* Without faults every Control Change queued, before the session or in    *)
(* it, is passed on or superseded by a newer one of its binding, and no    *)
(* time limit ends the session: the receiver synchronizes in time and the  *)
(* sender answers (send_cc_with_sequence, _flush_outgoing, _handle_rtp and *)
(* _advance_timers of remote_midi.py).  It needs that no more Control      *)
(* Changes are made than the window of sequence numbers tells apart: of a  *)
(* longer run coalesced in the queue, the one left is refused.             *)
THEOREM NewestDelivered ==
  ASSUME MaxCC <= SequenceWindow + 1
  PROVE  Spec => []NewestArrives
<1>1. Init => Undisturbed
  BY UndisturbedBegins
<1>2. MidiInv /\ Undisturbed /\ [Next]_vars => Undisturbed'
  BY UndisturbedSteps
<1>3. MidiInv /\ Undisturbed => NewestArrives
  <2> SUFFICES ASSUME MidiInv, Undisturbed, faults = 0
               PROVE  /\ rcv.state # "BACKOFF"
                      /\ snd.out = <<>> /\ net["rcv"]["data"] = <<>> => handled = accepted
    BY DEF NewestArrives
  <2>1. Stage /\ Flows
    BY DEF Undisturbed
  <2>2. rcv.state # "BACKOFF"
    BY <2>1 DEF Stage, NotFound, Calls, Granted, CallsAgain, Answered, Joined
  <2>3. ASSUME snd.out = <<>>, net["rcv"]["data"] = <<>> PROVE handled = accepted
    <3>1. Len(<<>>) = 0 /\ 1..0 = {}
      OBVIOUS
    <3>2. \A b \in Bindings : handled[b] = accepted[b]
      BY <2>1, <2>3, <3>1 DEF Flows, Flowing
    <3>3. handled \in [Bindings -> Nat] /\ accepted \in [Bindings -> 0..MaxCC]
      BY <2>1 DEF Flows, Flowing, MidiInv
    <3> QED BY <3>2, <3>3
  <2> QED BY <2>2, <2>3
<1> QED BY <1>1, <1>2, <1>3, MidiInvariant, PTL DEF Spec
=============================================================================
