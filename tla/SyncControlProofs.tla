------------------------- MODULE SyncControlProofs -------------------------
(***************************************************************************)
(* The control connection implements the channel its users rely on, for    *)
(* any number of connections, sessions, messages, restarts and losses, any *)
(* queue limits and any timeouts.                                          *)
(*                                                                         *)
(* The channel promises only what is handed on: of a message it matters    *)
(* where it can still be, in the sender's queue, on the way, in the frames *)
(* a poll has read and not handed on, in a connection that was never       *)
(* accepted or that the other end has left.  SyncInv says it of all of     *)
(* them at once:                                                           *)
(*                                                                         *)
(* Types  each end is consistent in itself (IsEnd): its socket, status,    *)
(*        session and deadline go together, which is NeverStuck and more.  *)
(* Told   what an owner was told of is the session its end is in, or was   *)
(*        in until it closed since the last poll (Informed); a session     *)
(*        that is being offered is newer than any that was.                *)
(* Log    what was heard in a session is its first messages, and nothing   *)
(*        was said or heard in a session yet to come.                      *)
(* Links  a connection (Link) is in one of a few situations: the client    *)
(*        is greeting, the server is answering, both are in the session,   *)
(*        or one of them has left.  In a session the frames on their way   *)
(*        and in the sender's queue carry (Carries) just the messages that *)
(*        come next, those of no other session, and each of them once.     *)
(*                                                                         *)
(* A poll reads as many frames as it finds, so the proof goes along them   *)
(* one at a time: reading is a recursive function, which exists and keeps  *)
(* what every single frame keeps.                                          *)
(*                                                                         *)
(* Watch, the second invariant, is about time: what no fault disturbs is   *)
(* heard before a limit fires (Sound, Introduced, Pulse).                  *)
(***************************************************************************)
EXTENDS SyncControl, SequenceTheorems, WellFoundedInduction, TLAPS

Kinds == {"hello", "ack", "ping", "pong", "data"}
Frame == [kind : Kinds, sid : Nat, n : Nat]

(* Frames w carry the messages h + 1 .. n, in order and each once: there   *)
(* is a count that starts at h, that every message raises to its number    *)
(* and that ends at n.                                                     *)
Counts(count, w, h, n) ==
  /\ count[0] = h /\ count[Len(w)] = n
  /\ \A i \in 0..Len(w) : \A j \in i..Len(w) : count[i] <= count[j]
  /\ \A i \in 1..Len(w) :
       IF w[i].kind = "data" THEN count[i] = count[i - 1] + 1 /\ w[i].n = count[i]
                             ELSE count[i] = count[i - 1]
Carries(w, h, n) == \E count \in [0..Len(w) -> Nat] : Counts(count, w, h, n)

\* Nothing but the frames of an established session s.
Plain(w, s) == \A i \in 1..Len(w) : w[i].kind \in {"ping", "pong", "data"} /\ w[i].sid = s
-----------------------------------------------------------------------------
LEMMA CarriesNothing ==
  ASSUME NEW h \in Nat, NEW n
  PROVE  Carries(<<>>, h, n) <=> n = h
<1>1. Carries(<<>>, h, h)
  <2> DEFINE count == [i \in 0..0 |-> h]
  <2>1. count \in [0..Len(<<>>) -> Nat] /\ Counts(count, <<>>, h, h)
    BY DEF Counts
  <2> QED BY <2>1 DEF Carries
<1> QED BY <1>1 DEF Carries, Counts

LEMMA CarriesUp ==
  ASSUME NEW w \in Seq(Frame), NEW h, NEW n, Carries(w, h, n)
  PROVE  h \in Nat /\ n \in Nat /\ h <= n
<1>1. PICK count \in [0..Len(w) -> Nat] : Counts(count, w, h, n)
  BY DEF Carries
<1>2. Len(w) \in Nat
  OBVIOUS
<1> QED BY <1>1, <1>2 DEF Counts

LEMMA CarriesMore ==
  ASSUME NEW w \in Seq(Frame), NEW h, NEW n, Carries(w, h, n), NEW m \in Frame
  PROVE  /\ m.kind # "data" => Carries(Append(w, m), h, n)
         /\ m.kind = "data" /\ m.n = n + 1 => Carries(Append(w, m), h, n + 1)
<1>1. PICK count \in [0..Len(w) -> Nat] : Counts(count, w, h, n)
  BY DEF Carries
<1> DEFINE v == Append(w, m)
           x == IF m.kind = "data" THEN n + 1 ELSE n
           more == [i \in 0..Len(w) + 1 |-> IF i = Len(w) + 1 THEN x ELSE count[i]]
<1>2. /\ Len(w) \in Nat /\ Len(v) = Len(w) + 1 /\ v[Len(w) + 1] = m
      /\ \A i \in 1..Len(w) : v[i] = w[i]
  BY AppendProperties
<1>3. n \in Nat /\ count[Len(w)] = n /\ x \in Nat /\ n <= x
  BY <1>1, <1>2 DEF Counts
<1>4. more \in [0..Len(v) -> Nat]
  BY <1>2, <1>3
<1>5. more[0] = h /\ more[Len(v)] = x
  BY <1>1, <1>2 DEF Counts
<1>6. \A i \in 0..Len(v) : \A j \in i..Len(v) : more[i] <= more[j]
  <2> SUFFICES ASSUME NEW i \in 0..Len(v), NEW j \in i..Len(v) PROVE more[i] <= more[j]
    OBVIOUS
  <2>1. CASE j <= Len(w)
    BY <2>1, <1>1, <1>2 DEF Counts
  <2>2. CASE j = Len(w) + 1 /\ i <= Len(w)
    <3>1. count[i] <= count[Len(w)]
      BY <2>2, <1>1, <1>2 DEF Counts
    <3> QED BY <2>2, <3>1, <1>2, <1>3, SMTT(60)
  <2>3. CASE i = Len(w) + 1
    BY <2>3, <1>2, <1>3
  <2> QED BY <2>1, <2>2, <2>3, <1>2
<1>7. (m.kind = "data" => m.n = n + 1) => Carries(v, h, x)
  <2>1. ASSUME m.kind = "data" => m.n = n + 1 PROVE Counts(more, v, h, x)
    <3>1. \A i \in 1..Len(v) :
           IF v[i].kind = "data" THEN more[i] = more[i - 1] + 1 /\ v[i].n = more[i]
                                 ELSE more[i] = more[i - 1]
      BY <2>1, <1>1, <1>2, <1>3 DEF Counts
    <3> QED BY <3>1, <1>5, <1>6 DEF Counts
  <2> QED BY <2>1, <1>4 DEF Carries
<1> QED BY <1>7

LEMMA CarriesTail ==
  ASSUME NEW w \in Seq(Frame), w # <<>>, NEW h, NEW n, Carries(w, h, n)
  PROVE  /\ w[1].kind # "data" => Carries(Tail(w), h, n)
         /\ w[1].kind = "data" => w[1].n = h + 1 /\ Carries(Tail(w), h + 1, n)
<1>1. PICK count \in [0..Len(w) -> Nat] : Counts(count, w, h, n)
  BY DEF Carries
<1> DEFINE v == Tail(w)
           rest == [i \in 0..Len(v) |-> count[i + 1]]
<1>2. /\ Len(w) \in Nat \ {0} /\ Len(v) = Len(w) - 1
      /\ \A i \in 1..Len(v) : v[i] = w[i + 1]
  BY HeadTailProperties, EmptySeq
<1>3. rest \in [0..Len(v) -> Nat]
  BY <1>2
<1>4. rest[0] = count[1] /\ rest[Len(v)] = n
  BY <1>1, <1>2 DEF Counts
<1>5. \A i \in 0..Len(v) : \A j \in i..Len(v) : rest[i] <= rest[j]
  <2> SUFFICES ASSUME NEW i \in 0..Len(v), NEW j \in i..Len(v) PROVE count[i + 1] <= count[j + 1]
    BY <1>2
  <2>1. i + 1 \in 0..Len(w) /\ j + 1 \in (i + 1)..Len(w)
    BY <1>2
  <2> QED BY <2>1, <1>1 DEF Counts
<1>6. \A i \in 1..Len(v) :
        IF v[i].kind = "data" THEN rest[i] = rest[i - 1] + 1 /\ v[i].n = rest[i]
                              ELSE rest[i] = rest[i - 1]
  <2> SUFFICES ASSUME NEW i \in 1..Len(v)
               PROVE  IF w[i + 1].kind = "data"
                      THEN count[i + 1] = count[i] + 1 /\ w[i + 1].n = count[i + 1]
                      ELSE count[i + 1] = count[i]
    BY <1>2
  <2>1. i + 1 \in 1..Len(w) /\ (i + 1) - 1 = i
    BY <1>2
  <2> QED BY <2>1, <1>1 DEF Counts
<1>7. Carries(v, count[1], n)
  BY <1>3, <1>4, <1>5, <1>6 DEF Carries, Counts
<1>8. IF w[1].kind = "data" THEN count[1] = h + 1 /\ w[1].n = h + 1 ELSE count[1] = h
  <2>1. 1 \in 1..Len(w) /\ 1 - 1 = 0
    BY <1>2
  <2> QED BY <2>1, <1>1 DEF Counts
<1> QED BY <1>7, <1>8

LEMMA CarriesPrefix ==
  ASSUME NEW u \in Seq(Frame), NEW v \in Seq(Frame), NEW h, NEW n, Carries(u \o v, h, n)
  PROVE  \E x \in 0..n : Carries(u, h, x)
<1>1. PICK count \in [0..Len(u \o v) -> Nat] : Counts(count, u \o v, h, n)
  BY DEF Carries
<1>2. /\ Len(u) \in Nat /\ Len(v) \in Nat /\ Len(u \o v) = Len(u) + Len(v)
      /\ \A i \in 1..Len(u) : (u \o v)[i] = u[i]
  BY ConcatProperties, LenProperties
<1> DEFINE first == [i \in 0..Len(u) |-> count[i]]
<1>3. first \in [0..Len(u) -> Nat]
  BY <1>2
<1>4. Counts(first, u, h, count[Len(u)])
  <2>1. first[0] = h /\ first[Len(u)] = count[Len(u)]
    BY <1>1, <1>2 DEF Counts
  <2>2. \A i \in 0..Len(u) : \A j \in i..Len(u) : first[i] <= first[j]
    BY <1>1, <1>2 DEF Counts
  <2>3. \A i \in 1..Len(u) :
          IF u[i].kind = "data" THEN first[i] = first[i - 1] + 1 /\ u[i].n = first[i]
                                ELSE first[i] = first[i - 1]
    BY <1>1, <1>2 DEF Counts
  <2> QED BY <2>1, <2>2, <2>3 DEF Counts
<1>5. count[Len(u)] \in 0..n
  BY <1>1, <1>2 DEF Counts
<1> QED BY <1>3, <1>4, <1>5 DEF Carries

LEMMA PlainParts ==
  ASSUME NEW u \in Seq(Frame), NEW v \in Seq(Frame), NEW s
  PROVE  /\ Plain(<<>>, s)
         /\ Plain(u \o v, s) <=> Plain(u, s) /\ Plain(v, s)
         /\ u # <<>> /\ Plain(u, s) => Plain(Tail(u), s)
         /\ \A m \in Frame : Plain(u, s) /\ m.kind \in {"ping", "pong", "data"} /\ m.sid = s
                             => Plain(Append(u, m), s)
<1>1. Plain(<<>>, s)
  BY DEF Plain
<1>2. Plain(u \o v, s) <=> Plain(u, s) /\ Plain(v, s)
  <2>1. /\ Len(u) \in Nat /\ Len(v) \in Nat /\ Len(u \o v) = Len(u) + Len(v)
        /\ \A i \in 1..Len(u) : (u \o v)[i] = u[i]
        /\ \A i \in 1..Len(v) : (u \o v)[Len(u) + i] = v[i]
    BY ConcatProperties, LenProperties
  <2>2. ASSUME Plain(u \o v, s) PROVE Plain(u, s) /\ Plain(v, s)
    <3>1. Plain(u, s)
      BY <2>1, <2>2 DEF Plain
    <3>2. ASSUME NEW i \in 1..Len(v)
          PROVE  v[i].kind \in {"ping", "pong", "data"} /\ v[i].sid = s
      <4>1. Len(u) + i \in 1..Len(u \o v) /\ (u \o v)[Len(u) + i] = v[i]
        BY <2>1
      <4> QED BY <4>1, <2>2 DEF Plain
    <3> QED BY <3>1, <3>2 DEF Plain
  <2>3. ASSUME Plain(u, s) /\ Plain(v, s) PROVE Plain(u \o v, s)
    <3> SUFFICES ASSUME NEW i \in 1..Len(u \o v)
                 PROVE  (u \o v)[i].kind \in {"ping", "pong", "data"} /\ (u \o v)[i].sid = s
      BY DEF Plain
    <3>1. CASE i <= Len(u)
      BY <3>1, <2>1, <2>3 DEF Plain
    <3>2. CASE i > Len(u)
      <4>1. i - Len(u) \in 1..Len(v) /\ (u \o v)[i] = v[i - Len(u)]
        BY <3>2, <2>1
      <4> QED BY <4>1, <2>3 DEF Plain
    <3> QED BY <3>1, <3>2, <2>1
  <2> QED BY <2>2, <2>3
<1>3. u # <<>> /\ Plain(u, s) => Plain(Tail(u), s)
  <2> SUFFICES ASSUME u # <<>>, Plain(u, s), NEW i \in 1..Len(Tail(u))
               PROVE  Tail(u)[i].kind \in {"ping", "pong", "data"} /\ Tail(u)[i].sid = s
    BY DEF Plain
  <2>1. i + 1 \in 1..Len(u) /\ Tail(u)[i] = u[i + 1]
    BY HeadTailProperties, LenProperties
  <2> QED BY <2>1 DEF Plain
<1>4. ASSUME NEW m \in Frame, Plain(u, s), m.kind \in {"ping", "pong", "data"}, m.sid = s
      PROVE  Plain(Append(u, m), s)
  BY <1>4, AppendProperties, LenProperties DEF Plain
<1> QED BY <1>1, <1>2, <1>3, <1>4

LEMMA AppendJoined ==
  ASSUME NEW u \in Seq(Frame), NEW v \in Seq(Frame), NEW m \in Frame
  PROVE  Append(u \o v, m) = u \o Append(v, m) /\ u \o v \in Seq(Frame)
<1>1. u \o v \in Seq(Frame)
  BY ConcatProperties
<1>2. <<m>> \in Seq(Frame) /\ Append(v, m) = v \o <<m>> /\ Append(u \o v, m) = (u \o v) \o <<m>>
  BY <1>1, AppendIsConcat
<1> QED BY <1>1, <1>2, ConcatAssociative

LEMMA Associate ==
  ASSUME NEW u \in Seq(Frame), NEW v \in Seq(Frame), NEW w \in Seq(Frame)
  PROVE  (u \o v) \o w = u \o (v \o w)
BY ConcatAssociative

LEMMA Joined ==
  ASSUME NEW u \in Seq(Frame), NEW v \in Seq(Frame)
  PROVE  /\ u \o v \in Seq(Frame)
         /\ u \o v = <<>> <=> u = <<>> /\ v = <<>>
         /\ u \o <<>> = u
         /\ \A m \in Frame : Append(u \o v, m) = u \o Append(v, m)
         /\ \A m \in Frame : u \o v = <<>> => u \o Append(v, m) = <<m>>
         /\ u # <<>> => /\ (u \o v)[1] = u[1] /\ Tail(u \o v) = Tail(u) \o v
                        /\ Tail(u) \in Seq(Frame) /\ u[1] \in Frame
<1>1. u \o v \in Seq(Frame) /\ u \o <<>> = u /\ (u \o v = <<>> <=> u = <<>> /\ v = <<>>)
  BY ConcatProperties, ConcatEmptySeq, ConcatSimplifications
<1>2. ASSUME NEW m \in Frame PROVE Append(u \o v, m) = u \o Append(v, m)
  BY AppendJoined
<1>3. ASSUME NEW m \in Frame, u \o v = <<>> PROVE u \o Append(v, m) = <<m>>
  <2>1. Append(<<>>, m) = <<m>>
    OBVIOUS
  <2> QED BY <2>1, <1>1, <1>2, <1>3
<1>4. ASSUME u # <<>>
      PROVE  /\ (u \o v)[1] = u[1] /\ Tail(u \o v) = Tail(u) \o v
             /\ Tail(u) \in Seq(Frame) /\ u[1] \in Frame
  <2>1. /\ Len(u) \in Nat \ {0} /\ Len(v) \in Nat /\ Len(u \o v) = Len(u) + Len(v)
        /\ \A i \in 1..(Len(u) + Len(v)) : (u \o v)[i] = IF i <= Len(u) THEN u[i] ELSE v[i - Len(u)]
    BY <1>4, ConcatProperties, LenProperties, EmptySeq
  <2>2. /\ Tail(u) \in Seq(Frame) /\ Len(Tail(u)) = Len(u) - 1
        /\ \A i \in 1..Len(Tail(u)) : Tail(u)[i] = u[i + 1]
    BY <1>4, HeadTailProperties
  <2>3. u \o v # <<>>
    BY <1>1, <1>4
  <2>4. /\ Tail(u \o v) \in Seq(Frame) /\ Len(Tail(u \o v)) = Len(u) + Len(v) - 1
        /\ \A i \in 1..Len(Tail(u \o v)) : Tail(u \o v)[i] = (u \o v)[i + 1]
    BY <1>1, <2>1, <2>3, HeadTailProperties
  <2>5. /\ Tail(u) \o v \in Seq(Frame) /\ Len(Tail(u) \o v) = Len(Tail(u)) + Len(v)
        /\ \A i \in 1..(Len(Tail(u)) + Len(v)) :
             (Tail(u) \o v)[i] = IF i <= Len(Tail(u)) THEN Tail(u)[i] ELSE v[i - Len(Tail(u))]
    BY <2>2, ConcatProperties
  <2>6. \A i \in 1..Len(Tail(u \o v)) : Tail(u \o v)[i] = (Tail(u) \o v)[i]
    <3> SUFFICES ASSUME NEW i \in 1..(Len(u) + Len(v) - 1) PROVE (u \o v)[i + 1] = (Tail(u) \o v)[i]
      BY <2>4
    <3>1. CASE i <= Len(u) - 1
      BY <3>1, <2>1, <2>2, <2>5
    <3>2. CASE i > Len(u) - 1
      <4>1. (u \o v)[i + 1] = v[(i + 1) - Len(u)]
        BY <3>2, <2>1
      <4>2. (Tail(u) \o v)[i] = v[i - (Len(u) - 1)]
        BY <3>2, <2>1, <2>2, <2>5
      <4>3. (i + 1) - Len(u) = i - (Len(u) - 1)
        BY <2>1
      <4> QED BY <4>1, <4>2, <4>3
    <3> QED BY <3>1, <3>2, <2>1
  <2>7. Tail(u \o v) = Tail(u) \o v
    <3>1. Len(Tail(u \o v)) = Len(Tail(u) \o v)
      BY <2>1, <2>2, <2>4, <2>5
    <3> HIDE <2>1, <2>2
    <3> QED BY <3>1, <2>4, <2>5, <2>6, SeqEqual
  <2>8. (u \o v)[1] = u[1] /\ u[1] \in Frame
    BY <2>1, LenProperties
  <2> QED BY <2>2, <2>7, <2>8
<1> QED BY <1>1, <1>2, <1>3, <1>4

LEMMA Cut ==
  ASSUME NEW u \in Seq(Frame), NEW k \in 0..Len(u)
  PROVE  /\ SubSeq(u, 1, k) \in Seq(Frame) /\ Len(SubSeq(u, 1, k)) = k
         /\ \A i \in 1..k : SubSeq(u, 1, k)[i] = u[i]
         /\ SubSeq(u, k + 1, Len(u)) \in Seq(Frame) /\ Len(SubSeq(u, k + 1, Len(u))) = Len(u) - k
         /\ SubSeq(u, 1, k) \o SubSeq(u, k + 1, Len(u)) = u
         /\ u = <<>> => SubSeq(u, k + 1, Len(u)) = <<>>
         /\ k < Len(u) => /\ SubSeq(u, k + 1, Len(u)) # <<>>
                          /\ SubSeq(u, k + 1, Len(u))[1] = u[k + 1]
                          /\ Tail(SubSeq(u, k + 1, Len(u))) = SubSeq(u, (k + 1) + 1, Len(u))
         /\ SubSeq(u, 0 + 1, Len(u)) = u
<1>1. /\ Len(u) \in Nat /\ \A i \in 1..Len(u) : u[i] \in Frame
  BY LenProperties, ElementOfSeq
<1>2. /\ SubSeq(u, 1, k) \in Seq(Frame) /\ Len(SubSeq(u, 1, k)) = k
      /\ \A i \in 1..k : SubSeq(u, 1, k)[i] = u[i]
  BY <1>1, SubSeqProperties
<1>3. /\ SubSeq(u, k + 1, Len(u)) \in Seq(Frame) /\ Len(SubSeq(u, k + 1, Len(u))) = Len(u) - k
      /\ \A i \in 1..(Len(u) - k) : SubSeq(u, k + 1, Len(u))[i] = u[i + k]
  BY <1>1, SubSeqProperties
<1>4. SubSeq(u, 1, k) \o SubSeq(u, k + 1, Len(u)) = SubSeq(u, 1, Len(u))
  <2>1. 1 \in 1..(Len(u) + 1) /\ k \in (1 - 1)..Len(u) /\ Len(u) \in k..Len(u)
    BY <1>1
  <2> QED BY <2>1, ConcatAdjacentSubSeq
<1>5. SubSeq(u, 1, Len(u)) = u
  BY SubSeqFull
<1>6. ASSUME k < Len(u)
      PROVE  /\ SubSeq(u, k + 1, Len(u)) # <<>>
             /\ SubSeq(u, k + 1, Len(u))[1] = u[k + 1]
             /\ Tail(SubSeq(u, k + 1, Len(u))) = SubSeq(u, (k + 1) + 1, Len(u))
  <2>1. SubSeq(u, k + 1, Len(u))[1] = u[k + 1] /\ SubSeq(u, k + 1, Len(u)) # <<>>
    BY <1>1, <1>3, <1>6
  <2>2. k + 1 \in 1..Len(u) /\ Len(u) \in (k + 1)..Len(u)
    BY <1>1, <1>6
  <2> QED BY <2>1, <2>2, HeadTailOfSubSeq
<1>7. u = <<>> => SubSeq(u, k + 1, Len(u)) = <<>>
  BY <1>1, SubSeqEmpty
<1>8. SubSeq(u, 0 + 1, Len(u)) = u
  <2>1. 0 + 1 = 1
    OBVIOUS
  <2> QED BY <2>1, <1>5
<1> QED BY <1>2, <1>3, <1>4, <1>5, <1>6, <1>7, <1>8
-----------------------------------------------------------------------------
(***************************************************************************)
(* The invariant.                                                          *)
(***************************************************************************)
Fields == {"role", "status", "reason", "sock", "out", "closing", "sid", "events",
           "quiet", "sent", "left", "attempt", "wait", "token"}

\* What an end may be, whatever the connection it holds carries.
IsEnd(e) ==
  /\ DOMAIN e = Fields
  /\ e.role \in Roles
  /\ e.status \in {"ABSENT", "IDLE", "CONNECTING", "HANDSHAKING", "CONNECTED", "CLOSED"}
  /\ e.sock \in Conns \cup {0} /\ e.sid \in Nat /\ e.token \in Nat
  /\ e.left \in Nat \cup {NoDeadline} /\ e.quiet \in Nat /\ e.sent \in Nat
  /\ e.out \in Seq(Frame) /\ e.events \in Seq(Frame)
  /\ e.sock = 0 => /\ e.status \in {"ABSENT", "IDLE", "CLOSED"}
                   /\ e.out = <<>> /\ e.sid = NoSession /\ e.closing = "NONE"
                   /\ e.left = NoDeadline
  /\ e.sock # 0 => e.status \in {"CONNECTING", "HANDSHAKING", "CONNECTED"}
  /\ e.status = "CONNECTING" =>
       e.role = "client" /\ e.out = <<>> /\ e.sid = NoSession /\ e.left # NoDeadline
  /\ e.status = "HANDSHAKING" =>
       (e.role = "client" <=> e.sid = NoSession) /\ e.left # NoDeadline
  /\ e.status = "CONNECTED" => e.sid # NoSession /\ e.left = NoDeadline
  /\ e.closing # "NONE" =>
       e.role = "server" /\ e.status = "HANDSHAKING" /\ e.out # <<>>

\* What has been written to the other end of c and not read: on the way, and still queued.
Written(c, way, e) == IF e.sock = c THEN way \o e.out ELSE way

Up(e, c) == e.sock = c /\ e.status = "CONNECTED"

(* w is what comes after the first h of the messages; all of the messages  *)
(* unless the other end has left.                                          *)
Delivers(w, h, sent, whole) == \E x \in 0..sent : Carries(w, h, x) /\ (whole => x = sent)

IsHello(w) == Len(w) = 1 /\ w[1].kind = "hello"

(* The client's hello may be on its way to the server, nothing else.       *)
Hailed(c, cl, v) ==
  /\ v = <<>> \/ IsHello(v)
  /\ cl.sock = c => /\ cl.status \in {"CONNECTING", "HANDSHAKING"}
                    /\ cl.status = "CONNECTING" => v = <<>>

(* The server's answer is first: a refusal, or the acceptance of a session *)
(* the client was never in, whose messages are all behind it.              *)
Answered(c, sv, w) ==
  LET s == w[1].sid IN
  /\ w[1].kind = "ack" /\ s \in last["client"] + 1..sessions
  /\ sv.sock = c => /\ s = sv.sid
                    /\ IF w[1].n = 0 THEN sv.closing # "NONE" ELSE sv.status = "CONNECTED"
  /\ sv.sock # c /\ sv.sid # NoSession => s < sv.sid
  /\ Plain(Tail(w), s)
  /\ Delivers(Tail(w), 0, said[s]["server"], Up(sv, c))

(* Of a connection c, with w on its way to client cl, who has read k       *)
(* messages since it handed on the last, and v to server sv.               *)
ToClient(c, cl, sv, w, k) ==
  /\ cl.status = "CONNECTING" => w = <<>>
  /\ cl.status # "CONNECTED" /\ w = <<>> /\ sv.sock = c =>
       sv.status = "HANDSHAKING" /\ sv.closing = "NONE"
  /\ cl.status = "HANDSHAKING" /\ w # <<>> => Answered(c, sv, w)
  /\ cl.status = "CONNECTED" =>
       /\ sv.sock = c => sv.status = "CONNECTED" /\ sv.sid = cl.sid
       /\ Plain(w, cl.sid)
       /\ Delivers(w, Len(heard[cl.sid]["client"]) + k, said[cl.sid]["server"], Up(sv, c))

ToServer(c, sv, cl, v, k) ==
  /\ sv.status = "HANDSHAKING" =>
       /\ Hailed(c, cl, v)
       /\ sv.closing # "NONE" => v = <<>>
       /\ sv.closing = "NONE" /\ cl.sock = c /\ cl.status = "HANDSHAKING" => v # <<>>
  /\ sv.status = "CONNECTED" =>
       /\ Plain(v, sv.sid)
       /\ Delivers(v, Len(heard[sv.sid]["server"]) + k, said[sv.sid]["client"], Up(cl, c))
       /\ cl.sock = c /\ cl.status = "HANDSHAKING" => v = <<>>

\* Of a connection the listener has not accepted yet.
Waiting(c, sv, cl, in, v) ==
  /\ sv.sock # c /\ in = <<>>
  /\ Hailed(c, cl, v)
  /\ cl.sock = c /\ cl.status = "HANDSHAKING" => v # <<>>

(* Connection c carries in to the client and out to the server, and        *)
(* perhaps waits to be accepted.                                           *)
Link(c, cl, sv, in, out, k, l, waits) ==
  /\ cl.sock = c => ToClient(c, cl, sv, Written(c, in, sv), k)
  /\ sv.sock = c => ToServer(c, sv, cl, Written(c, out, cl), l)
  /\ waits => Waiting(c, sv, cl, in, Written(c, out, cl))

(* What an end was told of is the session it is in or was in until it      *)
(* closed, and the last one it was told of.                                *)
Informed(r, e) ==
  /\ told[r] # NoSession => /\ last[r] = told[r]
                            /\ e.status = "CLOSED" \/ (e.status = "CONNECTED" /\ e.sid = told[r])
  /\ e.status = "CONNECTED" => told[r] = e.sid
  /\ last[r] \in 0..sessions /\ e.sid \in 0..sessions

Types ==
  /\ IsEnd(server) /\ server.role = "server"
  /\ IsEnd(client) /\ client.role = "client"
  /\ backlog \in Seq(Conns)
  /\ \A i, j \in 1..Len(backlog) : backlog[i] = backlog[j] => i = j
  /\ pipe \in [Conns -> [Roles -> Seq(Frame)]]
  /\ \A c \in Conns, r \in Roles : Len(pipe[c][r]) <= Window
  /\ sessions \in 0..MaxSessions
  /\ service \in [token : Nat, compatible : BOOLEAN]
  /\ advert \in [token : Nat, compatible : BOOLEAN]
  /\ midi \in [Roles -> BOOLEAN]
  /\ told \in [Roles -> Nat] /\ last \in [Roles -> Nat]
  /\ said \in [1..MaxSessions -> [Roles -> Nat]]
  /\ heard \in [1..MaxSessions -> [Roles -> Seq(Nat)]]

Told ==
  /\ Informed("server", server) /\ Informed("client", client)
  /\ ~midi["client"] => told["client"] = NoSession /\ client.status = "ABSENT"
  /\ server.status = "HANDSHAKING" => server.sid > last["server"] /\ server.sid > last["client"]

\* What was heard are the first messages, and nothing is known of a session before it is told of.
Log ==
  \A s \in 1..MaxSessions, r \in Roles :
    /\ s > last[r] => said[s][r] = 0 /\ heard[s][r] = <<>>
    /\ heard[s][r] = [i \in 1..Len(heard[s][r]) |-> i]

Links ==
  \A c \in Conns : Link(c, client, server, pipe[c]["client"], pipe[c]["server"], 0, 0,
                        Contains(backlog, c))

SyncInv == Types /\ Told /\ Log /\ Links
-----------------------------------------------------------------------------
(***************************************************************************)
(* What the operators make of an end.                                      *)
(***************************************************************************)
LEMMA ClosedFields ==
  ASSUME NEW e, DOMAIN e = Fields, e.role \in Roles, NEW reason
  PROVE  LET q == Closed(e, reason) IN
         /\ DOMAIN q = Fields
         /\ q.role = e.role /\ q.status = "CLOSED" /\ q.reason = reason /\ q.sock = 0
         /\ q.out = <<>> /\ q.closing = "NONE" /\ q.sid = NoSession /\ q.events = e.events
         /\ q.quiet = e.quiet /\ q.sent = e.sent /\ q.left = NoDeadline /\ q.token = e.token
<1> DEFINE shut == [e EXCEPT !.sock = 0, !.status = "CLOSED", !.reason = reason,
                             !.sid = NoSession, !.out = <<>>, !.left = NoDeadline,
                             !.closing = "NONE"]
<1>1. /\ DOMAIN shut = Fields
      /\ shut.role = e.role /\ shut.status = "CLOSED" /\ shut.reason = reason /\ shut.sock = 0
      /\ shut.out = <<>> /\ shut.closing = "NONE" /\ shut.sid = NoSession
      /\ shut.events = e.events /\ shut.quiet = e.quiet /\ shut.sent = e.sent
      /\ shut.left = NoDeadline /\ shut.token = e.token
  BY DEF Fields
<1> HIDE DEF shut
<1>2. LET q == Backoff(shut) IN
      /\ DOMAIN q = Fields
      /\ q.role = e.role /\ q.status = "CLOSED" /\ q.reason = reason /\ q.sock = 0
      /\ q.out = <<>> /\ q.closing = "NONE" /\ q.sid = NoSession /\ q.events = e.events
      /\ q.quiet = e.quiet /\ q.sent = e.sent /\ q.left = NoDeadline /\ q.token = e.token
  BY <1>1 DEF Backoff, Fields
<1>3. Closed(e, reason) = IF e.role = "client" THEN Backoff(shut) ELSE shut
  BY DEF Closed, shut
<1> QED BY <1>1, <1>2, <1>3

LEMMA ClosedEnd ==
  ASSUME NEW e, IsEnd(e), NEW reason
  PROVE  LET q == Closed(e, reason) IN
         /\ IsEnd(q) /\ q.role = e.role /\ q.status = "CLOSED" /\ q.sock = 0
         /\ q.sid = NoSession /\ q.out = <<>> /\ q.closing = "NONE" /\ q.events = e.events
<1> DEFINE q == Closed(e, reason)
<1>1. DOMAIN e = Fields /\ e.role \in Roles
  BY DEF IsEnd
<1>2. /\ DOMAIN q = Fields
      /\ q.role = e.role /\ q.status = "CLOSED" /\ q.sock = 0
      /\ q.out = <<>> /\ q.closing = "NONE" /\ q.sid = NoSession /\ q.events = e.events
      /\ q.quiet = e.quiet /\ q.sent = e.sent /\ q.left = NoDeadline /\ q.token = e.token
  BY <1>1, ClosedFields
<1> HIDE DEF q
<1>3. IsEnd(q)
  <2>1. <<>> \in Seq(Frame) /\ NoSession \in Nat /\ NoSession = 0
    BY DEF NoSession
  <2> QED BY <1>1, <1>2, <2>1 DEF IsEnd
<1> QED BY <1>2, <1>3 DEF q

\* Two ends that differ in nothing the connection depends on.
Alike(q, e) ==
  /\ q.role = e.role /\ q.status = e.status /\ q.sock = e.sock /\ q.sid = e.sid
  /\ q.closing = e.closing

LEMMA SentEnd ==
  ASSUME NEW e, IsEnd(e), e.status \in {"HANDSHAKING", "CONNECTED"}, NEW m \in Frame
  PROVE  LET q == SendMessage(e, m) IN
         /\ IsEnd(q) /\ q.role = e.role /\ q.events = e.events
         /\ \/ q.sock = 0 /\ q.status = "CLOSED" /\ q.out = <<>> /\ q.sid = NoSession /\ q.closing = "NONE"
            \/ Alike(q, e) /\ q.out = Append(e.out, m)
<1>1. CASE Len(e.out) >= MaxOutboundQueue
  BY <1>1, ClosedEnd DEF SendMessage
<1>2. CASE ~(Len(e.out) >= MaxOutboundQueue)
  <2> DEFINE q == [e EXCEPT !.out = Append(e.out, m)]
  <2>1. SendMessage(e, m) = q
    BY <1>2 DEF SendMessage
  <2>2. Append(e.out, m) \in Seq(Frame) /\ Append(e.out, m) # <<>>
    BY AppendProperties DEF IsEnd
  <2>3. /\ DOMAIN q = Fields /\ q.out = Append(e.out, m)
        /\ \A f \in Fields \ {"out"} : q[f] = e[f]
    BY DEF IsEnd, Fields
  <2> HIDE DEF q
  <2>4. Alike(q, e) /\ q.events = e.events
    BY <2>3 DEF Alike, Fields
  <2>5. IsEnd(q)
    BY <2>2, <2>3 DEF IsEnd, Fields
  <2> QED BY <2>1, <2>3, <2>4, <2>5 DEF Alike
<1> QED BY <1>1, <1>2
-----------------------------------------------------------------------------
(***************************************************************************)
(* What a connection is when something is written, read or given up on it. *)
(***************************************************************************)
LEMMA DeliversParts ==
  ASSUME NEW w \in Seq(Frame), NEW h \in Nat, NEW sent \in Nat, NEW whole \in BOOLEAN,
         Delivers(w, h, sent, whole)
  PROVE  /\ h <= sent
         /\ Delivers(w, h, sent, FALSE) /\ Delivers(w, h, sent + 1, FALSE)
         /\ w = <<>> => (whole => h = sent)
         /\ \A m \in Frame :
              /\ m.kind # "data" => Delivers(Append(w, m), h, sent, whole)
              /\ m.kind = "data" /\ m.n = sent + 1 /\ whole => Delivers(Append(w, m), h, sent + 1, TRUE)
<1>1. PICK x \in 0..sent : Carries(w, h, x) /\ (whole => x = sent)
  BY DEF Delivers
<1>2. h <= sent /\ Delivers(w, h, sent, FALSE) /\ Delivers(w, h, sent + 1, FALSE)
  BY <1>1, CarriesUp DEF Delivers
<1>3. w = <<>> => (whole => h = sent)
  BY <1>1, CarriesNothing
<1>4. ASSUME NEW m \in Frame
      PROVE  /\ m.kind # "data" => Delivers(Append(w, m), h, sent, whole)
             /\ m.kind = "data" /\ m.n = sent + 1 /\ whole => Delivers(Append(w, m), h, sent + 1, TRUE)
  BY <1>1, CarriesMore DEF Delivers
<1> QED BY <1>2, <1>3, <1>4

LEMMA DeliversBound ==
  ASSUME NEW w \in Seq(Frame), NEW h, NEW sent \in Nat, NEW whole, Delivers(w, h, sent, whole)
  PROVE  h \in Nat /\ h <= sent
BY CarriesUp DEF Delivers

LEMMA DeliversTail ==
  ASSUME NEW w \in Seq(Frame), w # <<>>, NEW h \in Nat, NEW sent \in Nat, NEW whole,
         Delivers(w, h, sent, whole)
  PROVE  /\ w[1].kind # "data" => Delivers(Tail(w), h, sent, whole)
         /\ w[1].kind = "data" => w[1].n = h + 1 /\ Delivers(Tail(w), h + 1, sent, whole)
<1>1. PICK x \in 0..sent : Carries(w, h, x) /\ (whole => x = sent)
  BY DEF Delivers
<1>2. /\ w[1].kind # "data" => Carries(Tail(w), h, x)
      /\ w[1].kind = "data" => w[1].n = h + 1 /\ Carries(Tail(w), h + 1, x)
  BY <1>1, CarriesTail
<1> QED BY <1>1, <1>2 DEF Delivers

LEMMA DeliversPrefix ==
  ASSUME NEW u \in Seq(Frame), NEW v \in Seq(Frame), NEW h \in Nat, NEW sent \in Nat,
         NEW whole, Delivers(u \o v, h, sent, whole)
  PROVE  Delivers(u, h, sent, FALSE)
<1>1. PICK x \in 0..sent : Carries(u \o v, h, x)
  BY DEF Delivers
<1>2. \E y \in 0..x : Carries(u, h, y)
  BY <1>1, CarriesPrefix
<1> QED BY <1>2 DEF Delivers

LEMMA DeliversNothing ==
  ASSUME NEW h \in Nat, NEW sent \in Nat, h <= sent, NEW whole \in BOOLEAN, whole => h = sent
  PROVE  Delivers(<<>>, h, sent, whole)
BY CarriesNothing DEF Delivers

LEMMA HelloPrefix ==
  ASSUME NEW u \in Seq(Frame), NEW v \in Seq(Frame), u # <<>>, IsHello(u \o v)
  PROVE  IsHello(u)
<1>1. Len(u) \in Nat \ {0} /\ Len(v) \in Nat /\ Len(u \o v) = Len(u) + Len(v)
  BY ConcatProperties, LenProperties, EmptySeq
<1>2. (u \o v)[1] = u[1]
  BY Joined
<1>3. Len(u \o v) = 1 /\ (u \o v)[1].kind = "hello"
  BY DEF IsHello
<1>4. \A i \in Nat \ {0}, j \in Nat : i + j = 1 => i = 1
  OBVIOUS
<1>5. Len(u) = 1
  BY <1>1, <1>3, <1>4, Zenon
<1> QED BY <1>2, <1>3, <1>5 DEF IsHello

LEMMA ClientLeaves ==
  ASSUME Types, NEW c \in Conns, NEW cl, IsEnd(cl), NEW sv, IsEnd(sv),
         NEW in \in Seq(Frame), NEW out \in Seq(Frame), NEW k, NEW l \in Nat, NEW waits \in BOOLEAN,
         sv.status = "CONNECTED" => sv.sid \in 1..MaxSessions,
         Link(c, cl, sv, in, out, k, l, waits),
         NEW q, q.sock = 0, NEW rest, in = <<>> => rest = <<>>, NEW j
  PROVE  Link(c, q, sv, rest, out, j, l, waits)
<1> DEFINE v == Written(c, out, cl)
<1>1. q.sock # c
  BY TransportAssumption
<1>2. Written(c, out, q) = out
  BY <1>1 DEF Written
<1>3. PICK x \in Seq(Frame) : v = out \o x
  <2>1. <<>> \in Seq(Frame) /\ out \o <<>> = out /\ cl.out \in Seq(Frame)
    BY Joined DEF IsEnd
  <2> QED BY <2>1 DEF Written
<1>4. Hailed(c, cl, v) => Hailed(c, q, out)
  BY <1>1, <1>3, Joined, HelloPrefix DEF Hailed
<1>5. v = <<>> => out = <<>>
  <2>1. out \o x = <<>> <=> out = <<>> /\ x = <<>>
    BY Joined
  <2> HIDE DEF v
  <2> QED BY <1>3, <2>1
<1>6. ASSUME sv.sock = c PROVE ToServer(c, sv, q, out, l)
  <2>1. ToServer(c, sv, cl, v, l)
    BY <1>6 DEF Link
  <2>2. ASSUME sv.status = "CONNECTED"
        PROVE  /\ Plain(out, sv.sid)
               /\ Delivers(out, Len(heard[sv.sid]["server"]) + l, said[sv.sid]["client"], Up(q, c))
    <3>1. Plain(out, sv.sid)
      BY <1>3, <2>1, <2>2, PlainParts DEF ToServer
    <3> DEFINE h == Len(heard[sv.sid]["server"]) + l
               sent == said[sv.sid]["client"]
    <3>2. h \in Nat /\ sent \in Nat
      BY <2>2, LenProperties, SMTT(60) DEF Types, Roles
    <3>3. v \in Seq(Frame) /\ Up(cl, c) \in BOOLEAN /\ Delivers(v, h, sent, Up(cl, c))
      BY <1>3, <2>1, <2>2, Joined DEF ToServer, Up
    <3> HIDE DEF v, h, sent
    <3>4. Delivers(out, h, sent, FALSE)
      BY <1>3, <3>2, <3>3, DeliversPrefix
    <3>5. Up(q, c) = FALSE
      BY <1>1 DEF Up
    <3> QED BY <3>1, <3>4, <3>5 DEF h, sent
  <2> QED BY <1>1, <1>4, <1>5, <2>1, <2>2 DEF ToServer
<1>7. waits => Waiting(c, sv, q, rest, out)
  BY <1>1, <1>4 DEF Link, Waiting
<1> QED BY <1>1, <1>2, <1>6, <1>7 DEF Link

LEMMA SessionTypes ==
  ASSUME Types, NEW s \in 1..MaxSessions, NEW r \in Roles, NEW k \in Nat
  PROVE  /\ said[s][r] \in Nat /\ heard[s][r] \in Seq(Nat)
         /\ Len(heard[s][r]) \in Nat /\ Len(heard[s][r]) + k \in Nat
<1>1. said[s][r] \in Nat /\ heard[s][r] \in Seq(Nat)
  <2>1. said \in [1..MaxSessions -> [Roles -> Nat]] /\ heard \in [1..MaxSessions -> [Roles -> Seq(Nat)]]
    BY DEF Types
  <2>2. said[s] \in [Roles -> Nat] /\ heard[s] \in [Roles -> Seq(Nat)]
    BY <2>1
  <2> QED BY <2>2
<1> QED BY <1>1, LenProperties

LEMMA AnswerPrefix ==
  ASSUME Types, NEW c, NEW sv, NEW q, q.sock # c, q.sid = NoSession,
         NEW in \in Seq(Frame), in # <<>>, NEW x \in Seq(Frame), Answered(c, sv, in \o x)
  PROVE  Answered(c, q, in)
<1> DEFINE s == in[1].sid
<1>1. (in \o x)[1] = in[1] /\ Tail(in \o x) = Tail(in) \o x /\ Tail(in) \in Seq(Frame)
  BY Joined
<1>2. /\ in[1].kind = "ack" /\ s \in last["client"] + 1..sessions
      /\ Plain(Tail(in) \o x, s)
      /\ Delivers(Tail(in) \o x, 0, said[s]["server"], Up(sv, c))
  BY <1>1 DEF Answered
<1>3. s \in 1..MaxSessions
  <2>1. last["client"] \in Nat /\ sessions \in 0..MaxSessions /\ MaxSessions \in Nat
    BY ControlAssumption DEF Types, Roles
  <2> HIDE DEF s
  <2> QED BY <1>2, <2>1
<1>4. said[s]["server"] \in Nat
  BY <1>3, SessionTypes DEF Roles
<1>5. Plain(Tail(in), s)
  <2> HIDE DEF s
  <2> QED BY <1>1, <1>2, PlainParts
<1>6. Delivers(Tail(in), 0, said[s]["server"], FALSE)
  <2> HIDE DEF s
  <2> QED BY <1>1, <1>2, <1>4, DeliversPrefix
<1>7. Up(q, c) = FALSE
  BY DEF Up
<1> QED BY <1>2, <1>5, <1>6, <1>7 DEF Answered

LEMMA ServerLeaves ==
  ASSUME Types, NEW c \in Conns, NEW cl, NEW sv, sv.out \in Seq(Frame),
         NEW in \in Seq(Frame), NEW out \in Seq(Frame), NEW k \in Nat, NEW l, NEW waits \in BOOLEAN,
         cl.status = "CONNECTED" => cl.sid \in 1..MaxSessions,
         Link(c, cl, sv, in, out, k, l, waits),
         NEW q, q.sock = 0, q.sid = NoSession,
         NEW rest, sv.sock = c \/ rest = out, NEW j
  PROVE  Link(c, cl, q, in, rest, k, j, waits)
<1> DEFINE w == Written(c, in, sv)
<1>1. q.sock # c
  BY TransportAssumption
<1>2. Written(c, in, q) = in
  BY <1>1 DEF Written
<1>3. PICK x \in Seq(Frame) : w = in \o x
  <2>1. <<>> \in Seq(Frame) /\ in \o <<>> = in
    BY Joined
  <2> QED BY <2>1 DEF Written
<1>4. w = <<>> => in = <<>>
  <2>1. in \o x = <<>> <=> in = <<>> /\ x = <<>>
    BY Joined
  <2> HIDE DEF w
  <2> QED BY <1>3, <2>1
<1>5. ASSUME cl.sock = c PROVE ToClient(c, cl, q, in, k)
  <2>1. ToClient(c, cl, sv, w, k)
    BY <1>5 DEF Link
  <2> HIDE DEF w
  <2>2. ASSUME cl.status = "HANDSHAKING", in # <<>> PROVE Answered(c, q, in)
    <3>1. Answered(c, sv, in \o x)
      BY <1>3, <1>4, <2>1, <2>2 DEF ToClient
    <3> QED BY <1>1, <2>2, <3>1, AnswerPrefix
  <2>3. ASSUME cl.status = "CONNECTED"
        PROVE  /\ Plain(in, cl.sid)
               /\ Delivers(in, Len(heard[cl.sid]["client"]) + k, said[cl.sid]["server"], Up(q, c))
    <3> DEFINE h == Len(heard[cl.sid]["client"]) + k
               sent == said[cl.sid]["server"]
    <3>1. h \in Nat /\ sent \in Nat
      BY <2>3, SessionTypes DEF Roles
    <3>2. Plain(in \o x, cl.sid) /\ Delivers(in \o x, h, sent, Up(sv, c))
      BY <1>3, <2>1, <2>3 DEF ToClient
    <3>3. Plain(in, cl.sid)
      BY <3>2, PlainParts
    <3> HIDE DEF h, sent
    <3>4. Delivers(in, h, sent, FALSE)
      BY <3>1, <3>2, DeliversPrefix
    <3>5. Up(q, c) = FALSE
      BY <1>1 DEF Up
    <3> QED BY <3>3, <3>4, <3>5 DEF h, sent
  <2> QED BY <1>1, <1>4, <2>1, <2>2, <2>3 DEF ToClient
<1>6. waits => Waiting(c, q, cl, in, Written(c, rest, cl))
  BY <1>1 DEF Link, Waiting
<1> QED BY <1>1, <1>2, <1>5, <1>6 DEF Link

\* The frames of an end are on the way or still queued: it makes no difference which.
LEMMA ClientFlushes ==
  ASSUME NEW c, NEW cl, NEW sv, NEW in, NEW out, NEW k, NEW l, NEW waits,
         Link(c, cl, sv, in, out, k, l, waits), cl.sock = c,
         NEW q, Alike(q, cl), NEW way, way \o q.out = out \o cl.out
  PROVE  Link(c, q, sv, in, way, k, l, waits)
<1>1. Written(c, way, q) = Written(c, out, cl)
  BY DEF Written, Alike
<1> QED BY <1>1 DEF Link, ToClient, ToServer, Waiting, Hailed, Up, Alike

LEMMA ServerFlushes ==
  ASSUME NEW c, NEW cl, NEW sv, NEW in, NEW out, NEW k, NEW l, NEW waits,
         Link(c, cl, sv, in, out, k, l, waits), sv.sock = c,
         NEW q, Alike(q, sv), NEW way, way \o q.out = in \o sv.out
  PROVE  Link(c, cl, q, way, out, k, l, waits)
<1>1. Written(c, way, q) = Written(c, in, sv)
  BY DEF Written, Alike
<1> QED BY <1>1 DEF Link, ToClient, ToServer, Waiting, Answered, Up, Alike

\* An end in a session answers a ping or says that it is still there.
LEMMA ClientSignals ==
  ASSUME Types, NEW c \in Conns, NEW cl, IsEnd(cl), NEW sv, IsEnd(sv),
         NEW in \in Seq(Frame), NEW out \in Seq(Frame), NEW k \in Nat, NEW l \in Nat,
         NEW waits \in BOOLEAN,
         Link(c, cl, sv, in, out, k, l, waits),
         cl.sock = c, cl.status = "CONNECTED", cl.sid \in 1..MaxSessions,
         NEW m \in Frame, m.kind \in {"ping", "pong"}, m.sid = cl.sid,
         NEW q, Alike(q, cl), q.out = Append(cl.out, m)
  PROVE  Link(c, q, sv, in, out, k, l, waits)
<1> DEFINE v == Written(c, out, cl)
<1>1. q.sock = c /\ q.status = "CONNECTED" /\ q.sid = cl.sid
  BY DEF Alike
<1>2. Written(c, out, q) = Append(v, m) /\ v \in Seq(Frame)
  <2>1. cl.out \in Seq(Frame)
    BY DEF IsEnd
  <2>2. v = out \o cl.out /\ Written(c, out, q) = out \o Append(cl.out, m)
    BY <1>1 DEF Written
  <2>3. Append(out \o cl.out, m) = out \o Append(cl.out, m) /\ out \o cl.out \in Seq(Frame)
    BY <2>1, AppendJoined
  <2> HIDE DEF v
  <2> QED BY <2>2, <2>3
<1>3. ToClient(c, q, sv, Written(c, in, sv), k)
  BY <1>1 DEF Link, ToClient
<1> HIDE DEF v
<1>4. ASSUME sv.sock = c PROVE ToServer(c, sv, q, Append(v, m), l)
  <2>1. sv.status = "CONNECTED" /\ sv.sid = cl.sid
    BY <1>4 DEF Link, ToClient
  <2>2. Plain(v, sv.sid) /\ Delivers(v, Len(heard[sv.sid]["server"]) + l, said[sv.sid]["client"], TRUE)
    <3>1. Up(cl, c)
      BY DEF Up
    <3>2. ToServer(c, sv, cl, v, l)
      BY <1>4 DEF Link, v
    <3> QED BY <2>1, <3>1, <3>2 DEF ToServer, Delivers
  <2>3. Plain(Append(v, m), sv.sid)
    BY <1>2, <2>1, <2>2, PlainParts
  <2> DEFINE h == Len(heard[sv.sid]["server"]) + l
             sent == said[sv.sid]["client"]
  <2>4. h \in Nat /\ sent \in Nat
    BY <2>1, SessionTypes DEF Roles
  <2> HIDE DEF h, sent
  <2>5. Delivers(Append(v, m), h, sent, TRUE)
    BY <1>2, <2>2, <2>4, DeliversParts DEF h, sent
  <2>6. Delivers(Append(v, m), h, sent, Up(q, c))
    BY <2>5 DEF Delivers
  <2> QED BY <1>1, <2>1, <2>3, <2>6 DEF ToServer, h, sent
<1>5. ~waits
  BY DEF Link, Waiting, Hailed
<1> QED BY <1>1, <1>2, <1>3, <1>4, <1>5 DEF Link

LEMMA ServerSignals ==
  ASSUME Types, NEW c \in Conns, NEW cl, IsEnd(cl), NEW sv, IsEnd(sv),
         NEW in \in Seq(Frame), NEW out \in Seq(Frame), NEW k \in Nat, NEW l \in Nat,
         NEW waits \in BOOLEAN,
         Link(c, cl, sv, in, out, k, l, waits),
         sv.sock = c, sv.status = "CONNECTED", sv.sid \in 1..MaxSessions,
         NEW m \in Frame, m.kind \in {"ping", "pong"}, m.sid = sv.sid,
         NEW q, Alike(q, sv), q.out = Append(sv.out, m)
  PROVE  Link(c, cl, q, in, out, k, l, waits)
<1> DEFINE w == Written(c, in, sv)
<1>1. q.sock = c /\ q.status = "CONNECTED" /\ q.sid = sv.sid /\ q.closing = sv.closing
  BY DEF Alike
<1>2. Written(c, in, q) = Append(w, m) /\ w \in Seq(Frame)
  <2>1. sv.out \in Seq(Frame)
    BY DEF IsEnd
  <2>2. w = in \o sv.out /\ Written(c, in, q) = in \o Append(sv.out, m)
    BY <1>1 DEF Written
  <2>3. Append(in \o sv.out, m) = in \o Append(sv.out, m) /\ in \o sv.out \in Seq(Frame)
    BY <2>1, AppendJoined
  <2> HIDE DEF w
  <2> QED BY <2>2, <2>3
<1>3. ToServer(c, q, cl, Written(c, out, cl), l)
  BY <1>1 DEF Link, ToServer
<1>4. Up(sv, c) /\ Up(q, c)
  BY <1>1 DEF Up
<1> HIDE DEF w
<1>5. ASSUME cl.sock = c PROVE ToClient(c, cl, q, Append(w, m), k)
  <2>1. ToClient(c, cl, sv, w, k)
    BY <1>5 DEF Link, w
  <2>2. Append(w, m) # <<>> /\ cl.status # "CONNECTING" /\ (cl.status # "CONNECTED" => w # <<>>)
    <3>1. Append(w, m) # <<>>
      BY <1>2, AppendProperties
    <3>2. (cl.status = "CONNECTING" => w = <<>>) /\ (cl.status # "CONNECTED" => w # <<>>)
      BY <2>1 DEF ToClient
    <3> QED BY <3>1, <3>2
  <2>3. ASSUME cl.status = "HANDSHAKING" PROVE Answered(c, q, Append(w, m))
    <3> DEFINE s == w[1].sid
               v == Append(w, m)
    <3>1. Answered(c, sv, w) /\ w # <<>>
      BY <2>1, <2>2, <2>3 DEF ToClient
    <3>2. v[1] = w[1] /\ Tail(v) = Append(Tail(w), m) /\ Tail(w) \in Seq(Frame)
      BY <1>2, <3>1, HeadTailAppend, HeadTailProperties, AppendProperties, EmptySeq
    <3>3. /\ w[1].kind = "ack" /\ s \in last["client"] + 1..sessions
          /\ s = sv.sid /\ w[1].n # 0
          /\ Plain(Tail(w), s)
          /\ Delivers(Tail(w), 0, said[s]["server"], TRUE)
      BY <1>4, <3>1 DEF Answered, IsEnd, Delivers
    <3>4. Plain(Append(Tail(w), m), s)
      <4> HIDE DEF s
      <4> QED BY <3>2, <3>3, PlainParts
    <3> DEFINE sent == said[s]["server"]
    <3>5. sent \in Nat
      BY <3>3, SessionTypes DEF Roles
    <3> HIDE DEF sent
    <3>6. Delivers(Append(Tail(w), m), 0, sent, TRUE)
      BY <3>2, <3>3, <3>5, DeliversParts DEF sent
    <3>7. Delivers(Append(Tail(w), m), 0, sent, Up(q, c))
      BY <3>6 DEF Delivers
    <3> QED BY <1>1, <3>2, <3>3, <3>4, <3>7 DEF Answered, sent
  <2>4. ASSUME cl.status = "CONNECTED"
        PROVE  /\ sv.sid = cl.sid
               /\ Plain(Append(w, m), cl.sid)
               /\ Delivers(Append(w, m), Len(heard[cl.sid]["client"]) + k, said[cl.sid]["server"], Up(q, c))
    <3> DEFINE h == Len(heard[cl.sid]["client"]) + k
               sent == said[cl.sid]["server"]
    <3>1. sv.sid = cl.sid /\ Plain(w, cl.sid) /\ Delivers(w, h, sent, TRUE)
      BY <1>4, <2>1, <2>4 DEF ToClient, Delivers
    <3>2. h \in Nat /\ sent \in Nat
      BY <3>1, SessionTypes DEF Roles
    <3> HIDE DEF h, sent
    <3>3. Plain(Append(w, m), cl.sid)
      BY <1>2, <3>1, PlainParts
    <3>4. Delivers(Append(w, m), h, sent, TRUE)
      BY <1>2, <3>1, <3>2, DeliversParts
    <3>5. Delivers(Append(w, m), h, sent, Up(q, c))
      BY <3>4 DEF Delivers
    <3> QED BY <3>1, <3>3, <3>5 DEF h, sent
  <2> QED BY <1>1, <2>2, <2>3, <2>4 DEF ToClient
<1>6. ~waits
  BY DEF Link, Waiting
<1> QED BY <1>1, <1>2, <1>3, <1>5, <1>6 DEF Link
-----------------------------------------------------------------------------
(***************************************************************************)
(* One poll reads frame after frame.  In between, what the owner will be   *)
(* told when the poll ends is still in the end's events.                   *)
(***************************************************************************)
\* Session s is older than one that end sv begins.
Before(s, sv) == sv.status = "HANDSHAKING" => s < sv.sid

\* What an end that is in a session brings its owner: the next messages of that session.
Brings(r, e) ==
  e.status = "CONNECTED" =>
    /\ told[r] = e.sid \/ (told[r] = NoSession /\ last[r] < e.sid)
    /\ e.sid \in 1..sessions
    /\ \A i \in 1..Len(e.events) : e.events[i].n = Len(heard[e.sid][r]) + i
    /\ r = "client" => Before(e.sid, server)

News(r, e) ==
  /\ e.status = "HANDSHAKING" => e.events = <<>> /\ told[r] = NoSession
  /\ Brings(r, e)

\* End r holds c, or has just closed it.
Port(r, c, p) ==
  /\ DOMAIN p = {"e", "tx"}
  /\ IsEnd(p.e) /\ p.e.role = r /\ p.e.sock \in {0, c}
  /\ p.e.status \in {"HANDSHAKING", "CONNECTED", "CLOSED"}
  /\ p.tx \in Seq(Frame) /\ Len(p.tx) <= Window
  /\ News(r, p.e)

ClientPort(c, p, in, waits) ==
  Port("client", c, p) /\ Link(c, p.e, server, in, p.tx, Len(p.e.events), 0, waits)

Ready == Types /\ Told /\ Log

LEMMA ServerSession ==
  ASSUME Ready, server.status = "CONNECTED"
  PROVE  server.sid \in 1..MaxSessions
<1>1. server.sid # 0 /\ server.sid \in 0..sessions /\ sessions \in 0..MaxSessions
  BY DEF Ready, Types, Told, Informed, IsEnd, NoSession
<1> QED BY <1>1, ControlAssumption

LEMMA ClientSession ==
  ASSUME Ready, client.status = "CONNECTED"
  PROVE  client.sid \in 1..MaxSessions
<1>1. client.sid # 0 /\ client.sid \in 0..sessions /\ sessions \in 0..MaxSessions
  BY DEF Ready, Types, Told, Informed, IsEnd, NoSession
<1> QED BY <1>1, ControlAssumption

LEMMA ClientCloses ==
  ASSUME Ready, NEW c \in Conns, NEW p, NEW in \in Seq(Frame), NEW waits \in BOOLEAN,
         ClientPort(c, p, in, waits), NEW reason,
         NEW rest, in = <<>> => rest = <<>>
  PROVE  ClientPort(c, [p EXCEPT !.e = Closed(p.e, reason)], rest, waits)
<1> DEFINE q == Closed(p.e, reason)
           r == [p EXCEPT !.e = q]
<1>1. IsEnd(q) /\ q.role = "client" /\ q.status = "CLOSED" /\ q.sock = 0
  BY ClosedEnd DEF ClientPort, Port
<1>2. DOMAIN r = {"e", "tx"} /\ r.e = q /\ r.tx = p.tx
  BY DEF ClientPort, Port
<1> HIDE DEF q, r
<1>3. Port("client", c, r)
  BY <1>1, <1>2 DEF ClientPort, Port, News, Brings
<1>4. Link(c, q, server, rest, p.tx, Len(q.events), 0, waits)
  <2>1. IsEnd(p.e) /\ p.tx \in Seq(Frame) /\ Link(c, p.e, server, in, p.tx, Len(p.e.events), 0, waits)
    BY DEF ClientPort, Port
  <2>2. IsEnd(server) /\ Types
    BY DEF Ready, Types
  <2>3. server.status = "CONNECTED" => server.sid \in 1..MaxSessions
    BY ServerSession
  <2> QED BY <1>1, <2>1, <2>2, <2>3, ClientLeaves
<1> QED BY <1>2, <1>3, <1>4 DEF ClientPort, r, q

\* Frame m is one of session s, whose end r has read k messages since it handed on the last.
ComesNext(r, m, s, k) ==
  /\ m.kind \in {"ping", "pong", "data"} /\ m.sid = s
  /\ m.kind = "data" => m.n = Len(heard[s][r]) + k + 1

\* The frame that is read first goes; a message is one more that was read.
LEMMA ClientTakes ==
  ASSUME Types, NEW c \in Conns, NEW cl, IsEnd(cl), NEW sv, IsEnd(sv),
         NEW in \in Seq(Frame), in # <<>>, NEW out, NEW k \in Nat, NEW l,
         NEW waits \in BOOLEAN,
         Link(c, cl, sv, in, out, k, l, waits),
         cl.sock = c, cl.status = "CONNECTED", cl.sid \in 1..MaxSessions
  PROVE  /\ ComesNext("client", in[1], cl.sid, k)
         /\ in[1].kind # "data" => Link(c, cl, sv, Tail(in), out, k, l, waits)
         /\ in[1].kind = "data" => Link(c, cl, sv, Tail(in), out, k + 1, l, waits)
<1> DEFINE w == Written(c, in, sv)
           v == Written(c, Tail(in), sv)
           h == Len(heard[cl.sid]["client"]) + k
           sent == said[cl.sid]["server"]
<1>1. /\ w \in Seq(Frame) /\ w # <<>> /\ w[1] = in[1] /\ Tail(w) = v
  BY Joined DEF Written, IsEnd
<1>2. ToClient(c, cl, sv, w, k)
  BY DEF Link
<1>3. h \in Nat /\ sent \in Nat
  BY SessionTypes DEF Roles
<1>4. Len(heard[cl.sid]["client"]) \in Nat
  BY SessionTypes DEF Roles
<1>5. ~waits
  BY DEF Link, Waiting
<1> HIDE DEF w, v
<1>6. Plain(w, cl.sid) /\ Delivers(w, h, sent, Up(sv, c))
  BY <1>2 DEF ToClient
<1>7. w[1].kind \in {"ping", "pong", "data"} /\ w[1].sid = cl.sid
  <2>1. 1 \in 1..Len(w)
    BY <1>1, EmptySeq
  <2> QED BY <1>6, <2>1 DEF Plain
<1>8. Plain(v, cl.sid)
  BY <1>1, <1>6, PlainParts
<1> HIDE DEF h, sent
<1>9. /\ w[1].kind # "data" => Delivers(v, h, sent, Up(sv, c))
      /\ w[1].kind = "data" => w[1].n = h + 1 /\ Delivers(v, h + 1, sent, Up(sv, c))
  <2>1. /\ w[1].kind # "data" => Delivers(Tail(w), h, sent, Up(sv, c))
        /\ w[1].kind = "data" => w[1].n = h + 1 /\ Delivers(Tail(w), h + 1, sent, Up(sv, c))
    BY <1>1, <1>3, <1>6, DeliversTail
  <2> QED BY <1>1, <2>1
<1>10. ASSUME NEW j, Delivers(v, Len(heard[cl.sid]["client"]) + j, sent, Up(sv, c))
       PROVE  Link(c, cl, sv, Tail(in), out, j, l, waits)
  <2>1. ToClient(c, cl, sv, v, j)
    BY <1>2, <1>8, <1>10 DEF ToClient, sent
  <2> QED BY <1>5, <2>1 DEF Link, v
<1>11. Len(heard[cl.sid]["client"]) + (k + 1) = h + 1
  <2>1. \A x \in Nat : x + (k + 1) = (x + k) + 1
    OBVIOUS
  <2> QED BY <1>4, <2>1, Zenon DEF h
<1> QED BY <1>1, <1>7, <1>9, <1>10, <1>11 DEF h, ComesNext

LEMMA ServerTakes ==
  ASSUME Types, NEW c \in Conns, NEW cl, IsEnd(cl), NEW sv, IsEnd(sv),
         NEW in, NEW out \in Seq(Frame), out # <<>>, NEW k, NEW l \in Nat,
         NEW waits \in BOOLEAN,
         Link(c, cl, sv, in, out, k, l, waits),
         sv.sock = c, sv.status = "CONNECTED", sv.sid \in 1..MaxSessions
  PROVE  /\ ComesNext("server", out[1], sv.sid, l)
         /\ out[1].kind # "data" => Link(c, cl, sv, in, Tail(out), k, l, waits)
         /\ out[1].kind = "data" => Link(c, cl, sv, in, Tail(out), k, l + 1, waits)
<1> DEFINE w == Written(c, out, cl)
           v == Written(c, Tail(out), cl)
           h == Len(heard[sv.sid]["server"]) + l
           sent == said[sv.sid]["client"]
<1>1. /\ w \in Seq(Frame) /\ w # <<>> /\ w[1] = out[1] /\ Tail(w) = v
  BY Joined DEF Written, IsEnd
<1>2. ToServer(c, sv, cl, w, l)
  BY DEF Link
<1>3. h \in Nat /\ sent \in Nat
  BY SessionTypes DEF Roles
<1>4. Len(heard[sv.sid]["server"]) \in Nat
  BY SessionTypes DEF Roles
<1>5. ~waits
  BY DEF Link, Waiting
<1> HIDE DEF w, v
<1>6. /\ Plain(w, sv.sid) /\ Delivers(w, h, sent, Up(cl, c))
      /\ ~(cl.sock = c /\ cl.status = "HANDSHAKING")
  BY <1>1, <1>2 DEF ToServer
<1>7. w[1].kind \in {"ping", "pong", "data"} /\ w[1].sid = sv.sid
  <2>1. 1 \in 1..Len(w)
    BY <1>1, EmptySeq
  <2> QED BY <1>6, <2>1 DEF Plain
<1>8. Plain(v, sv.sid)
  BY <1>1, <1>6, PlainParts
<1> HIDE DEF h, sent
<1>9. /\ w[1].kind # "data" => Delivers(v, h, sent, Up(cl, c))
      /\ w[1].kind = "data" => w[1].n = h + 1 /\ Delivers(v, h + 1, sent, Up(cl, c))
  <2>1. /\ w[1].kind # "data" => Delivers(Tail(w), h, sent, Up(cl, c))
        /\ w[1].kind = "data" => w[1].n = h + 1 /\ Delivers(Tail(w), h + 1, sent, Up(cl, c))
    BY <1>1, <1>3, <1>6, DeliversTail
  <2> QED BY <1>1, <2>1
<1>10. ASSUME NEW j, Delivers(v, Len(heard[sv.sid]["server"]) + j, sent, Up(cl, c))
       PROVE  Link(c, cl, sv, in, Tail(out), k, j, waits)
  <2>1. ToServer(c, sv, cl, v, j)
    BY <1>2, <1>6, <1>8, <1>10 DEF ToServer, sent
  <2> QED BY <1>5, <2>1 DEF Link, v
<1>11. Len(heard[sv.sid]["server"]) + (l + 1) = h + 1
  <2>1. \A x \in Nat : x + (l + 1) = (x + l) + 1
    OBVIOUS
  <2> QED BY <1>4, <2>1, Zenon DEF h
<1> QED BY <1>1, <1>7, <1>9, <1>10, <1>11 DEF h, ComesNext

\* Session s is one the client was never told of.
NewToClient(s) == last["client"] < s /\ s \in 1..sessions /\ s \in 1..MaxSessions

\* The client's handshake ends with the answer that accepts it.
LEMMA ClientEnters ==
  ASSUME Types, Log, NEW c \in Conns, NEW cl, IsEnd(cl), cl.role = "client", NEW sv, IsEnd(sv), sv.role = "server",
         NEW in \in Seq(Frame), in # <<>>, NEW out, NEW k, NEW l \in Nat,
         NEW waits \in BOOLEAN,
         Link(c, cl, sv, in, out, k, l, waits),
         cl.sock = c, cl.status = "HANDSHAKING",
         NEW q, q.role = "client", q.sock = c, q.status = "CONNECTED", q.sid = in[1].sid,
         q.closing = cl.closing, q.out = cl.out
  PROVE  /\ in[1].kind = "ack" /\ NewToClient(in[1].sid)
         /\ in[1].n # 0 => Before(in[1].sid, sv)
         /\ in[1].n # 0 => Link(c, q, sv, Tail(in), out, 0, l, waits)
<1> DEFINE w == Written(c, in, sv)
           v == Written(c, Tail(in), sv)
           s == in[1].sid
<1>1. /\ w \in Seq(Frame) /\ w # <<>> /\ w[1] = in[1] /\ Tail(w) = v
  BY Joined DEF Written, IsEnd
<1>2. ToClient(c, cl, sv, w, k)
  BY DEF Link
<1>3. ~waits
  BY DEF Link, Waiting
<1>4. Written(c, out, q) = Written(c, out, cl)
  BY DEF Written
<1> HIDE DEF w, v
<1>5. Answered(c, sv, w)
  BY <1>1, <1>2 DEF ToClient
<1>6. /\ in[1].kind = "ack" /\ s \in last["client"] + 1..sessions
      /\ sv.sock = c => /\ s = sv.sid
                        /\ in[1].n # 0 => sv.status = "CONNECTED"
      /\ Plain(v, s) /\ Delivers(v, 0, said[s]["server"], Up(sv, c))
  BY <1>1, <1>5 DEF Answered
<1>7. s \in 1..sessions /\ s \in 1..MaxSessions /\ last["client"] < s
  <2>1. last["client"] \in Nat /\ sessions \in 0..MaxSessions /\ MaxSessions \in Nat
    BY ControlAssumption DEF Types, Roles
  <2> HIDE DEF s
  <2> QED BY <1>6, <2>1
<1>8. said[s]["client"] = 0 /\ heard[s]["client"] = <<>>
  BY <1>7 DEF Log, Roles
<1>9. ASSUME in[1].n # 0 PROVE ToClient(c, q, sv, v, 0)
  <2>1. Len(heard[s]["client"]) + 0 = 0
    BY <1>8
  <2> QED BY <1>6, <1>9, <2>1 DEF ToClient
<1>10. ASSUME in[1].n # 0, sv.sock = c PROVE ToServer(c, sv, q, Written(c, out, q), l)
  <2>1. ToServer(c, sv, cl, Written(c, out, cl), l) /\ sv.status = "CONNECTED" /\ sv.sid = s
    BY <1>6, <1>10 DEF Link
  <2> DEFINE h == Len(heard[s]["server"]) + l
             z == Written(c, out, cl)
  <2>2. z = <<>> /\ Plain(z, s) /\ Delivers(z, h, said[s]["client"], Up(cl, c))
    BY <2>1 DEF ToServer
  <2>3. h \in Nat
    BY <1>7, SessionTypes DEF Roles
  <2>4. h <= 0
    <3> HIDE DEF h, z
    <3>1. z \in Seq(Frame) /\ 0 \in Nat
      BY <2>2
    <3> QED BY <1>8, <2>2, <3>1, DeliversBound
  <2>5. Delivers(z, h, said[s]["client"], Up(q, c))
    <3>1. h = 0
      BY <2>3, <2>4
    <3>2. Delivers(<<>>, 0, 0, Up(q, c))
      <4>1. Up(q, c) \in BOOLEAN
        BY DEF Up
      <4> QED BY <4>1, DeliversNothing
    <3> HIDE DEF h, z
    <3> QED BY <1>8, <2>2, <3>1, <3>2
  <2> QED BY <1>4, <2>1, <2>2, <2>5 DEF ToServer
<1>11. in[1].n # 0 => Link(c, q, sv, Tail(in), out, 0, l, waits)
  BY <1>3, <1>9, <1>10 DEF Link, v
<1>12. NewToClient(s)
  BY <1>7 DEF NewToClient
<1>13. in[1].n # 0 => Before(s, sv)
  BY <1>1, <1>5, <1>6 DEF Answered, IsEnd, Before
<1> QED BY <1>6, <1>11, <1>12, <1>13

\* An end takes note of a message it has read.
LEMMA NotedEnd ==
  ASSUME NEW e, IsEnd(e), NEW m \in Frame
  PROVE  LET q == [e EXCEPT !.events = Append(@, m)] IN
         /\ IsEnd(q) /\ Alike(q, e) /\ q.out = e.out
         /\ q.events = Append(e.events, m)
<1> DEFINE q == [e EXCEPT !.events = Append(e.events, m)]
<1>1. /\ DOMAIN q = Fields /\ q.events = Append(e.events, m)
      /\ \A f \in Fields \ {"events"} : q[f] = e[f]
  BY DEF IsEnd, Fields
<1>2. q.events \in Seq(Frame)
  BY <1>1, AppendProperties DEF IsEnd
<1> HIDE DEF q
<1>3. Alike(q, e) /\ q.out = e.out
  BY <1>1 DEF Alike, Fields
<1>4. IsEnd(q)
  BY <1>1, <1>2 DEF IsEnd, Fields
<1> QED BY <1>1, <1>3, <1>4 DEF q

LEMMA PongFrame ==
  ASSUME NEW s \in Nat
  PROVE  /\ Pong(s) \in Frame /\ Pong(s).kind = "pong" /\ Pong(s).sid = s
         /\ Ping(s) \in Frame /\ Ping(s).kind = "ping" /\ Ping(s).sid = s
BY DEF Pong, Ping, Frame, Kinds

LEMMA ClientHandles ==
  ASSUME Ready, NEW c \in Conns, NEW e, NEW tx \in Seq(Frame), NEW in \in Seq(Frame), in # <<>>,
         NEW waits \in BOOLEAN,
         IsEnd(e), e.role = "client", e.sock = c, e.status \in {"HANDSHAKING", "CONNECTED"},
         News("client", e), Link(c, e, server, in, tx, Len(e.events), 0, waits),
         ~WrongVersion(in[1])
  PROVE  LET q == HandleMessage(e, in[1]) IN
         /\ IsEnd(q) /\ q.role = "client" /\ q.sock \in {0, c}
         /\ q.status \in {"HANDSHAKING", "CONNECTED", "CLOSED"}
         /\ News("client", q)
         /\ Link(c, q, server, Tail(in), tx, Len(q.events), 0, waits)
<1> DEFINE m == in[1]
           q == HandleMessage(e, m)
           Goal(x) == /\ IsEnd(x) /\ x.role = "client" /\ x.sock \in {0, c}
                      /\ x.status \in {"HANDSHAKING", "CONNECTED", "CLOSED"}
                      /\ News("client", x)
                      /\ Link(c, x, server, Tail(in), tx, Len(x.events), 0, waits)
<1>1. Tail(in) \in Seq(Frame) /\ m \in Frame /\ 0 \in Nat
  BY Joined, HeadTailProperties, LenProperties, EmptySeq, ElementOfSeq
<1>2. /\ IsEnd(server) /\ server.role = "server" /\ Types /\ Log
      /\ (server.status = "CONNECTED" => server.sid \in 1..MaxSessions)
  BY ServerSession DEF Ready, Types
<1>3. Len(e.events) \in Nat /\ e.events \in Seq(Frame) /\ e.closing = "NONE"
  BY LenProperties DEF IsEnd
<1>4. ASSUME NEW x, IsEnd(x), x.role = "client", x.status = "CLOSED", x.sock = 0 PROVE Goal(x)
  BY <1>1, <1>2, <1>3, <1>4, ClientLeaves DEF News, Brings
<1> HIDE DEF Goal
<1>5. CASE e.status = "HANDSHAKING"
  <2> DEFINE a == HandleAck(e, m)
  <2>1. e.events = <<>> /\ told["client"] = NoSession /\ e.sid = NoSession
    BY <1>5 DEF News, Brings, IsEnd
  <2>2. /\ DOMAIN a = Fields /\ a.sid = m.sid /\ a.status = "CONNECTED" /\ a.left = NoDeadline
        /\ \A f \in Fields \ {"sid", "status", "left"} : a[f] = e[f]
    BY DEF HandleAck, IsEnd, Fields
  <2> HIDE DEF a
  <2>3. /\ a.role = "client" /\ a.sock = c /\ a.closing = e.closing /\ a.out = e.out
        /\ a.events = <<>> /\ a.status = "CONNECTED" /\ a.sid = m.sid
    BY <2>1, <2>2 DEF Fields
  <2>4. m.kind = "ack" /\ NewToClient(m.sid)
    <3>1. m.kind = "ack"
      BY <1>1, <1>2, <1>5, <2>3, ClientEnters, ZenonT(60)
    <3>2. NewToClient(in[1].sid)
      BY <1>1, <1>2, <1>5, <2>3, ClientEnters, ZenonT(30)
    <3> QED BY <3>1, <3>2
  <2>40. m.n # 0 => Link(c, a, server, Tail(in), tx, 0, 0, waits)
    BY <1>1, <1>2, <1>5, <2>3, ClientEnters
  <2>5. m.n # 0
    BY <2>4 DEF WrongVersion
  <2>50. Before(m.sid, server)
    <3>1. m.n # 0 => Before(m.sid, server)
      BY <1>1, <1>2, <1>5, <2>3, ClientEnters, ZenonT(60)
    <3> QED BY <2>5, <3>1
  <2>6. q = a
    BY <1>5, <2>4 DEF HandleMessage, a
  <2>7. IsEnd(a)
    <3>1. m.sid \in Nat \ {0}
      BY <1>1, <2>4 DEF Frame, NewToClient
    <3> HIDE DEF m
    <3> QED BY <1>3, <2>2, <2>3, <3>1 DEF IsEnd, Fields, NoSession
  <2>8. News("client", a)
    <3> HIDE DEF m
    <3> QED BY <2>1, <2>3, <2>4, <2>50 DEF News, Brings, NewToClient
  <2>9. Len(a.events) = 0
    BY <2>3
  <2>10. Goal(a)
    BY <2>3, <2>40, <2>5, <2>7, <2>8, <2>9 DEF Goal
  <2> QED BY <2>6, <2>10 DEF Goal
<1>6. CASE e.status = "CONNECTED"
  <2>1. q = HandleCommon(e, m)
    BY <1>6 DEF HandleMessage
  <2>2. /\ e.sid \in 1..sessions /\ e.sid \in 1..MaxSessions
        /\ told["client"] = e.sid \/ (told["client"] = NoSession /\ last["client"] < e.sid)
        /\ \A i \in 1..Len(e.events) : e.events[i].n = Len(heard[e.sid]["client"]) + i
        /\ Before(e.sid, server)
    <3>1. sessions \in 0..MaxSessions /\ MaxSessions \in Nat
      BY <1>2, ControlAssumption DEF Types
    <3>2. /\ e.sid \in 1..sessions
          /\ told["client"] = e.sid \/ (told["client"] = NoSession /\ last["client"] < e.sid)
          /\ \A i \in 1..Len(e.events) : e.events[i].n = Len(heard[e.sid]["client"]) + i
          /\ Before(e.sid, server)
      BY <1>6 DEF News, Brings
    <3>3. e.sid \in 1..MaxSessions
      BY <3>1, <3>2
    <3> QED BY <3>2, <3>3
  <2>3. /\ m.kind \in {"ping", "pong", "data"} /\ m.sid = e.sid
        /\ m.kind # "data" => Link(c, e, server, Tail(in), tx, Len(e.events), 0, waits)
        /\ m.kind = "data" =>
             /\ m.n = Len(heard[e.sid]["client"]) + Len(e.events) + 1
             /\ Link(c, e, server, Tail(in), tx, Len(e.events) + 1, 0, waits)
    <3>1. e.sid \in 1..MaxSessions
      BY <2>2
    <3>2. PICK k \in Nat : k = Len(e.events)
      BY <1>3
    <3>3. Link(c, e, server, in, tx, k, 0, waits)
      BY <3>2
    <3>4. ComesNext("client", m, e.sid, k)
      BY <1>2, <1>6, <3>1, <3>3, ClientTakes
    <3>5. m.kind # "data" => Link(c, e, server, Tail(in), tx, k, 0, waits)
      BY <1>2, <1>6, <3>1, <3>3, ClientTakes
    <3>6. m.kind = "data" => Link(c, e, server, Tail(in), tx, k + 1, 0, waits)
      BY <1>2, <1>6, <3>1, <3>3, ClientTakes
    <3> QED BY <3>2, <3>4, <3>5, <3>6 DEF ComesNext
  <2>4. CASE m.kind = "pong"
    <3>1. q = e
      BY <2>1, <2>4 DEF HandleCommon
    <3> QED BY <2>3, <2>4, <3>1
  <2>5. CASE m.kind = "ping"
    <3>1. q = SendMessage(e, Pong(m.sid))
      BY <2>1, <2>5 DEF HandleCommon
    <3> DEFINE a == Pong(m.sid)
    <3>2. a \in Frame /\ a.kind = "pong" /\ a.sid = e.sid
      BY <2>3, PongFrame DEF IsEnd
    <3> HIDE DEF a, q
    <3>3. /\ IsEnd(q) /\ q.role = "client" /\ q.events = e.events
          /\ \/ q.sock = 0 /\ q.status = "CLOSED"
             \/ Alike(q, e) /\ q.out = Append(e.out, a)
      BY <3>1, <3>2, SentEnd DEF a
    <3>4. CASE q.sock = 0 /\ q.status = "CLOSED"
      BY <1>4, <3>3, <3>4 DEF Goal, q
    <3>5. CASE Alike(q, e) /\ q.out = Append(e.out, a)
      <4>1. Link(c, e, server, Tail(in), tx, Len(e.events), 0, waits)
        BY <2>3, <2>5
      <4>2. Link(c, q, server, Tail(in), tx, Len(e.events), 0, waits)
        <5>1. e.sid \in 1..MaxSessions
          BY <2>2
        <5> HIDE DEF m
        <5> QED BY <1>1, <1>2, <1>3, <1>6, <3>2, <3>5, <4>1, <5>1, ClientSignals, ZenonT(60)
      <4>3. News("client", q)
        BY <1>6, <2>2, <3>3, <3>5 DEF News, Brings, Alike
      <4>4. Goal(q)
        BY <1>6, <3>3, <3>5, <4>2, <4>3 DEF Goal, Alike
      <4> QED BY <4>4 DEF Goal, q
    <3> QED BY <3>3, <3>4, <3>5
  <2>6. CASE m.kind = "data"
    <3>1. CASE Len(e.events) >= MaxInboundQueue
      <4>1. q = Closed(e, "QUEUE_OVERFLOW")
        BY <2>1, <2>6, <3>1 DEF HandleCommon
      <4>2. Goal(q)
        <5>1. IsEnd(q) /\ q.role = "client" /\ q.status = "CLOSED" /\ q.sock = 0
          BY <4>1, ClosedEnd
        <5> QED BY <1>4, <5>1
      <4> QED BY <4>2 DEF Goal
    <3>2. CASE ~(Len(e.events) >= MaxInboundQueue)
      <4>1. q = [e EXCEPT !.events = Append(@, m)]
        BY <2>1, <2>6, <3>2 DEF HandleCommon
      <4>2. IsEnd(q) /\ Alike(q, e) /\ q.out = e.out /\ q.events = Append(e.events, m)
        BY <1>1, <4>1, NotedEnd
      <4> HIDE DEF q
      <4>3. /\ Len(q.events) = Len(e.events) + 1 /\ q.events[Len(e.events) + 1] = m
            /\ \A i \in 1..Len(e.events) : q.events[i] = e.events[i]
        BY <1>1, <1>3, <4>2, AppendProperties
      <4>4. Link(c, q, server, Tail(in), tx, Len(e.events) + 1, 0, waits)
        <5>1. Link(c, e, server, Tail(in), tx, Len(e.events) + 1, 0, waits)
          BY <2>3, <2>6
        <5>2. tx \o q.out = tx \o e.out
          BY <4>2
        <5> QED BY <4>2, <5>1, <5>2, ClientFlushes
      <4>5. \A i \in 1..Len(q.events) : q.events[i].n = Len(heard[e.sid]["client"]) + i
        <5> DEFINE h == Len(heard[e.sid]["client"])
                   n == Len(e.events)
        <5>1. h \in Nat
          BY <1>2, <2>2, SessionTypes DEF Roles
        <5>2. m.n = h + n + 1
          BY <2>3, <2>6
        <5> HIDE DEF m, h, n
        <5>3. m.n = h + (n + 1)
          BY <1>3, <5>1, <5>2 DEF n
        <5>4. \A i \in 1..n : q.events[i].n = h + i
          BY <2>2, <4>3 DEF h, n
        <5>5. Len(q.events) = n + 1 /\ q.events[n + 1].n = h + (n + 1) /\ n \in Nat
          BY <1>3, <4>3, <5>3 DEF n
        <5>6. \A i \in 1..(n + 1) : i \in 1..n \/ i = n + 1
          BY <5>5
        <5>7. \A i \in 1..(n + 1) : q.events[i].n = h + i
          BY <5>4, <5>5, <5>6
        <5> QED BY <5>5, <5>7 DEF h
      <4>6. News("client", q)
        BY <1>6, <2>2, <4>2, <4>5 DEF News, Brings, Alike
      <4>7. Goal(q)
        BY <1>6, <4>2, <4>3, <4>4, <4>6 DEF Goal, Alike
      <4> QED BY <4>7 DEF Goal, q
    <3> QED BY <3>1, <3>2
  <2> QED BY <2>3, <2>4, <2>5, <2>6
<1> QED BY <1>5, <1>6

LEMMA PortChanged ==
  ASSUME NEW p, DOMAIN p = {"e", "tx"}, NEW x
  PROVE  /\ DOMAIN [p EXCEPT !.e = x] = {"e", "tx"}
         /\ [p EXCEPT !.e = x].e = x /\ [p EXCEPT !.e = x].tx = p.tx
OBVIOUS

LEMMA ClientReads ==
  ASSUME Ready, NEW c \in Conns, NEW p, NEW in \in Seq(Frame), in # <<>>, NEW waits \in BOOLEAN,
         ClientPort(c, p, in, waits), NEW expected
  PROVE  ClientPort(c, HandleFrame(expected, p, in[1]), Tail(in), waits)
<1> DEFINE m == in[1]
           e == p.e
<1>1. /\ DOMAIN p = {"e", "tx"} /\ IsEnd(e) /\ e.role = "client" /\ e.sock \in {0, c}
      /\ e.status \in {"HANDSHAKING", "CONNECTED", "CLOSED"}
      /\ p.tx \in Seq(Frame) /\ Len(p.tx) <= Window /\ News("client", e)
      /\ Link(c, e, server, in, p.tx, Len(e.events), 0, waits)
  BY DEF ClientPort, Port
<1>2. Tail(in) \in Seq(Frame) /\ m \in Frame
  BY Joined, HeadTailProperties, LenProperties, EmptySeq, ElementOfSeq
<1>3. ASSUME NEW reason PROVE ClientPort(c, [p EXCEPT !.e = Closed(p.e, reason)], Tail(in), waits)
  BY ClientCloses
<1>4. /\ IsEnd(server) /\ Types
      /\ (server.status = "CONNECTED" => server.sid \in 1..MaxSessions)
  BY ServerSession DEF Ready, Types
<1>5. CASE e.status = "CLOSED"
  <2>1. HandleFrame(expected, p, m) = p
    BY <1>5 DEF HandleFrame
  <2>2. e.sock = 0
    BY <1>1, <1>5 DEF IsEnd
  <2>3. Link(c, e, server, Tail(in), p.tx, Len(e.events), 0, waits)
    BY <1>1, <1>4, <2>2, ClientLeaves
  <2> QED BY <2>1, <2>3 DEF ClientPort
<1>6. CASE e.status # "CLOSED"
  <2>1. e.sock = c /\ e.closing = "NONE" /\ e.status \in {"HANDSHAKING", "CONNECTED"}
    BY <1>1, <1>6 DEF IsEnd
  <2>2. CASE WrongVersion(m)
    <3>1. HandleFrame(expected, p, m) = HandleVersionMismatch(p)
      BY <1>6, <2>1, <2>2 DEF HandleFrame
    <3>2. HandleVersionMismatch(p) = [p EXCEPT !.e = Closed(p.e, "PROTOCOL_INCOMPATIBLE")]
      BY <1>1 DEF HandleVersionMismatch
    <3> QED BY <1>3, <3>1, <3>2
  <2>3. CASE ~WrongVersion(m) /\ WrongSession(expected, m)
    <3>1. HandleFrame(expected, p, m) = [p EXCEPT !.e = Closed(p.e, "SESSION_MISMATCH")]
      BY <1>6, <2>1, <2>3 DEF HandleFrame
    <3> QED BY <1>3, <3>1
  <2>4. CASE ~WrongVersion(m) /\ ~WrongSession(expected, m)
    <3> DEFINE q == HandleMessage(e, m)
    <3>1. HandleFrame(expected, p, m) = [p EXCEPT !.e = q]
      BY <1>6, <2>1, <2>4 DEF HandleFrame
    <3>2. /\ IsEnd(q) /\ q.role = "client" /\ q.sock \in {0, c}
          /\ q.status \in {"HANDSHAKING", "CONNECTED", "CLOSED"}
          /\ News("client", q)
          /\ Link(c, q, server, Tail(in), p.tx, Len(q.events), 0, waits)
      BY <1>1, <2>1, <2>4, ClientHandles
    <3> DEFINE r == [p EXCEPT !.e = q]
    <3>3. DOMAIN r = {"e", "tx"} /\ r.e = q /\ r.tx = p.tx
      BY <1>1, PortChanged
    <3> HIDE DEF q, r
    <3>4. ClientPort(c, r, Tail(in), waits)
      BY <1>1, <3>2, <3>3 DEF ClientPort, Port
    <3> QED BY <3>1, <3>4 DEF r
  <2> QED BY <2>2, <2>3, <2>4
<1> QED BY <1>5, <1>6

\* Session s is one that neither end was told of.
NewToBoth(s) ==
  /\ last["server"] < s /\ last["client"] < s
  /\ s \in 1..sessions /\ s \in 1..MaxSessions

ServerPort(c, p, out, waits) ==
  /\ Port("server", c, p)
  /\ p.e.status = "HANDSHAKING" => NewToBoth(p.e.sid)
  /\ p.e.sid \in {server.sid, NoSession}
  /\ Link(c, client, p.e, p.tx, out, 0, Len(p.e.events), waits)

\* What a server in its handshake knows of the client and of what is written.
LEMMA ServerHailed ==
  ASSUME Types, NEW c \in Conns, NEW cl, IsEnd(cl), cl.role = "client", NEW sv, IsEnd(sv),
         NEW in \in Seq(Frame), NEW out \in Seq(Frame), out # <<>>, NEW k, NEW l,
         NEW waits \in BOOLEAN,
         Link(c, cl, sv, in, out, k, l, waits),
         sv.sock = c, sv.status = "HANDSHAKING", sv.closing = "NONE"
  PROVE  /\ out[1].kind = "hello" /\ Written(c, Tail(out), cl) = <<>> /\ ~waits
         /\ cl.sock = c => cl.status = "HANDSHAKING" /\ in \o sv.out = <<>>
<1> DEFINE v == Written(c, out, cl)
           w == Written(c, in, sv)
<1>1. v \in Seq(Frame) /\ v # <<>> /\ v[1] = out[1] /\ Tail(v) = Written(c, Tail(out), cl)
  BY Joined DEF Written, IsEnd
<1>2. ToServer(c, sv, cl, v, l)
  BY DEF Link
<1>3. ~waits
  BY DEF Link, Waiting
<1>4. w = in \o sv.out
  BY DEF Written
<1> HIDE DEF v
<1>5. Hailed(c, cl, v)
  BY <1>2 DEF ToServer
<1>6. IsHello(v) /\ (cl.sock = c => cl.status = "HANDSHAKING")
  BY <1>1, <1>5 DEF Hailed
<1>7. Tail(v) = <<>>
  <2>1. Len(v) = 1
    BY <1>6 DEF IsHello
  <2>2. Tail(v) \in Seq(Frame) /\ Len(Tail(v)) = 0
    BY <1>1, <2>1, HeadTailProperties
  <2> QED BY <2>2, EmptySeq
<1>8. ASSUME cl.sock = c PROVE w = <<>>
  <2> HIDE DEF w
  <2>1. ToClient(c, cl, sv, w, k)
    BY <1>8 DEF Link, w
  <2>2. w # <<>> => Answered(c, sv, w)
    BY <1>6, <1>8, <2>1 DEF ToClient
  <2> QED BY <2>2 DEF Answered
<1> QED BY <1>1, <1>3, <1>4, <1>6, <1>7, <1>8 DEF IsHello

LEMMA AckFrame ==
  ASSUME NEW s \in Nat, NEW yes \in BOOLEAN
  PROVE  /\ Ack(s, yes) \in Frame /\ Ack(s, yes).kind = "ack" /\ Ack(s, yes).sid = s
         /\ yes => Ack(s, yes).n = 1
         /\ ~yes => Ack(s, yes).n = 0
BY DEF Ack, Frame, Kinds

\* The server answers the hello: with a session of its own, or with a refusal.
LEMMA ServerAnswers ==
  ASSUME Types, Log, NEW c \in Conns, NEW cl, IsEnd(cl), cl.role = "client", NEW sv, IsEnd(sv),
         NEW in \in Seq(Frame), NEW out \in Seq(Frame), out # <<>>, NEW k, NEW l,
         NEW waits \in BOOLEAN,
         Link(c, cl, sv, in, out, k, l, waits),
         sv.sock = c, sv.status = "HANDSHAKING", sv.closing = "NONE", NewToBoth(sv.sid),
         NEW yes \in BOOLEAN, NEW q, q.sock = c, q.sid = sv.sid,
         q.status = IF yes THEN "CONNECTED" ELSE "HANDSHAKING",
         q.closing # "NONE" <=> ~yes,
         q.out = Append(sv.out, Ack(sv.sid, yes))
  PROVE  Link(c, cl, q, in, Tail(out), k, 0, waits)
<1> DEFINE s == sv.sid
           a == Ack(s, yes)
           w == Written(c, in, q)
<1>1. /\ Written(c, Tail(out), cl) = <<>> /\ ~waits
      /\ cl.sock = c => cl.status = "HANDSHAKING" /\ in \o sv.out = <<>>
  BY ServerHailed
<1>2. /\ a \in Frame /\ a.kind = "ack" /\ a.sid = s
      /\ IF yes THEN a.n = 1 ELSE a.n = 0
  BY AckFrame DEF IsEnd
<1>3. s \in 1..MaxSessions /\ said[s]["server"] = 0 /\ said[s]["client"] = 0 /\ heard[s]["server"] = <<>>
  <2>1. s \in 1..MaxSessions /\ last["server"] < s /\ last["client"] < s
    BY DEF NewToBoth
  <2> QED BY <2>1 DEF Log, Roles
<1>4. Delivers(<<>>, 0, 0, TRUE) /\ Delivers(<<>>, 0, 0, FALSE)
  BY CarriesNothing DEF Delivers
<1> HIDE DEF a, s
<1>5. ToServer(c, q, cl, <<>>, 0)
  <2>1. CASE yes
    <3>1. q.status = "CONNECTED" /\ q.sid = s
      BY <2>1 DEF s
    <3>2. Delivers(<<>>, Len(heard[s]["server"]) + 0, said[s]["client"], Up(cl, c))
      <4>1. Len(heard[s]["server"]) + 0 = 0
        BY <1>3
      <4>2. Delivers(<<>>, 0, 0, Up(cl, c))
        BY <1>4 DEF Delivers
      <4> QED BY <1>3, <4>1, <4>2
    <3>3. Plain(<<>>, s)
      BY DEF Plain
    <3> QED BY <3>1, <3>2, <3>3 DEF ToServer
  <2>2. CASE ~yes
    BY <1>1, <2>2 DEF ToServer, Hailed
  <2> QED BY <2>1, <2>2
<1>6. ASSUME cl.sock = c PROVE ToClient(c, cl, q, w, k)
  <2>1. w = <<a>>
    <3>1. w = in \o Append(sv.out, a)
      BY DEF Written, a, s
    <3>2. in \o Append(sv.out, a) = Append(in \o sv.out, a)
      BY <1>2, AppendJoined DEF IsEnd
    <3>3. in \o sv.out = <<>>
      BY <1>1, <1>6
    <3>4. Append(<<>>, a) = <<a>>
      OBVIOUS
    <3> HIDE DEF w
    <3> QED BY <3>1, <3>2, <3>3, <3>4
  <2> HIDE DEF w
  <2>2. w # <<>> /\ w[1] = a /\ Tail(w) = <<>>
    BY <2>1
  <2>3. s \in last["client"] + 1..sessions
    <3>1. last["client"] \in Nat /\ sessions \in Nat
      BY DEF Types, Roles
    <3> QED BY <3>1 DEF NewToBoth, s
  <2>4. Delivers(<<>>, 0, said[s]["server"], Up(q, c)) /\ Plain(<<>>, s)
    BY <1>3, <1>4 DEF Delivers, Plain
  <2>5. Answered(c, q, w)
    <3>1. q.sid = s /\ IF a.n = 0 THEN q.closing # "NONE" ELSE q.status = "CONNECTED"
      BY <1>2 DEF s
    <3> QED BY <1>2, <2>2, <2>3, <2>4, <3>1 DEF Answered
  <2> QED BY <1>1, <1>6, <2>2, <2>5 DEF ToClient
<1> QED BY <1>1, <1>5, <1>6 DEF Link

LEMMA Flushed ==
  ASSUME NEW p, DOMAIN p = {"e", "tx"}, IsEnd(p.e), p.tx \in Seq(Frame), Len(p.tx) <= Window
  PROVE  LET q == FlushOutbound(p) IN
         /\ DOMAIN q = {"e", "tx"} /\ q.tx \in Seq(Frame) /\ Len(q.tx) <= Window
         /\ IsEnd(q.e) /\ q.e.role = p.e.role /\ q.e.events = p.e.events
         /\ \/ Alike(q.e, p.e) /\ q.tx \o q.e.out = p.tx \o p.e.out
            \/ /\ p.e.closing # "NONE" /\ q.e.status = "CLOSED" /\ q.e.sock = 0
               /\ q.e.sid = NoSession /\ q.tx = p.tx \o p.e.out
<1> DEFINE e == p.e
           out == p.e.out
           n == Least(Len(out), Window - Len(p.tx))
           left == SubSeq(out, n + 1, Len(out))
           tx == p.tx \o SubSeq(out, 1, n)
           x == [e EXCEPT !.out = left]
           q == [e |-> x, tx |-> tx]
<1>1. out \in Seq(Frame) /\ Len(out) \in Nat /\ Len(p.tx) \in Nat /\ Window \in Nat
  BY LenProperties, TransportAssumption DEF IsEnd
<1>2. n \in 0..Len(out) /\ Len(p.tx) + n <= Window
  BY <1>1 DEF Least
<1> HIDE DEF n
<1>3. /\ SubSeq(out, 1, n) \in Seq(Frame) /\ Len(SubSeq(out, 1, n)) = n
      /\ left \in Seq(Frame) /\ SubSeq(out, 1, n) \o left = out
  BY <1>1, <1>2, Cut
<1>4. tx \in Seq(Frame) /\ Len(tx) = Len(p.tx) + n
  BY <1>3, ConcatProperties
<1>5. tx \o left = p.tx \o out
  <2> DEFINE u == p.tx
             v == SubSeq(out, 1, n)
  <2>1. u \in Seq(Frame) /\ v \in Seq(Frame) /\ left \in Seq(Frame) /\ v \o left = out
    BY <1>3
  <2>2. tx = u \o v
    OBVIOUS
  <2> HIDE DEF left, u, v, tx
  <2>3. (u \o v) \o left = u \o (v \o left)
    BY <2>1, Associate
  <2> QED BY <2>1, <2>2, <2>3 DEF u
<1>6. /\ DOMAIN x = Fields /\ x.out = left /\ \A f \in Fields \ {"out"} : x[f] = e[f]
  BY DEF IsEnd, Fields
<1>7. Alike(x, e) /\ x.events = e.events
  <2> HIDE DEF x
  <2> QED BY <1>6 DEF Alike, Fields
<1>8. FlushOutbound(p) = [e  |-> IF x.out = <<>> /\ x.closing # "NONE"
                                THEN Closed(x, x.closing) ELSE x,
                         tx |-> tx]
  BY DEF FlushOutbound, n
<1> HIDE DEF x
<1>9. CASE left = <<>> /\ e.closing # "NONE"
  <2> DEFINE y == Closed(x, x.closing)
             z == [e |-> y, tx |-> tx]
  <2>1. DOMAIN x = Fields /\ x.role \in Roles
    BY <1>6, <1>7 DEF IsEnd, Alike
  <2>2. /\ DOMAIN y = Fields
        /\ y.role = x.role /\ y.status = "CLOSED" /\ y.sock = 0
        /\ y.out = <<>> /\ y.closing = "NONE" /\ y.sid = NoSession /\ y.events = x.events
        /\ y.quiet = x.quiet /\ y.sent = x.sent /\ y.left = NoDeadline /\ y.token = x.token
    BY <2>1, ClosedFields
  <2>3. DOMAIN z = {"e", "tx"} /\ z.e = y /\ z.tx = tx
    OBVIOUS
  <2> HIDE DEF y, z
  <2>4. IsEnd(y)
    <3>1. <<>> \in Seq(Frame) /\ NoSession \in Nat /\ NoSession = 0
      BY DEF NoSession
    <3>2. x.quiet = e.quiet /\ x.sent = e.sent /\ x.token = e.token /\ x.events = e.events
      BY <1>6 DEF Fields
    <3> HIDE DEF e
    <3>3. e.quiet \in Nat /\ e.sent \in Nat /\ e.token \in Nat /\ e.events \in Seq(Frame)
      BY DEF IsEnd, e
    <3> QED BY <2>1, <2>2, <3>1, <3>2, <3>3 DEF IsEnd
  <2>5. tx = p.tx \o out
    <3>1. tx \o <<>> = tx
      BY <1>4, ConcatEmptySeq
    <3> HIDE DEF tx, left, e
    <3> QED BY <1>5, <1>9, <3>1
  <2>6. FlushOutbound(p) = z
    BY <1>6, <1>7, <1>8, <1>9 DEF z, y, Alike
  <2> HIDE DEF tx
  <2> QED BY <1>2, <1>4, <1>7, <1>9, <2>2, <2>3, <2>4, <2>5, <2>6 DEF Alike
<1>10. CASE ~(left = <<>> /\ e.closing # "NONE")
  <2>1. FlushOutbound(p) = q
    BY <1>6, <1>7, <1>8, <1>10 DEF Alike
  <2>2. DOMAIN q = {"e", "tx"} /\ q.e = x /\ q.tx = tx
    OBVIOUS
  <2> HIDE DEF q
  <2>3. IsEnd(x)
    <3> HIDE DEF e, left
    <3>1. e.out # <<>> => TRUE
      OBVIOUS
    <3>2. e.sock = 0 => left = <<>>
      <4>1. e.sock = 0 => out = <<>>
        BY DEF IsEnd, e
      <4>2. out = <<>> => left = <<>>
        BY <1>1, <1>2, Cut DEF left
      <4> QED BY <4>1, <4>2
    <3>3. e.status = "CONNECTING" => left = <<>>
      <4>1. e.status = "CONNECTING" => out = <<>>
        BY DEF IsEnd, e
      <4>2. out = <<>> => left = <<>>
        BY <1>1, <1>2, Cut DEF left
      <4> QED BY <4>1, <4>2
    <3>4. IsEnd(e)
      BY DEF e
    <3> QED BY <1>3, <1>6, <1>10, <3>2, <3>3, <3>4 DEF IsEnd, Fields
  <2> HIDE DEF tx, left
  <2> QED BY <1>2, <1>4, <1>5, <1>6, <1>7, <2>1, <2>2, <2>3 DEF Alike
<1> QED BY <1>9, <1>10
LEMMA ClientFlushed ==
  ASSUME NEW c \in Conns, NEW p, NEW in, NEW waits, ClientPort(c, p, in, waits), p.e.sock = c
  PROVE  ClientPort(c, FlushOutbound(p), in, waits) /\ FlushOutbound(p).e.sock = c
<1> DEFINE q == FlushOutbound(p)
<1>1. /\ DOMAIN p = {"e", "tx"} /\ IsEnd(p.e) /\ p.e.role = "client" /\ p.e.closing = "NONE"
      /\ p.e.status \in {"HANDSHAKING", "CONNECTED", "CLOSED"}
      /\ p.tx \in Seq(Frame) /\ Len(p.tx) <= Window /\ News("client", p.e)
      /\ Link(c, p.e, server, in, p.tx, Len(p.e.events), 0, waits)
  BY DEF ClientPort, Port, IsEnd
<1>2. /\ DOMAIN q = {"e", "tx"} /\ q.tx \in Seq(Frame) /\ Len(q.tx) <= Window
      /\ IsEnd(q.e) /\ q.e.role = p.e.role /\ q.e.events = p.e.events
      /\ Alike(q.e, p.e) /\ q.tx \o q.e.out = p.tx \o p.e.out
  BY <1>1, Flushed
<1> HIDE DEF q
<1>3. Link(c, q.e, server, in, q.tx, Len(q.e.events), 0, waits)
  BY <1>1, <1>2, ClientFlushes
<1>4. News("client", q.e)
  BY <1>1, <1>2 DEF News, Brings, Alike
<1>5. q.e.status \in {"HANDSHAKING", "CONNECTED", "CLOSED"} /\ q.e.sock \in {0, c}
  BY <1>1, <1>2 DEF Alike
<1>6. q.e.sock = c
  BY <1>2 DEF Alike
<1> QED BY <1>1, <1>2, <1>3, <1>4, <1>5, <1>6 DEF ClientPort, Port, q

LEMMA ServerGone ==
  ASSUME Ready, NEW c \in Conns, NEW sv, sv.out \in Seq(Frame), NEW in \in Seq(Frame),
         NEW out \in Seq(Frame), NEW l, NEW waits \in BOOLEAN,
         Link(c, client, sv, in, out, 0, l, waits),
         NEW q, q.sock = 0, q.sid = NoSession, NEW rest, sv.sock = c \/ rest = out, NEW j
  PROVE  Link(c, client, q, in, rest, 0, j, waits)
<1>1. Types /\ (client.status = "CONNECTED" => client.sid \in 1..MaxSessions) /\ 0 \in Nat
  BY ClientSession DEF Ready
<1> QED BY <1>1, ServerLeaves

LEMMA ServerFlushed ==
  ASSUME Ready, NEW c \in Conns, NEW p, NEW out \in Seq(Frame), NEW waits \in BOOLEAN,
         ServerPort(c, p, out, waits), p.e.sock = c
  PROVE  ServerPort(c, FlushOutbound(p), out, waits)
<1> DEFINE q == FlushOutbound(p)
           e == p.e
<1>1. /\ DOMAIN p = {"e", "tx"} /\ IsEnd(e) /\ e.role = "server"
      /\ e.status \in {"HANDSHAKING", "CONNECTED", "CLOSED"}
      /\ p.tx \in Seq(Frame) /\ Len(p.tx) <= Window /\ News("server", e)
      /\ e.status = "HANDSHAKING" => NewToBoth(e.sid)
      /\ e.sid \in {server.sid, NoSession}
      /\ Link(c, client, e, p.tx, out, 0, Len(e.events), waits)
  BY DEF ServerPort, Port
<1>2. /\ DOMAIN q = {"e", "tx"} /\ q.tx \in Seq(Frame) /\ Len(q.tx) <= Window
      /\ IsEnd(q.e) /\ q.e.role = e.role /\ q.e.events = e.events
      /\ \/ Alike(q.e, e) /\ q.tx \o q.e.out = p.tx \o e.out
         \/ /\ e.closing # "NONE" /\ q.e.status = "CLOSED" /\ q.e.sock = 0
            /\ q.e.sid = NoSession /\ q.tx = p.tx \o e.out
  BY <1>1, Flushed
<1> HIDE DEF q
<1>3. CASE Alike(q.e, e) /\ q.tx \o q.e.out = p.tx \o e.out
  <2>1. Link(c, client, q.e, q.tx, out, 0, Len(q.e.events), waits)
    BY <1>1, <1>2, <1>3, ServerFlushes
  <2>2. News("server", q.e)
    BY <1>1, <1>2, <1>3 DEF News, Brings, Alike
  <2>3. /\ q.e.status \in {"HANDSHAKING", "CONNECTED", "CLOSED"} /\ q.e.sock \in {0, c}
        /\ q.e.status = "HANDSHAKING" => NewToBoth(q.e.sid)
        /\ q.e.sid \in {server.sid, NoSession}
    BY <1>1, <1>3 DEF Alike
  <2> QED BY <1>1, <1>2, <2>1, <2>2, <2>3 DEF ServerPort, Port, q
<1>4. CASE /\ e.closing # "NONE" /\ q.e.status = "CLOSED" /\ q.e.sock = 0
           /\ q.e.sid = NoSession /\ q.tx = p.tx \o e.out
  <2> DEFINE x == [e EXCEPT !.out = <<>>]
  <2>1. Alike(x, e) /\ x.out = <<>>
    BY <1>1 DEF IsEnd, Fields, Alike
  <2> HIDE DEF x
  <2>2. Link(c, client, x, q.tx, out, 0, Len(e.events), waits)
    <3>1. q.tx \o x.out = p.tx \o e.out
      BY <1>2, <1>4, <2>1, ConcatEmptySeq
    <3> QED BY <1>1, <2>1, <3>1, ServerFlushes
  <2>3. Link(c, client, q.e, q.tx, out, 0, Len(q.e.events), waits)
    <3>1. x.out \in Seq(Frame) /\ q.tx \in Seq(Frame) /\ out = out
      BY <1>2, <2>1
    <3> DEFINE y == q.e
               way == q.tx
               j == Len(y.events)
               l == Len(e.events)
    <3>2. y.sock = 0 /\ y.sid = NoSession
      BY <1>4
    <3> HIDE DEF y, way, j, l
    <3>3. way \in Seq(Frame) /\ Link(c, client, x, way, out, 0, l, waits)
      BY <2>2, <3>1 DEF way, l
    <3>4. Link(c, client, y, way, out, 0, j, waits)
      BY <3>1, <3>2, <3>3, ServerGone
    <3> QED BY <3>4 DEF y, way, j
  <2>4. News("server", q.e)
    BY <1>4 DEF News, Brings
  <2> QED BY <1>1, <1>2, <1>4, <2>3, <2>4 DEF ServerPort, Port, q
<1> QED BY <1>2, <1>3, <1>4

LEMMA ServerShuts ==
  ASSUME Ready, NEW c \in Conns, NEW p, NEW out \in Seq(Frame), NEW waits \in BOOLEAN,
         ServerPort(c, p, out, waits),
         NEW q, IsEnd(q), q.role = "server", q.status = "CLOSED", q.sock = 0, q.sid = NoSession,
         NEW rest, p.e.sock = c \/ rest = out
  PROVE  ServerPort(c, [p EXCEPT !.e = q], rest, waits)
<1> DEFINE r == [p EXCEPT !.e = q]
<1>1. DOMAIN r = {"e", "tx"} /\ r.e = q /\ r.tx = p.tx
  BY DEF ServerPort, Port
<1> HIDE DEF r
<1>2. Port("server", c, r)
  BY <1>1 DEF ServerPort, Port, News, Brings
<1>3. Link(c, client, q, p.tx, rest, 0, Len(q.events), waits)
  <2>1. /\ p.e.out \in Seq(Frame) /\ p.tx \in Seq(Frame)
        /\ Link(c, client, p.e, p.tx, out, 0, Len(p.e.events), waits)
    BY DEF ServerPort, Port, IsEnd
  <2> QED BY <2>1, ServerGone
<1> QED BY <1>1, <1>2, <1>3 DEF ServerPort, r

LEMMA ServerCloses ==
  ASSUME Ready, NEW c \in Conns, NEW p, NEW out \in Seq(Frame), NEW waits \in BOOLEAN,
         ServerPort(c, p, out, waits), NEW reason,
         NEW rest, p.e.sock = c \/ rest = out
  PROVE  ServerPort(c, [p EXCEPT !.e = Closed(p.e, reason)], rest, waits)
<1> DEFINE q == Closed(p.e, reason)
<1>1. IsEnd(q) /\ q.role = "server" /\ q.status = "CLOSED" /\ q.sock = 0 /\ q.sid = NoSession
  BY ClosedEnd DEF ServerPort, Port
<1> HIDE DEF q
<1> QED BY <1>1, ServerShuts DEF q

LEMMA ServerHandles ==
  ASSUME Ready, NEW c \in Conns, NEW e, NEW tx \in Seq(Frame), NEW out \in Seq(Frame), out # <<>>,
         NEW waits \in BOOLEAN,
         IsEnd(e), e.role = "server", e.sock = c, e.status \in {"HANDSHAKING", "CONNECTED"},
         e.closing = "NONE", News("server", e), e.status = "HANDSHAKING" => NewToBoth(e.sid),
         Link(c, client, e, tx, out, 0, Len(e.events), waits)
  PROVE  LET q == HandleMessage(e, out[1]) IN
         /\ IsEnd(q) /\ q.role = "server" /\ q.sock \in {0, c}
         /\ q.status \in {"CONNECTED", "CLOSED"}
         /\ q.sid \in {e.sid, NoSession}
         /\ News("server", q)
         /\ Link(c, client, q, tx, Tail(out), 0, Len(q.events), waits)
<1> DEFINE m == out[1]
           q == HandleMessage(e, m)
           Goal(x) == /\ IsEnd(x) /\ x.role = "server" /\ x.sock \in {0, c}
                      /\ x.status \in {"CONNECTED", "CLOSED"}
                      /\ x.sid \in {e.sid, NoSession}
                      /\ News("server", x)
                      /\ Link(c, client, x, tx, Tail(out), 0, Len(x.events), waits)
<1>1. Tail(out) \in Seq(Frame) /\ m \in Frame /\ 0 \in Nat
  BY Joined, HeadTailProperties, LenProperties, EmptySeq, ElementOfSeq
<1>2. /\ IsEnd(client) /\ client.role = "client" /\ Types /\ Log
      /\ (client.status = "CONNECTED" => client.sid \in 1..MaxSessions)
  BY ClientSession DEF Ready, Types
<1>3. Len(e.events) \in Nat /\ e.events \in Seq(Frame) /\ e.out \in Seq(Frame)
  BY LenProperties DEF IsEnd
<1>4. ASSUME NEW x, IsEnd(x), x.role = "server", x.status = "CLOSED", x.sock = 0, x.sid = NoSession
      PROVE  Goal(x)
  <2>1. Link(c, client, x, tx, Tail(out), 0, Len(x.events), waits)
    BY <1>3, <1>4, ServerGone
  <2> QED BY <1>4, <2>1 DEF News, Brings
<1> HIDE DEF Goal
<1>5. CASE e.status = "HANDSHAKING"
  <2>1. m.kind = "hello"
    BY <1>2, <1>5, ServerHailed
  <2>2. q = HandleHello(e, m)
    BY <1>5, <2>1 DEF HandleMessage
  <2>3. CASE m.n # service.token
    <3>1. q = Closed(e, "SESSION_MISMATCH")
      BY <2>2, <2>3 DEF HandleHello
    <3>2. IsEnd(q) /\ q.role = "server" /\ q.status = "CLOSED" /\ q.sock = 0 /\ q.sid = NoSession
      BY <3>1, ClosedEnd
    <3> HIDE DEF q
    <3>3. Goal(q)
      BY <1>4, <3>2
    <3> QED BY <3>3 DEF Goal, q
  <2>4. CASE m.n = service.token
    <3> DEFINE x == [e EXCEPT !.status = "CONNECTED", !.left = NoDeadline]
               a == Ack(e.sid, TRUE)
    <3>1. q = SendMessage(x, a)
      BY <2>2, <2>4 DEF HandleHello
    <3>2. /\ DOMAIN x = Fields /\ x.status = "CONNECTED" /\ x.left = NoDeadline
          /\ \A f \in Fields \ {"status", "left"} : x[f] = e[f]
      BY DEF IsEnd, Fields
    <3> HIDE DEF x
    <3>3. /\ x.role = "server" /\ x.sock = c /\ x.sid = e.sid /\ x.closing = "NONE"
          /\ x.out = e.out /\ x.events = e.events
      BY <3>2 DEF Fields
    <3>4. IsEnd(x)
      BY <1>5, <3>2, <3>3 DEF IsEnd, Fields
    <3>5. a \in Frame
      BY AckFrame DEF IsEnd
    <3> HIDE DEF a, q
    <3>6. /\ IsEnd(q) /\ q.role = x.role /\ q.events = x.events
          /\ \/ q.sock = 0 /\ q.status = "CLOSED" /\ q.sid = NoSession
             \/ Alike(q, x) /\ q.out = Append(x.out, a)
      BY <3>1, <3>2, <3>4, <3>5, SentEnd
    <3>7. CASE q.sock = 0 /\ q.status = "CLOSED" /\ q.sid = NoSession
      <4>1. Goal(q)
        BY <1>4, <3>3, <3>6, <3>7
      <4> QED BY <4>1 DEF Goal, q
    <3>8. CASE Alike(q, x) /\ q.out = Append(x.out, a)
      <4>1. /\ q.sock = c /\ q.sid = e.sid /\ q.status = "CONNECTED" /\ q.closing = "NONE"
            /\ q.out = Append(e.out, Ack(e.sid, TRUE))
        BY <3>2, <3>3, <3>8 DEF Alike, a
      <4>2. e.events = <<>> /\ told["server"] = NoSession /\ NewToBoth(e.sid)
        BY <1>5 DEF News, Brings
      <4>3. Link(c, client, q, tx, Tail(out), 0, 0, waits)
        <5> DEFINE l == Len(e.events)
        <5>1. /\ Link(c, client, e, tx, out, 0, l, waits) /\ TRUE \in BOOLEAN
              /\ q.status = IF TRUE THEN "CONNECTED" ELSE "HANDSHAKING"
              /\ q.closing # "NONE" <=> ~TRUE
          BY <4>1
        <5> HIDE DEF l
        <5> QED BY <1>2, <1>5, <4>1, <4>2, <5>1, ServerAnswers
      <4>4. q.events = <<>> /\ Len(q.events) = 0
        BY <3>3, <3>6, <4>2
      <4>5. News("server", q)
        BY <4>1, <4>2, <4>4 DEF News, Brings, NewToBoth
      <4>6. Goal(q)
        BY <3>3, <3>6, <4>1, <4>3, <4>4, <4>5 DEF Goal
      <4> QED BY <4>6 DEF Goal, q
    <3> QED BY <3>6, <3>7, <3>8
  <2> QED BY <2>3, <2>4
<1>6. CASE e.status = "CONNECTED"
  <2>1. q = HandleCommon(e, m)
    BY <1>6 DEF HandleMessage
  <2>2. /\ e.sid \in 1..sessions /\ e.sid \in 1..MaxSessions
        /\ told["server"] = e.sid \/ (told["server"] = NoSession /\ last["server"] < e.sid)
        /\ \A i \in 1..Len(e.events) : e.events[i].n = Len(heard[e.sid]["server"]) + i
    <3>1. sessions \in 0..MaxSessions /\ MaxSessions \in Nat
      BY <1>2, ControlAssumption DEF Types
    <3>2. /\ e.sid \in 1..sessions
          /\ told["server"] = e.sid \/ (told["server"] = NoSession /\ last["server"] < e.sid)
          /\ \A i \in 1..Len(e.events) : e.events[i].n = Len(heard[e.sid]["server"]) + i
      BY <1>6 DEF News, Brings
    <3>3. e.sid \in 1..MaxSessions
      BY <3>1, <3>2
    <3> QED BY <3>2, <3>3
  <2>3. /\ m.kind \in {"ping", "pong", "data"} /\ m.sid = e.sid
        /\ m.kind # "data" => Link(c, client, e, tx, Tail(out), 0, Len(e.events), waits)
        /\ m.kind = "data" =>
             /\ m.n = Len(heard[e.sid]["server"]) + Len(e.events) + 1
             /\ Link(c, client, e, tx, Tail(out), 0, Len(e.events) + 1, waits)
    <3>1. e.sid \in 1..MaxSessions
      BY <2>2
    <3>2. PICK k \in Nat : k = Len(e.events)
      BY <1>3
    <3>3. Link(c, client, e, tx, out, 0, k, waits)
      BY <3>2
    <3>4. ComesNext("server", m, e.sid, k)
      BY <1>2, <1>6, <3>1, <3>3, ServerTakes
    <3>5. m.kind # "data" => Link(c, client, e, tx, Tail(out), 0, k, waits)
      BY <1>2, <1>6, <3>1, <3>3, ServerTakes
    <3>6. m.kind = "data" => Link(c, client, e, tx, Tail(out), 0, k + 1, waits)
      BY <1>2, <1>6, <3>1, <3>3, ServerTakes
    <3> QED BY <3>2, <3>4, <3>5, <3>6 DEF ComesNext
  <2>4. CASE m.kind = "pong"
    <3>1. q = e
      BY <2>1, <2>4 DEF HandleCommon
    <3> QED BY <1>6, <2>3, <2>4, <3>1
  <2>5. CASE m.kind = "ping"
    <3>1. q = SendMessage(e, Pong(m.sid))
      BY <2>1, <2>5 DEF HandleCommon
    <3> DEFINE a == Pong(m.sid)
    <3>2. a \in Frame /\ a.kind = "pong" /\ a.sid = e.sid
      BY <2>3, PongFrame DEF IsEnd
    <3> HIDE DEF a, q
    <3>3. /\ IsEnd(q) /\ q.role = "server" /\ q.events = e.events
          /\ \/ q.sock = 0 /\ q.status = "CLOSED" /\ q.sid = NoSession
             \/ Alike(q, e) /\ q.out = Append(e.out, a)
      BY <3>1, <3>2, SentEnd DEF a
    <3>4. CASE q.sock = 0 /\ q.status = "CLOSED" /\ q.sid = NoSession
      BY <1>4, <3>3, <3>4 DEF Goal, q
    <3>5. CASE Alike(q, e) /\ q.out = Append(e.out, a)
      <4>1. Link(c, client, e, tx, Tail(out), 0, Len(e.events), waits)
        BY <2>3, <2>5
      <4>2. Link(c, client, q, tx, Tail(out), 0, Len(e.events), waits)
        <5>1. e.sid \in 1..MaxSessions
          BY <2>2
        <5> HIDE DEF m
        <5> QED BY <1>1, <1>2, <1>3, <1>6, <3>2, <3>5, <4>1, <5>1, ServerSignals, ZenonT(60)
      <4>3. News("server", q)
        BY <1>6, <2>2, <3>3, <3>5 DEF News, Brings, Alike
      <4>4. Goal(q)
        BY <1>6, <3>3, <3>5, <4>2, <4>3 DEF Goal, Alike
      <4> QED BY <4>4 DEF Goal, q
    <3> QED BY <3>3, <3>4, <3>5
  <2>6. CASE m.kind = "data"
    <3>1. CASE Len(e.events) >= MaxInboundQueue
      <4>1. q = Closed(e, "QUEUE_OVERFLOW")
        BY <2>1, <2>6, <3>1 DEF HandleCommon
      <4>2. Goal(q)
        <5>1. IsEnd(q) /\ q.role = "server" /\ q.status = "CLOSED" /\ q.sock = 0 /\ q.sid = NoSession
          BY <4>1, ClosedEnd
        <5> QED BY <1>4, <5>1
      <4> QED BY <4>2 DEF Goal
    <3>2. CASE ~(Len(e.events) >= MaxInboundQueue)
      <4>1. q = [e EXCEPT !.events = Append(@, m)]
        BY <2>1, <2>6, <3>2 DEF HandleCommon
      <4>2. IsEnd(q) /\ Alike(q, e) /\ q.out = e.out /\ q.events = Append(e.events, m)
        BY <1>1, <4>1, NotedEnd
      <4> HIDE DEF q
      <4>3. /\ Len(q.events) = Len(e.events) + 1 /\ q.events[Len(e.events) + 1] = m
            /\ \A i \in 1..Len(e.events) : q.events[i] = e.events[i]
        BY <1>1, <1>3, <4>2, AppendProperties
      <4>4. Link(c, client, q, tx, Tail(out), 0, Len(e.events) + 1, waits)
        <5>1. Link(c, client, e, tx, Tail(out), 0, Len(e.events) + 1, waits)
          BY <2>3, <2>6
        <5>2. tx \o q.out = tx \o e.out
          BY <4>2
        <5> QED BY <4>2, <5>1, <5>2, ServerFlushes
      <4>5. \A i \in 1..Len(q.events) : q.events[i].n = Len(heard[e.sid]["server"]) + i
        <5> DEFINE h == Len(heard[e.sid]["server"])
                   n == Len(e.events)
        <5>1. h \in Nat
          BY <1>2, <2>2, SessionTypes DEF Roles
        <5>2. m.n = h + n + 1
          BY <2>3, <2>6
        <5> HIDE DEF m, h, n
        <5>3. m.n = h + (n + 1)
          BY <1>3, <5>1, <5>2 DEF n
        <5>4. \A i \in 1..n : q.events[i].n = h + i
          BY <2>2, <4>3 DEF h, n
        <5>5. Len(q.events) = n + 1 /\ q.events[n + 1].n = h + (n + 1) /\ n \in Nat
          BY <1>3, <4>3, <5>3 DEF n
        <5>6. \A i \in 1..(n + 1) : i \in 1..n \/ i = n + 1
          BY <5>5
        <5>7. \A i \in 1..(n + 1) : q.events[i].n = h + i
          BY <5>4, <5>5, <5>6
        <5> QED BY <5>5, <5>7 DEF h
      <4>6. News("server", q)
        BY <1>6, <2>2, <4>2, <4>5 DEF News, Brings, Alike
      <4>7. Goal(q)
        BY <1>6, <4>2, <4>3, <4>4, <4>6 DEF Goal, Alike
      <4> QED BY <4>7 DEF Goal, q
    <3> QED BY <3>1, <3>2
  <2> QED BY <2>3, <2>4, <2>5, <2>6
<1> QED BY <1>5, <1>6


\* The server refuses a client of another version.
LEMMA ServerRefuses ==
  ASSUME Ready, NEW c \in Conns, NEW p, NEW out \in Seq(Frame), out # <<>>,
         NEW waits \in BOOLEAN, ~waits, ServerPort(c, p, out, waits), p.e.status \in {"HANDSHAKING", "CONNECTED"},
         p.e.closing = "NONE"
  PROVE  ServerPort(c, HandleVersionMismatch(p), Tail(out), waits)
<1> DEFINE e == p.e
           a == Ack(e.sid, FALSE)
           x == [e EXCEPT !.closing = "PROTOCOL_INCOMPATIBLE"]
           q == SendMessage(x, a)
           r == [p EXCEPT !.e = q]
<1>1. /\ DOMAIN p = {"e", "tx"} /\ IsEnd(e) /\ e.role = "server" /\ e.sock = c
      /\ p.tx \in Seq(Frame) /\ Len(p.tx) <= Window /\ News("server", e)
      /\ e.status = "HANDSHAKING" => NewToBoth(e.sid)
      /\ Link(c, client, e, p.tx, out, 0, Len(e.events), waits)
  BY DEF ServerPort, Port, IsEnd
<1>2. Tail(out) \in Seq(Frame)
  BY HeadTailProperties
<1>3. CASE e.status = "CONNECTED"
  <2>1. HandleVersionMismatch(p) = [p EXCEPT !.e = Closed(p.e, "PROTOCOL_INCOMPATIBLE")]
    BY <1>3 DEF HandleVersionMismatch
  <2>2. p.e.sock = c
    BY <1>1
  <2>3. \A reason : ServerPort(c, [p EXCEPT !.e = Closed(p.e, reason)], Tail(out), waits)
    BY <2>2, ServerCloses
  <2> QED BY <2>1, <2>3
<1>4. CASE e.status = "HANDSHAKING"
  <2>1. /\ DOMAIN x = Fields /\ x.closing = "PROTOCOL_INCOMPATIBLE"
        /\ \A f \in Fields \ {"closing"} : x[f] = e[f]
    BY <1>1 DEF IsEnd, Fields
  <2> HIDE DEF x
  <2>2. /\ x.role = "server" /\ x.out = e.out /\ x.sid = e.sid /\ x.events = e.events
        /\ x.status = "HANDSHAKING" /\ x.sock = c /\ x.quiet = e.quiet /\ x.sent = e.sent
        /\ x.token = e.token /\ x.left = e.left
    BY <1>1, <1>4, <2>1 DEF Fields
  <2>3. HandleVersionMismatch(p) = IF q.sock = 0 THEN r ELSE FlushOutbound(r)
    <3>1. HandleVersionMismatch(p) = CloseAfterSending(p, a, "PROTOCOL_INCOMPATIBLE")
      BY <1>1, <1>4 DEF HandleVersionMismatch
    <3> QED BY <3>1 DEF CloseAfterSending, x, q, r
  <2>4. a \in Frame
    BY <1>1, AckFrame DEF IsEnd
  <2>5. CASE Len(x.out) >= MaxOutboundQueue
    <3>1. q = Closed(x, "QUEUE_OVERFLOW")
      BY <2>5 DEF SendMessage
    <3> HIDE DEF q
    <3>2. /\ DOMAIN q = Fields
          /\ q.role = x.role /\ q.status = "CLOSED" /\ q.sock = 0
          /\ q.out = <<>> /\ q.closing = "NONE" /\ q.sid = NoSession /\ q.events = x.events
          /\ q.quiet = x.quiet /\ q.sent = x.sent /\ q.left = NoDeadline /\ q.token = x.token
      <4>1. x.role \in Roles
        BY <2>2 DEF Roles
      <4> QED BY <2>1, <3>1, <4>1, ClosedFields
    <3>3. IsEnd(q)
      <4>1. <<>> \in Seq(Frame) /\ NoSession \in Nat /\ NoSession = 0
        BY DEF NoSession
      <4>2. /\ q.quiet \in Nat /\ q.sent \in Nat /\ q.token \in Nat /\ q.events \in Seq(Frame)
            /\ q.role \in Roles
        BY <1>1, <2>2, <3>2 DEF IsEnd
      <4> QED BY <3>2, <4>1, <4>2 DEF IsEnd
    <3>4. ServerPort(c, r, Tail(out), waits)
      BY <1>1, <1>2, <2>2, <3>2, <3>3, ServerShuts
    <3> QED BY <2>3, <3>2, <3>4
  <2>6. CASE ~(Len(x.out) >= MaxOutboundQueue)
    <3>1. q = [x EXCEPT !.out = Append(x.out, a)]
      BY <2>6 DEF SendMessage
    <3>2. /\ DOMAIN q = Fields /\ q.out = Append(e.out, a)
          /\ \A f \in Fields \ {"out"} : q[f] = x[f]
      BY <2>1, <2>2, <3>1, ZenonT(60) DEF Fields
    <3> HIDE DEF q
    <3>3. /\ q.role = "server" /\ q.sid = e.sid /\ q.events = e.events
          /\ q.status = "HANDSHAKING" /\ q.sock = c /\ q.quiet = e.quiet /\ q.sent = e.sent
          /\ q.token = e.token /\ q.left = e.left /\ q.closing # "NONE"
      BY <2>1, <2>2, <3>2 DEF Fields
    <3>4. Append(e.out, a) \in Seq(Frame) /\ Append(e.out, a) # <<>>
      <4>1. e.out \in Seq(Frame)
        BY <1>1 DEF IsEnd
      <4> HIDE DEF a, e
      <4> QED BY <2>4, <4>1, AppendProperties
    <3>5. IsEnd(q)
      <4> HIDE DEF e, a
      <4> QED BY <1>1, <1>4, <3>2, <3>3, <3>4 DEF IsEnd
    <3>6. Link(c, client, q, p.tx, Tail(out), 0, 0, waits)
      <4> DEFINE l == Len(e.events)
                 tx == p.tx
      <4>1. Types /\ Log /\ IsEnd(client) /\ client.role = "client"
        BY DEF Ready, Types
      <4>2. /\ Link(c, client, e, tx, out, 0, l, waits) /\ tx \in Seq(Frame)
            /\ q.status = IF FALSE THEN "CONNECTED" ELSE "HANDSHAKING"
            /\ q.closing # "NONE" <=> ~FALSE
            /\ q.out = Append(e.out, Ack(e.sid, FALSE))
                /\ NewToBoth(e.sid) /\ FALSE \in BOOLEAN
            /\ IsEnd(e) /\ e.sock = c /\ e.status = "HANDSHAKING" /\ e.closing = "NONE"
            /\ q.sock = c /\ q.sid = e.sid
        BY <1>1, <1>4, <3>2, <3>3
      <4> HIDE DEF l, tx, e, a
      <4>3. Link(c, client, q, tx, Tail(out), 0, 0, waits)
        BY <4>1, <4>2, ServerAnswers, ZenonT(60)
      <4> QED BY <4>3 DEF tx
    <3>7. q.events = <<>> /\ Len(q.events) = 0 /\ News("server", q)
      BY <1>1, <1>4, <3>3 DEF News, Brings
    <3>8. DOMAIN r = {"e", "tx"} /\ r.e = q /\ r.tx = p.tx
      BY <1>1, PortChanged
    <3> HIDE DEF r
    <3>9. ServerPort(c, r, Tail(out), waits)
      BY <1>1, <1>4, <3>3, <3>5, <3>6, <3>7, <3>8 DEF ServerPort, Port
    <3>10. ServerPort(c, FlushOutbound(r), Tail(out), waits)
      BY <1>2, <3>3, <3>8, <3>9, ServerFlushed
    <3>11. q.sock # 0
      BY <3>3, TransportAssumption
    <3> QED BY <2>3, <3>10, <3>11
  <2> QED BY <2>5, <2>6
<1> QED BY <1>3, <1>4

LEMMA ServerReads ==
  ASSUME Ready, NEW c \in Conns, NEW p, NEW out \in Seq(Frame), out # <<>>,
         NEW waits \in BOOLEAN, ~waits, ServerPort(c, p, out, waits), NEW expected
  PROVE  ServerPort(c, HandleFrame(expected, p, out[1]), Tail(out), waits)
<1> DEFINE m == out[1]
           e == p.e
<1>1. /\ DOMAIN p = {"e", "tx"} /\ IsEnd(e) /\ e.role = "server" /\ e.sock \in {0, c}
      /\ e.status \in {"HANDSHAKING", "CONNECTED", "CLOSED"}
      /\ p.tx \in Seq(Frame) /\ Len(p.tx) <= Window /\ News("server", e)
      /\ e.status = "HANDSHAKING" => NewToBoth(e.sid)
      /\ e.sid \in {server.sid, NoSession}
      /\ Link(c, client, e, p.tx, out, 0, Len(e.events), waits)
  BY DEF ServerPort, Port
<1>2. Tail(out) \in Seq(Frame) /\ m \in Frame
  BY Joined, HeadTailProperties, LenProperties, EmptySeq, ElementOfSeq
<1>3. CASE e.status = "CLOSED"
  <2>1. HandleFrame(expected, p, m) = p
    BY <1>3 DEF HandleFrame
  <2>2. e.sock # c
    BY <1>1, <1>3, TransportAssumption DEF IsEnd
  <2>3. Link(c, client, e, p.tx, Tail(out), 0, Len(e.events), waits)
    BY <1>1, <2>2 DEF Link
  <2> QED BY <2>1, <2>3 DEF ServerPort
<1>4. CASE e.status # "CLOSED" /\ e.closing # "NONE"
  <2>1. e.sock = c /\ e.status = "HANDSHAKING"
    BY <1>1, <1>4 DEF IsEnd
  <2>2. Written(c, out, client) = <<>>
    BY <1>1, <1>4, <2>1 DEF Link, ToServer
  <2>3. Written(c, out, client) # <<>>
    <3>1. client.out \in Seq(Frame)
      BY DEF Ready, Types, IsEnd
    <3> QED BY <3>1, Joined DEF Written
  <2> QED BY <2>2, <2>3
<1>5. CASE e.status # "CLOSED" /\ e.closing = "NONE"
  <2>1. e.sock = c /\ e.status \in {"HANDSHAKING", "CONNECTED"}
    BY <1>1, <1>5 DEF IsEnd
  <2>2. CASE WrongVersion(m)
    <3>1. HandleFrame(expected, p, m) = HandleVersionMismatch(p)
      BY <1>5, <2>2 DEF HandleFrame
    <3> QED BY <1>5, <2>1, <3>1, ServerRefuses
  <2>3. CASE ~WrongVersion(m) /\ WrongSession(expected, m)
    <3>1. HandleFrame(expected, p, m) = [p EXCEPT !.e = Closed(p.e, "SESSION_MISMATCH")]
      BY <1>5, <2>3 DEF HandleFrame
    <3>2. p.e.sock = c
      BY <2>1
    <3>3. \A reason : ServerPort(c, [p EXCEPT !.e = Closed(p.e, reason)], Tail(out), waits)
      BY <3>2, ServerCloses
    <3> QED BY <3>1, <3>3
  <2>4. CASE ~WrongVersion(m) /\ ~WrongSession(expected, m)
    <3> DEFINE q == HandleMessage(e, m)
               r == [p EXCEPT !.e = q]
    <3>1. HandleFrame(expected, p, m) = r
      BY <1>5, <2>4 DEF HandleFrame
    <3>2. /\ IsEnd(q) /\ q.role = "server" /\ q.sock \in {0, c}
          /\ q.status \in {"CONNECTED", "CLOSED"}
          /\ q.sid \in {e.sid, NoSession}
          /\ News("server", q)
          /\ Link(c, client, q, p.tx, Tail(out), 0, Len(q.events), waits)
      BY <1>1, <1>2, <1>5, <2>1, ServerHandles
    <3>3. DOMAIN r = {"e", "tx"} /\ r.e = q /\ r.tx = p.tx
      BY <1>1, PortChanged
    <3> HIDE DEF q, r
    <3>4. ServerPort(c, r, Tail(out), waits)
      BY <1>1, <3>2, <3>3 DEF ServerPort, Port
    <3> QED BY <3>1, <3>4
  <2> QED BY <2>2, <2>3, <2>4
<1> QED BY <1>3, <1>4, <1>5

-----------------------------------------------------------------------------
(***************************************************************************)
(* Reading frame after frame is a recursive function: it exists, and what  *)
(* every frame preserves holds after the last.                             *)
(***************************************************************************)
LEMMA Smallest ==
  ASSUME NEW S \in SUBSET Nat, S # {}
  PROVE  \E m \in S : \A n \in S : m <= n
<1>1. PICK m \in S : \A n \in S : ~(<<n, m>> \in OpToRel(<, Nat))
  BY NatLessThanWellFounded, WFMin, Zenon
<1>2. \A n \in S : ~(n < m)
  BY <1>1 DEF OpToRel
<1> QED BY <1>2

LEMMA Counting ==
  ASSUME NEW n \in Nat, NEW T, 0 \in T, \A i \in 1..n : i - 1 \in T => i \in T
  PROVE  \A i \in 0..n : i \in T
<1> DEFINE S == {i \in 0..n : i \notin T}
<1> SUFFICES ASSUME S # {} PROVE FALSE
  OBVIOUS
<1>1. S \in SUBSET Nat
  OBVIOUS
<1>2. PICK m \in S : \A i \in S : m <= i
  BY <1>1, Smallest
<1>3. m \in 1..n /\ m \notin T
  BY <1>2
<1>4. m - 1 \in 0..n /\ ~(m <= m - 1)
  BY <1>3
<1>5. m - 1 \in T
  BY <1>2, <1>4
<1> QED BY <1>3, <1>5

LEMMA ReadingFrames ==
  ASSUME NEW expected, NEW p, NEW frames \in Seq(Frame)
  PROVE  LET after == Reading(expected, p, frames) IN
         /\ after[0] = p
         /\ \A i \in 1..Len(frames) : after[i] = HandleFrame(expected, after[i - 1], frames[i])
<1> DEFINE N == Len(frames)
           Upto(n, f) == f = [i \in 0..n |-> IF i = 0 THEN p
                                             ELSE HandleFrame(expected, f[i - 1], frames[i])]
           T == {n \in 0..N : \E f : Upto(n, f)}
<1>1. N \in Nat
  BY LenProperties
<1>2. 0 \in T
  <2> DEFINE f == [i \in 0..0 |-> p]
  <2>1. Upto(0, f)
    OBVIOUS
  <2>2. 0 \in 0..N
    BY <1>1
  <2> HIDE DEF Upto, f, N
  <2>3. \E g : Upto(0, g)
    BY <2>1
  <2> QED BY <2>2, <2>3
<1>3. ASSUME NEW n \in 1..N, n - 1 \in T PROVE n \in T
  <2>1. PICK f : Upto(n - 1, f)
    BY <1>3
  <2> DEFINE x == HandleFrame(expected, f[n - 1], frames[n])
             g == [i \in 0..n |-> IF i = n THEN x ELSE f[i]]
             h == [i \in 0..n |-> IF i = 0 THEN p ELSE HandleFrame(expected, g[i - 1], frames[i])]
  <2>2. ASSUME NEW i \in 0..n PROVE g[i] = h[i]
    <3>1. CASE i = 0
      <4>1. f[0] = p
        BY <1>1, <2>1
      <4> QED BY <3>1, <4>1
    <3>2. CASE i = n
      <4>1. g[n] = x /\ g[n - 1] = f[n - 1]
        BY <1>1
      <4>2. h[n] = HandleFrame(expected, g[n - 1], frames[n])
        BY <1>1
      <4> QED BY <3>2, <4>1, <4>2
    <3>3. CASE i \in 1..(n - 1)
      <4>1. f[i] = HandleFrame(expected, f[i - 1], frames[i])
        BY <1>1, <2>1, <3>3
      <4>2. g[i] = f[i] /\ g[i - 1] = f[i - 1]
        BY <1>1, <3>3
      <4>3. h[i] = HandleFrame(expected, g[i - 1], frames[i])
        BY <1>1, <3>3
      <4> QED BY <4>1, <4>2, <4>3
    <3> QED BY <1>1, <3>1, <3>2, <3>3
  <2>3. g = h
    <3>1. DOMAIN g = 0..n /\ DOMAIN h = 0..n
      OBVIOUS
    <3>2. g = [i \in 0..n |-> g[i]] /\ h = [i \in 0..n |-> h[i]]
      OBVIOUS
    <3> HIDE DEF g, h
    <3> QED BY <2>2, <3>2
  <2> HIDE DEF g
  <2>4. Upto(n, g)
    BY <2>3 DEF h
  <2> QED BY <2>4
<1> HIDE DEF T
<1>4. N \in T
  <2> HIDE DEF N
  <2>1. \A i \in 1..N : i - 1 \in T => i \in T
    BY <1>3
  <2>2. \A i \in 0..N : i \in T
    BY <1>1, <1>2, <2>1, Counting
  <2> QED BY <1>1, <2>2
<1>5. PICK reading : Upto(N, reading)
  BY <1>4 DEF T
<1> DEFINE after == CHOOSE f : f = [i \in 0..N |-> IF i = 0 THEN p
                                     ELSE HandleFrame(expected, f[i - 1], frames[i])]
<1>6. after = [i \in 0..N |-> IF i = 0 THEN p
                              ELSE HandleFrame(expected, after[i - 1], frames[i])]
  BY <1>5, Zenon
<1>7. Reading(expected, p, frames) = after
  BY DEF Reading
<1> HIDE DEF after
<1> QED BY <1>1, <1>6, <1>7

LEMMA ClientReadsAll ==
  ASSUME Ready, NEW c \in Conns, NEW p, NEW way \in Seq(Frame), NEW waits \in BOOLEAN,
         ClientPort(c, p, way, waits), NEW k \in 0..Len(way), NEW expected
  PROVE  ClientPort(c, Reading(expected, p, SubSeq(way, 1, k))[k], SubSeq(way, k + 1, Len(way)), waits)
<1> DEFINE frames == SubSeq(way, 1, k)
           after == Reading(expected, p, frames)
           rest(i) == SubSeq(way, i + 1, Len(way))
           T == {i \in 0..k : ClientPort(c, after[i], rest(i), waits)}
<1>1. /\ Len(way) \in Nat /\ k \in Nat /\ frames \in Seq(Frame) /\ Len(frames) = k
      /\ \A i \in 1..k : frames[i] = way[i]
  BY LenProperties, Cut
<1> HIDE DEF frames
<1>2. after[0] = p /\ \A i \in 1..k : after[i] = HandleFrame(expected, after[i - 1], frames[i])
  BY <1>1, ReadingFrames
<1> HIDE DEF after
<1>3. 0 \in T
  <2>1. rest(0) = way
    <3>1. 0 \in 0..Len(way)
      BY <1>1
    <3> QED BY <3>1, Cut
  <2> HIDE DEF rest
  <2> QED BY <1>1, <1>2, <2>1
<1>4. ASSUME NEW i \in 1..k, i - 1 \in T PROVE i \in T
  <2> DEFINE j == i - 1
  <2>1. j \in 0..Len(way) /\ j < Len(way) /\ j + 1 = i
    BY <1>1
  <2> HIDE DEF j
  <2>2. rest(j) \in Seq(Frame) /\ rest(j) # <<>> /\ rest(j)[1] = way[i] /\ Tail(rest(j)) = rest(i)
    BY <2>1, Cut
  <2> HIDE DEF rest
  <2>3. ClientPort(c, after[j], rest(j), waits)
    BY <1>4 DEF j
  <2>4. after[i] = HandleFrame(expected, after[j], way[i])
    BY <1>1, <1>2 DEF j
  <2>5. ClientPort(c, HandleFrame(expected, after[j], rest(j)[1]), Tail(rest(j)), waits)
    BY <2>2, <2>3, ClientReads
  <2>6. ClientPort(c, after[i], rest(i), waits)
    BY <2>2, <2>4, <2>5
  <2>7. i \in 0..k
    BY <1>1
  <2> QED BY <2>6, <2>7
<1> HIDE DEF rest
<1>5. k \in T
  <2> HIDE DEF T
  <2>1. \A i \in 1..k : i - 1 \in T => i \in T
    BY <1>4
  <2>2. \A i \in 0..k : i \in T
    BY <1>1, <1>3, <2>1, Counting
  <2> QED BY <1>1, <2>2
<1> QED BY <1>5 DEF after, frames, rest

LEMMA ServerReadsAll ==
  ASSUME Ready, NEW c \in Conns, NEW p, NEW way \in Seq(Frame), NEW waits \in BOOLEAN, ~waits,
         ServerPort(c, p, way, waits), NEW k \in 0..Len(way), NEW expected
  PROVE  ServerPort(c, Reading(expected, p, SubSeq(way, 1, k))[k], SubSeq(way, k + 1, Len(way)), waits)
<1> DEFINE frames == SubSeq(way, 1, k)
           after == Reading(expected, p, frames)
           rest(i) == SubSeq(way, i + 1, Len(way))
           T == {i \in 0..k : ServerPort(c, after[i], rest(i), waits)}
<1>1. /\ Len(way) \in Nat /\ k \in Nat /\ frames \in Seq(Frame) /\ Len(frames) = k
      /\ \A i \in 1..k : frames[i] = way[i]
  BY LenProperties, Cut
<1> HIDE DEF frames
<1>2. after[0] = p /\ \A i \in 1..k : after[i] = HandleFrame(expected, after[i - 1], frames[i])
  BY <1>1, ReadingFrames
<1> HIDE DEF after
<1>3. 0 \in T
  <2>1. rest(0) = way
    <3>1. 0 \in 0..Len(way)
      BY <1>1
    <3> QED BY <3>1, Cut
  <2> HIDE DEF rest
  <2> QED BY <1>1, <1>2, <2>1
<1>4. ASSUME NEW i \in 1..k, i - 1 \in T PROVE i \in T
  <2> DEFINE j == i - 1
  <2>1. j \in 0..Len(way) /\ j < Len(way) /\ j + 1 = i
    BY <1>1
  <2> HIDE DEF j
  <2>2. rest(j) \in Seq(Frame) /\ rest(j) # <<>> /\ rest(j)[1] = way[i] /\ Tail(rest(j)) = rest(i)
    BY <2>1, Cut
  <2> HIDE DEF rest
  <2>3. ServerPort(c, after[j], rest(j), waits)
    BY <1>4 DEF j
  <2>4. after[i] = HandleFrame(expected, after[j], way[i])
    BY <1>1, <1>2 DEF j
  <2>5. ServerPort(c, HandleFrame(expected, after[j], rest(j)[1]), Tail(rest(j)), waits)
    BY <2>2, <2>3, ServerReads
  <2>6. ServerPort(c, after[i], rest(i), waits)
    BY <2>2, <2>4, <2>5
  <2>7. i \in 0..k
    BY <1>1
  <2> QED BY <2>6, <2>7
<1> HIDE DEF rest
<1>5. k \in T
  <2> HIDE DEF T
  <2>1. \A i \in 1..k : i - 1 \in T => i \in T
    BY <1>4
  <2>2. \A i \in 0..k : i \in T
    BY <1>1, <1>3, <2>1, Counting
  <2> QED BY <1>1, <2>2
<1> QED BY <1>5 DEF after, frames, rest

-----------------------------------------------------------------------------
(***************************************************************************)
(* A whole poll.                                                           *)
(***************************************************************************)
LEMMA QuietEnd ==
  ASSUME NEW e, IsEnd(e)
  PROVE  LET q == [e EXCEPT !.quiet = 0]
             s == [e EXCEPT !.sent = 0]
             d == Drained(e)
         IN  /\ IsEnd(q) /\ Alike(q, e) /\ q.out = e.out /\ q.events = e.events
             /\ IsEnd(s) /\ Alike(s, e) /\ s.out = e.out /\ s.events = e.events
             /\ IsEnd(d) /\ Alike(d, e) /\ d.out = e.out /\ d.events = <<>>
<1>1. /\ DOMAIN e = Fields /\ 0 \in Nat /\ <<>> \in Seq(Frame)
  BY DEF IsEnd
<1>2. ASSUME NEW q, DOMAIN q = Fields, \A f \in Fields \ {"quiet", "sent", "events"} : q[f] = e[f],
             q.quiet \in Nat, q.sent \in Nat, q.events \in Seq(Frame)
      PROVE  IsEnd(q) /\ Alike(q, e) /\ q.out = e.out
  BY <1>2 DEF IsEnd, Alike, Fields
<1>3. e.quiet \in Nat /\ e.sent \in Nat /\ e.events \in Seq(Frame)
  BY DEF IsEnd
<1> DEFINE q == [e EXCEPT !.quiet = 0]
           s == [e EXCEPT !.sent = 0]
           d == [e EXCEPT !.events = <<>>]
<1>4. /\ DOMAIN q = Fields /\ q.quiet = 0 /\ \A f \in Fields \ {"quiet"} : q[f] = e[f]
      /\ DOMAIN s = Fields /\ s.sent = 0 /\ \A f \in Fields \ {"sent"} : s[f] = e[f]
      /\ DOMAIN d = Fields /\ d.events = <<>> /\ \A f \in Fields \ {"events"} : d[f] = e[f]
  BY <1>1 DEF Fields
<1> HIDE DEF q, s, d
<1>5. /\ q.sent = e.sent /\ q.events = e.events
      /\ s.quiet = e.quiet /\ s.events = e.events
      /\ d.quiet = e.quiet /\ d.sent = e.sent
  BY <1>4 DEF Fields
<1>6. IsEnd(q) /\ Alike(q, e) /\ q.out = e.out
  BY <1>1, <1>2, <1>3, <1>4, <1>5
<1>7. IsEnd(s) /\ Alike(s, e) /\ s.out = e.out
  BY <1>1, <1>2, <1>3, <1>4, <1>5
<1>8. IsEnd(d) /\ Alike(d, e) /\ d.out = e.out
  BY <1>1, <1>2, <1>3, <1>4, <1>5
<1> QED BY <1>4, <1>5, <1>6, <1>7, <1>8 DEF Drained, q, s, d

LEMMA FoundFrames ==
  ASSUME Types, NEW e, NEW c \in Conns, e.sock = c, e.role \in Roles, NEW found \in Arrivals(e)
  PROVE  \E k \in 0..Len(pipe[c][e.role]) :
           /\ Len(found.frames) = k
           /\ \/ found.end = "open" /\ found.frames = SubSeq(pipe[c][e.role], 1, k)
              \/ found.end \in {"closed", "error"} /\ k = 0
<1> DEFINE way == pipe[c][e.role]
           open == {Found("open", SubSeq(way, 1, k)) : k \in 0..Len(way)}
<1>1. way \in Seq(Frame) /\ Len(way) \in Nat
  <2>1. way \in Seq(Frame)
    BY DEF Types
  <2> QED BY <2>1, LenProperties
<1> HIDE DEF way
<1>2. c # 0
  BY TransportAssumption
<1>3. 0 \in 0..Len(way) /\ SubSeq(way, 1, 0) = <<>> /\ Len(<<>>) = 0
  <2>1. 0 \in 0..Len(way)
    BY <1>1
  <2>2. SubSeq(way, 1, 0) \in Seq(Frame) /\ Len(SubSeq(way, 1, 0)) = 0
    BY <1>1, <2>1, Cut
  <2> QED BY <2>1, <2>2, EmptySeq
<1>4. found = Found("open", <<>>) \/ found \in open \/ found = Found("error", <<>>) \/ found = Found("closed", <<>>)
  BY <1>2 DEF Arrivals, way
<1>5. CASE found = Found("open", <<>>)
  BY <1>3, <1>5 DEF Found, way
<1>6. CASE found \in open
  <2>1. PICK k \in 0..Len(way) : found = Found("open", SubSeq(way, 1, k))
    BY <1>6
  <2>2. Len(SubSeq(way, 1, k)) = k
    BY <1>1, Cut
  <2> QED BY <2>1, <2>2 DEF Found, way
<1>7. CASE found = Found("error", <<>>) \/ found = Found("closed", <<>>)
  BY <1>3, <1>7 DEF Found, way
<1> QED BY <1>4, <1>5, <1>6, <1>7

LEMMA ClientProcesses ==
  ASSUME Ready, NEW c \in Conns, NEW p, NEW way \in Seq(Frame), NEW waits \in BOOLEAN,
         ClientPort(c, p, way, waits), p.e.sock = c, NEW k \in 0..Len(way), NEW found,
         \/ found.end = "open" /\ found.frames = SubSeq(way, 1, k)
         \/ found.end \in {"closed", "error"} /\ k = 0
  PROVE  ClientPort(c, ProcessIncoming(p, found), SubSeq(way, k + 1, Len(way)), waits)
<1> DEFINE rest == SubSeq(way, k + 1, Len(way))
           touched == [p EXCEPT !.e.quiet = 0]
           e == p.e
           q == [e EXCEPT !.quiet = 0]
<1>1. Len(way) \in Nat /\ p.e.sock # 0 /\ (k = 0 => rest = way)
  <2>1. p.e.sock # 0 /\ Len(way) \in Nat
    BY TransportAssumption, LenProperties
  <2>2. k = 0 => rest = way
    BY Cut
  <2> QED BY <2>1, <2>2
<1>2. DOMAIN p = {"e", "tx"} /\ IsEnd(e)
  BY DEF ClientPort, Port
<1>3. CASE found.end \in {"closed", "error"} /\ k = 0
  <2>1. PICK reason : ProcessIncoming(p, found) = [p EXCEPT !.e = Closed(p.e, reason)]
    BY <1>1, <1>3 DEF ProcessIncoming
  <2>2. ClientPort(c, [p EXCEPT !.e = Closed(p.e, reason)], way, waits)
    BY ClientCloses
  <2> HIDE DEF rest
  <2>3. rest = way
    BY <1>1, <1>3
  <2> QED BY <2>1, <2>2, <2>3 DEF rest
<1>4. CASE found.end = "open" /\ found.frames = SubSeq(way, 1, k)
  <2>1. Len(found.frames) = k
    BY <1>4, Cut
  <2>2. CASE found.frames = <<>>
    <3>1. ProcessIncoming(p, found) = p
      BY <1>1, <1>4, <2>2 DEF ProcessIncoming
    <3>2. k = 0
      BY <2>1, <2>2
    <3> HIDE DEF rest
    <3>3. rest = way
      BY <1>1, <3>2
    <3> QED BY <3>1, <3>3 DEF rest
  <2>3. CASE found.frames # <<>>
    <3>1. ProcessIncoming(p, found) = Reading(p.e.sid, touched, found.frames)[Len(found.frames)]
      BY <1>1, <1>4, <2>3 DEF ProcessIncoming
    <3>2. DOMAIN touched = {"e", "tx"} /\ touched.e = q /\ touched.tx = p.tx
      BY <1>2
    <3>3. IsEnd(q) /\ Alike(q, e) /\ q.out = e.out /\ q.events = e.events
      BY <1>2, QuietEnd
    <3> HIDE DEF touched, q, e
    <3>4. ClientPort(c, touched, way, waits)
      <4>1. /\ e.role = "client" /\ e.sock \in {0, c}
            /\ e.status \in {"HANDSHAKING", "CONNECTED", "CLOSED"}
            /\ p.tx \in Seq(Frame) /\ Len(p.tx) <= Window /\ News("client", e)
            /\ Link(c, e, server, way, p.tx, Len(e.events), 0, waits)
        BY DEF ClientPort, Port, e
      <4>2. e.sock = c
        BY DEF e
      <4>3. Link(c, q, server, way, p.tx, Len(q.events), 0, waits)
        <5>1. p.tx \o q.out = p.tx \o e.out
          BY <3>3
        <5> QED BY <3>3, <4>1, <4>2, <5>1, ClientFlushes
      <4>4. News("client", q)
        BY <3>3, <4>1 DEF News, Brings, Alike
      <4> QED BY <3>2, <3>3, <4>1, <4>3, <4>4 DEF ClientPort, Port, Alike
    <3>5. ClientPort(c, Reading(p.e.sid, touched, SubSeq(way, 1, k))[k], SubSeq(way, k + 1, Len(way)), waits)
      BY <3>4, ClientReadsAll
    <3> QED BY <1>4, <2>1, <3>1, <3>5
  <2> QED BY <2>2, <2>3
<1> QED BY <1>3, <1>4

LEMMA ServerProcesses ==
  ASSUME Ready, NEW c \in Conns, NEW p, NEW way \in Seq(Frame), NEW waits \in BOOLEAN, ~waits,
         ServerPort(c, p, way, waits), p.e.sock = c, NEW k \in 0..Len(way), NEW found,
         \/ found.end = "open" /\ found.frames = SubSeq(way, 1, k)
         \/ found.end \in {"closed", "error"} /\ k = 0
  PROVE  ServerPort(c, ProcessIncoming(p, found), SubSeq(way, k + 1, Len(way)), waits)
<1> DEFINE rest == SubSeq(way, k + 1, Len(way))
           touched == [p EXCEPT !.e.quiet = 0]
           e == p.e
           q == [e EXCEPT !.quiet = 0]
<1>1. Len(way) \in Nat /\ p.e.sock # 0 /\ (k = 0 => rest = way)
  <2>1. p.e.sock # 0 /\ Len(way) \in Nat
    BY TransportAssumption, LenProperties
  <2>2. k = 0 => rest = way
    BY Cut
  <2> QED BY <2>1, <2>2
<1>2. DOMAIN p = {"e", "tx"} /\ IsEnd(e)
  BY DEF ServerPort, Port
<1>3. CASE found.end \in {"closed", "error"} /\ k = 0
  <2>1. PICK reason : ProcessIncoming(p, found) = [p EXCEPT !.e = Closed(p.e, reason)]
    BY <1>1, <1>3 DEF ProcessIncoming
  <2>2. ServerPort(c, [p EXCEPT !.e = Closed(p.e, reason)], way, waits)
    BY ServerCloses
  <2> HIDE DEF rest
  <2>3. rest = way
    BY <1>1, <1>3
  <2> QED BY <2>1, <2>2, <2>3 DEF rest
<1>4. CASE found.end = "open" /\ found.frames = SubSeq(way, 1, k)
  <2>1. Len(found.frames) = k
    BY <1>4, Cut
  <2>2. CASE found.frames = <<>>
    <3>1. ProcessIncoming(p, found) = p
      BY <1>1, <1>4, <2>2 DEF ProcessIncoming
    <3>2. k = 0
      BY <2>1, <2>2
    <3> HIDE DEF rest
    <3>3. rest = way
      BY <1>1, <3>2
    <3> QED BY <3>1, <3>3 DEF rest
  <2>3. CASE found.frames # <<>>
    <3>1. ProcessIncoming(p, found) = Reading(p.e.sid, touched, found.frames)[Len(found.frames)]
      BY <1>1, <1>4, <2>3 DEF ProcessIncoming
    <3>2. DOMAIN touched = {"e", "tx"} /\ touched.e = q /\ touched.tx = p.tx
      BY <1>2
    <3>3. IsEnd(q) /\ Alike(q, e) /\ q.out = e.out /\ q.events = e.events
      BY <1>2, QuietEnd
    <3> HIDE DEF touched, q, e
    <3>4. ServerPort(c, touched, way, waits)
      <4>1. /\ e.role = "server" /\ e.sock \in {0, c}
            /\ e.status \in {"HANDSHAKING", "CONNECTED", "CLOSED"}
            /\ p.tx \in Seq(Frame) /\ Len(p.tx) <= Window /\ News("server", e)
            /\ e.status = "HANDSHAKING" => NewToBoth(e.sid)
            /\ e.sid \in {server.sid, NoSession}
            /\ Link(c, client, e, p.tx, way, 0, Len(e.events), waits)
        BY DEF ServerPort, Port, e
      <4>2. e.sock = c
        BY DEF e
      <4>3. Link(c, client, q, p.tx, way, 0, Len(q.events), waits)
        <5>1. p.tx \o q.out = p.tx \o e.out
          BY <3>3
        <5> QED BY <3>3, <4>1, <4>2, <5>1, ServerFlushes
      <4>4. News("server", q)
        BY <3>3, <4>1 DEF News, Brings, Alike
      <4> QED BY <3>2, <3>3, <4>1, <4>3, <4>4 DEF ServerPort, Port, Alike
    <3>5. ServerPort(c, Reading(p.e.sid, touched, SubSeq(way, 1, k))[k], SubSeq(way, k + 1, Len(way)), waits)
      BY <3>4, ServerReadsAll
    <3> QED BY <1>4, <2>1, <3>1, <3>5
  <2> QED BY <2>2, <2>3
<1> QED BY <1>3, <1>4

LEMMA Beating ==
  ASSUME NEW e, IsEnd(e)
  PROVE  LET q == HeartbeatAndTimeout(e) IN
         \/ q = e
         \/ q = Closed(e, "INACTIVITY_TIMEOUT")
         \/ /\ e.status = "CONNECTED"
            /\ IsEnd(q) /\ q.role = e.role /\ q.events = e.events
            /\ \/ q.sock = 0 /\ q.status = "CLOSED" /\ q.out = <<>> /\ q.sid = NoSession /\ q.closing = "NONE"
               \/ Alike(q, e) /\ q.out = Append(e.out, Ping(e.sid))
<1> DEFINE s == [e EXCEPT !.sent = 0]
           q == HeartbeatAndTimeout(e)
<1>1. q = e \/ q = Closed(e, "INACTIVITY_TIMEOUT") \/ (e.status = "CONNECTED" /\ q = SendMessage(s, Ping(e.sid)))
  BY DEF HeartbeatAndTimeout
<1>2. IsEnd(s) /\ Alike(s, e) /\ s.out = e.out /\ s.events = e.events
  BY QuietEnd
<1>3. Ping(e.sid) \in Frame
  BY PongFrame DEF IsEnd
<1>4. CASE e.status = "CONNECTED" /\ q = SendMessage(s, Ping(e.sid))
  <2> HIDE DEF s, q
  <2> DEFINE m == Ping(e.sid)
  <2>1. m \in Frame /\ q = SendMessage(s, m) /\ s.status = "CONNECTED"
    BY <1>2, <1>3, <1>4 DEF Alike
  <2> HIDE DEF m
  <2>2. /\ IsEnd(q) /\ q.role = s.role /\ q.events = s.events
        /\ \/ q.sock = 0 /\ q.status = "CLOSED" /\ q.out = <<>> /\ q.sid = NoSession /\ q.closing = "NONE"
           \/ Alike(q, s) /\ q.out = Append(s.out, m)
    BY <1>2, <2>1, SentEnd
  <2> QED BY <1>2, <1>4, <2>2 DEF Alike, m, q
<1> QED BY <1>1, <1>4

LEMMA ClientBeats ==
  ASSUME Ready, NEW c \in Conns, NEW p, NEW in \in Seq(Frame), NEW waits \in BOOLEAN,
         ClientPort(c, p, in, waits)
  PROVE  ClientPort(c, [p EXCEPT !.e = HeartbeatAndTimeout(p.e)], in, waits)
<1> DEFINE e == p.e
           q == HeartbeatAndTimeout(e)
           r == [p EXCEPT !.e = q]
<1>1. /\ DOMAIN p = {"e", "tx"} /\ IsEnd(e) /\ e.role = "client" /\ e.sock \in {0, c}
      /\ e.status \in {"HANDSHAKING", "CONNECTED", "CLOSED"}
      /\ p.tx \in Seq(Frame) /\ Len(p.tx) <= Window /\ News("client", e)
      /\ Link(c, e, server, in, p.tx, Len(e.events), 0, waits)
  BY DEF ClientPort, Port
<1>2. CASE q = e
  <2>1. DOMAIN r = {"e", "tx"} /\ r.e = e /\ r.tx = p.tx
    BY <1>1, <1>2, PortChanged
  <2> HIDE DEF r, q
  <2>2. ClientPort(c, r, in, waits)
    BY <1>1, <2>1 DEF ClientPort, Port
  <2> QED BY <2>2 DEF r, q
<1>3. CASE q = Closed(e, "INACTIVITY_TIMEOUT")
  BY <1>3, ClientCloses
<1>4. CASE /\ e.status = "CONNECTED"
           /\ IsEnd(q) /\ q.role = e.role /\ q.events = e.events
           /\ \/ q.sock = 0 /\ q.status = "CLOSED" /\ q.out = <<>> /\ q.sid = NoSession /\ q.closing = "NONE"
              \/ Alike(q, e) /\ q.out = Append(e.out, Ping(e.sid))
  <2>1. DOMAIN r = {"e", "tx"} /\ r.e = q /\ r.tx = p.tx
    BY <1>1, PortChanged
  <2> HIDE DEF q, r
  <2>2. Types /\ IsEnd(server) /\ 0 \in Nat /\ Len(e.events) \in Nat
        /\ (server.status = "CONNECTED" => server.sid \in 1..MaxSessions)
    BY <1>1, ServerSession, LenProperties DEF Ready, Types, IsEnd
  <2>3. CASE q.sock = 0 /\ q.status = "CLOSED"
    <3>1. Link(c, q, server, in, p.tx, Len(q.events), 0, waits)
      BY <1>1, <2>2, <2>3, ClientLeaves
    <3>2. ClientPort(c, r, in, waits)
      BY <1>1, <1>4, <2>1, <2>3, <3>1 DEF ClientPort, Port, News, Brings
    <3> QED BY <3>2 DEF r, q
  <2>4. CASE Alike(q, e) /\ q.out = Append(e.out, Ping(e.sid))
    <3> DEFINE m == Ping(e.sid)
               tx == p.tx
    <3>1. e.sock = c /\ e.sid \in Nat
      BY <1>1, <1>4 DEF IsEnd
    <3>2. m \in Frame /\ m.kind \in {"ping", "pong"} /\ m.sid = e.sid
      BY <3>1, PongFrame
    <3>3. e.sid \in 1..MaxSessions
      <4>1. e.sid \in 1..sessions /\ sessions \in 0..MaxSessions /\ MaxSessions \in Nat
        BY <1>1, <1>4, ControlAssumption DEF News, Brings, Ready, Types
      <4> QED BY <4>1
    <3>4. q.out = Append(e.out, m) /\ Alike(q, e)
      BY <2>4
    <3> HIDE DEF m, tx
    <3>5. Link(c, q, server, in, p.tx, Len(e.events), 0, waits)
      <4>1. PICK k \in Nat : k = Len(e.events)
        BY <2>2
      <4>2. Link(c, e, server, in, tx, k, 0, waits) /\ tx \in Seq(Frame)
        BY <1>1, <4>1 DEF tx
      <4>20. IsEnd(e) /\ e.status = "CONNECTED"
        BY <1>1, <1>4
      <4> HIDE DEF e
      <4>3. Link(c, q, server, in, tx, k, 0, waits)
        BY <2>2, <3>1, <3>2, <3>3, <3>4, <4>2, <4>20, ClientSignals, ZenonT(60)
      <4> QED BY <4>1, <4>3 DEF tx, e
    <3>6. News("client", q)
      BY <1>1, <1>4, <3>4 DEF News, Brings, Alike
    <3>7. ClientPort(c, r, in, waits)
      BY <1>1, <1>4, <2>1, <3>4, <3>5, <3>6 DEF ClientPort, Port, Alike
    <3> QED BY <3>7 DEF r, q
  <2> QED BY <1>4, <2>3, <2>4
<1> HIDE DEF q
<1>5. \/ q = e
      \/ q = Closed(e, "INACTIVITY_TIMEOUT")
      \/ /\ e.status = "CONNECTED"
         /\ IsEnd(q) /\ q.role = e.role /\ q.events = e.events
         /\ \/ q.sock = 0 /\ q.status = "CLOSED" /\ q.out = <<>> /\ q.sid = NoSession /\ q.closing = "NONE"
            \/ Alike(q, e) /\ q.out = Append(e.out, Ping(e.sid))
  BY <1>1, Beating DEF q
<1> QED BY <1>2, <1>3, <1>4, <1>5

LEMMA ServerBeats ==
  ASSUME Ready, NEW c \in Conns, NEW p, NEW out \in Seq(Frame), NEW waits \in BOOLEAN,
         ServerPort(c, p, out, waits)
  PROVE  ServerPort(c, [p EXCEPT !.e = HeartbeatAndTimeout(p.e)], out, waits)
<1> DEFINE e == p.e
           q == HeartbeatAndTimeout(e)
           r == [p EXCEPT !.e = q]
<1>1. /\ DOMAIN p = {"e", "tx"} /\ IsEnd(e) /\ e.role = "server" /\ e.sock \in {0, c}
      /\ e.status \in {"HANDSHAKING", "CONNECTED", "CLOSED"}
      /\ p.tx \in Seq(Frame) /\ Len(p.tx) <= Window /\ News("server", e)
      /\ e.status = "HANDSHAKING" => NewToBoth(e.sid)
      /\ e.sid \in {server.sid, NoSession}
      /\ Link(c, client, e, p.tx, out, 0, Len(e.events), waits)
  BY DEF ServerPort, Port
<1>2. CASE q = e
  <2>1. DOMAIN r = {"e", "tx"} /\ r.e = e /\ r.tx = p.tx
    BY <1>1, <1>2, PortChanged
  <2> HIDE DEF r, q
  <2>2. ServerPort(c, r, out, waits)
    BY <1>1, <2>1 DEF ServerPort, Port
  <2> QED BY <2>2 DEF r, q
<1>3. CASE q = Closed(e, "INACTIVITY_TIMEOUT")
  BY <1>3, ServerCloses
<1>4. CASE /\ e.status = "CONNECTED"
           /\ IsEnd(q) /\ q.role = e.role /\ q.events = e.events
           /\ \/ q.sock = 0 /\ q.status = "CLOSED" /\ q.out = <<>> /\ q.sid = NoSession /\ q.closing = "NONE"
              \/ Alike(q, e) /\ q.out = Append(e.out, Ping(e.sid))
  <2>1. DOMAIN r = {"e", "tx"} /\ r.e = q /\ r.tx = p.tx
    BY <1>1, PortChanged
  <2> HIDE DEF q, r
  <2>2. Types /\ IsEnd(client) /\ 0 \in Nat /\ Len(e.events) \in Nat
        /\ (client.status = "CONNECTED" => client.sid \in 1..MaxSessions)
    BY <1>1, ClientSession, LenProperties DEF Ready, Types, IsEnd
  <2>3. CASE q.sock = 0 /\ q.status = "CLOSED" /\ q.sid = NoSession
    <3>1. Link(c, client, q, p.tx, out, 0, Len(q.events), waits)
      BY <1>1, <1>4, <2>3, ServerGone DEF IsEnd, Alike
    <3>2. ServerPort(c, r, out, waits)
      BY <1>1, <1>4, <2>1, <2>3, <3>1 DEF ServerPort, Port, News, Brings
    <3> QED BY <3>2 DEF r, q
  <2>4. CASE Alike(q, e) /\ q.out = Append(e.out, Ping(e.sid))
    <3> DEFINE m == Ping(e.sid)
               tx == p.tx
    <3>1. e.sock = c /\ e.sid \in Nat
      BY <1>1, <1>4 DEF IsEnd
    <3>2. m \in Frame /\ m.kind \in {"ping", "pong"} /\ m.sid = e.sid
      BY <3>1, PongFrame
    <3>3. e.sid \in 1..MaxSessions
      <4>1. e.sid \in 1..sessions /\ sessions \in 0..MaxSessions /\ MaxSessions \in Nat
        BY <1>1, <1>4, ControlAssumption DEF News, Brings, Ready, Types
      <4> QED BY <4>1
    <3>4. q.out = Append(e.out, m) /\ Alike(q, e)
      BY <2>4
    <3> HIDE DEF m, tx
    <3>5. Link(c, client, q, p.tx, out, 0, Len(e.events), waits)
      <4>1. PICK k \in Nat : k = Len(e.events)
        BY <2>2
      <4>2. Link(c, client, e, tx, out, 0, k, waits) /\ tx \in Seq(Frame)
        BY <1>1, <4>1 DEF tx
      <4>20. IsEnd(e) /\ e.status = "CONNECTED"
        BY <1>1, <1>4
      <4> HIDE DEF e
      <4>3. Link(c, client, q, tx, out, 0, k, waits)
        BY <2>2, <3>1, <3>2, <3>3, <3>4, <4>2, <4>20, ServerSignals, ZenonT(60)
      <4> QED BY <4>1, <4>3 DEF tx, e
    <3>6. News("server", q)
      BY <1>1, <1>4, <3>4 DEF News, Brings, Alike
    <3>7. ServerPort(c, r, out, waits)
      BY <1>1, <1>4, <2>1, <3>4, <3>5, <3>6 DEF ServerPort, Port, Alike
    <3> QED BY <3>7 DEF r, q
  <2> QED BY <1>4, <2>3, <2>4
<1> HIDE DEF q
<1>5. \/ q = e
      \/ q = Closed(e, "INACTIVITY_TIMEOUT")
      \/ /\ e.status = "CONNECTED"
         /\ IsEnd(q) /\ q.role = e.role /\ q.events = e.events
         /\ \/ q.sock = 0 /\ q.status = "CLOSED" /\ q.out = <<>> /\ q.sid = NoSession /\ q.closing = "NONE"
            \/ Alike(q, e) /\ q.out = Append(e.out, Ping(e.sid))
  BY <1>1, Beating DEF q
<1> QED BY <1>2, <1>3, <1>4, <1>5

-----------------------------------------------------------------------------
(***************************************************************************)
(* From one state to the next.                                             *)
(***************************************************************************)
\* What connection c depends on besides its two ends and what it carries.
LEMMA LinkKept ==
  ASSUME NEW c, NEW cl, NEW sv, NEW in, NEW out, NEW k, NEW l, NEW waits,
         Link(c, cl, sv, in, out, k, l, waits), NEW i, NEW j,
         cl.sock = c /\ cl.status = "HANDSHAKING" =>
           /\ last'["client"] = last["client"]
           /\ 1..sessions \subseteq 1..sessions' /\ last["client"] \in Nat /\ sessions \in Nat
           /\ \A s \in 1..sessions : said'[s]["server"] = said[s]["server"],
         cl.sock = c /\ cl.status = "CONNECTED" =>
           /\ Len(heard'[cl.sid]["client"]) + i = Len(heard[cl.sid]["client"]) + k
           /\ said'[cl.sid]["server"] = said[cl.sid]["server"],
         sv.sock = c /\ sv.status = "CONNECTED" =>
           /\ Len(heard'[sv.sid]["server"]) + j = Len(heard[sv.sid]["server"]) + l
           /\ said'[sv.sid]["client"] = said[sv.sid]["client"]
  PROVE  Link(c, cl, sv, in, out, i, j, waits)'
<1> DEFINE w == Written(c, in, sv)
           v == Written(c, out, cl)
<1> HIDE DEF w, v
<1>1. ASSUME cl.sock = c PROVE ToClient(c, cl, sv, w, i)'
  <2>1. ToClient(c, cl, sv, w, k)
    BY <1>1 DEF Link, w
  <2>2. ASSUME cl.status = "HANDSHAKING", w # <<>> PROVE Answered(c, sv, w)'
    <3>1. Answered(c, sv, w)
      BY <2>1, <2>2 DEF ToClient
    <3>2. w[1].sid \in last["client"] + 1..sessions
      BY <3>1 DEF Answered
    <3>3. w[1].sid \in 1..sessions
      BY <1>1, <2>2, <3>2
    <3>4. w[1].sid \in last'["client"] + 1..sessions'
      BY <1>1, <2>2, <3>2, <3>3
    <3> QED BY <1>1, <2>2, <3>1, <3>3, <3>4 DEF Answered
  <2> QED BY <1>1, <2>1, <2>2 DEF ToClient
<1>2. ASSUME sv.sock = c PROVE ToServer(c, sv, cl, v, j)'
  BY <1>2 DEF Link, ToServer, v
<1>3. waits => Waiting(c, sv, cl, in, v)'
  BY DEF Link, Waiting, v
<1> QED BY <1>1, <1>2, <1>3 DEF Link, w, v

LEMMA LinksAfter ==
  ASSUME NEW cl, cl = client', NEW sv, sv = server', NEW pp, pp = pipe', NEW bl, bl = backlog',
         \A c \in Conns : Link(c, cl, sv, pp[c]["client"], pp[c]["server"], 0, 0, Contains(bl, c))'
  PROVE  Links'
BY DEF Links, Link, ToClient, ToServer, Waiting, Answered

Numbers(n) == [i \in 1..n |-> i]

LEMMA HandsNothing ==
  ASSUME NEW r \in Roles, NEW e, e.status # "CONNECTED", HandOn(r, e)
  PROVE  told' = [told EXCEPT ![r] = NoSession] /\ last' = last /\ heard' = heard
BY DEF HandOn

LEMMA HandsMore ==
  ASSUME Types, Log, NEW r \in Roles, NEW e, IsEnd(e), Brings(r, e), e.status = "CONNECTED",
         HandOn(r, e)
  PROVE  LET h == Len(heard[e.sid][r])
             n == h + Len(e.events)
         IN  /\ e.sid \in 1..MaxSessions /\ e.sid \in 1..sessions
             /\ h \in Nat /\ Len(e.events) \in Nat /\ h <= n /\ n \in Nat
             /\ told' = [told EXCEPT ![r] = e.sid] /\ last' = [last EXCEPT ![r] = e.sid]
             /\ heard' = [heard EXCEPT ![e.sid][r] = Numbers(n)]
<1> DEFINE s == e.sid
           old == heard[s][r]
           h == Len(old)
           k == Len(e.events)
           new == [i \in DOMAIN e.events |-> e.events[i].n]
<1>1. s \in 1..MaxSessions /\ s \in 1..sessions /\ s # NoSession
  <2>1. sessions \in 0..MaxSessions /\ MaxSessions \in Nat /\ s \in 1..sessions /\ s # NoSession
    BY ControlAssumption DEF Types, News, Brings, IsEnd
  <2> HIDE DEF s
  <2> QED BY <2>1
<1>2. old \in Seq(Nat) /\ h \in Nat
  <2>1. 0 \in Nat
    OBVIOUS
  <2> QED BY <1>1, <2>1, SessionTypes
<1>3. e.events \in Seq(Frame) /\ k \in Nat /\ DOMAIN e.events = 1..k
  BY LenProperties DEF IsEnd
<1>4. h <= h + k /\ h + k \in Nat
  <2> HIDE DEF h, k
  <2> QED BY <1>2, <1>3
<1>5. old = Numbers(h)
  BY <1>1 DEF Log, Numbers
<1>6. new \in Seq(Nat) /\ Len(new) = k /\ \A i \in 1..k : new[i] = h + i
  <2>1. \A i \in 1..k : e.events[i].n = h + i
    BY DEF Brings
  <2> HIDE DEF h, k
  <2>2. \A i \in 1..k : new[i] = h + i
    BY <1>3, <2>1
  <2>3. new = [i \in 1..k |-> new[i]] /\ \A i \in 1..k : new[i] \in Nat
    BY <1>2, <1>3, <2>2
  <2> HIDE DEF new
  <2> QED BY <1>3, <2>2, <2>3, LenProperties
<1>7. old \o new = Numbers(h + k)
  <2> HIDE DEF old, new, h, k
  <2>1. /\ old \o new \in Seq(Nat) /\ Len(old \o new) = h + k
        /\ \A i \in 1..(h + k) : (old \o new)[i] = IF i <= h THEN old[i] ELSE new[i - h]
    BY <1>2, <1>6, ConcatProperties DEF h
  <2>2. \A i \in 1..(h + k) : (old \o new)[i] = i
    <3> SUFFICES ASSUME NEW i \in 1..(h + k) PROVE (old \o new)[i] = i
      OBVIOUS
    <3>1. CASE i <= h
      <4>1. i \in 1..h
        BY <1>2, <3>1
      <4>2. old[i] = i
        BY <1>5, <4>1 DEF Numbers
      <4> QED BY <2>1, <3>1, <4>2
    <3>2. CASE ~(i <= h)
      <4>1. i - h \in 1..k /\ h + (i - h) = i
        BY <1>2, <1>3, <3>2
      <4>2. (old \o new)[i] = new[i - h]
        BY <2>1, <3>2
      <4> QED BY <1>6, <4>1, <4>2
    <3> QED BY <3>1, <3>2
  <2>3. Numbers(h + k) \in Seq(Nat) /\ Len(Numbers(h + k)) = h + k /\ \A i \in 1..(h + k) : Numbers(h + k)[i] = i
    BY <1>4 DEF Numbers
  <2> QED BY <2>1, <2>2, <2>3, SeqEqual
<1>8. /\ told' = [told EXCEPT ![r] = s] /\ last' = [last EXCEPT ![r] = s]
      /\ heard' = [heard EXCEPT ![s][r] = heard[s][r] \o new]
  BY <1>1 DEF HandOn
<1> QED BY <1>1, <1>2, <1>3, <1>4, <1>7, <1>8

LEMMA NumbersTypes ==
  ASSUME NEW n \in Nat
  PROVE  /\ Numbers(n) \in Seq(Nat) /\ Len(Numbers(n)) = n
         /\ Numbers(n) = [i \in 1..Len(Numbers(n)) |-> i]
<1>1. Numbers(n) \in Seq(Nat) /\ Len(Numbers(n)) = n
  BY DEF Numbers
<1> QED BY <1>1 DEF Numbers

LEMMA LogAfter ==
  ASSUME Types, Log, NEW r \in Roles, NEW e, IsEnd(e), Brings(r, e),
         told[r] # NoSession => last[r] = told[r], HandOn(r, e), said' = said
  PROVE  /\ told' \in [Roles -> Nat] /\ last' \in [Roles -> Nat]
         /\ heard' \in [1..MaxSessions -> [Roles -> Seq(Nat)]]
         /\ Log'
<1>1. CASE e.status # "CONNECTED"
  <2>1. told' = [told EXCEPT ![r] = NoSession] /\ last' = last /\ heard' = heard
    BY <1>1, HandsNothing
  <2> QED BY <2>1 DEF Types, Log, NoSession
<1>2. CASE e.status = "CONNECTED"
  <2> DEFINE n == Len(heard[e.sid][r]) + Len(e.events)
             s == e.sid
  <2>1. /\ s \in 1..MaxSessions /\ n \in Nat
        /\ told' = [told EXCEPT ![r] = s] /\ last' = [last EXCEPT ![r] = s]
        /\ heard' = [heard EXCEPT ![s][r] = Numbers(n)]
    BY <1>2, HandsMore
  <2>10. s \in Nat /\ s # NoSession
    BY <1>2 DEF IsEnd
  <2>2. last[r] <= s
    <3>1. told[r] = s \/ (told[r] = NoSession /\ last[r] < s)
      BY <1>2 DEF Brings
    <3>2. last[r] \in Nat
      BY DEF Types
    <3> HIDE DEF s
    <3> QED BY <2>10, <3>1, <3>2
  <2> HIDE DEF n, s
  <2>3. Numbers(n) \in Seq(Nat) /\ Numbers(n) = [i \in 1..Len(Numbers(n)) |-> i]
    BY <2>1, NumbersTypes
  <2>4. told' \in [Roles -> Nat] /\ last' \in [Roles -> Nat]
    BY <2>1, <2>10 DEF Types
  <2>5. heard' \in [1..MaxSessions -> [Roles -> Seq(Nat)]]
    BY <2>1, <2>3 DEF Types
  <2>6. ASSUME NEW t \in 1..MaxSessions, NEW q \in Roles
        PROVE  /\ t > last'[q] => said[t][q] = 0 /\ heard'[t][q] = <<>>
               /\ heard'[t][q] = [i \in 1..Len(heard'[t][q]) |-> i]
    <3>1. CASE t = s /\ q = r
      <4>1. heard'[t][q] = Numbers(n) /\ last'[q] = s
        BY <2>1, <3>1 DEF Types
      <4>2. ~(t > last'[q])
        BY <2>10, <3>1, <4>1
      <4> QED BY <2>3, <4>1, <4>2
    <3>2. CASE ~(t = s /\ q = r)
      <4>1. heard'[t][q] = heard[t][q]
        BY <2>1, <3>2 DEF Types
      <4>2. t > last'[q] => t > last[q]
        <5>1. last[q] \in Nat /\ (q = r => last'[q] = s) /\ (q # r => last'[q] = last[q])
          BY <2>1, <2>10 DEF Types
        <5>2. q = r => last[q] <= s
          BY <2>2
        <5> QED BY <2>10, <5>1, <5>2
      <4>3. /\ t > last[q] => said[t][q] = 0 /\ heard[t][q] = <<>>
            /\ heard[t][q] = [i \in 1..Len(heard[t][q]) |-> i]
        BY DEF Log
      <4> QED BY <4>1, <4>2, <4>3
    <3> QED BY <3>1, <3>2
  <2> QED BY <2>4, <2>5, <2>6 DEF Log
<1> QED BY <1>1, <1>2

\* What an owner is handed on is a step of the channel.
LEMMA ChannelHears ==
  ASSUME Types, Log, NEW r \in Roles, NEW other \in Roles, other # r,
         NEW e, IsEnd(e), Brings(r, e), HandOn(r, e), said' = said,
         e.status = "CONNECTED" =>
           Len(heard[e.sid][r]) + Len(e.events) <= said[e.sid][other]
  PROVE  Channel!ChannelNext
<1>1. CASE e.status # "CONNECTED"
  <2>1. told' = [told EXCEPT ![r] = NoSession] /\ last' = last /\ heard' = heard
    BY <1>1, HandsNothing
  <2>2. Channel!Lose(r)
    BY <2>1 DEF Channel!Lose, NoSession
  <2> QED BY <2>2 DEF Channel!ChannelNext
<1>2. CASE e.status = "CONNECTED"
  <2> DEFINE n == Len(heard[e.sid][r]) + Len(e.events)
             s == e.sid
             h == Len(heard[e.sid][r])
  <2>1. /\ s \in 1..MaxSessions /\ n \in Nat /\ h \in Nat /\ h <= n
        /\ told' = [told EXCEPT ![r] = s] /\ last' = [last EXCEPT ![r] = s]
        /\ heard' = [heard EXCEPT ![s][r] = Numbers(n)]
    BY <1>2, HandsMore
  <2>2. told[r] = s \/ (told[r] = 0 /\ last[r] < s)
    BY <1>2 DEF Brings, NoSession
  <2>3. n <= said[s][other] /\ said[s][other] \in Nat
    <3>1. 0 \in Nat
      OBVIOUS
    <3> QED BY <1>2, <2>1, <3>1, SessionTypes
  <2> HIDE DEF n, h
  <2>4. n \in h..said[s][other]
    BY <2>1, <2>3
  <2>5. heard' = [heard EXCEPT ![s][r] = Channel!Numbered(n)]
    BY <2>1 DEF Channel!Numbered, Numbers
  <2>6. \E o \in Roles \ {r} : \E x \in Len(heard[s][r])..said[s][o] :
          heard' = [heard EXCEPT ![s][r] = Channel!Numbered(x)]
    BY <2>4, <2>5 DEF h
  <2> HIDE DEF s
  <2>7. Channel!Hear(r, s)
    BY <2>1, <2>2, <2>6 DEF Channel!Hear
  <2> QED BY <2>1, <2>7 DEF Channel!ChannelNext
<1> QED BY <1>1, <1>2

LEMMA HeardAfter ==
  ASSUME Types, Log, NEW r \in Roles, NEW e, IsEnd(e), Brings(r, e), HandOn(r, e)
  PROVE  /\ e.status = "CONNECTED" =>
              Len(heard'[e.sid][r]) + 0 = Len(heard[e.sid][r]) + Len(e.events)
         /\ \A s \in 1..MaxSessions, q \in Roles \ {r} : heard'[s][q] = heard[s][q]
<1>1. CASE e.status # "CONNECTED"
  <2>1. heard' = heard
    BY <1>1, HandsNothing
  <2> QED BY <1>1, <2>1
<1>2. CASE e.status = "CONNECTED"
  <2> DEFINE n == Len(heard[e.sid][r]) + Len(e.events)
             s == e.sid
  <2>1. s \in 1..MaxSessions /\ n \in Nat /\ heard' = [heard EXCEPT ![s][r] = Numbers(n)]
    BY <1>2, HandsMore
  <2> HIDE DEF n, s
  <2>2. Len(Numbers(n)) = n
    BY <2>1, NumbersTypes
  <2>3. heard'[s][r] = Numbers(n)
    BY <2>1 DEF Types
  <2>4. \A t \in 1..MaxSessions, q \in Roles \ {r} : heard'[t][q] = heard[t][q]
    BY <2>1 DEF Types
  <2>5. Len(heard'[s][r]) + 0 = n
    BY <2>1, <2>2, <2>3
  <2> QED BY <2>4, <2>5 DEF n, s
<1> QED BY <1>1, <1>2

\* The client's end after a poll, and what the poll has made of every connection.
LEMMA ClientSteps ==
  ASSUME SyncInv, NEW e, client' = e, IsEnd(e), e.role = "client", Brings("client", e),
         HandOn("client", e), midi["client"],
         UNCHANGED <<server, sessions, service, midi, advert, said>>,
         NEW pp, pipe' = pp, pp \in [Conns -> [Roles -> Seq(Frame)]],
         \A c \in Conns, r \in Roles : Len(pp[c][r]) <= Window,
         NEW bl, backlog' = bl, bl \in Seq(Conns),
         \A i, j \in 1..Len(bl) : bl[i] = bl[j] => i = j,
         \A c \in Conns : Link(c, e, server, pp[c]["client"], pp[c]["server"], Len(e.events), 0,
                               Contains(bl, c))
  PROVE  SyncInv' /\ Channel!ChannelNext
<1>1. Types /\ Told /\ Log /\ "client" \in Roles /\ "server" \in Roles
  BY DEF SyncInv, Roles
<1>2. told["client"] # NoSession => last["client"] = told["client"]
  BY <1>1 DEF Told, Informed
<1>3. /\ told' \in [Roles -> Nat] /\ last' \in [Roles -> Nat]
      /\ heard' \in [1..MaxSessions -> [Roles -> Seq(Nat)]]
      /\ Log'
  BY <1>1, <1>2, LogAfter
<1>4. Types'
  BY <1>1, <1>3 DEF Types
<1>5. e.status = "CONNECTED" =>
        /\ e.sid \in 1..MaxSessions /\ e.sid \in 1..sessions
        /\ told' = [told EXCEPT !["client"] = e.sid] /\ last' = [last EXCEPT !["client"] = e.sid]
        /\ Before(e.sid, server)
  <2>1. ASSUME e.status = "CONNECTED"
        PROVE  /\ e.sid \in 1..MaxSessions /\ e.sid \in 1..sessions
               /\ told' = [told EXCEPT !["client"] = e.sid] /\ last' = [last EXCEPT !["client"] = e.sid]
    BY <1>1, <2>1, HandsMore
  <2>2. e.status = "CONNECTED" => Before(e.sid, server)
    BY DEF Brings
  <2> QED BY <2>1, <2>2
<1>6. e.status # "CONNECTED" =>
        told' = [told EXCEPT !["client"] = NoSession] /\ last' = last /\ e.sid = NoSession
  <2>1. e.status # "CONNECTED" => e.sid = NoSession
    BY DEF IsEnd, Roles
  <2> QED BY <1>1, <2>1, HandsNothing
<1>7. Told'
  <2>1. Informed("server", server)'
    <3>1. told'["server"] = told["server"] /\ last'["server"] = last["server"]
      BY <1>1, <1>5, <1>6 DEF Types
    <3> QED BY <1>1, <3>1 DEF Told, Informed
  <2>2. Informed("client", client)'
    <3>1. CASE e.status = "CONNECTED"
      <4>1. told'["client"] = e.sid /\ last'["client"] = e.sid /\ e.sid \in 0..sessions
        BY <1>1, <1>5, <3>1 DEF Types
      <4> QED BY <3>1, <4>1 DEF Informed
    <3>2. CASE e.status # "CONNECTED"
      <4>1. /\ told'["client"] = NoSession /\ last'["client"] = last["client"]
            /\ last["client"] \in 0..sessions /\ e.sid \in 0..sessions
        BY <1>1, <1>6, <3>2 DEF Types, Told, Informed, NoSession
      <4> QED BY <3>2, <4>1 DEF Informed
    <3> QED BY <3>1, <3>2
  <2>3. server.status = "HANDSHAKING" => server.sid > last'["server"] /\ server.sid > last'["client"]
    <3>1. server.status = "HANDSHAKING" => server.sid > last["server"] /\ server.sid > last["client"]
      BY <1>1 DEF Told
    <3>2. last'["server"] = last["server"]
      BY <1>1, <1>5, <1>6 DEF Types
    <3>3. CASE e.status = "CONNECTED"
      <4>1. last'["client"] = e.sid /\ e.sid \in Nat /\ server.sid \in Nat
        BY <1>1, <1>5, <3>3 DEF Types, IsEnd
      <4> QED BY <1>5, <3>1, <3>2, <3>3, <4>1 DEF Before
    <3>4. CASE e.status # "CONNECTED"
      BY <1>6, <3>1, <3>2, <3>4
    <3> QED BY <3>3, <3>4
  <2> QED BY <2>1, <2>2, <2>3 DEF Told
<1>8. Links'
  <2>1. PICK sv : sv = server
    OBVIOUS
  <2>2. ASSUME NEW c \in Conns
        PROVE  Link(c, e, sv, pp[c]["client"], pp[c]["server"], 0, 0, Contains(bl, c))'
    <3> DEFINE in == pp[c]["client"]
               out == pp[c]["server"]
               w == Contains(bl, c)
               k == Len(e.events)
    <3>1. Link(c, e, sv, in, out, k, 0, w)
      BY <2>1
    <3>2. e.status = "HANDSHAKING" =>
            /\ last'["client"] = last["client"]
            /\ 1..sessions \subseteq 1..sessions' /\ last["client"] \in Nat /\ sessions \in Nat
            /\ \A s \in 1..sessions : said'[s]["server"] = said[s]["server"]
      BY <1>1, <1>6 DEF Types
    <3>3. e.status = "CONNECTED" =>
            /\ Len(heard'[e.sid]["client"]) + 0 = Len(heard[e.sid]["client"]) + k
            /\ said'[e.sid]["server"] = said[e.sid]["server"]
      BY <1>1, HeardAfter
    <3>4. sv.status = "CONNECTED" =>
            /\ Len(heard'[sv.sid]["server"]) + 0 = Len(heard[sv.sid]["server"]) + 0
            /\ said'[sv.sid]["client"] = said[sv.sid]["client"]
      <4>1. server.status = "CONNECTED" => server.sid \in 1..MaxSessions
        BY <1>1, ServerSession DEF Ready
      <4>2. \A s \in 1..MaxSessions : heard'[s]["server"] = heard[s]["server"]
        <5>1. \A s \in 1..MaxSessions, q \in Roles \ {"client"} : heard'[s][q] = heard[s][q]
          BY <1>1, HeardAfter
        <5> QED BY <1>1, <5>1
      <4> QED BY <2>1, <4>1, <4>2
    <3> HIDE DEF in, out, w, k
    <3>5. Link(c, e, sv, in, out, 0, 0, w)'
      BY <3>1, <3>2, <3>3, <3>4, LinkKept
    <3> QED BY <3>5 DEF in, out, w
  <2> QED BY <2>1, <2>2, LinksAfter
<1>9. Channel!ChannelNext
  <2>1. ASSUME e.status = "CONNECTED"
        PROVE  Len(heard[e.sid]["client"]) + Len(e.events) <= said[e.sid]["server"]
    <3> DEFINE c == e.sock
               in == Written(c, pp[c]["client"], server)
               h == Len(heard[e.sid]["client"]) + Len(e.events)
               n == said[e.sid]["server"]
    <3>1. c \in Conns
      BY <2>1 DEF IsEnd
    <3>2. ToClient(c, e, server, in, Len(e.events))
      BY <3>1 DEF Link
    <3>3. in \in Seq(Frame)
      <4>1. pp[c]["client"] \in Seq(Frame)
        BY <1>1, <3>1
      <4>2. server.out \in Seq(Frame)
        BY <1>1 DEF Types, IsEnd
      <4> QED BY <4>1, <4>2, Joined DEF Written
    <3>4. n \in Nat
      <4>1. e.sid \in 1..MaxSessions /\ 0 \in Nat
        BY <1>5, <2>1
      <4> QED BY <1>1, <4>1, SessionTypes
    <3> HIDE DEF in, n
    <3>5. Delivers(in, h, n, Up(server, c))
      BY <2>1, <3>2 DEF ToClient, n
    <3> HIDE DEF h, c
    <3> QED BY <3>3, <3>4, <3>5, DeliversBound DEF h, n
  <2>2. said' = said /\ "server" # "client"
    OBVIOUS
  <2> QED BY <1>1, <2>1, <2>2, ChannelHears
<1> QED BY <1>3, <1>4, <1>7, <1>8, <1>9 DEF SyncInv

LEMMA ServerSteps ==
  ASSUME SyncInv, NEW e, server' = e, IsEnd(e), e.role = "server", Brings("server", e),
         HandOn("server", e),
         e.status = "HANDSHAKING" => e.sid > last["server"] /\ e.sid > last["client"],
         sessions' \in 0..MaxSessions, sessions <= sessions', e.sid \in 0..sessions',
         UNCHANGED <<client, service, midi, advert, said>>,
         NEW pp, pipe' = pp, pp \in [Conns -> [Roles -> Seq(Frame)]],
         \A c \in Conns, r \in Roles : Len(pp[c][r]) <= Window,
         NEW bl, backlog' = bl, bl \in Seq(Conns),
         \A i, j \in 1..Len(bl) : bl[i] = bl[j] => i = j,
         \A c \in Conns : Link(c, client, e, pp[c]["client"], pp[c]["server"], 0, Len(e.events),
                               Contains(bl, c))
  PROVE  SyncInv' /\ Channel!ChannelNext
<1>1. Types /\ Told /\ Log /\ "client" \in Roles /\ "server" \in Roles
  BY DEF SyncInv, Roles
<1>2. told["server"] # NoSession => last["server"] = told["server"]
  BY <1>1 DEF Told, Informed
<1>3. /\ told' \in [Roles -> Nat] /\ last' \in [Roles -> Nat]
      /\ heard' \in [1..MaxSessions -> [Roles -> Seq(Nat)]]
      /\ Log'
  BY <1>1, <1>2, LogAfter
<1>4. Types'
  BY <1>1, <1>3 DEF Types
<1>5. e.status = "CONNECTED" =>
        /\ e.sid \in 1..MaxSessions /\ e.sid \in 1..sessions
        /\ told' = [told EXCEPT !["server"] = e.sid] /\ last' = [last EXCEPT !["server"] = e.sid]
  BY <1>1, HandsMore
<1>6. e.status # "CONNECTED" => told' = [told EXCEPT !["server"] = NoSession] /\ last' = last
  BY <1>1, HandsNothing
<1>7. sessions \in Nat /\ sessions' \in Nat /\ 0..sessions \subseteq 0..sessions'
      /\ 1..sessions \subseteq 1..sessions'
  <2>1. sessions \in Nat /\ sessions' \in Nat
    BY <1>1, ControlAssumption DEF Types
  <2> QED BY <2>1
<1>8. Told'
  <2>1. Informed("client", client)'
    <3>1. told'["client"] = told["client"] /\ last'["client"] = last["client"]
      BY <1>1, <1>5, <1>6 DEF Types
    <3> QED BY <1>1, <1>7, <3>1 DEF Told, Informed
  <2>2. Informed("server", server)'
    <3>1. CASE e.status = "CONNECTED"
      <4>1. told'["server"] = e.sid /\ last'["server"] = e.sid
        BY <1>1, <1>5, <3>1 DEF Types
      <4> QED BY <3>1, <4>1 DEF Informed
    <3>2. CASE e.status # "CONNECTED"
      <4>1. /\ told'["server"] = NoSession /\ last'["server"] = last["server"]
            /\ last["server"] \in 0..sessions'
        BY <1>1, <1>6, <1>7, <3>2 DEF Types, Told, Informed, NoSession
      <4> QED BY <3>2, <4>1 DEF Informed
    <3> QED BY <3>1, <3>2
  <2>3. ~midi["client"] => told'["client"] = NoSession /\ client.status = "ABSENT"
    <3>1. told'["client"] = told["client"]
      BY <1>1, <1>5, <1>6 DEF Types
    <3> QED BY <1>1, <3>1 DEF Told
  <2>4. e.status = "HANDSHAKING" => e.sid > last'["server"] /\ e.sid > last'["client"]
    BY <1>6
  <2> QED BY <2>1, <2>2, <2>3, <2>4 DEF Told
<1>9. Links'
  <2>1. PICK cl : cl = client
    OBVIOUS
  <2>2. ASSUME NEW c \in Conns
        PROVE  Link(c, cl, e, pp[c]["client"], pp[c]["server"], 0, 0, Contains(bl, c))'
    <3> DEFINE in == pp[c]["client"]
               out == pp[c]["server"]
               w == Contains(bl, c)
               k == Len(e.events)
    <3>1. Link(c, cl, e, in, out, 0, k, w)
      BY <2>1
    <3>2. /\ last'["client"] = last["client"]
          /\ 1..sessions \subseteq 1..sessions' /\ last["client"] \in Nat /\ sessions \in Nat
          /\ \A s \in 1..sessions : said'[s]["server"] = said[s]["server"]
      <4>1. last'["client"] = last["client"]
        BY <1>1, <1>5, <1>6 DEF Types
      <4>2. last["client"] \in Nat
        BY <1>1 DEF Types
      <4> QED BY <1>7, <4>1, <4>2
    <3>3. e.status = "CONNECTED" =>
            /\ Len(heard'[e.sid]["server"]) + 0 = Len(heard[e.sid]["server"]) + k
            /\ said'[e.sid]["client"] = said[e.sid]["client"]
      BY <1>1, HeardAfter
    <3>4. cl.status = "CONNECTED" =>
            /\ Len(heard'[cl.sid]["client"]) + 0 = Len(heard[cl.sid]["client"]) + 0
            /\ said'[cl.sid]["server"] = said[cl.sid]["server"]
      <4>1. client.status = "CONNECTED" => client.sid \in 1..MaxSessions
        BY <1>1, ClientSession DEF Ready
      <4>2. \A s \in 1..MaxSessions : heard'[s]["client"] = heard[s]["client"]
        <5>1. \A s \in 1..MaxSessions, q \in Roles \ {"server"} : heard'[s][q] = heard[s][q]
          BY <1>1, HeardAfter
        <5> QED BY <1>1, <5>1
      <4> QED BY <2>1, <4>1, <4>2
    <3> HIDE DEF in, out, w, k
    <3>5. Link(c, cl, e, in, out, 0, 0, w)'
      BY <3>1, <3>2, <3>3, <3>4, LinkKept
    <3> QED BY <3>5 DEF in, out, w
  <2> QED BY <2>1, <2>2, LinksAfter
<1>10. Channel!ChannelNext
  <2>1. ASSUME e.status = "CONNECTED"
        PROVE  Len(heard[e.sid]["server"]) + Len(e.events) <= said[e.sid]["client"]
    <3> DEFINE c == e.sock
               v == Written(c, pp[c]["server"], client)
               h == Len(heard[e.sid]["server"]) + Len(e.events)
               n == said[e.sid]["client"]
    <3>1. c \in Conns
      BY <2>1 DEF IsEnd
    <3>2. ToServer(c, e, client, v, Len(e.events))
      BY <3>1 DEF Link
    <3>3. v \in Seq(Frame)
      <4>1. pp[c]["server"] \in Seq(Frame)
        BY <1>1, <3>1
      <4>2. client.out \in Seq(Frame)
        BY <1>1 DEF Types, IsEnd
      <4> QED BY <4>1, <4>2, Joined DEF Written
    <3>4. n \in Nat
      <4>1. e.sid \in 1..MaxSessions /\ 0 \in Nat
        BY <1>5, <2>1
      <4> QED BY <1>1, <4>1, SessionTypes
    <3> HIDE DEF v, n
    <3>5. Delivers(v, h, n, Up(client, c))
      BY <2>1, <3>2 DEF ToServer, n
    <3> HIDE DEF h, c
    <3> QED BY <3>3, <3>4, <3>5, DeliversBound DEF h, n
  <2>2. said' = said /\ "server" # "client"
    OBVIOUS
  <2> QED BY <1>1, <2>1, <2>2, ChannelHears
<1> QED BY <1>3, <1>4, <1>8, <1>9, <1>10 DEF SyncInv

LEMMA OtherClient ==
  ASSUME NEW d, NEW cl, cl.sock # d, NEW sv, NEW in, NEW out, NEW k, NEW l, NEW waits,
         Link(d, cl, sv, in, out, k, l, waits), NEW q, q.sock # d, NEW j
  PROVE  Link(d, q, sv, in, out, j, l, waits)
BY DEF Link, ToServer, Waiting, Hailed, Written, Up

\* What a poll makes of the pipes: of connection c only.
Repiped(c, in, out) == [pipe EXCEPT ![c]["client"] = in, ![c]["server"] = out]

LEMMA RepipedTypes ==
  ASSUME Types, NEW c \in Conns, NEW in \in Seq(Frame), Len(in) <= Window,
         NEW out \in Seq(Frame), Len(out) <= Window
  PROVE  LET pp == Repiped(c, in, out) IN
         /\ pp \in [Conns -> [Roles -> Seq(Frame)]]
         /\ \A d \in Conns, r \in Roles : Len(pp[d][r]) <= Window
         /\ pp[c]["client"] = in /\ pp[c]["server"] = out
         /\ \A d \in Conns \ {c} : pp[d] = pipe[d]
<1> DEFINE pp == Repiped(c, in, out)
<1>1. /\ pipe \in [Conns -> [Roles -> Seq(Frame)]]
      /\ \A d \in Conns, r \in Roles : Len(pipe[d][r]) <= Window
  BY DEF Types
<1>2. /\ pp \in [Conns -> [Roles -> Seq(Frame)]]
      /\ pp[c]["client"] = in /\ pp[c]["server"] = out
      /\ \A d \in Conns \ {c} : pp[d] = pipe[d]
  BY <1>1 DEF Repiped, Roles
<1> HIDE DEF pp
<1>3. ASSUME NEW d \in Conns, NEW r \in Roles PROVE Len(pp[d][r]) <= Window
  <2>1. CASE d = c
    BY <1>2, <2>1 DEF Roles
  <2>2. CASE d # c
    <3>1. pp[d] = pipe[d]
      BY <1>2, <2>2
    <3> QED BY <1>1, <3>1
  <2> QED BY <2>1, <2>2
<1> QED BY <1>2, <1>3 DEF pp

LEMMA ClientBegins ==
  ASSUME SyncInv, NEW c \in Conns, client.sock = c, client.status \in {"HANDSHAKING", "CONNECTED"}
  PROVE  ClientPort(c, [e |-> Drained(client), tx |-> pipe[c]["server"]], pipe[c]["client"],
                    Contains(backlog, c))
<1> DEFINE e == Drained(client)
           tx == pipe[c]["server"]
           in == pipe[c]["client"]
           w == Contains(backlog, c)
           p == [e |-> e, tx |-> tx]
<1>1. Types /\ Told /\ IsEnd(client) /\ client.role = "client"
  BY DEF SyncInv, Types
<1>2. IsEnd(e) /\ Alike(e, client) /\ e.out = client.out /\ e.events = <<>>
  BY <1>1, QuietEnd
<1>3. tx \in Seq(Frame) /\ Len(tx) <= Window
  BY <1>1 DEF Types, Roles
<1>4. Link(c, client, server, in, tx, 0, 0, w)
  BY DEF SyncInv, Links
<1>5. DOMAIN p = {"e", "tx"} /\ p.e = e /\ p.tx = tx
  OBVIOUS
<1> HIDE DEF e, tx, in, w, p
<1>6. Link(c, e, server, in, tx, Len(e.events), 0, w)
  <2>1. tx \o e.out = tx \o client.out /\ Len(e.events) = 0
    BY <1>2
  <2>2. Link(c, e, server, in, tx, 0, 0, w)
    BY <1>2, <1>4, <2>1, ClientFlushes
  <2> QED BY <2>1, <2>2
<1>7. News("client", e)
  <2>1. Informed("client", client)
    BY <1>1 DEF Told
  <2>2. ASSUME e.status = "HANDSHAKING" PROVE told["client"] = NoSession
    BY <1>2, <2>1, <2>2 DEF Informed, Alike
  <2>3. ASSUME e.status = "CONNECTED"
        PROVE  /\ told["client"] = e.sid /\ e.sid \in 1..sessions
               /\ Before(e.sid, server)
    <3>1. told["client"] = e.sid /\ e.sid # NoSession /\ e.sid \in 0..sessions /\ sessions \in Nat
      BY <1>1, <1>2, <2>1, <2>3, ControlAssumption DEF Informed, Alike, IsEnd, Types
    <3>2. last["client"] = e.sid
      BY <2>1, <3>1 DEF Informed
    <3>3. Before(e.sid, server)
      BY <1>1, <3>2 DEF Told, Before
    <3> QED BY <3>1, <3>3 DEF NoSession
  <2> QED BY <1>2, <2>2, <2>3 DEF News, Brings
<1>8. e.status \in {"HANDSHAKING", "CONNECTED"} /\ e.sock = c /\ e.role = "client"
  BY <1>1, <1>2 DEF Alike
<1>9. ClientPort(c, p, in, w)
  BY <1>2, <1>3, <1>5, <1>6, <1>7, <1>8 DEF ClientPort, Port
<1> QED BY <1>9 DEF p, e, tx, in, w

LEMMA ClientPortSteps ==
  ASSUME SyncInv, NEW c \in Conns, client.sock = c, NEW p, NEW in \in Seq(Frame), Len(in) <= Window,
         ClientPort(c, p, in, Contains(backlog, c)), midi["client"],
         client' = p.e, HandOn("client", p.e), pipe' = Repiped(c, in, p.tx),
         UNCHANGED <<server, backlog, sessions, service, midi, advert, said>>
  PROVE  SyncInv' /\ Channel!ChannelNext
<1> DEFINE e == p.e
           pp == Repiped(c, in, p.tx)
           bl == backlog
<1>1. Types /\ Links
  BY DEF SyncInv
<1>2. /\ IsEnd(e) /\ e.role = "client" /\ e.sock \in {0, c} /\ Brings("client", e)
      /\ p.tx \in Seq(Frame) /\ Len(p.tx) <= Window
      /\ Link(c, e, server, in, p.tx, Len(e.events), 0, Contains(bl, c))
  BY DEF ClientPort, Port, News
<1>3. /\ pp \in [Conns -> [Roles -> Seq(Frame)]]
      /\ \A d \in Conns, r \in Roles : Len(pp[d][r]) <= Window
      /\ pp[c]["client"] = in /\ pp[c]["server"] = p.tx
      /\ \A d \in Conns \ {c} : pp[d] = pipe[d]
  BY <1>1, <1>2, RepipedTypes, SMTT(60)
<1>4. bl \in Seq(Conns) /\ \A i, j \in 1..Len(bl) : bl[i] = bl[j] => i = j
  BY <1>1 DEF Types
<1> HIDE DEF pp
<1>5. ASSUME NEW d \in Conns
      PROVE  Link(d, e, server, pp[d]["client"], pp[d]["server"], Len(e.events), 0, Contains(bl, d))
  <2>1. CASE d = c
    BY <1>2, <1>3, <2>1
  <2>2. CASE d # c
    <3>1. pp[d] = pipe[d]
      BY <1>3, <2>2
    <3>2. Link(d, client, server, pipe[d]["client"], pipe[d]["server"], 0, 0, Contains(bl, d))
      BY <1>1 DEF Links
    <3>3. client.sock # d /\ e.sock # d
      BY <1>2, <2>2, TransportAssumption
    <3> HIDE DEF e, bl
    <3> QED BY <3>1, <3>2, <3>3, OtherClient
  <2> QED BY <2>1, <2>2
<1>6. client' = e /\ pipe' = pp /\ backlog' = bl
  BY DEF pp
<1> HIDE DEF e
<1>7. HandOn("client", e)
  BY DEF e
<1> HIDE DEF bl
<1> QED BY <1>2, <1>3, <1>4, <1>5, <1>6, <1>7, ClientSteps

LEMMA CarriedPipes ==
  ASSUME NEW c \in Conns, NEW read, NEW tx
  PROVE  /\ Carried(c, "client", read, tx)
              = Repiped(c, SubSeq(pipe[c]["client"], read + 1, Len(pipe[c]["client"])), tx)
         /\ Types => Carried(c, "server", read, tx)
              = Repiped(c, tx, SubSeq(pipe[c]["server"], read + 1, Len(pipe[c]["server"])))
<1>1. c # 0
  BY TransportAssumption
<1>2. Carried(c, "client", read, tx)
        = Repiped(c, SubSeq(pipe[c]["client"], read + 1, Len(pipe[c]["client"])), tx)
  BY <1>1 DEF Carried, Repiped, Other
<1>3. ASSUME Types
      PROVE  Carried(c, "server", read, tx)
               = Repiped(c, tx, SubSeq(pipe[c]["server"], read + 1, Len(pipe[c]["server"])))
  <2> DEFINE x == SubSeq(pipe[c]["server"], read + 1, Len(pipe[c]["server"]))
  <2>1. Carried(c, "server", read, tx) = [pipe EXCEPT ![c]["server"] = x, ![c]["client"] = tx]
    BY <1>1 DEF Carried, Other
  <2> HIDE DEF x
  <2>2. pipe \in [Conns -> [Roles -> Seq(Frame)]]
    BY <1>3 DEF Types
  <2>3. [pipe EXCEPT ![c]["server"] = x, ![c]["client"] = tx]
          = [pipe EXCEPT ![c]["client"] = tx, ![c]["server"] = x]
    BY <2>2 DEF Roles
  <2> QED BY <2>1, <2>3 DEF Repiped, x
<1> QED BY <1>2, <1>3

LEMMA ClientExchanges ==
  ASSUME SyncInv, client.status \in {"HANDSHAKING", "CONNECTED"}, midi["client"],
         Exchange(Drained(client)), HandOn("client", client'),
         UNCHANGED <<server, sessions, service, midi, advert, said>>
  PROVE  SyncInv' /\ Channel!ChannelNext
<1> DEFINE e == Drained(client)
           c == client.sock
           way == pipe[c]["client"]
           w == Contains(backlog, c)
           port == [e |-> e, tx |-> pipe[c]["server"]]
<1>1. Ready /\ Types /\ IsEnd(client) /\ client.role = "client"
  BY DEF SyncInv, Ready, Types
<1>2. c \in Conns /\ c # 0
  BY <1>1, TransportAssumption DEF IsEnd
<1>3. way \in Seq(Frame) /\ Len(way) \in Nat /\ Len(way) <= Window /\ Window \in Nat
  <2>1. way \in Seq(Frame) /\ Len(way) <= Window
    BY <1>1, <1>2 DEF Types, Roles
  <2> QED BY <2>1, LenProperties, TransportAssumption
<1>4. e.sock = c /\ e.role = "client"
  BY <1>1, QuietEnd DEF Alike
<1>5. ClientPort(c, port, way, w) /\ port.e.sock = c
  BY <1>2, <1>4, ClientBegins
<1>6. PICK found \in Arrivals(e) :
        /\ client' = HeartbeatAndTimeout(ProcessIncoming(FlushOutbound(port), found).e)
        /\ pipe' = Carried(c, "client", Len(found.frames), ProcessIncoming(FlushOutbound(port), found).tx)
        /\ backlog' = backlog
  BY <1>2, <1>4 DEF Exchange, Outcomes, Other
<1>7. PICK k \in 0..Len(way) :
        /\ Len(found.frames) = k
        /\ \/ found.end = "open" /\ found.frames = SubSeq(way, 1, k)
           \/ found.end \in {"closed", "error"} /\ k = 0
  <2>1. e.role \in Roles
    BY <1>4 DEF Roles
  <2> HIDE DEF e
  <2> QED BY <1>1, <1>2, <1>4, <2>1, FoundFrames
<1> DEFINE rest == SubSeq(way, k + 1, Len(way))
           flushed == FlushOutbound(port)
           read == ProcessIncoming(flushed, found)
           beaten == [read EXCEPT !.e = HeartbeatAndTimeout(read.e)]
<1> HIDE DEF port, w, way
<1>8. ClientPort(c, flushed, way, w) /\ flushed.e.sock = c
  BY <1>2, <1>5, ClientFlushed
<1>9. rest \in Seq(Frame) /\ Len(rest) <= Window /\ w \in BOOLEAN
  <2>1. rest \in Seq(Frame) /\ Len(rest) = Len(way) - k
    BY <1>3, Cut
  <2>2. w \in BOOLEAN
    BY DEF w, Contains
  <2> HIDE DEF rest
  <2> QED BY <1>3, <2>1, <2>2
<1> HIDE DEF flushed
<1>10. ClientPort(c, read, rest, w)
  BY <1>1, <1>2, <1>3, <1>7, <1>8, <1>9, ClientProcesses
<1> HIDE DEF read, rest
<1>11. ClientPort(c, beaten, rest, w)
  BY <1>1, <1>2, <1>9, <1>10, ClientBeats
<1>12. beaten.e = HeartbeatAndTimeout(read.e) /\ beaten.tx = read.tx
  <2>1. DOMAIN read = {"e", "tx"}
    BY <1>10 DEF ClientPort, Port
  <2> QED BY <2>1, PortChanged
<1> HIDE DEF beaten
<1>13. client' = beaten.e /\ pipe' = Repiped(c, rest, beaten.tx) /\ backlog' = backlog
  <2>1. client' = HeartbeatAndTimeout(read.e) /\ backlog' = backlog
    BY <1>6 DEF read, flushed
  <2>2. pipe' = Carried(c, "client", k, read.tx)
    BY <1>6, <1>7 DEF read, flushed
  <2>3. Carried(c, "client", k, read.tx) = Repiped(c, rest, read.tx)
    BY <1>2, CarriedPipes DEF rest, way
  <2> QED BY <1>12, <2>1, <2>2, <2>3
<1>14. HandOn("client", beaten.e)
  BY <1>13
<1>15. c = client.sock
  OBVIOUS
<1> HIDE DEF c
<1> QED BY <1>2, <1>9, <1>11, <1>13, <1>14, <1>15, ClientPortSteps DEF w

\* The client is connected and says hello.
LEMMA ClientHails ==
  ASSUME NEW c, NEW cl, IsEnd(cl), cl.role = "client", cl.sock = c, cl.status = "CONNECTING",
         NEW sv, IsEnd(sv), NEW in \in Seq(Frame), NEW out \in Seq(Frame), NEW k, NEW l, NEW waits,
         Link(c, cl, sv, in, out, k, l, waits),
         NEW hello \in Frame, hello.kind = "hello",
         NEW q, q.role = "client", q.sock = c, q.status = "HANDSHAKING", q.out = <<hello>>
  PROVE  Link(c, q, sv, in, out, k, l, waits)
<1> DEFINE v == Written(c, out, cl)
           w == Written(c, in, sv)
           n == Written(c, out, q)
<1>1. cl.out = <<>> /\ v = out
  <2>1. cl.out = <<>>
    BY DEF IsEnd
  <2>2. out \o <<>> = out
    BY Joined
  <2> QED BY <2>1, <2>2 DEF Written
<1>2. n = out \o <<hello>>
  BY DEF Written
<1>3. out = <<>> => n # <<>> /\ IsHello(n)
  <2>1. <<>> \o <<hello>> = <<hello>> /\ Len(<<hello>>) = 1 /\ <<hello>>[1] = hello /\ <<hello>> # <<>>
    OBVIOUS
  <2> HIDE DEF n
  <2> QED BY <1>2, <2>1 DEF IsHello
<1>4. ToClient(c, cl, sv, w, k) /\ w = <<>>
  BY DEF Link, ToClient
<1>5. ToClient(c, q, sv, w, k)
  <2> HIDE DEF w
  <2> QED BY <1>4 DEF ToClient
<1>6. ASSUME sv.sock = c PROVE ToServer(c, sv, q, n, l)
  <2>1. ToServer(c, sv, cl, v, l) /\ sv.status = "HANDSHAKING" /\ sv.closing = "NONE"
    BY <1>4, <1>6 DEF Link, ToClient
  <2>2. out = <<>>
    BY <1>1, <2>1 DEF ToServer, Hailed
  <2> HIDE DEF n, v
  <2> QED BY <1>3, <2>1, <2>2 DEF ToServer, Hailed
<1>7. ASSUME waits PROVE Waiting(c, sv, q, in, n)
  <2>1. Waiting(c, sv, cl, in, v)
    BY <1>7 DEF Link
  <2>2. out = <<>>
    BY <1>1, <2>1 DEF Waiting, Hailed
  <2> HIDE DEF n, v
  <2> QED BY <1>3, <2>1, <2>2 DEF Waiting, Hailed
<1> QED BY <1>5, <1>6, <1>7 DEF Link

LEMMA ClientCompletes ==
  ASSUME SyncInv, client.status = "CONNECTING", midi["client"],
         CompleteConnect(Drained(client)), HandOn("client", client'),
         UNCHANGED <<server, sessions, service, midi, advert, said>>
  PROVE  SyncInv' /\ Channel!ChannelNext
<1> DEFINE e == Drained(client)
           c == client.sock
           way == pipe[c]["client"]
           tx == pipe[c]["server"]
           w == Contains(backlog, c)
           hello == Hello(e.token)
           ready == [e EXCEPT !.quiet = 0, !.sent = 0, !.status = "HANDSHAKING",
                              !.left = HandshakeTimeout, !.attempt = 0]
           x == SendMessage(ready, hello)
           port == [e |-> x, tx |-> tx]
           flushed == FlushOutbound(port)
<1>1. /\ Ready /\ Types /\ Told /\ Links /\ IsEnd(client) /\ client.role = "client"
      /\ IsEnd(server)
  BY DEF SyncInv, Ready, Types
<1>2. c \in Conns /\ c # 0
  BY <1>1, TransportAssumption DEF IsEnd
<1>3. /\ way \in Seq(Frame) /\ Len(way) <= Window /\ tx \in Seq(Frame) /\ Len(tx) <= Window
      /\ w \in BOOLEAN
  BY <1>1, <1>2 DEF Types, Roles, Contains
<1>4. IsEnd(e) /\ Alike(e, client) /\ e.out = client.out /\ e.events = <<>>
  BY <1>1, QuietEnd
<1>5. /\ e.role = "client" /\ e.sock = c /\ e.status = "CONNECTING" /\ e.sid = NoSession
      /\ e.closing = "NONE" /\ e.out = <<>> /\ e.token \in Nat /\ DOMAIN e = Fields
  BY <1>1, <1>4 DEF Alike, IsEnd
<1>6. /\ client' = flushed.e /\ pipe' = Carried(c, "client", 0, flushed.tx)
      /\ backlog' = backlog
  BY <1>5 DEF CompleteConnect
<1> HIDE DEF e
<1>7. /\ DOMAIN ready = Fields /\ ready.quiet = 0 /\ ready.sent = 0 /\ ready.status = "HANDSHAKING"
      /\ ready.left = HandshakeTimeout
      /\ \A f \in Fields \ {"quiet", "sent", "status", "left", "attempt"} : ready[f] = e[f]
  BY <1>5 DEF Fields
<1> HIDE DEF ready
<1>8. /\ ready.role = "client" /\ ready.sock = c /\ ready.sid = NoSession /\ ready.closing = "NONE"
      /\ ready.out = <<>> /\ ready.events = <<>> /\ ready.token \in Nat
  BY <1>4, <1>5, <1>7 DEF Fields
<1>9. IsEnd(ready)
  <2>1. /\ <<>> \in Seq(Frame) /\ 0 \in Nat /\ NoSession = 0 /\ "client" \in Roles
        /\ HandshakeTimeout \in Nat /\ HandshakeTimeout # NoDeadline
    BY TransportAssumption DEF NoSession, NoDeadline, Roles
  <2> QED BY <1>2, <1>7, <1>8, <2>1 DEF IsEnd
<1>10. hello \in Frame /\ hello.kind = "hello"
  BY <1>5 DEF Hello, Frame, Kinds, NoSession
<1> HIDE DEF hello
<1>11. x = [ready EXCEPT !.out = Append(ready.out, hello)]
  <2>1. ~(Len(<<>>) >= MaxOutboundQueue)
    BY TransportAssumption
  <2> QED BY <1>8, <2>1 DEF SendMessage
<1>12. /\ IsEnd(x) /\ x.role = "client" /\ x.events = <<>> /\ x.out = <<hello>>
       /\ x.status = "HANDSHAKING" /\ x.sock = c
  <2>1. x.status = "HANDSHAKING" /\ x.out = <<hello>>
    <3>1. Append(<<>>, hello) = <<hello>>
      OBVIOUS
    <3> QED BY <1>7, <1>8, <1>11, <3>1 DEF Fields
  <2> HIDE DEF x
  <2>2. /\ IsEnd(x) /\ x.role = ready.role /\ x.events = ready.events
        /\ \/ x.sock = 0 /\ x.status = "CLOSED"
           \/ Alike(x, ready)
    BY <1>7, <1>9, <1>10, SentEnd DEF x
  <2> QED BY <1>8, <2>1, <2>2 DEF Alike
<1> HIDE DEF x
<1>13. DOMAIN port = {"e", "tx"} /\ port.e = x /\ port.tx = tx
  OBVIOUS
<1> HIDE DEF port
<1>14. ClientPort(c, port, way, w)
  <2>1. Link(c, client, server, way, tx, 0, 0, w)
    BY <1>1, <1>2 DEF Links
  <2> HIDE DEF way, tx, w
  <2>2. Link(c, x, server, way, tx, 0, 0, w)
    <3>1. client.sock = c
      OBVIOUS
    <3> HIDE DEF c
    <3> QED BY <1>1, <1>3, <1>10, <1>12, <2>1, <3>1, ClientHails
  <2>3. Link(c, x, server, way, tx, Len(x.events), 0, w)
    BY <1>12, <2>2
  <2>4. News("client", x)
    BY <1>1, <1>12 DEF News, Brings, Told, Informed
  <2> QED BY <1>3, <1>12, <1>13, <2>3, <2>4 DEF ClientPort, Port
<1>15. ClientPort(c, flushed, way, w)
  BY <1>2, <1>12, <1>13, <1>14, ClientFlushed
<1> HIDE DEF flushed
<1>16. pipe' = Repiped(c, way, flushed.tx)
  <2>1. SubSeq(way, 0 + 1, Len(way)) = way
    <3>1. 0 \in 0..Len(way)
      BY <1>3, LenProperties
    <3> QED BY <1>3, <3>1, Cut
  <2>2. Carried(c, "client", 0, flushed.tx) = Repiped(c, SubSeq(way, 0 + 1, Len(way)), flushed.tx)
    BY <1>2, CarriedPipes
  <2> HIDE DEF way
  <2> QED BY <1>6, <2>1, <2>2
<1>17. HandOn("client", flushed.e)
  BY <1>6
<1>18. c = client.sock
  OBVIOUS
<1> HIDE DEF c, way
<1> QED BY <1>2, <1>3, <1>6, <1>15, <1>16, <1>17, <1>18, ClientPortSteps DEF w

\* The client holds no connection any more.
LEMMA ClientIdles ==
  ASSUME SyncInv, NEW q, client' = q, IsEnd(q), q.role = "client", q.sock = 0, midi["client"],
         HandOn("client", q),
         UNCHANGED <<server, backlog, pipe, sessions, service, midi, advert, said>>
  PROVE  SyncInv' /\ Channel!ChannelNext
<1>1. Types /\ Links /\ IsEnd(client) /\ IsEnd(server)
  BY DEF SyncInv, Types
<1>2. q.status \in {"ABSENT", "IDLE", "CLOSED"} /\ Brings("client", q)
  BY DEF IsEnd, Brings
<1>3. server.status = "CONNECTED" => server.sid \in 1..MaxSessions
  BY ServerSession DEF SyncInv, Ready
<1>4. ASSUME NEW c \in Conns
      PROVE  Link(c, q, server, pipe[c]["client"], pipe[c]["server"], Len(q.events), 0, Contains(backlog, c))
  <2>1. pipe[c]["client"] \in Seq(Frame) /\ pipe[c]["server"] \in Seq(Frame) /\ 0 \in Nat
        /\ Contains(backlog, c) \in BOOLEAN
    BY <1>1 DEF Types, Roles, Contains
  <2>2. Link(c, client, server, pipe[c]["client"], pipe[c]["server"], 0, 0, Contains(backlog, c))
    BY <1>1 DEF Links
  <2> QED BY <1>1, <1>3, <2>1, <2>2, ClientLeaves
<1>5. /\ pipe \in [Conns -> [Roles -> Seq(Frame)]]
      /\ \A c \in Conns, r \in Roles : Len(pipe[c][r]) <= Window
      /\ backlog \in Seq(Conns)
      /\ \A i, j \in 1..Len(backlog) : backlog[i] = backlog[j] => i = j
  BY <1>1 DEF Types
<1>6. pipe' = pipe /\ backlog' = backlog
  OBVIOUS
<1> QED BY <1>2, <1>4, <1>5, <1>6, ClientSteps

LEMMA Enforced ==
  ASSUME NEW x, IsEnd(x)
  PROVE  LET e == EnforceHandshakeTimeout(Drained(x)) IN
         /\ IsEnd(e) /\ e.role = x.role /\ e.events = <<>>
         /\ \/ e = Drained(x) /\ Alike(e, x) /\ e.out = x.out
            \/ e.sock = 0 /\ e.status = "CLOSED" /\ e.sid = NoSession
<1> DEFINE d == Drained(x)
           e == EnforceHandshakeTimeout(d)
<1>1. IsEnd(d) /\ Alike(d, x) /\ d.out = x.out /\ d.events = <<>>
  BY QuietEnd
<1> HIDE DEF d
<1>2. e = d \/ e = Closed(d, "HANDSHAKE_TIMEOUT")
  BY DEF EnforceHandshakeTimeout
<1>3. CASE e = d
  BY <1>1, <1>3 DEF Alike, d
<1>4. CASE e = Closed(d, "HANDSHAKE_TIMEOUT")
  <2>1. LET q == Closed(d, "HANDSHAKE_TIMEOUT") IN
        /\ IsEnd(q) /\ q.role = d.role /\ q.status = "CLOSED" /\ q.sock = 0
        /\ q.sid = NoSession /\ q.events = d.events
    BY <1>1, ClosedEnd
  <2> HIDE DEF e
  <2> QED BY <1>1, <1>4, <2>1 DEF Alike, e, d
<1> QED BY <1>2, <1>3, <1>4

LEMMA RetryEnd ==
  ASSUME NEW e, IsEnd(e), e.role = "client", e.sock = 0 \/ e.status = "CONNECTING"
  PROVE  LET q == ScheduleRetry(e) IN IsEnd(q) /\ q.role = "client" /\ q.sock = 0
<1> DEFINE b == Backoff(e)
           q == [b EXCEPT !.sock = 0, !.status = "IDLE", !.left = NoDeadline]
<1>1. DOMAIN b = Fields /\ \A f \in Fields \ {"attempt", "wait"} : b[f] = e[f]
  BY DEF Backoff, IsEnd, Fields
<1> HIDE DEF b
<1>2. /\ DOMAIN q = Fields /\ q.sock = 0 /\ q.status = "IDLE" /\ q.left = NoDeadline
      /\ \A f \in Fields \ {"attempt", "wait", "sock", "status", "left"} : q[f] = e[f]
  BY <1>1 DEF Fields
<1> HIDE DEF q
<1>3. /\ e.out = <<>> /\ e.sid = NoSession /\ e.closing = "NONE"
  BY DEF IsEnd
<1>4. IsEnd(q) /\ q.role = "client"
  BY <1>2, <1>3 DEF IsEnd, Fields
<1> QED BY <1>2, <1>4 DEF ScheduleRetry, q, b

LEMMA Queued ==
  ASSUME NEW bl \in Seq(Conns), NEW c \in Conns, ~Contains(bl, c),
         \A i, j \in 1..Len(bl) : bl[i] = bl[j] => i = j
  PROVE  LET q == Append(bl, c) IN
         /\ q \in Seq(Conns)
         /\ \A i, j \in 1..Len(q) : q[i] = q[j] => i = j
         /\ Contains(q, c) /\ \A d \in Conns \ {c} : Contains(q, d) <=> Contains(bl, d)
<1> DEFINE q == Append(bl, c)
<1>1. /\ Len(bl) \in Nat /\ q \in Seq(Conns) /\ Len(q) = Len(bl) + 1 /\ q[Len(bl) + 1] = c
      /\ \A i \in 1..Len(bl) : q[i] = bl[i]
  BY LenProperties, AppendProperties
<1> HIDE DEF q
<1>2. \A i \in 1..Len(bl) : bl[i] # c
  BY DEF Contains
<1>3. \A i \in 1..Len(q) : i \in 1..Len(bl) \/ i = Len(bl) + 1
  BY <1>1
<1>4. ASSUME NEW i \in 1..Len(q), NEW j \in 1..Len(q), q[i] = q[j] PROVE i = j
  BY <1>1, <1>2, <1>3, <1>4
<1>5. Contains(q, c)
  <2>1. Len(bl) + 1 \in 1..Len(q)
    BY <1>1
  <2> QED BY <1>1, <2>1 DEF Contains
<1>6. ASSUME NEW d \in Conns \ {c} PROVE Contains(q, d) <=> Contains(bl, d)
  <2>1. ASSUME NEW i \in 1..Len(q), q[i] = d PROVE \E j \in 1..Len(bl) : bl[j] = d
    BY <1>1, <1>3, <2>1
  <2>2. ASSUME NEW i \in 1..Len(bl), bl[i] = d PROVE \E j \in 1..Len(q) : q[j] = d
    BY <1>1, <2>2
  <2> QED BY <2>1, <2>2 DEF Contains
<1> QED BY <1>1, <1>4, <1>5, <1>6 DEF q

LEMMA ClientBeginsToConnect ==
  ASSUME SyncInv, midi["client"], NEW e, IsEnd(e), e.role = "client", e.sock = 0, e.events = <<>>,
         BeginConnect(e), HandOn("client", client'),
         UNCHANGED <<server, sessions, service, midi, advert, said>>
  PROVE  SyncInv' /\ Channel!ChannelNext
<1>1. Types /\ Links /\ IsEnd(client) /\ IsEnd(server)
  BY DEF SyncInv, Types
<1>2. PICK c \in Free :
        /\ client' = [e EXCEPT !.sock = c, !.status = "CONNECTING", !.left = HandshakeTimeout]
        /\ backlog' = Append(backlog, c)
        /\ pipe' = [pipe EXCEPT ![c] = [r \in Roles |-> <<>>]]
  BY DEF BeginConnect
<1> DEFINE q == [e EXCEPT !.sock = c, !.status = "CONNECTING", !.left = HandshakeTimeout]
           bl == Append(backlog, c)
           pp == [pipe EXCEPT ![c] = [r \in Roles |-> <<>>]]
<1>3. c \in Conns /\ c # 0 /\ server.sock # c /\ client.sock # c /\ ~Contains(backlog, c)
  BY <1>2, TransportAssumption DEF Free, Holds
<1>4. /\ DOMAIN q = Fields /\ q.sock = c /\ q.status = "CONNECTING" /\ q.left = HandshakeTimeout
      /\ \A f \in Fields \ {"sock", "status", "left"} : q[f] = e[f]
  BY DEF IsEnd, Fields
<1> HIDE DEF q
<1>5. /\ q.role = "client" /\ q.out = <<>> /\ q.sid = NoSession /\ q.closing = "NONE"
      /\ q.events = <<>> /\ Len(q.events) = 0
  BY <1>4 DEF Fields, IsEnd
<1>6. IsEnd(q) /\ Brings("client", q)
  <2>1. HandshakeTimeout \in Nat /\ HandshakeTimeout # NoDeadline
    BY TransportAssumption DEF NoDeadline
  <2>2. IsEnd(q)
    BY <1>3, <1>4, <1>5, <2>1 DEF Fields, IsEnd
  <2> QED BY <1>4, <2>2 DEF Brings
<1>7. /\ bl \in Seq(Conns)
      /\ \A i, j \in 1..Len(bl) : bl[i] = bl[j] => i = j
      /\ Contains(bl, c) /\ \A d \in Conns \ {c} : Contains(bl, d) <=> Contains(backlog, d)
  BY <1>1, <1>3, Queued DEF Types
<1>8. /\ pp \in [Conns -> [Roles -> Seq(Frame)]]
      /\ \A r \in Roles : pp[c][r] = <<>>
      /\ \A d \in Conns \ {c} : pp[d] = pipe[d]
  <2>1. <<>> \in Seq(Frame)
    OBVIOUS
  <2> QED BY <1>1, <1>3, <2>1 DEF Types
<1> HIDE DEF bl, pp
<1>9. \A d \in Conns, r \in Roles : Len(pp[d][r]) <= Window
  <2> SUFFICES ASSUME NEW d \in Conns, NEW r \in Roles PROVE Len(pp[d][r]) <= Window
    OBVIOUS
  <2>1. CASE d = c
    BY <1>8, <2>1, TransportAssumption
  <2>2. CASE d # c
    <3>1. pp[d] = pipe[d] /\ Len(pipe[d][r]) <= Window
      BY <1>1, <1>8, <2>2 DEF Types
    <3> QED BY <3>1
  <2> QED BY <2>1, <2>2
<1>10. ASSUME NEW d \in Conns
       PROVE  Link(d, q, server, pp[d]["client"], pp[d]["server"], Len(q.events), 0, Contains(bl, d))
  <2>1. CASE d = c
    <3>1. pp[c]["client"] = <<>> /\ pp[c]["server"] = <<>>
      BY <1>8 DEF Roles
    <3>2. Written(c, <<>>, server) = <<>> /\ Written(c, <<>>, q) = <<>>
      <4>1. <<>> \o <<>> = <<>>
        OBVIOUS
      <4> QED BY <1>3, <1>4, <1>5, <4>1 DEF Written
    <3>3. ToClient(c, q, server, <<>>, 0)
      BY <1>3, <1>4 DEF ToClient
    <3>4. Waiting(c, server, q, <<>>, <<>>)
      BY <1>3, <1>4 DEF Waiting, Hailed
    <3>5. Link(c, q, server, <<>>, <<>>, 0, 0, Contains(bl, c))
      BY <1>3, <3>2, <3>3, <3>4 DEF Link
    <3> QED BY <1>5, <2>1, <3>1, <3>5
  <2>2. CASE d # c
    <3>1. pp[d] = pipe[d] /\ (Contains(bl, d) <=> Contains(backlog, d))
      BY <1>7, <1>8, <2>2
    <3> DEFINE in == pipe[d]["client"]
               out == pipe[d]["server"]
               w == Contains(backlog, d)
    <3>2. Link(d, client, server, in, out, 0, 0, w)
      BY <1>1 DEF Links
    <3>3. /\ in \in Seq(Frame) /\ out \in Seq(Frame) /\ 0 \in Nat /\ w \in BOOLEAN
          /\ e.sock = 0 /\ (server.status = "CONNECTED" => server.sid \in 1..MaxSessions)
      BY <1>1, ServerSession DEF Types, Roles, Contains, SyncInv, Ready
    <3> HIDE DEF in, out, w
    <3>4. Link(d, e, server, in, out, 0, 0, w)
      BY <1>1, <3>2, <3>3, ClientLeaves
    <3>5. e.sock # d /\ q.sock # d
      BY <1>4, <2>2, TransportAssumption
    <3>6. Link(d, q, server, in, out, 0, 0, w)
      BY <3>4, <3>5, OtherClient
    <3>7. Link(d, q, server, in, out, 0, 0, Contains(bl, d))
      <4>1. Contains(bl, d) = w
        BY <3>1 DEF w, Contains
      <4> QED BY <3>6, <4>1
    <3> QED BY <1>5, <3>1, <3>7 DEF in, out
  <2> QED BY <2>1, <2>2
<1>11. client' = q /\ backlog' = bl /\ pipe' = pp /\ HandOn("client", q)
  BY <1>2 DEF q, bl, pp
<1> QED BY <1>5, <1>6, <1>7, <1>8, <1>9, <1>10, <1>11, ClientSteps

LEMMA ClientPolls ==
  ASSUME SyncInv, midi["client"], NEW faulty \in BOOLEAN, ClientPoll(faulty),
         HandOn("client", client'), UNCHANGED <<midi, advert, said>>
  PROVE  SyncInv' /\ Channel!ChannelNext
<1> DEFINE e == EnforceHandshakeTimeout(Drained(client))
<1>1. IsEnd(client) /\ client.role = "client"
  BY DEF SyncInv, Types
<1>2. /\ IsEnd(e) /\ e.role = "client" /\ e.events = <<>>
      /\ \/ e = Drained(client) /\ Alike(e, client) /\ e.out = client.out
         \/ e.sock = 0 /\ e.status = "CLOSED" /\ e.sid = NoSession
  BY <1>1, Enforced
<1>3. /\ UNCHANGED <<server, sessions, service>>
      /\ \/ e.sock = 0 /\ BeginConnect(e)
         \/ e.sock = 0 /\ ConnectFails(e)
         \/ e.sock = 0 /\ client' = e /\ UNCHANGED <<backlog, pipe, cut>>
         \/ e.status = "CONNECTING" /\ CompleteConnect(e)
         \/ e.status = "CONNECTING" /\ ConnectFails(e)
         \/ e.status \in {"HANDSHAKING", "CONNECTED"} /\ Exchange(e)
  BY DEF ClientPoll
<1> HIDE DEF e
<1>4. CASE e.sock = 0 /\ BeginConnect(e)
  BY <1>2, <1>3, <1>4, ClientBeginsToConnect
<1>5. CASE (e.sock = 0 \/ e.status = "CONNECTING") /\ ConnectFails(e)
  <2> DEFINE q == ScheduleRetry(e)
  <2>1. IsEnd(q) /\ q.role = "client" /\ q.sock = 0
    BY <1>2, <1>5, RetryEnd
  <2>2. client' = q /\ UNCHANGED <<backlog, pipe>>
    BY <1>5 DEF ConnectFails
  <2> HIDE DEF q
  <2>3. HandOn("client", q)
    BY <2>2
  <2> QED BY <1>3, <2>1, <2>2, <2>3, ClientIdles
<1>6. CASE e.sock = 0 /\ client' = e /\ UNCHANGED <<backlog, pipe, cut>>
  <2>1. HandOn("client", e)
    BY <1>6
  <2> QED BY <1>2, <1>3, <1>6, <2>1, ClientIdles
<1>7. CASE e.status = "CONNECTING" /\ CompleteConnect(e)
  <2>1. e = Drained(client) /\ client.status = "CONNECTING"
    BY <1>2, <1>7 DEF Alike
  <2> QED BY <1>3, <1>7, <2>1, ClientCompletes
<1>8. CASE e.status \in {"HANDSHAKING", "CONNECTED"} /\ Exchange(e)
  <2>1. e = Drained(client) /\ client.status \in {"HANDSHAKING", "CONNECTED"}
    BY <1>2, <1>8 DEF Alike
  <2> QED BY <1>3, <1>8, <2>1, ClientExchanges
<1> QED BY <1>3, <1>4, <1>5, <1>6, <1>7, <1>8

\* A connection the server does not hold, whatever becomes of the one it does.
LEMMA OtherServer ==
  ASSUME NEW d, NEW cl, NEW sv, sv.sock # d, NEW in, NEW out, NEW k, NEW l, NEW waits,
         sessions \in Nat, last["client"] \in Nat,
         Link(d, cl, sv, in, out, k, l, waits),
         NEW q, q.sock # d, q.sid \in {sv.sid, NoSession, sessions + 1}, NEW j
  PROVE  Link(d, cl, q, in, out, k, j, waits)
<1>1. Written(d, in, sv) = in /\ Written(d, in, q) = in /\ ~Up(sv, d) /\ ~Up(q, d)
  BY DEF Written, Up
<1>2. Answered(d, sv, in) => Answered(d, q, in)
  <2>1. \A s \in last["client"] + 1..sessions : s < sessions + 1
    OBVIOUS
  <2>2. (sv.sid # NoSession => in[1].sid < sv.sid) /\ in[1].sid \in last["client"] + 1..sessions
        => (q.sid # NoSession => in[1].sid < q.sid)
    BY <2>1
  <2>3. Up(sv, d) = FALSE /\ Up(q, d) = FALSE
    BY DEF Up
  <2> QED BY <2>2, <2>3 DEF Answered
<1>3. ToClient(d, cl, sv, in, k) => ToClient(d, cl, q, in, k)
  <2>1. Up(sv, d) = FALSE /\ Up(q, d) = FALSE
    BY DEF Up
  <2> QED BY <1>2, <2>1 DEF ToClient
<1> QED BY <1>1, <1>3 DEF Link, Waiting

LEMMA ServerBegins ==
  ASSUME SyncInv, NEW c \in Conns, server.sock = c
  PROVE  /\ ~Contains(backlog, c)
         /\ ServerPort(c, [e |-> Drained(server), tx |-> pipe[c]["client"]], pipe[c]["server"],
                       Contains(backlog, c))
<1> DEFINE e == Drained(server)
           tx == pipe[c]["client"]
           out == pipe[c]["server"]
           w == Contains(backlog, c)
           p == [e |-> e, tx |-> tx]
<1>1. Types /\ Told /\ IsEnd(server) /\ server.role = "server"
  BY DEF SyncInv, Types
<1>2. IsEnd(e) /\ Alike(e, server) /\ e.out = server.out /\ e.events = <<>>
  BY <1>1, QuietEnd
<1>3. tx \in Seq(Frame) /\ Len(tx) <= Window
  BY <1>1 DEF Types, Roles
<1>4. Link(c, client, server, tx, out, 0, 0, w)
  BY DEF SyncInv, Links
<1>5. DOMAIN p = {"e", "tx"} /\ p.e = e /\ p.tx = tx
  OBVIOUS
<1>6. ~w
  BY <1>4 DEF Link, Waiting
<1> HIDE DEF e, tx, out, w, p
<1>7. Link(c, client, e, tx, out, 0, Len(e.events), w)
  <2>1. tx \o e.out = tx \o server.out /\ Len(e.events) = 0
    BY <1>2
  <2>2. Link(c, client, e, tx, out, 0, 0, w)
    BY <1>2, <1>4, <2>1, ServerFlushes
  <2> QED BY <2>1, <2>2
<1>8. Informed("server", server) /\ Informed("client", client)
  BY <1>1 DEF Told
<1>9. News("server", e)
  <2>2. ASSUME e.status = "HANDSHAKING" PROVE told["server"] = NoSession
    BY <1>2, <1>8, <2>2 DEF Informed, Alike
  <2>3. ASSUME e.status = "CONNECTED"
        PROVE  told["server"] = e.sid /\ e.sid \in 1..sessions
    <3>1. told["server"] = e.sid /\ e.sid # NoSession /\ e.sid \in 0..sessions /\ sessions \in Nat
      BY <1>1, <1>2, <1>8, <2>3, ControlAssumption DEF Informed, Alike, IsEnd, Types
    <3> QED BY <3>1 DEF NoSession
  <2> QED BY <1>2, <2>2, <2>3 DEF News, Brings
<1>10. e.status = "HANDSHAKING" => NewToBoth(e.sid)
  <2>1. ASSUME e.status = "HANDSHAKING" PROVE NewToBoth(e.sid)
    <3>1. e.sid > last["server"] /\ e.sid > last["client"] /\ e.sid \in 0..sessions
      BY <1>1, <1>2, <1>8, <2>1 DEF Told, Informed, Alike
    <3>2. last["server"] \in Nat /\ last["client"] \in Nat /\ sessions \in 0..MaxSessions
      BY <1>1, ControlAssumption DEF Types, Roles
    <3>3. MaxSessions \in Nat
      BY ControlAssumption
    <3> QED BY <3>1, <3>2, <3>3 DEF NewToBoth
  <2> QED BY <2>1
<1>11. e.status \in {"HANDSHAKING", "CONNECTED"} /\ e.sock = c /\ e.role = "server"
       /\ e.sid = server.sid
  <2>1. c # 0
    BY TransportAssumption
  <2> QED BY <1>1, <1>2, <2>1 DEF Alike, IsEnd
<1>12. ServerPort(c, p, out, w)
  BY <1>2, <1>3, <1>5, <1>7, <1>9, <1>10, <1>11 DEF ServerPort, Port
<1> QED BY <1>6, <1>12 DEF p, e, tx, out, w

(* What flushing and reading make of the server's end, and of the pipes.   *)
ServerDone(x, pp) ==
  /\ IsEnd(x) /\ x.role = "server" /\ Brings("server", x)
  /\ x.status = "HANDSHAKING" => NewToBoth(x.sid)
  /\ x.sid \in {server.sid, NoSession}
  /\ \A c \in Conns : Link(c, client, x, pp[c]["client"], pp[c]["server"], 0, Len(x.events),
                           Contains(backlog, c))

LEMMA ServerPortDone ==
  ASSUME SyncInv, NEW c \in Conns, server.sock = c, NEW p, NEW out \in Seq(Frame), Len(out) <= Window,
         ServerPort(c, p, out, Contains(backlog, c))
  PROVE  ServerDone(p.e, Repiped(c, p.tx, out))
<1> DEFINE e == p.e
           pp == Repiped(c, p.tx, out)
<1>1. Types /\ Links /\ Told
  BY DEF SyncInv
<1>2. /\ IsEnd(e) /\ e.role = "server" /\ e.sock \in {0, c} /\ Brings("server", e)
      /\ e.status = "HANDSHAKING" => NewToBoth(e.sid)
      /\ e.sid \in {server.sid, NoSession}
      /\ p.tx \in Seq(Frame) /\ Len(p.tx) <= Window
      /\ Link(c, client, e, p.tx, out, 0, Len(e.events), Contains(backlog, c))
  BY DEF ServerPort, Port, News
<1>3. /\ pp[c]["client"] = p.tx /\ pp[c]["server"] = out
      /\ \A d \in Conns \ {c} : pp[d] = pipe[d]
  BY <1>1, <1>2, RepipedTypes
<1>4. sessions \in Nat /\ last["client"] \in Nat
  BY <1>1, ControlAssumption DEF Types, Roles
<1> HIDE DEF pp
<1>5. ASSUME NEW d \in Conns
      PROVE  Link(d, client, e, pp[d]["client"], pp[d]["server"], 0, Len(e.events), Contains(backlog, d))
  <2>1. CASE d = c
    BY <1>2, <1>3, <2>1
  <2>2. CASE d # c
    <3>1. pp[d] = pipe[d]
      BY <1>3, <2>2
    <3>2. Link(d, client, server, pipe[d]["client"], pipe[d]["server"], 0, 0, Contains(backlog, d))
      BY <1>1 DEF Links
    <3>3. server.sock # d /\ e.sock # d /\ e.sid \in {server.sid, NoSession, sessions + 1}
      BY <1>2, <2>2, TransportAssumption
    <3> HIDE DEF e
    <3> QED BY <1>4, <3>1, <3>2, <3>3, OtherServer
  <2> QED BY <2>1, <2>2
<1> QED BY <1>2, <1>5 DEF ServerDone, e, pp

LEMMA ServerWithout ==
  ASSUME SyncInv, NEW x, IsEnd(x), x.role = "server", x.sock = 0
  PROVE  ServerDone(x, pipe)
<1>1. Types /\ Links /\ Ready
  BY DEF SyncInv, Ready
<1>2. x.sid = NoSession /\ x.status \notin {"HANDSHAKING", "CONNECTED"}
  BY DEF IsEnd
<1>3. ASSUME NEW c \in Conns
      PROVE  Link(c, client, x, pipe[c]["client"], pipe[c]["server"], 0, Len(x.events),
                  Contains(backlog, c))
  <2> DEFINE in == pipe[c]["client"]
             out == pipe[c]["server"]
             w == Contains(backlog, c)
             j == Len(x.events)
  <2>1. Link(c, client, server, in, out, 0, 0, w)
    BY <1>1 DEF Links
  <2>2. in \in Seq(Frame) /\ out \in Seq(Frame) /\ w \in BOOLEAN /\ server.out \in Seq(Frame)
    BY <1>1 DEF Types, Roles, Contains, IsEnd
  <2> HIDE DEF in, out, w, j
  <2>3. Link(c, client, x, in, out, 0, j, w)
    BY <1>1, <1>2, <2>1, <2>2, ServerGone
  <2> QED BY <2>3 DEF in, out, w, j
<1> QED BY <1>2, <1>3 DEF ServerDone, Brings

LEMMA Unqueued ==
  ASSUME NEW bl \in Seq(Conns), bl # <<>>, \A i, j \in 1..Len(bl) : bl[i] = bl[j] => i = j
  PROVE  LET q == Tail(bl) IN
         /\ q \in Seq(Conns)
         /\ \A i, j \in 1..Len(q) : q[i] = q[j] => i = j
         /\ Head(bl) \in Conns /\ Contains(bl, Head(bl)) /\ ~Contains(q, Head(bl))
         /\ \A d : Contains(q, d) => Contains(bl, d)
<1> DEFINE q == Tail(bl)
<1>1. /\ Len(bl) \in Nat \ {0} /\ q \in Seq(Conns) /\ Len(q) = Len(bl) - 1
      /\ \A i \in 1..Len(q) : q[i] = bl[i + 1]
  BY HeadTailProperties, EmptySeq, LenProperties
<1>2. Head(bl) = bl[1] /\ 1 \in 1..Len(bl) /\ Head(bl) \in Conns
  BY <1>1, HeadTailProperties
<1> HIDE DEF q
<1>3. \A i \in 1..Len(q) : i + 1 \in 1..Len(bl) /\ i + 1 # 1 /\ i \in Nat
  BY <1>1
<1>4. ASSUME NEW i \in 1..Len(q), NEW j \in 1..Len(q), q[i] = q[j] PROVE i = j
  <2>1. i + 1 = j + 1
    BY <1>1, <1>3, <1>4
  <2> QED BY <1>3, <2>1
<1>5. ~Contains(q, Head(bl))
  BY <1>1, <1>2, <1>3 DEF Contains
<1>6. Contains(bl, Head(bl))
  BY <1>2 DEF Contains
<1>7. ASSUME NEW d, Contains(q, d) PROVE Contains(bl, d)
  BY <1>1, <1>3, <1>7 DEF Contains
<1> QED BY <1>1, <1>2, <1>4, <1>5, <1>6, <1>7 DEF q

LEMMA ServerKeeps ==
  ASSUME SyncInv, NEW x, NEW pp, ServerDone(x, pp), server' = x, HandOn("server", x), pipe' = pp,
         pp \in [Conns -> [Roles -> Seq(Frame)]],
         \A c \in Conns, r \in Roles : Len(pp[c][r]) <= Window,
         backlog' = IF backlog = <<>> THEN <<>> ELSE Tail(backlog),
         UNCHANGED <<client, sessions, service, midi, advert, said>>
  PROVE  SyncInv' /\ Channel!ChannelNext
<1> DEFINE bl == IF backlog = <<>> THEN <<>> ELSE Tail(backlog)
<1>1. Types /\ Told
  BY DEF SyncInv
<1>2. backlog \in Seq(Conns) /\ \A i, j \in 1..Len(backlog) : backlog[i] = backlog[j] => i = j
  BY <1>1 DEF Types
<1>3. /\ bl \in Seq(Conns) /\ \A i, j \in 1..Len(bl) : bl[i] = bl[j] => i = j
      /\ \A d : Contains(bl, d) => Contains(backlog, d)
  <2>1. CASE backlog = <<>>
    BY <1>2, <2>1
  <2>2. CASE backlog # <<>>
    BY <1>2, <2>2, Unqueued
  <2> QED BY <2>1, <2>2
<1>4. backlog' = bl
  OBVIOUS
<1> HIDE DEF bl
<1>5. /\ IsEnd(x) /\ x.role = "server" /\ Brings("server", x)
      /\ x.status = "HANDSHAKING" => NewToBoth(x.sid)
      /\ x.sid \in {server.sid, NoSession}
  BY DEF ServerDone
<1>6. \A c \in Conns : Link(c, client, x, pp[c]["client"], pp[c]["server"], 0, Len(x.events),
                            Contains(bl, c))
  <2> SUFFICES ASSUME NEW c \in Conns
               PROVE  Link(c, client, x, pp[c]["client"], pp[c]["server"], 0, Len(x.events),
                           Contains(bl, c))
    OBVIOUS
  <2>1. Link(c, client, x, pp[c]["client"], pp[c]["server"], 0, Len(x.events), Contains(backlog, c))
    BY DEF ServerDone
  <2> QED BY <1>3, <2>1 DEF Link
<1>7. sessions \in 0..MaxSessions /\ sessions \in Nat /\ server.sid \in 0..sessions
  BY <1>1, ControlAssumption DEF Types, Told, Informed
<1>8. /\ sessions' \in 0..MaxSessions /\ sessions <= sessions' /\ x.sid \in 0..sessions'
      /\ UNCHANGED <<client, service, midi, advert, said>>
  BY <1>5, <1>7 DEF NoSession
<1>9. x.status = "HANDSHAKING" => x.sid > last["server"] /\ x.sid > last["client"]
  <2>1. last["server"] \in Nat /\ last["client"] \in Nat
    BY <1>1 DEF Types, Roles
  <2> QED BY <1>5, <2>1 DEF NewToBoth
<1> QED BY <1>3, <1>4, <1>5, <1>6, <1>8, <1>9, ServerSteps

LEMMA ServerAdmits ==
  ASSUME SyncInv, NEW x, NEW pp, ServerDone(x, pp), x.sock = 0, backlog # <<>>,
         server' = Accepted(x, Head(backlog)), HandOn("server", server'), pipe' = pp,
         pp \in [Conns -> [Roles -> Seq(Frame)]],
         \A c \in Conns, r \in Roles : Len(pp[c][r]) <= Window,
         backlog' = Tail(backlog), sessions' = sessions + 1, sessions' <= MaxSessions,
         UNCHANGED <<client, service, midi, advert, said>>
  PROVE  SyncInv' /\ Channel!ChannelNext
<1> DEFINE bl == Tail(backlog)
           c == Head(backlog)
           e == Accepted(x, c)
<1>1. Types /\ Told
  BY DEF SyncInv
<1>2. backlog \in Seq(Conns) /\ \A i, j \in 1..Len(backlog) : backlog[i] = backlog[j] => i = j
  BY <1>1 DEF Types
<1>3. /\ bl \in Seq(Conns) /\ \A i, j \in 1..Len(bl) : bl[i] = bl[j] => i = j
      /\ c \in Conns /\ Contains(backlog, c) /\ ~Contains(bl, c)
      /\ \A d : Contains(bl, d) => Contains(backlog, d)
  BY <1>2, Unqueued
<1>4. /\ IsEnd(x) /\ x.role = "server" /\ x.sid = NoSession /\ x.out = <<>> /\ x.closing = "NONE"
      /\ x.events \in Seq(Frame)
  BY DEF ServerDone, IsEnd
<1>5. sessions \in Nat /\ sessions + 1 \in Nat /\ sessions + 1 # 0 /\ last["client"] \in 0..sessions
      /\ last["server"] \in 0..sessions
  BY <1>1, ControlAssumption DEF Types, Told, Informed
<1>6. c # 0
  BY <1>3, TransportAssumption
<1> HIDE DEF c
<1>7. /\ DOMAIN e = Fields /\ e.sock = c /\ e.status = "HANDSHAKING" /\ e.quiet = 0 /\ e.sent = 0
      /\ e.left = HandshakeTimeout /\ e.sid = sessions + 1
      /\ \A f \in Fields \ {"sock", "status", "quiet", "sent", "left", "sid"} : e[f] = x[f]
  BY <1>4 DEF IsEnd, Fields, Accepted
<1>8. server' = e /\ backlog' = bl
  BY DEF c
<1> HIDE DEF e
<1>9. /\ e.role = "server" /\ e.out = <<>> /\ e.closing = "NONE" /\ e.events = x.events
      /\ e.token = x.token /\ e.reason = x.reason
  BY <1>4, <1>7 DEF Fields
<1>10. IsEnd(e)
  <2>1. <<>> \in Seq(Frame) /\ HandshakeTimeout \in Nat /\ HandshakeTimeout # NoDeadline /\ 0 \in Nat
    BY TransportAssumption DEF NoDeadline
  <2>2. e.token \in Nat /\ "server" \in Roles /\ NoSession = 0
    BY <1>4, <1>9 DEF IsEnd, Roles, NoSession
  <2> QED BY <1>3, <1>4, <1>5, <1>6, <1>7, <1>9, <2>1, <2>2 DEF IsEnd
<1>11. Brings("server", e)
  BY <1>7 DEF Brings
<1>12. e.sid > last["server"] /\ e.sid > last["client"]
  BY <1>5, <1>7
<1>13. sessions' \in 0..MaxSessions /\ sessions <= sessions' /\ e.sid \in 0..sessions'
  <2>1. MaxSessions \in Nat
    BY ControlAssumption
  <2> QED BY <1>5, <1>7, <2>1
<1> HIDE DEF bl
<1>14. ASSUME NEW d \in Conns
       PROVE  Link(d, client, e, pp[d]["client"], pp[d]["server"], 0, Len(e.events), Contains(bl, d))
  <2> DEFINE in == pp[d]["client"]
             out == pp[d]["server"]
             v == Written(d, out, client)
  <2>1. Link(d, client, x, in, out, 0, Len(x.events), Contains(backlog, d))
    BY DEF ServerDone
  <2>2. CASE d = c
    <3>1. in = <<>> /\ Waiting(c, x, client, in, v)
      BY <1>3, <2>1, <2>2 DEF Link, Waiting
    <3>2. Written(c, in, e) = <<>>
      <4>1. <<>> \o <<>> = <<>>
        OBVIOUS
      <4> HIDE DEF in
      <4> QED BY <1>7, <1>9, <3>1, <4>1 DEF Written
    <3> HIDE DEF in, v
    <3>3. client.sock = c => client.status \in {"CONNECTING", "HANDSHAKING"}
      BY <3>1 DEF Waiting, Hailed
    <3>4. client.sock = c => ToClient(c, client, e, <<>>, 0)
      BY <1>7, <1>9, <3>3 DEF ToClient
    <3>5. ToServer(c, e, client, v, Len(e.events))
      BY <1>7, <1>9, <3>1 DEF ToServer, Waiting
    <3> QED BY <1>3, <2>2, <3>2, <3>4, <3>5 DEF Link, in, v
  <2>3. CASE d # c
    <3> DEFINE l == Len(x.events)
               j == Len(e.events)
               w == Contains(backlog, d)
    <3>1. x.sock # d /\ e.sock # d /\ e.sid \in {x.sid, NoSession, sessions + 1} /\ last["client"] \in Nat
      BY <1>5, <1>7, <2>3, TransportAssumption
    <3> HIDE DEF in, out, l, j, w
    <3>2. Link(d, client, x, in, out, 0, l, w)
      BY <2>1 DEF l, w, in, out
    <3>3. Link(d, client, e, in, out, 0, j, w)
      BY <1>5, <3>1, <3>2, OtherServer
    <3>4. Link(d, client, e, in, out, 0, j, Contains(bl, d))
      BY <1>3, <3>3 DEF Link, w
    <3> QED BY <3>4 DEF in, out, j
  <2> QED BY <2>2, <2>3
<1>15. HandOn("server", e)
  BY <1>8
<1> QED BY <1>3, <1>8, <1>9, <1>10, <1>11, <1>12, <1>13, <1>14, <1>15, ServerSteps

\* Flushing, reading and the heartbeat of the server on the connection it holds.
LEMMA ServerReadsOn ==
  ASSUME SyncInv, NEW c \in Conns, server.sock = c, NEW found \in Arrivals(Drained(server))
  PROVE  LET port == [e |-> Drained(server), tx |-> pipe[c]["client"]]
             read == ProcessIncoming(FlushOutbound(port), found)
             pp == Carried(c, "server", Len(found.frames), read.tx)
         IN  /\ ServerDone(HeartbeatAndTimeout(read.e), pp)
             /\ read.e.sock = 0 => HeartbeatAndTimeout(read.e) = read.e
             /\ pp \in [Conns -> [Roles -> Seq(Frame)]]
             /\ \A d \in Conns, r \in Roles : Len(pp[d][r]) <= Window
<1> DEFINE e == Drained(server)
           way == pipe[c]["server"]
           w == Contains(backlog, c)
           port == [e |-> e, tx |-> pipe[c]["client"]]
<1>1. Ready /\ Types /\ IsEnd(server) /\ server.role = "server" /\ c # 0
  BY TransportAssumption DEF SyncInv, Ready, Types
<1>2. way \in Seq(Frame) /\ Len(way) \in Nat /\ Len(way) <= Window /\ Window \in Nat
  <2>1. way \in Seq(Frame) /\ Len(way) <= Window
    BY <1>1 DEF Types, Roles
  <2> QED BY <2>1, LenProperties, TransportAssumption
<1>3. e.sock = c /\ e.role = "server"
  BY <1>1, QuietEnd DEF Alike
<1>4. ServerPort(c, port, way, w) /\ port.e.sock = c /\ ~w
  BY <1>3, ServerBegins
<1>5. PICK k \in 0..Len(way) :
        /\ Len(found.frames) = k
        /\ \/ found.end = "open" /\ found.frames = SubSeq(way, 1, k)
           \/ found.end \in {"closed", "error"} /\ k = 0
  <2>1. e.role \in Roles /\ found \in Arrivals(e)
    BY <1>3 DEF Roles
  <2> HIDE DEF e
  <2> QED BY <1>1, <1>3, <2>1, FoundFrames
<1> DEFINE rest == SubSeq(way, k + 1, Len(way))
           flushed == FlushOutbound(port)
           read == ProcessIncoming(flushed, found)
           beaten == [read EXCEPT !.e = HeartbeatAndTimeout(read.e)]
           pp == Carried(c, "server", Len(found.frames), read.tx)
<1>6. pp = Repiped(c, read.tx, rest)
  BY <1>1, <1>5, CarriedPipes
<1> HIDE DEF port, w, way, e
<1>7. ServerPort(c, flushed, way, w)
  <2>1. w \in BOOLEAN
    BY DEF w, Contains
  <2> QED BY <1>1, <1>2, <1>4, <2>1, ServerFlushed
<1>8. rest \in Seq(Frame) /\ Len(rest) <= Window /\ w \in BOOLEAN
  <2>1. rest \in Seq(Frame) /\ Len(rest) = Len(way) - k
    BY <1>2, Cut
  <2>2. w \in BOOLEAN
    BY DEF w, Contains
  <2> HIDE DEF rest
  <2> QED BY <1>2, <2>1, <2>2
<1> HIDE DEF flushed
<1>9. ServerPort(c, read, rest, w)
  <2>1. CASE flushed.e.sock = c
    BY <1>1, <1>2, <1>4, <1>5, <1>7, <1>8, <2>1, ServerProcesses
  <2>2. CASE flushed.e.sock # c
    <3>1. flushed.e.sock = 0
      BY <1>7, <2>2 DEF ServerPort, Port
    <3>2. read = flushed
      BY <3>1 DEF ProcessIncoming
    <3> HIDE DEF read, rest
    <3>3. ServerPort(c, flushed, rest, w)
      BY <1>4, <1>7, <2>2 DEF ServerPort, Link
    <3> QED BY <3>2, <3>3
  <2> QED BY <2>1, <2>2
<1> HIDE DEF read, rest
<1>10. ServerPort(c, beaten, rest, w)
  BY <1>1, <1>8, <1>9, ServerBeats
<1>11. beaten.e = HeartbeatAndTimeout(read.e) /\ beaten.tx = read.tx
  <2>1. DOMAIN read = {"e", "tx"}
    BY <1>9 DEF ServerPort, Port
  <2> QED BY <2>1, PortChanged
<1> HIDE DEF beaten, pp
<1>12. ServerDone(beaten.e, Repiped(c, beaten.tx, rest))
  BY <1>8, <1>10, ServerPortDone DEF w
<1>13. read.e.sock = 0 => HeartbeatAndTimeout(read.e) = read.e
  BY <1>9 DEF HeartbeatAndTimeout, ServerPort, Port, IsEnd
<1>14. read.tx \in Seq(Frame) /\ Len(read.tx) <= Window
  BY <1>9 DEF ServerPort, Port
<1>15. /\ pp \in [Conns -> [Roles -> Seq(Frame)]]
       /\ \A d \in Conns, r \in Roles : Len(pp[d][r]) <= Window
  BY <1>1, <1>6, <1>8, <1>14, RepipedTypes
<1>16. ServerDone(HeartbeatAndTimeout(read.e), pp)
  BY <1>6, <1>11, <1>12
<1> QED BY <1>13, <1>15, <1>16 DEF pp, read, flushed, port, e

LEMMA ServerPolls ==
  ASSUME SyncInv, NEW allowed, ServerPoll(allowed), HandOn("server", server'),
         sessions' <= MaxSessions, UNCHANGED <<midi, advert, said>>
  PROVE  SyncInv' /\ Channel!ChannelNext
<1> DEFINE begun == EnforceHandshakeTimeout(Drained(server))
<1>1. Types /\ IsEnd(server) /\ server.role = "server"
  BY DEF SyncInv, Types
<1>2. /\ IsEnd(begun) /\ begun.role = "server"
      /\ \/ begun = Drained(server) /\ Alike(begun, server)
         \/ begun.sock = 0
  BY <1>1, Enforced
<1>3. PICK done \in Outcomes(begun), listenerFirst \in BOOLEAN :
        LET admits == /\ backlog # <<>> /\ allowed
                      /\ done.port.e.sock = 0
                      /\ begun.sock # 0 => ~listenerFirst
            taken == IF admits THEN Accepted(done.port.e, Head(backlog)) ELSE done.port.e
        IN  /\ server' = HeartbeatAndTimeout(taken)
            /\ sessions' = IF admits THEN sessions + 1 ELSE sessions
            /\ backlog' = IF backlog = <<>> THEN <<>> ELSE Tail(backlog)
            /\ pipe' = Carried(begun.sock, "server", done.read, done.port.tx)
            /\ UNCHANGED <<client, cut, service>>
  BY DEF ServerPoll
<1> DEFINE x == done.port.e
           pp == Carried(begun.sock, "server", done.read, done.port.tx)
<1>4. /\ ServerDone(HeartbeatAndTimeout(x), pp)
      /\ x.sock = 0 => HeartbeatAndTimeout(x) = x
      /\ pp \in [Conns -> [Roles -> Seq(Frame)]]
      /\ \A d \in Conns, r \in Roles : Len(pp[d][r]) <= Window
  <2>1. CASE begun.sock = 0
    <3>1. x = begun /\ pp = pipe
      BY <2>1 DEF Outcomes, Carried
    <3>2. HeartbeatAndTimeout(begun) = begun
      BY <1>2, <2>1 DEF HeartbeatAndTimeout, IsEnd
    <3> HIDE DEF x, pp, begun
    <3>3. ServerDone(begun, pipe)
      BY <1>2, <2>1, ServerWithout
    <3> QED BY <1>1, <3>1, <3>2, <3>3 DEF Types
  <2>2. CASE begun.sock # 0
    <3> DEFINE c == server.sock
               port == [e |-> Drained(server), tx |-> pipe[c]["client"]]
    <3>1. begun = Drained(server) /\ begun.sock = c /\ c \in Conns /\ begun.role = "server"
      BY <1>1, <1>2, <2>2 DEF Alike, IsEnd
    <3> HIDE DEF begun
    <3>2. PICK found \in Arrivals(Drained(server)) :
            done = [read |-> Len(found.frames), port |-> ProcessIncoming(FlushOutbound(port), found)]
      BY <2>2, <3>1 DEF Outcomes, Other
    <3> DEFINE read == ProcessIncoming(FlushOutbound(port), found)
    <3> HIDE DEF read
    <3>3. x = read.e /\ pp = Carried(c, "server", Len(found.frames), read.tx)
      BY <3>1, <3>2 DEF read
    <3>4. LET qq == Carried(c, "server", Len(found.frames), read.tx) IN
          /\ ServerDone(HeartbeatAndTimeout(read.e), qq)
          /\ read.e.sock = 0 => HeartbeatAndTimeout(read.e) = read.e
          /\ qq \in [Conns -> [Roles -> Seq(Frame)]]
          /\ \A d \in Conns, r \in Roles : Len(qq[d][r]) <= Window
      BY <3>1, ServerReadsOn DEF read
    <3> HIDE DEF x, pp, c
    <3> QED BY <3>3, <3>4
  <2> QED BY <2>1, <2>2
<1> DEFINE admits == /\ backlog # <<>> /\ allowed
                     /\ x.sock = 0
                     /\ begun.sock # 0 => ~listenerFirst
<1>5. /\ server' = HeartbeatAndTimeout(IF admits THEN Accepted(x, Head(backlog)) ELSE x)
      /\ sessions' = IF admits THEN sessions + 1 ELSE sessions
      /\ backlog' = IF backlog = <<>> THEN <<>> ELSE Tail(backlog)
      /\ pipe' = pp
      /\ UNCHANGED <<client, service>>
  BY <1>3
<1>6. admits => backlog # <<>> /\ x.sock = 0
  OBVIOUS
<1> HIDE DEF x, pp, admits, begun
<1>7. CASE admits
  <2>1. ServerDone(x, pp)
    BY <1>4, <1>6, <1>7
  <2>2. Accepted(x, Head(backlog)).status = "HANDSHAKING"
    BY <2>1 DEF Accepted, ServerDone, IsEnd, Fields
  <2>3. server' = Accepted(x, Head(backlog))
    BY <1>5, <1>7, <2>2 DEF HeartbeatAndTimeout
  <2> QED BY <1>4, <1>5, <1>6, <1>7, <2>1, <2>3, ServerAdmits
<1>8. CASE ~admits
  <2> DEFINE e == HeartbeatAndTimeout(x)
  <2>1. server' = e /\ ServerDone(e, pp)
    BY <1>4, <1>5, <1>8
  <2> HIDE DEF e
  <2>2. HandOn("server", e)
    BY <2>1
  <2> QED BY <1>4, <1>5, <1>8, <2>1, <2>2, ServerKeeps
<1> QED BY <1>7, <1>8

LEMMA FreshEnd ==
  ASSUME NEW e, NEW role \in Roles, NEW status \in {"IDLE", "ABSENT"}, NEW token \in Nat,
         \/ e = Fresh(role) /\ status = "IDLE"
         \/ e = [Fresh(role) EXCEPT !.status = status]
         \/ e = [Fresh(role) EXCEPT !.token = token] /\ status = "IDLE"
  PROVE  IsEnd(e) /\ e.role = role /\ e.status = status /\ e.sock = 0 /\ e.sid = NoSession
         /\ e.events = <<>>
<1>1. /\ DOMAIN e = Fields /\ e.role = role /\ e.status = status /\ e.sock = 0 /\ e.sid = NoSession
      /\ e.out = <<>> /\ e.closing = "NONE" /\ e.events = <<>> /\ e.left = NoDeadline
      /\ e.quiet = 0 /\ e.sent = 0 /\ e.token \in Nat
  BY DEF Fresh, Fields
<1>2. <<>> \in Seq(Frame) /\ NoSession = 0
  BY DEF NoSession
<1> QED BY <1>1, <1>2 DEF IsEnd

LEMMA StartedEnd ==
  ASSUME NEW s \in [token : Nat, compatible : BOOLEAN]
  PROVE  LET q == Started(s) IN
         IsEnd(q) /\ q.role = "client" /\ q.sock = 0
<1>1. "client" \in Roles /\ s.token \in Nat
  BY DEF Roles
<1>2. CASE s.compatible
  <2>1. Started(s) = [Fresh("client") EXCEPT !.token = s.token]
    BY <1>2 DEF Started
  <2> QED BY <1>1, <2>1, FreshEnd
<1>3. CASE ~s.compatible
  <2>1. Started(s) = [Fresh("client") EXCEPT !.status = "ABSENT"]
    BY <1>3 DEF Started
  <2> QED BY <1>1, <2>1, FreshEnd
<1> QED BY <1>2, <1>3

-----------------------------------------------------------------------------
\* Nothing of a connection changes.
LEMMA OwnerSteps ==
  ASSUME SyncInv, UNCHANGED <<server, client, backlog, pipe, sessions, told, last, said, heard>>,
         service' \in [token : Nat, compatible : BOOLEAN],
         advert' \in [token : Nat, compatible : BOOLEAN], midi' \in [Roles -> BOOLEAN],
         midi["client"] => midi'["client"]
  PROVE  SyncInv' /\ UNCHANGED Channel!channelVars
<1>1. Types' /\ Told' /\ Log'
  BY DEF SyncInv, Types, Told, Log, Informed
<1>2. Links'
  <2>1. ASSUME NEW c \in Conns
        PROVE  Link(c, client, server, pipe[c]["client"], pipe[c]["server"], 0, 0, Contains(backlog, c))'
    <3>1. Link(c, client, server, pipe[c]["client"], pipe[c]["server"], 0, 0, Contains(backlog, c))
      BY DEF SyncInv, Links
    <3> QED BY <3>1 DEF Link, ToClient, ToServer, Waiting, Written, Answered, Hailed, Contains
  <2> QED BY <2>1 DEF Links
<1> QED BY <1>1, <1>2 DEF SyncInv, Channel!channelVars

\* The owner of the client replaces it and says at once that the session is gone.
LEMMA ClientReplaced ==
  ASSUME SyncInv, NEW q, client' = q, IsEnd(q), q.role = "client", q.sock = 0,
         told' = [told EXCEPT !["client"] = NoSession],
         UNCHANGED <<server, backlog, pipe, sessions, service, last, said, heard>>,
         advert' \in [token : Nat, compatible : BOOLEAN], midi' \in [Roles -> BOOLEAN],
         midi'["client"] \/ q.status = "ABSENT"
  PROVE  SyncInv' /\ Channel!ChannelNext
<1>1. Types /\ Told /\ Log /\ Links /\ IsEnd(client) /\ IsEnd(server)
  BY DEF SyncInv, Types
<1>2. /\ told' \in [Roles -> Nat] /\ told'["client"] = NoSession /\ told'["server"] = told["server"]
  BY <1>1 DEF Types, Roles, NoSession
<1>3. Types'
  BY <1>1, <1>2 DEF Types
<1>4. Told'
  <2>1. q.sid = NoSession /\ q.status \notin {"CONNECTED", "HANDSHAKING"}
    BY DEF IsEnd
  <2>2. sessions \in Nat
    BY <1>1, ControlAssumption DEF Types
  <2>3. Informed("client", client)'
    BY <1>1, <1>2, <2>1, <2>2 DEF Informed, Told, NoSession
  <2>4. Informed("server", server)'
    BY <1>1, <1>2 DEF Informed, Told
  <2> QED BY <1>1, <1>2, <2>3, <2>4 DEF Told
<1>5. Log'
  BY <1>1 DEF Log
<1>6. Links'
  <2>1. PICK sv, pp, bl : sv = server /\ pp = pipe /\ bl = backlog
    OBVIOUS
  <2>2. ASSUME NEW c \in Conns
        PROVE  Link(c, q, sv, pp[c]["client"], pp[c]["server"], 0, 0, Contains(bl, c))'
    <3> DEFINE in == pp[c]["client"]
               out == pp[c]["server"]
               w == Contains(bl, c)
    <3>1. Link(c, client, sv, in, out, 0, 0, w)
      BY <1>1, <2>1 DEF Links
    <3>2. in \in Seq(Frame) /\ out \in Seq(Frame) /\ w \in BOOLEAN /\ 0 \in Nat
      BY <1>1, <2>1 DEF Types, Roles, Contains
    <3>3. sv.status = "CONNECTED" => sv.sid \in 1..MaxSessions
      BY <2>1, ServerSession DEF SyncInv, Ready
    <3>4. IsEnd(sv)
      BY <1>1, <2>1
    <3> HIDE DEF in, out, w
    <3>5. Link(c, q, sv, in, out, 0, 0, w)
      BY <1>1, <3>1, <3>2, <3>3, <3>4, ClientLeaves
    <3>6. Link(c, q, sv, in, out, 0, 0, w)'
      <4>1. last["client"] \in Nat /\ sessions \in Nat
        BY <1>1, ControlAssumption DEF Types, Roles
      <4> QED BY <3>5, <4>1, LinkKept
    <3> QED BY <3>6 DEF in, out, w
  <2>3. sv = server' /\ pp = pipe' /\ bl = backlog'
    BY <2>1
  <2> QED BY <2>2, <2>3, LinksAfter
<1>7. Channel!ChannelNext
  <2>1. Channel!Lose("client")
    BY DEF Channel!Lose, NoSession
  <2> QED BY <2>1 DEF Channel!ChannelNext, Roles
<1> QED BY <1>3, <1>4, <1>5, <1>6, <1>7 DEF SyncInv

\* The owner of the server closes or replaces it.
LEMMA ServerReplaced ==
  ASSUME SyncInv, NEW q, server' = q, IsEnd(q), q.role = "server", q.sock = 0,
         told' = told \/ told' = [told EXCEPT !["server"] = NoSession],
         told'["server"] # NoSession => q.status = "CLOSED",
         backlog' = backlog \/ backlog' = <<>>,
         UNCHANGED <<client, pipe, sessions, last, said, heard, advert>>,
         service' \in [token : Nat, compatible : BOOLEAN], midi' \in [Roles -> BOOLEAN],
         midi'["client"] = midi["client"]
  PROVE  SyncInv' /\ [Channel!ChannelNext]_(Channel!channelVars)
<1>1. Types /\ Told /\ Log /\ Links /\ IsEnd(client) /\ IsEnd(server)
  BY DEF SyncInv, Types
<1>2. /\ told' \in [Roles -> Nat] /\ told'["server"] \in {told["server"], NoSession}
      /\ told'["client"] = told["client"]
  BY <1>1 DEF Types, Roles, NoSession
<1>3. /\ backlog' \in Seq(Conns)
      /\ \A i, j \in 1..Len(backlog') : backlog'[i] = backlog'[j] => i = j
      /\ \A c : Contains(backlog', c) => Contains(backlog, c)
  <2>1. CASE backlog' = backlog
    BY <1>1, <2>1 DEF Types
  <2>2. CASE backlog' = <<>>
    BY <2>2 DEF Contains
  <2> QED BY <2>1, <2>2
<1>4. Types'
  BY <1>1, <1>2, <1>3 DEF Types
<1>5. q.sid = NoSession /\ q.status \notin {"CONNECTED", "HANDSHAKING"}
  BY DEF IsEnd
<1>6. Told'
  <2>2. sessions \in Nat
    BY <1>1, ControlAssumption DEF Types
  <2>3. Informed("client", client)'
    BY <1>1, <1>2 DEF Informed, Told
  <2>4. Informed("server", server)'
    <3>1. told'["server"] # NoSession => last["server"] = told'["server"]
      BY <1>1, <1>2 DEF Informed, Told
    <3>2. last["server"] \in 0..sessions /\ q.sid \in 0..sessions
      BY <1>1, <1>5, <2>2 DEF Informed, Told, NoSession
    <3> QED BY <1>5, <3>1, <3>2 DEF Informed
  <2> QED BY <1>1, <1>2, <1>5, <2>3, <2>4 DEF Told
<1>7. Log'
  BY <1>1 DEF Log
<1>8. Links'
  <2>1. PICK cl, pp, bl : cl = client /\ pp = pipe /\ bl = backlog'
    OBVIOUS
  <2>2. ASSUME NEW c \in Conns
        PROVE  Link(c, cl, q, pp[c]["client"], pp[c]["server"], 0, 0, Contains(bl, c))'
    <3> DEFINE in == pp[c]["client"]
               out == pp[c]["server"]
               w == Contains(backlog, c)
               x == Contains(bl, c)
    <3>1. Link(c, client, server, in, out, 0, 0, w)
      BY <1>1, <2>1 DEF Links
    <3>2. in \in Seq(Frame) /\ out \in Seq(Frame) /\ w \in BOOLEAN /\ 0 \in Nat
          /\ server.out \in Seq(Frame)
      BY <1>1, <2>1 DEF Types, Roles, Contains, IsEnd
    <3>3. x => w
      BY <1>3, <2>1
    <3> HIDE DEF in, out, w, x
    <3>4. Link(c, client, q, in, out, 0, 0, w)
      BY <1>1, <1>5, <3>1, <3>2, ServerGone DEF Ready
    <3>5. Link(c, cl, q, in, out, 0, 0, x)
      BY <2>1, <3>3, <3>4 DEF Link
    <3>6. Link(c, cl, q, in, out, 0, 0, x)'
      <4>1. last["client"] \in Nat /\ sessions \in Nat
        BY <1>1, ControlAssumption DEF Types, Roles
      <4> QED BY <3>5, <4>1, LinkKept
    <3> QED BY <3>6 DEF in, out, x
  <2>3. cl = client' /\ pp = pipe' /\ bl = backlog' /\ q = server'
    BY <2>1
  <2> QED BY <2>2, <2>3, LinksAfter
<1>9. [Channel!ChannelNext]_(Channel!channelVars)
  <2>1. CASE told' = told
    BY <2>1 DEF Channel!channelVars
  <2>2. CASE told' = [told EXCEPT !["server"] = NoSession]
    <3>1. Channel!Lose("server")
      BY <2>2 DEF Channel!Lose, NoSession
    <3> QED BY <3>1 DEF Channel!ChannelNext, Roles
  <2> QED BY <2>1, <2>2
<1> QED BY <1>4, <1>6, <1>7, <1>8, <1>9 DEF SyncInv

\* Time passes.
LEMMA AgedEnd ==
  ASSUME NEW e, IsEnd(e), NEW w, NEW q, q = Aged(e) \/ q = [Aged(e) EXCEPT !.wait = w]
  PROVE  IsEnd(q) /\ Alike(q, e) /\ q.out = e.out
<1>1. /\ DOMAIN q = Fields
      /\ q.role = e.role /\ q.status = e.status /\ q.sock = e.sock /\ q.out = e.out /\ q.sid = e.sid
      /\ q.closing = e.closing /\ q.events = e.events /\ q.token = e.token
      /\ q.quiet = (IF e.status = "CONNECTED" THEN Least(e.quiet + 1, InactivityTimeout) ELSE e.quiet)
      /\ q.sent = (IF e.status = "CONNECTED" THEN Least(e.sent + 1, HeartbeatInterval) ELSE e.sent)
      /\ q.left = IF e.left > 0 THEN e.left - 1 ELSE e.left
  BY ZenonT(60) DEF Aged, IsEnd, Fields
<1>2. q.left \in Nat \cup {NoDeadline} /\ (q.left = NoDeadline <=> e.left = NoDeadline)
  BY <1>1 DEF IsEnd, NoDeadline
<1>3. q.quiet \in Nat /\ q.sent \in Nat
  <2>1. e.quiet \in Nat /\ e.sent \in Nat
    BY DEF IsEnd
  <2>2. HeartbeatInterval \in Nat /\ InactivityTimeout \in Nat
    BY TransportAssumption
  <2> QED BY <1>1, <2>1, <2>2 DEF Least
<1>4. IsEnd(q)
  BY <1>1, <1>2, <1>3 DEF IsEnd
<1> QED BY <1>1, <1>4 DEF Alike

LEMMA TimePasses ==
  ASSUME SyncInv, Elapse, UNCHANGED <<midi, advert, told, last, said, heard>>
  PROVE  SyncInv' /\ UNCHANGED Channel!channelVars
<1>1. Types /\ Told /\ Log /\ Links /\ IsEnd(client) /\ IsEnd(server)
      /\ client.role = "client" /\ server.role = "server"
  BY DEF SyncInv, Types
<1>2. IsEnd(server') /\ Alike(server', server) /\ server'.out = server.out
  BY <1>1, AgedEnd DEF Elapse
<1>3. IsEnd(client') /\ Alike(client', client) /\ client'.out = client.out
  BY <1>1, AgedEnd DEF Elapse
<1>4. UNCHANGED <<backlog, pipe, sessions, service>>
  BY DEF Elapse
<1>5. Types'
  BY <1>1, <1>2, <1>3, <1>4 DEF Types, Alike
<1>6. Told'
  BY <1>1, <1>2, <1>3, <1>4 DEF Told, Informed, Alike
<1>7. Log'
  BY <1>1 DEF Log
<1>8. Links'
  <2>1. PICK cl, sv, pp, bl : cl = client' /\ sv = server' /\ pp = pipe' /\ bl = backlog'
    OBVIOUS
  <2>2. ASSUME NEW c \in Conns
        PROVE  Link(c, cl, sv, pp[c]["client"], pp[c]["server"], 0, 0, Contains(bl, c))'
    <3> DEFINE in == pp[c]["client"]
               out == pp[c]["server"]
               w == Contains(bl, c)
    <3>1. Link(c, client, server, in, out, 0, 0, w)
      BY <1>1, <1>4, <2>1 DEF Links
    <3> HIDE DEF in, out, w
    <3>2. Link(c, cl, sv, in, out, 0, 0, w)
      <4>1. Alike(cl, client) /\ cl.out = client.out /\ Alike(sv, server) /\ sv.out = server.out
        BY <1>2, <1>3, <2>1
      <4>2. /\ cl.status = client.status /\ cl.sock = client.sock /\ cl.sid = client.sid
            /\ sv.status = server.status /\ sv.sock = server.sock /\ sv.sid = server.sid
            /\ sv.closing = server.closing
        BY <4>1 DEF Alike
      <4>3. Written(c, in, sv) = Written(c, in, server) /\ Written(c, out, cl) = Written(c, out, client)
            /\ Up(cl, c) = Up(client, c) /\ Up(sv, c) = Up(server, c)
        BY <4>1, <4>2 DEF Written, Up
      <4> QED BY <3>1, <4>2, <4>3 DEF Link, ToClient, ToServer, Waiting, Answered, Hailed
    <3>3. Link(c, cl, sv, in, out, 0, 0, w)'
      <4>1. last["client"] \in Nat /\ sessions \in Nat
        BY <1>1, ControlAssumption DEF Types, Roles
      <4> QED BY <1>4, <3>2, <4>1, LinkKept
    <3> QED BY <3>3 DEF in, out, w
  <2> QED BY <2>1, <2>2, LinksAfter
<1> QED BY <1>5, <1>6, <1>7, <1>8 DEF SyncInv, Channel!channelVars

LEMMA Raised ==
  ASSUME Types, NEW s \in 1..MaxSessions, NEW r \in Roles, said' = [said EXCEPT ![s][r] = @ + 1]
  PROVE  /\ said'[s][r] = said[s][r] + 1
         /\ \A t \in 1..MaxSessions, q \in Roles :
              /\ said[t][q] \in Nat /\ said'[t][q] \in {said[t][q], said[t][q] + 1}
              /\ t # s \/ q # r => said'[t][q] = said[t][q]
<1>1. said \in [1..MaxSessions -> [Roles -> Nat]]
  BY DEF Types
<1>2. said'[s][r] = said[s][r] + 1
  BY <1>1
<1>3. ASSUME NEW t \in 1..MaxSessions, NEW q \in Roles
      PROVE  /\ said[t][q] \in Nat /\ said'[t][q] \in {said[t][q], said[t][q] + 1}
             /\ t # s \/ q # r => said'[t][q] = said[t][q]
  <2>1. CASE t = s
    BY <1>1, <2>1
  <2>2. CASE t # s
    <3>1. said'[t] = said[t]
      BY <1>1, <2>2
    <3> QED BY <1>1, <3>1
  <2> QED BY <2>1, <2>2
<1> QED BY <1>2, <1>3

\* The server has said one more thing in session s; what is on its way need not hold it.
LEMMA ServerRaised ==
  ASSUME Types, NEW c, NEW cl, cl.status = "CONNECTED" => cl.sid \in 1..MaxSessions,
         NEW sv, sv.out \in Seq(Frame), NEW in \in Seq(Frame), NEW out, NEW waits,
         Link(c, cl, sv, in, out, 0, 0, waits), Up(sv, c) = FALSE,
         NEW s \in 1..MaxSessions, said' = [said EXCEPT ![s]["server"] = @ + 1],
         UNCHANGED <<last, heard, sessions>>
  PROVE  Link(c, cl, sv, in, out, 0, 0, waits)'
<1> DEFINE w == Written(c, in, sv)
<1>1. w \in Seq(Frame)
  BY Joined DEF Written
<1>2. ASSUME NEW t \in 1..MaxSessions
      PROVE  /\ said'[t]["client"] = said[t]["client"] /\ said[t]["server"] \in Nat
             /\ said'[t]["server"] \in {said[t]["server"], said[t]["server"] + 1}
  <2>1. PICK r \in Roles : r = "server" /\ said' = [said EXCEPT ![s][r] = @ + 1]
    BY DEF Roles
  <2>2. \A u \in 1..MaxSessions, q \in Roles :
          /\ said[u][q] \in Nat /\ said'[u][q] \in {said[u][q], said[u][q] + 1}
          /\ u # s \/ q # r => said'[u][q] = said[u][q]
    BY ONLY Types, s \in 1..MaxSessions, <2>1, Raised, ZenonT(60)
  <2> QED BY <2>1, <2>2 DEF Roles
<1>3. ASSUME NEW t \in 1..MaxSessions, NEW u \in Seq(Frame), NEW h \in Nat,
             Delivers(u, h, said[t]["server"], FALSE)
      PROVE  Delivers(u, h, said'[t]["server"], FALSE)
  BY <1>2, <1>3, DeliversParts
<1> HIDE DEF w
<1>4. Answered(c, sv, w) /\ w # <<>> => Answered(c, sv, w)'
  <2> SUFFICES ASSUME Answered(c, sv, w), w # <<>> PROVE Answered(c, sv, w)'
    OBVIOUS
  <2>1. sessions \in Nat /\ sessions \in 0..MaxSessions /\ last["client"] \in Nat /\ MaxSessions \in Nat
    BY ControlAssumption DEF Types, Roles
  <2>2. w[1].sid \in last["client"] + 1..sessions /\ Delivers(Tail(w), 0, said[w[1].sid]["server"], FALSE)
    BY DEF Answered
  <2>3. w[1].sid \in 1..MaxSessions
    BY <2>1, <2>2
  <2>4. Tail(w) \in Seq(Frame) /\ 0 \in Nat
    BY <1>1, HeadTailProperties
  <2>5. Delivers(Tail(w), 0, said'[w[1].sid]["server"], FALSE)
    BY <1>3, <2>2, <2>3, <2>4
  <2> QED BY <2>5 DEF Answered
<1>5. ToClient(c, cl, sv, w, 0) => ToClient(c, cl, sv, w, 0)'
  <2>1. ASSUME cl.status = "CONNECTED", ToClient(c, cl, sv, w, 0)
        PROVE  Delivers(w, Len(heard[cl.sid]["client"]) + 0, said'[cl.sid]["server"], FALSE)
    <3> DEFINE h == Len(heard[cl.sid]["client"]) + 0
    <3>1. h \in Nat
      <4>1. cl.sid \in 1..MaxSessions /\ "client" \in Roles /\ 0 \in Nat
        BY <2>1 DEF Roles
      <4> QED BY <4>1, SessionTypes
    <3>2. Delivers(w, h, said[cl.sid]["server"], FALSE)
      BY <2>1 DEF ToClient
    <3> HIDE DEF h
    <3>3. Delivers(w, h, said'[cl.sid]["server"], FALSE)
      BY <1>1, <1>3, <2>1, <3>1, <3>2
    <3> QED BY <3>3 DEF h
  <2> QED BY <1>4, <2>1 DEF ToClient
<1>6. sv.sock = c => sv.status # "CONNECTED"
  BY DEF Up
<1>7. ToServer(c, sv, cl, Written(c, out, cl), 0) /\ sv.status # "CONNECTED"
        => ToServer(c, sv, cl, Written(c, out, cl), 0)'
  BY DEF ToServer, Hailed
<1>8. Waiting(c, sv, cl, in, Written(c, out, cl)) => Waiting(c, sv, cl, in, Written(c, out, cl))'
  BY DEF Waiting, Hailed
<1> QED BY <1>5, <1>6, <1>7, <1>8 DEF Link, w

LEMMA ClientRaised ==
  ASSUME Types, NEW c, NEW cl, cl.out \in Seq(Frame),
         NEW sv, sv.status = "CONNECTED" => sv.sid \in 1..MaxSessions,
         NEW in, NEW out \in Seq(Frame), NEW waits,
         Link(c, cl, sv, in, out, 0, 0, waits), Up(cl, c) = FALSE,
         NEW s \in 1..MaxSessions, said' = [said EXCEPT ![s]["client"] = @ + 1],
         UNCHANGED <<last, heard, sessions>>
  PROVE  Link(c, cl, sv, in, out, 0, 0, waits)'
<1> DEFINE v == Written(c, out, cl)
           w == Written(c, in, sv)
<1>1. v \in Seq(Frame)
  BY Joined DEF Written
<1>2. ASSUME NEW t \in 1..MaxSessions
      PROVE  /\ said'[t]["server"] = said[t]["server"] /\ said[t]["client"] \in Nat
             /\ said'[t]["client"] \in {said[t]["client"], said[t]["client"] + 1}
  <2>1. PICK r \in Roles : r = "client" /\ said' = [said EXCEPT ![s][r] = @ + 1]
    BY DEF Roles
  <2>2. \A u \in 1..MaxSessions, q \in Roles :
          /\ said[u][q] \in Nat /\ said'[u][q] \in {said[u][q], said[u][q] + 1}
          /\ u # s \/ q # r => said'[u][q] = said[u][q]
    BY ONLY Types, s \in 1..MaxSessions, <2>1, Raised, ZenonT(60)
  <2> QED BY <2>1, <2>2 DEF Roles
<1> HIDE DEF v, w
<1>3. ToServer(c, sv, cl, v, 0) => ToServer(c, sv, cl, v, 0)'
  <2>1. ASSUME sv.status = "CONNECTED", ToServer(c, sv, cl, v, 0)
        PROVE  Delivers(v, Len(heard[sv.sid]["server"]) + 0, said'[sv.sid]["client"], FALSE)
    <3> DEFINE h == Len(heard[sv.sid]["server"]) + 0
               n == said[sv.sid]["client"]
    <3>1. h \in Nat
      <4>1. sv.sid \in 1..MaxSessions /\ "server" \in Roles /\ 0 \in Nat
        BY <2>1 DEF Roles
      <4> QED BY <4>1, SessionTypes
    <3>2. Delivers(v, h, n, FALSE)
      BY <2>1 DEF ToServer
    <3>3. n \in Nat /\ said'[sv.sid]["client"] \in {n, n + 1}
      BY <1>2, <2>1
    <3> HIDE DEF h, n
    <3>4. Delivers(v, h, n + 1, FALSE)
      BY <1>1, <3>1, <3>2, <3>3, DeliversParts
    <3>5. Delivers(v, h, said'[sv.sid]["client"], FALSE)
      BY <3>2, <3>3, <3>4
    <3> QED BY <3>5 DEF h
  <2> QED BY <2>1 DEF ToServer, Hailed
<1>4. ToClient(c, cl, sv, w, 0) /\ cl.status # "CONNECTED" => ToClient(c, cl, sv, w, 0)'
  <2>1. Answered(c, sv, w) => Answered(c, sv, w)'
    <3> SUFFICES ASSUME Answered(c, sv, w) PROVE Answered(c, sv, w)'
      OBVIOUS
    <3>1. sessions \in Nat /\ sessions \in 0..MaxSessions /\ last["client"] \in Nat /\ MaxSessions \in Nat
      BY ControlAssumption DEF Types, Roles
    <3>2. w[1].sid \in last["client"] + 1..sessions
      BY DEF Answered
    <3>3. w[1].sid \in 1..MaxSessions
      BY <3>1, <3>2
    <3>4. said'[w[1].sid]["server"] = said[w[1].sid]["server"]
      BY <1>2, <3>3
    <3> QED BY <3>4 DEF Answered
  <2> QED BY <2>1 DEF ToClient
<1>5. cl.sock = c => cl.status # "CONNECTED"
  BY DEF Up
<1>6. Waiting(c, sv, cl, in, v) => Waiting(c, sv, cl, in, v)'
  BY DEF Waiting, Hailed
<1> QED BY <1>3, <1>4, <1>5, <1>6 DEF Link, v, w

\* The server's next message is behind everything it has written.
LEMMA ServerWrites ==
  ASSUME Types, NEW c, NEW cl, IsEnd(cl), cl.role = "client", 
         NEW sv, IsEnd(sv), sv.sock = c, sv.status = "CONNECTED",
         NEW in \in Seq(Frame), NEW out, NEW waits, Link(c, cl, sv, in, out, 0, 0, waits),
         NEW s \in 1..MaxSessions, sv.sid = s, said' = [said EXCEPT ![s]["server"] = @ + 1],
         UNCHANGED <<last, heard, sessions>>,
         NEW m \in Frame, m.kind = "data", m.sid = s, m.n = said[s]["server"] + 1,
         NEW q, Alike(q, sv), q.out = Append(sv.out, m)
  PROVE  Link(c, cl, q, in, out, 0, 0, waits)'
<1> DEFINE w == Written(c, in, sv)
           x == Written(c, in, q)
           n == said[s]["server"]
           v == Written(c, out, cl)
<1>1. w \in Seq(Frame) /\ x = Append(w, m) /\ x # <<>> /\ x \in Seq(Frame)
  <2>1. sv.out \in Seq(Frame)
    BY DEF IsEnd
  <2>2. w = in \o sv.out /\ x = in \o Append(sv.out, m)
    BY DEF Written, Alike
  <2>3. w \in Seq(Frame) /\ x = Append(w, m)
    BY <2>1, <2>2, Joined, SMTT(60)
  <2> HIDE DEF w, x
  <2> QED BY <2>3, AppendProperties
<1>2. /\ q.sock = c /\ q.status = "CONNECTED" /\ q.sid = s /\ q.closing = sv.closing
      /\ Up(sv, c) = TRUE /\ Up(q, c) = TRUE
  BY DEF Alike, Up
<1>3. n \in Nat /\ said'[s]["server"] = n + 1 /\ said'[s]["client"] = said[s]["client"]
  <2>1. PICK r \in Roles : r = "server" /\ said' = [said EXCEPT ![s][r] = @ + 1]
    BY DEF Roles
  <2>2. /\ said'[s][r] = said[s][r] + 1
        /\ \A u \in 1..MaxSessions, y \in Roles :
             /\ said[u][y] \in Nat /\ said'[u][y] \in {said[u][y], said[u][y] + 1}
             /\ u # s \/ y # r => said'[u][y] = said[u][y]
    BY ONLY Types, s \in 1..MaxSessions, <2>1, Raised, ZenonT(60)
  <2> QED BY <2>1, <2>2 DEF Roles
<1>4. cl.sock = c => ToClient(c, cl, sv, w, 0)
  BY DEF Link
<1>5. ToServer(c, sv, cl, v, 0) /\ ~waits
  BY DEF Link, Waiting
<1> HIDE DEF w, x, v, n
<1>6. ASSUME cl.sock = c PROVE ToClient(c, cl, q, x, 0)'
  <2>1. ToClient(c, cl, sv, w, 0)
    BY <1>4, <1>6
  <2>2. cl.status \in {"CONNECTING", "HANDSHAKING"} => w # <<>>
    BY <2>1 DEF ToClient
  <2>3. cl.status # "CONNECTING"
    BY <2>1, <2>2 DEF ToClient
  <2>4. ASSUME cl.status = "HANDSHAKING" PROVE Answered(c, q, x)'
    <3>1. Answered(c, sv, w) /\ w # <<>>
      BY <2>1, <2>2, <2>4 DEF ToClient
    <3>2. x[1] = w[1] /\ Tail(x) = Append(Tail(w), m) /\ Tail(w) \in Seq(Frame)
      <4>1. <<m>> \in Seq(Frame) /\ x = w \o <<m>> /\ Tail(w) \in Seq(Frame)
        BY <1>1, <3>1, AppendIsConcat, HeadTailProperties
      <4>2. x[1] = w[1] /\ Tail(x) = Tail(w) \o <<m>>
        BY <1>1, <3>1, <4>1, Joined
      <4> QED BY <4>1, <4>2, AppendIsConcat
    <3>3. w[1].sid = s
      BY <1>2, <3>1 DEF Answered
    <3>4. Delivers(Tail(w), 0, n, TRUE)
      BY <1>2, <3>1, <3>3 DEF Answered, n
    <3>5. Delivers(Tail(x), 0, n + 1, TRUE)
      <4>1. m.n = n + 1 /\ 0 \in Nat /\ TRUE \in BOOLEAN
        BY DEF n
      <4> DEFINE u == Tail(w)
      <4>2. u \in Seq(Frame) /\ Delivers(u, 0, n, TRUE) /\ Tail(x) = Append(u, m)
        BY <3>2, <3>4
      <4> HIDE DEF u
      <4>3. Delivers(Append(u, m), 0, n + 1, TRUE)
        BY <1>3, <4>1, <4>2, DeliversParts
      <4> QED BY <4>2, <4>3
    <3>6. Plain(Tail(x), s)
      <4>1. Plain(Tail(w), s)
        BY <3>1, <3>3 DEF Answered
      <4> DEFINE u == Tail(w)
      <4>2. u \in Seq(Frame) /\ Plain(u, s) /\ Tail(x) = Append(u, m)
        BY <3>2, <4>1
      <4> HIDE DEF u
      <4>3. Plain(Append(u, m), s)
        BY <4>2, PlainParts
      <4> QED BY <4>2, <4>3
    <3> QED BY <1>2, <1>3, <3>1, <3>2, <3>3, <3>5, <3>6 DEF Answered
  <2>5. ASSUME cl.status = "CONNECTED"
        PROVE  /\ cl.sid = s /\ Plain(x, s)
               /\ Delivers(x, Len(heard[s]["client"]) + 0, n + 1, TRUE)
    <3>1. cl.sid = s /\ Plain(w, s) /\ Delivers(w, Len(heard[s]["client"]) + 0, n, TRUE)
      BY <1>2, <2>1, <2>5 DEF ToClient, n
    <3>2. Plain(x, s)
      BY <1>1, <3>1, PlainParts
    <3> DEFINE h == Len(heard[s]["client"]) + 0
    <3>3. h \in Nat
      <4>1. "client" \in Roles /\ 0 \in Nat
        BY DEF Roles
      <4> QED BY <4>1, SessionTypes
    <3>4. Delivers(w, h, n, TRUE) /\ m.n = n + 1
      BY <3>1 DEF n
    <3> HIDE DEF h
    <3>5. Delivers(x, h, n + 1, TRUE)
      BY <1>1, <1>3, <3>3, <3>4, DeliversParts
    <3> QED BY <3>1, <3>2, <3>5 DEF h
  <2>6. cl.status \in {"HANDSHAKING", "CONNECTED"}
    BY <1>6, <2>3, TransportAssumption, <1>2 DEF IsEnd
  <2> QED BY <1>1, <1>2, <1>3, <2>3, <2>4, <2>5, <2>6 DEF ToClient
<1>7. ToServer(c, q, cl, v, 0)'
  BY <1>2, <1>3, <1>5 DEF ToServer, Hailed
<1> QED BY <1>2, <1>5, <1>6, <1>7 DEF Link, x, v

LEMMA ClientWrites ==
  ASSUME Types, NEW c, NEW cl, IsEnd(cl), cl.sock = c, cl.status = "CONNECTED",
         NEW sv, IsEnd(sv), NEW in, NEW out \in Seq(Frame), NEW waits,
         Link(c, cl, sv, in, out, 0, 0, waits),
         NEW s \in 1..MaxSessions, cl.sid = s, said' = [said EXCEPT ![s]["client"] = @ + 1],
         UNCHANGED <<last, heard, sessions>>,
         NEW m \in Frame, m.kind = "data", m.sid = s, m.n = said[s]["client"] + 1,
         NEW q, Alike(q, cl), q.out = Append(cl.out, m)
  PROVE  Link(c, q, sv, in, out, 0, 0, waits)'
<1> DEFINE v == Written(c, out, cl)
           x == Written(c, out, q)
           n == said[s]["client"]
           w == Written(c, in, sv)
<1>1. v \in Seq(Frame) /\ x = Append(v, m)
  <2>1. cl.out \in Seq(Frame)
    BY DEF IsEnd
  <2>2. v = out \o cl.out /\ x = out \o Append(cl.out, m)
    BY DEF Written, Alike
  <2>3. out \o cl.out \in Seq(Frame) /\ Append(out \o cl.out, m) = out \o Append(cl.out, m)
    BY <2>1, AppendJoined
  <2> HIDE DEF v, x
  <2> QED BY <2>2, <2>3
<1>2. /\ q.sock = c /\ q.status = "CONNECTED" /\ q.sid = s
      /\ Up(cl, c) = TRUE /\ Up(q, c) = TRUE
  BY DEF Alike, Up
<1>3. /\ n \in Nat /\ said'[s]["client"] = n + 1
      /\ said'[s]["server"] = said[s]["server"]
  <2>1. PICK r \in Roles : r = "client" /\ said' = [said EXCEPT ![s][r] = @ + 1]
    BY DEF Roles
  <2>2. /\ said'[s][r] = said[s][r] + 1
        /\ \A u \in 1..MaxSessions, y \in Roles :
             /\ said[u][y] \in Nat /\ said'[u][y] \in {said[u][y], said[u][y] + 1}
             /\ u # s \/ y # r => said'[u][y] = said[u][y]
    BY ONLY Types, s \in 1..MaxSessions, <2>1, Raised, ZenonT(60)
  <2> QED BY <2>1, <2>2 DEF Roles
<1>4. ToClient(c, cl, sv, w, 0) /\ ~waits
  BY DEF Link, Waiting, Hailed
<1> HIDE DEF w, x, v, n
<1>5. ToClient(c, q, sv, w, 0)'
  BY <1>2, <1>3, <1>4 DEF ToClient
<1>6. ASSUME sv.sock = c PROVE ToServer(c, sv, q, x, 0)'
  <2>1. sv.status = "CONNECTED" /\ sv.sid = s
    BY <1>4, <1>6 DEF ToClient
  <2>2. /\ Plain(v, s) /\ Delivers(v, Len(heard[s]["server"]) + 0, n, TRUE)
    BY <1>2, <1>6, <2>1 DEF Link, ToServer, v, n
  <2>3. Plain(x, s)
    BY <1>1, <2>2, PlainParts
  <2> DEFINE h == Len(heard[s]["server"]) + 0
  <2>4. h \in Nat
    <3>1. "server" \in Roles /\ 0 \in Nat
      BY DEF Roles
    <3> QED BY <3>1, SessionTypes
  <2>5. Delivers(v, h, n, TRUE) /\ m.n = n + 1
    BY <2>2 DEF n
  <2> HIDE DEF h
  <2>6. Delivers(x, h, n + 1, TRUE)
    BY <1>1, <1>3, <2>4, <2>5, DeliversParts
  <2> QED BY <1>2, <1>3, <2>1, <2>3, <2>6 DEF ToServer, h
<1> QED BY <1>2, <1>4, <1>5, <1>6 DEF Link, w, x

\* What saying one more thing in the session an end was told of makes of the log.
LEMMA LogRaised ==
  ASSUME SyncInv, NEW r \in Roles, NEW s \in Nat, told[r] = s, s # NoSession,
         said' = [said EXCEPT ![s][r] = @ + 1], UNCHANGED <<told, last, heard, sessions>>
  PROVE  /\ s \in 1..MaxSessions /\ Log' /\ said' \in [1..MaxSessions -> [Roles -> Nat]]
         /\ Channel!ChannelNext
<1>1. Types /\ Log /\ last[r] = s /\ last[r] \in 0..sessions
  <2>1. Informed(r, server) \/ Informed(r, client)
    BY DEF SyncInv, Told, Roles
  <2> QED BY <2>1 DEF Informed, SyncInv
<1>2. s \in 1..MaxSessions
  BY <1>1, ControlAssumption DEF Types, NoSession
<1>3. /\ said'[s][r] = said[s][r] + 1
      /\ \A u \in 1..MaxSessions, y \in Roles :
           /\ said[u][y] \in Nat /\ said'[u][y] \in {said[u][y], said[u][y] + 1}
           /\ u # s \/ y # r => said'[u][y] = said[u][y]
  BY <1>1, <1>2, Raised
<1>4. said' \in [1..MaxSessions -> [Roles -> Nat]]
  BY <1>1, <1>2 DEF Types
<1>5. Log'
  <2> SUFFICES ASSUME NEW u \in 1..MaxSessions, NEW y \in Roles
               PROVE  /\ u > last[y] => said'[u][y] = 0 /\ heard[u][y] = <<>>
                      /\ heard[u][y] = [i \in 1..Len(heard[u][y]) |-> i]
    BY DEF Log
  <2>1. u > last[y] => said[u][y] = 0 /\ heard[u][y] = <<>>
    BY <1>1 DEF Log
  <2>2. heard[u][y] = [i \in 1..Len(heard[u][y]) |-> i]
    BY <1>1 DEF Log
  <2>3. u > last[y] => u # s \/ y # r
    BY <1>1, <1>2
  <2> QED BY <1>3, <2>1, <2>2, <2>3
<1>6. Channel!ChannelNext
  <2>1. Channel!Say(r)
    BY DEF Channel!Say, NoSession
  <2> QED BY <2>1 DEF Channel!ChannelNext
<1> QED BY <1>2, <1>4, <1>5, <1>6

LEMMA DataFrame ==
  ASSUME NEW s \in Nat, NEW n \in Nat
  PROVE  Data(s, n) \in Frame /\ Data(s, n).kind = "data" /\ Data(s, n).sid = s /\ Data(s, n).n = n
BY DEF Data, Frame, Kinds

LEMMA ServerSays ==
  ASSUME SyncInv, ServerSends
  PROVE  SyncInv' /\ Channel!ChannelNext
<1> DEFINE s == told["server"]
           m == Data(server.sid, said[server.sid]["server"] + 1)
           x == SendMessage(server, m)
<1>1. Types /\ Told /\ Links /\ IsEnd(server) /\ IsEnd(client) /\ client.role = "client"
      /\ server.role = "server" /\ Ready
  BY DEF SyncInv, Types, Ready
<1>2. /\ s # NoSession /\ server.sid = s /\ said' = [said EXCEPT ![s]["server"] = @ + 1]
      /\ UNCHANGED <<midi, advert, told, last, heard, client, backlog, pipe, sessions, service>>
      /\ server' = x
  BY DEF ServerSends, SendSyncMessage
<1>3. server.status = "CONNECTED" /\ s \in Nat
  BY <1>1, <1>2 DEF Told, Informed, IsEnd, Types, Roles
<1> DEFINE c == server.sock
<1>4. c \in Conns /\ c # 0
  BY <1>1, <1>3, TransportAssumption DEF IsEnd
<1>5. PICK r \in Roles : r = "server"
  BY DEF Roles
<1>6. s \in 1..MaxSessions /\ Log' /\ said' \in [1..MaxSessions -> [Roles -> Nat]]
      /\ Channel!ChannelNext
  <2>1. told[r] = s /\ said' = [said EXCEPT ![s][r] = @ + 1]
    BY <1>2, <1>5
  <2> HIDE DEF s
  <2> QED BY <1>2, <1>3, <2>1, LogRaised
<1>7. m \in Frame /\ m.kind = "data" /\ m.sid = s /\ m.n = said[s]["server"] + 1
  <2>1. said[s]["server"] \in Nat
    BY <1>1, <1>6 DEF Types, Roles
  <2>2. said[s]["server"] + 1 \in Nat
    BY <2>1
  <2> QED BY <1>2, <1>3, <2>2, DataFrame
<1> HIDE DEF m
<1>20. PICK q : q = x /\ server' = q
  BY <1>2
<1>8. /\ IsEnd(q) /\ q.role = "server" /\ q.events = server.events
      /\ \/ q.sock = 0 /\ q.status = "CLOSED" /\ q.sid = NoSession
         \/ Alike(q, server) /\ q.out = Append(server.out, m)
  BY <1>1, <1>3, <1>7, <1>20, SentEnd
<1> HIDE DEF x
<1>9. Types'
  BY <1>1, <1>2, <1>20, <1>6, <1>8 DEF Types
<1>10. Told'
  <2>1. sessions \in Nat
    BY <1>1, ControlAssumption DEF Types
  <2>2. Informed("client", client)'
    BY <1>1, <1>2 DEF Informed, Told
  <2>3. Informed("server", server)'
    BY <1>1, <1>2, <1>20, <1>3, <1>8, <2>1 DEF Informed, Told, Alike, NoSession
  <2>4. q.status # "HANDSHAKING"
    BY <1>3, <1>8 DEF Alike
  <2> QED BY <1>1, <1>2, <1>20, <2>2, <2>3, <2>4 DEF Told
<1>11. Links'
  <2>1. PICK cl, sv, pp, bl : cl = client /\ sv = server /\ pp = pipe /\ bl = backlog
    OBVIOUS
  <2>2. ASSUME NEW d \in Conns
        PROVE  Link(d, cl, q, pp[d]["client"], pp[d]["server"], 0, 0, Contains(bl, d))'
    <3> DEFINE in == pp[d]["client"]
               out == pp[d]["server"]
               w == Contains(bl, d)
    <3>1. Link(d, cl, sv, in, out, 0, 0, w)
      BY <1>1, <2>1 DEF Links
    <3>2. in \in Seq(Frame) /\ out \in Seq(Frame) /\ w \in BOOLEAN /\ 0 \in Nat
          /\ sv.out \in Seq(Frame) /\ q.out \in Seq(Frame)
      BY <1>1, <1>8, <2>1 DEF Types, Roles, Contains, IsEnd
    <3>3. /\ IsEnd(cl) /\ cl.role = "client" /\ IsEnd(sv)
          /\ cl.status = "CONNECTED" => cl.sid \in 1..MaxSessions
      BY <1>1, <2>1, ClientSession
    <3>4. said' = [said EXCEPT ![s]["server"] = @ + 1] /\ UNCHANGED <<last, heard, sessions>>
      BY <1>2
    <3>5. sessions \in Nat /\ last["client"] \in Nat
      BY <1>1, ControlAssumption DEF Types, Roles
    <3> HIDE DEF in, out, w, s
    <3>6. CASE sv.sock = d /\ Alike(q, server) /\ q.out = Append(server.out, m)
      <4>1. sv.status = "CONNECTED" /\ sv.sid = s /\ Alike(q, sv) /\ q.out = Append(sv.out, m)
        BY <1>2, <1>3, <2>1, <3>6
      <4>2. Link(d, cl, q, in, out, 0, 0, w)'
        BY <1>1, <1>6, <1>7, <3>1, <3>2, <3>3, <3>4, <3>6, <4>1, ServerWrites
      <4> QED BY <4>2 DEF in, out, w
    <3>7. ASSUME ~(sv.sock = d /\ Alike(q, server) /\ q.out = Append(server.out, m))
          PROVE  Link(d, cl, q, in, out, 0, 0, w)'
      <4>1. Link(d, cl, q, in, out, 0, 0, w) /\ q.sock # d
        <5>1. CASE sv.sock = d
          <6>1. q.sock = 0 /\ q.sid = NoSession
            BY <1>8, <3>7, <5>1
          <6>2. Link(d, client, q, in, out, 0, 0, w)
            BY <1>1, <2>1, <3>1, <3>2, <5>1, <6>1, ServerGone
          <6> QED BY <2>1, <6>1, <6>2, TransportAssumption
        <5>2. CASE sv.sock # d
          <6>1. q.sock # d /\ q.sid \in {sv.sid, NoSession, sessions + 1}
            BY <1>8, <2>1, <5>2, TransportAssumption DEF Alike
          <6> QED BY <3>1, <3>5, <5>2, <6>1, OtherServer
        <5> QED BY <5>1, <5>2
      <4>2. Up(q, d) = FALSE
        BY <4>1 DEF Up
      <4> QED BY <1>1, <1>6, <3>2, <3>3, <3>4, <4>1, <4>2, ServerRaised
    <3> QED BY <3>6, <3>7 DEF in, out, w
  <2>3. cl = client' /\ pp = pipe' /\ bl = backlog' /\ q = server'
    BY <1>2, <1>20, <2>1
  <2> QED BY <2>2, <2>3, LinksAfter
<1> QED BY <1>6, <1>9, <1>10, <1>11 DEF SyncInv

LEMMA ClientSays ==
  ASSUME SyncInv, ClientSends
  PROVE  SyncInv' /\ Channel!ChannelNext
<1> DEFINE s == told["client"]
           m == Data(client.sid, said[client.sid]["client"] + 1)
           x == SendMessage(client, m)
<1>1. Types /\ Told /\ Links /\ IsEnd(server) /\ IsEnd(client) /\ client.role = "client"
      /\ server.role = "server" /\ Ready
  BY DEF SyncInv, Types, Ready
<1>2. /\ s # NoSession /\ client.sid = s /\ said' = [said EXCEPT ![s]["client"] = @ + 1]
      /\ UNCHANGED <<midi, advert, told, last, heard, server, backlog, pipe, sessions, service>>
      /\ client' = x
  BY DEF ClientSends, SendSyncMessage
<1>3. client.status = "CONNECTED" /\ s \in Nat
  BY <1>1, <1>2 DEF Told, Informed, IsEnd, Types, Roles
<1>4. PICK r \in Roles : r = "client"
  BY DEF Roles
<1>5. s \in 1..MaxSessions /\ Log' /\ said' \in [1..MaxSessions -> [Roles -> Nat]]
      /\ Channel!ChannelNext
  <2>1. told[r] = s /\ said' = [said EXCEPT ![s][r] = @ + 1]
    BY <1>2, <1>4
  <2> HIDE DEF s
  <2> QED BY <1>2, <1>3, <2>1, LogRaised
<1>6. m \in Frame /\ m.kind = "data" /\ m.sid = s /\ m.n = said[s]["client"] + 1
  <2>1. said[s]["client"] \in Nat
    BY <1>1, <1>5 DEF Types, Roles
  <2>2. said[s]["client"] + 1 \in Nat
    BY <2>1
  <2> QED BY <1>2, <1>3, <2>2, DataFrame
<1> HIDE DEF m
<1>20. PICK q : q = x /\ client' = q
  BY <1>2
<1>7. /\ IsEnd(q) /\ q.role = "client" /\ q.events = client.events
      /\ \/ q.sock = 0 /\ q.status = "CLOSED" /\ q.sid = NoSession
         \/ Alike(q, client) /\ q.out = Append(client.out, m)
  BY <1>1, <1>3, <1>6, <1>20, SentEnd
<1> HIDE DEF x
<1>8. Types'
  BY <1>1, <1>2, <1>20, <1>5, <1>7 DEF Types
<1>9. Told'
  <2>1. sessions \in Nat
    BY <1>1, ControlAssumption DEF Types
  <2>2. Informed("server", server)'
    BY <1>1, <1>2 DEF Informed, Told
  <2>3. Informed("client", client)'
    BY <1>1, <1>2, <1>20, <1>3, <1>7, <2>1 DEF Informed, Told, Alike, NoSession
  <2>4. midi["client"]
    BY <1>1, <1>3 DEF Told
  <2> QED BY <1>1, <1>2, <1>20, <2>2, <2>3, <2>4 DEF Told
<1>10. Links'
  <2>1. PICK cl, sv, pp, bl : cl = client /\ sv = server /\ pp = pipe /\ bl = backlog
    OBVIOUS
  <2>2. ASSUME NEW d \in Conns
        PROVE  Link(d, q, sv, pp[d]["client"], pp[d]["server"], 0, 0, Contains(bl, d))'
    <3> DEFINE in == pp[d]["client"]
               out == pp[d]["server"]
               w == Contains(bl, d)
    <3>1. Link(d, cl, sv, in, out, 0, 0, w)
      BY <1>1, <2>1 DEF Links
    <3>2. in \in Seq(Frame) /\ out \in Seq(Frame) /\ w \in BOOLEAN /\ 0 \in Nat
          /\ q.out \in Seq(Frame)
      BY <1>1, <1>7, <2>1 DEF Types, Roles, Contains, IsEnd
    <3>3. /\ IsEnd(cl) /\ cl.role = "client" /\ IsEnd(sv)
          /\ sv.status = "CONNECTED" => sv.sid \in 1..MaxSessions
      BY <1>1, <2>1, ServerSession
    <3>4. said' = [said EXCEPT ![s]["client"] = @ + 1] /\ UNCHANGED <<last, heard, sessions>>
      BY <1>2
    <3> HIDE DEF in, out, w, s
    <3>5. CASE cl.sock = d /\ Alike(q, client) /\ q.out = Append(client.out, m)
      <4>1. cl.status = "CONNECTED" /\ cl.sid = s /\ Alike(q, cl) /\ q.out = Append(cl.out, m)
        BY <1>2, <1>3, <2>1, <3>5
      <4>2. Link(d, q, sv, in, out, 0, 0, w)'
        BY <1>1, <1>5, <1>6, <3>1, <3>2, <3>3, <3>4, <3>5, <4>1, ClientWrites
      <4> QED BY <4>2 DEF in, out, w
    <3>6. ASSUME ~(cl.sock = d /\ Alike(q, client) /\ q.out = Append(client.out, m))
          PROVE  Link(d, q, sv, in, out, 0, 0, w)'
      <4>1. Link(d, q, sv, in, out, 0, 0, w) /\ q.sock # d
        <5>1. CASE cl.sock = d
          <6>1. q.sock = 0
            BY <1>7, <2>1, <3>6, <5>1
          <6>2. Link(d, q, sv, in, out, 0, 0, w)
            BY <1>1, <3>1, <3>2, <3>3, <6>1, ClientLeaves
          <6> QED BY <6>1, <6>2, TransportAssumption
        <5>2. CASE cl.sock # d
          <6>1. q.sock # d
            BY <1>7, <2>1, <5>2, TransportAssumption DEF Alike
          <6> QED BY <3>1, <5>2, <6>1, OtherClient
        <5> QED BY <5>1, <5>2
      <4>2. Up(q, d) = FALSE
        BY <4>1 DEF Up
      <4> QED BY <1>1, <1>5, <3>2, <3>3, <3>4, <4>1, <4>2, ClientRaised
    <3> QED BY <3>5, <3>6 DEF in, out, w
  <2>3. q = client' /\ pp = pipe' /\ bl = backlog' /\ sv = server'
    BY <1>2, <1>20, <2>1
  <2> QED BY <2>2, <2>3, LinksAfter
<1> QED BY <1>5, <1>8, <1>9, <1>10 DEF SyncInv

-----------------------------------------------------------------------------
(***************************************************************************)
(* The invariant, the channel and what follows.                            *)
(***************************************************************************)
LEMMA Begins ==
  Init => SyncInv /\ Channel!ChannelInit
<1> SUFFICES ASSUME Init PROVE SyncInv /\ Channel!ChannelInit
  OBVIOUS
<1>1. "server" \in Roles /\ "client" \in Roles /\ 0 \in Nat /\ 1 \in Nat /\ <<>> \in Seq(Frame)
      /\ <<>> \in Seq(Nat) /\ <<>> \in Seq(Conns) /\ NoSession = 0
  BY DEF Roles, NoSession
<1>2. IsEnd(server) /\ server.role = "server" /\ server.status = "IDLE" /\ server.sock = 0
      /\ server.sid = NoSession
  <2>1. server = Fresh("server") /\ "IDLE" \in {"IDLE", "ABSENT"}
    BY DEF Init
  <2> QED BY <1>1, <2>1, FreshEnd
<1>3. IsEnd(client) /\ client.role = "client" /\ client.status = "ABSENT" /\ client.sock = 0
      /\ client.sid = NoSession
  <2>1. client = [Fresh("client") EXCEPT !.status = "ABSENT"] /\ "ABSENT" \in {"IDLE", "ABSENT"}
    BY DEF Init
  <2> QED BY <1>1, <2>1, FreshEnd
<1>4. Types
  <2>1. backlog \in Seq(Conns) /\ \A i, j \in 1..Len(backlog) : backlog[i] = backlog[j] => i = j
    BY <1>1 DEF Init
  <2>2. pipe \in [Conns -> [Roles -> Seq(Frame)]]
    BY <1>1 DEF Init
  <2>3. \A c \in Conns, r \in Roles : Len(pipe[c][r]) <= Window
    <3>1. Len(<<>>) = 0 /\ 0 <= Window
      BY TransportAssumption
    <3>2. \A c \in Conns, r \in Roles : pipe[c][r] = <<>>
      BY DEF Init
    <3> QED BY <3>1, <3>2
  <2>4. sessions \in 0..MaxSessions
    BY ControlAssumption DEF Init
  <2>5. service \in [token : Nat, compatible : BOOLEAN] /\ advert \in [token : Nat, compatible : BOOLEAN]
    BY <1>1 DEF Init
  <2>6. midi \in [Roles -> BOOLEAN] /\ told \in [Roles -> Nat] /\ last \in [Roles -> Nat]
    BY <1>1 DEF Init
  <2>7. said \in [1..MaxSessions -> [Roles -> Nat]] /\ heard \in [1..MaxSessions -> [Roles -> Seq(Nat)]]
    BY <1>1 DEF Init
  <2> QED BY <1>2, <1>3, <2>1, <2>2, <2>3, <2>4, <2>5, <2>6, <2>7 DEF Types
<1>5. told["server"] = NoSession /\ told["client"] = NoSession /\ last["server"] = 0 /\ last["client"] = 0
      /\ sessions = 0
  BY <1>1 DEF Init
<1>6. Told
  BY <1>1, <1>2, <1>3, <1>5 DEF Told, Informed
<1>7. Log
  <2>1. \A s \in 1..MaxSessions, r \in Roles : said[s][r] = 0 /\ heard[s][r] = <<>>
    BY DEF Init
  <2>2. Len(<<>>) = 0 /\ <<>> = [i \in 1..0 |-> i]
    OBVIOUS
  <2> QED BY <2>1, <2>2 DEF Log
<1>8. Links
  <2>1. \A c \in Conns : c # 0 /\ ~Contains(backlog, c)
    BY TransportAssumption DEF Init, Contains
  <2> QED BY <1>2, <1>3, <2>1 DEF Links, Link
<1>9. Channel!ChannelInit
  BY DEF Init, Channel!ChannelInit, NoSession
<1> QED BY <1>4, <1>6, <1>7, <1>8, <1>9 DEF SyncInv

LEMMA Steps ==
  ASSUME SyncInv, [Next]_vars
  PROVE  SyncInv' /\ [Channel!ChannelNext]_(Channel!channelVars)
<1>1. Types /\ Told /\ IsEnd(client) /\ IsEnd(server) /\ server.role = "server"
      /\ client.role = "client"
  BY DEF SyncInv, Types
<1>2. CASE PollServer
  BY <1>2, ServerPolls DEF PollServer
<1>3. CASE PollClient
  <2>1. FALSE \in BOOLEAN /\ ClientPoll(FALSE) /\ midi["client"] /\ HandOn("client", client')
        /\ UNCHANGED <<midi, advert, said>>
    BY <1>3 DEF PollClient, Present
  <2> QED BY <2>1, ClientPolls
<1>4. CASE RefusedConnection
  <2>1. TRUE \in BOOLEAN /\ ClientPoll(TRUE) /\ midi["client"] /\ HandOn("client", client')
        /\ UNCHANGED <<midi, advert, said>>
    BY <1>4 DEF RefusedConnection, Present
  <2> QED BY <2>1, ClientPolls
<1>5. CASE ServerSends
  BY <1>5, ServerSays
<1>6. CASE ClientSends
  BY <1>6, ClientSays
<1>7. ASSUME NEW r \in Roles, MidiConnected(r)
      PROVE  SyncInv' /\ [Channel!ChannelNext]_(Channel!channelVars)
  <2>1. midi' = [midi EXCEPT ![r] = TRUE] /\ midi' \in [Roles -> BOOLEAN] /\ ~midi[r]
    BY <1>1, <1>7 DEF MidiConnected, Types
  <2>2. CASE r = "client"
    <3>1. PICK q : q = Started(advert) /\ client' = q
      BY <1>7, <2>2 DEF MidiConnected
    <3>2. IsEnd(q) /\ q.role = "client" /\ q.sock = 0
      BY <1>1, <3>1, StartedEnd DEF Types
    <3>3. told' = [told EXCEPT !["client"] = NoSession]
      <4>1. told["client"] = NoSession /\ told' = told
        BY <1>1, <1>7, <2>1, <2>2 DEF Told, MidiConnected
      <4> QED BY <1>1, <4>1 DEF Types
    <3>4. /\ UNCHANGED <<server, backlog, pipe, sessions, service, last, said, heard>>
          /\ advert' \in [token : Nat, compatible : BOOLEAN]
      BY <1>1, <1>7 DEF MidiConnected, Types
    <3>5. midi'["client"]
      BY <1>1, <2>1, <2>2 DEF Types
    <3> QED BY <2>1, <3>1, <3>2, <3>3, <3>4, <3>5, ClientReplaced
  <2>3. CASE r # "client"
    <3>1. /\ UNCHANGED <<server, client, backlog, pipe, sessions, told, last, said, heard>>
          /\ service' \in [token : Nat, compatible : BOOLEAN]
          /\ advert' \in [token : Nat, compatible : BOOLEAN]
      BY <1>1, <1>7, <2>3 DEF MidiConnected, Types
    <3>2. midi["client"] => midi'["client"]
      BY <1>1, <2>1, <2>3 DEF Types
    <3> QED BY <2>1, <3>1, <3>2, OwnerSteps
  <2> QED BY <2>2, <2>3
<1>8. CASE ClientMidiEnds
  <2>1. PICK q : q = [Fresh("client") EXCEPT !.status = "ABSENT"] /\ client' = q
    BY <1>8 DEF ClientMidiEnds
  <2>2. IsEnd(q) /\ q.role = "client" /\ q.sock = 0 /\ q.status = "ABSENT"
    <3>1. "client" \in Roles /\ 0 \in Nat /\ "ABSENT" \in {"IDLE", "ABSENT"}
      BY DEF Roles
    <3> QED BY <2>1, <3>1, FreshEnd
  <2>3. /\ told' = [told EXCEPT !["client"] = NoSession]
        /\ UNCHANGED <<server, backlog, pipe, sessions, service, last, said, heard>>
        /\ advert' \in [token : Nat, compatible : BOOLEAN] /\ midi' \in [Roles -> BOOLEAN]
    BY <1>1, <1>8 DEF ClientMidiEnds, Types
  <2> QED BY <2>1, <2>2, <2>3, ClientReplaced
<1>9. CASE ServerMidiEnds
  <2>1. /\ UNCHANGED <<client, backlog, pipe, sessions, told, last, said, heard, advert>>
        /\ service' \in [token : Nat, compatible : BOOLEAN]
        /\ advert' \in [token : Nat, compatible : BOOLEAN]
        /\ midi' \in [Roles -> BOOLEAN] /\ midi'["client"] = midi["client"]
    <3>1. midi' \in [Roles -> BOOLEAN] /\ midi'["client"] = midi["client"]
      BY <1>1, <1>9 DEF ServerMidiEnds, Types, Roles
    <3> QED BY <1>1, <1>9, <3>1 DEF ServerMidiEnds, Types
  <2>2. CASE server.sock = 0
    <3>1. server' = server
      BY <1>9, <2>2 DEF ServerMidiEnds
    <3> QED BY <2>1, <3>1, OwnerSteps
  <2>3. CASE server.sock # 0
    <3>1. PICK q : q = Closed(server, "ADDRESS_REJECTED") /\ server' = q
      BY <1>9, <2>3 DEF ServerMidiEnds
    <3>2. IsEnd(q) /\ q.role = "server" /\ q.sock = 0 /\ q.status = "CLOSED"
      BY <1>1, <3>1, ClosedEnd
    <3> QED BY <2>1, <3>1, <3>2, ServerReplaced
  <2> QED BY <2>2, <2>3
<1>10. CASE ServerRestarts
  <2>1. PICK q : q = Fresh("server") /\ server' = q
    BY <1>10 DEF ServerRestarts
  <2>2. IsEnd(q) /\ q.role = "server" /\ q.sock = 0
    <3>1. "server" \in Roles /\ 0 \in Nat /\ "IDLE" \in {"IDLE", "ABSENT"}
      BY DEF Roles
    <3> QED BY <2>1, <3>1, FreshEnd
  <2>3. /\ told' = [told EXCEPT !["server"] = NoSession] /\ backlog' = <<>>
        /\ UNCHANGED <<client, pipe, sessions, last, said, heard, advert>>
        /\ midi' \in [Roles -> BOOLEAN] /\ midi'["client"] = midi["client"]
    <3>1. midi' \in [Roles -> BOOLEAN] /\ midi'["client"] = midi["client"]
      BY <1>1, <1>10 DEF ServerRestarts, Types, Roles
    <3> QED BY <1>10, <3>1 DEF ServerRestarts
  <2>4. told'["server"] = NoSession
    BY <1>1, <2>3 DEF Types, Roles
  <2>5. service' \in [token : Nat, compatible : BOOLEAN]
    <3>1. service.token + 1 \in Nat
      BY <1>1 DEF Types
    <3> QED BY <1>10, <3>1 DEF ServerRestarts
  <2> QED BY <2>1, <2>2, <2>3, <2>4, <2>5, ServerReplaced
<1>11. CASE DiscoverService
  <2>1. /\ UNCHANGED <<server, backlog, pipe, sessions, service, midi, last, said, heard>>
        /\ advert' \in [token : Nat, compatible : BOOLEAN] /\ midi' \in [Roles -> BOOLEAN]
        /\ service' \in [token : Nat, compatible : BOOLEAN]
    BY <1>1, <1>11 DEF DiscoverService, Types
  <2>2. CASE midi["client"]
    <3>1. PICK q : q = Started(service) /\ client' = q
      BY <1>11, <2>2 DEF DiscoverService
    <3>2. IsEnd(q) /\ q.role = "client" /\ q.sock = 0
      BY <1>1, <3>1, StartedEnd DEF Types
    <3>3. told' = [told EXCEPT !["client"] = NoSession] /\ midi'["client"]
      BY <1>11, <2>1, <2>2 DEF DiscoverService
    <3> QED BY <2>1, <3>1, <3>2, <3>3, ClientReplaced
  <2>3. CASE ~midi["client"]
    <3>1. client' = client /\ told' = told
      BY <1>1, <1>11, <2>3 DEF DiscoverService, Types
    <3> QED BY <2>1, <2>3, <3>1, OwnerSteps
  <2> QED BY <2>2, <2>3
<1>12. CASE SilentLoss
  <2>1. /\ UNCHANGED <<server, client, backlog, pipe, sessions, told, last, said, heard>>
        /\ service' \in [token : Nat, compatible : BOOLEAN]
        /\ advert' \in [token : Nat, compatible : BOOLEAN] /\ midi' \in [Roles -> BOOLEAN]
        /\ midi' = midi
    BY <1>1, <1>12 DEF SilentLoss, Silence, Types
  <2> QED BY <2>1, OwnerSteps
<1>13. CASE Tick
  BY <1>13, TimePasses DEF Tick, ownerVars
<1>14. CASE SlowTick
  BY <1>14, TimePasses DEF SlowTick
<1>15. CASE UNCHANGED vars
  <2>1. /\ UNCHANGED <<server, client, backlog, pipe, sessions, told, last, said, heard>>
        /\ service' \in [token : Nat, compatible : BOOLEAN]
        /\ advert' \in [token : Nat, compatible : BOOLEAN] /\ midi' \in [Roles -> BOOLEAN]
        /\ midi' = midi
    BY <1>1, <1>15 DEF vars, transportVars, ownerVars, Types
  <2> QED BY <2>1, OwnerSteps
<1> QED BY <1>2, <1>3, <1>4, <1>5, <1>6, <1>7, <1>8, <1>9, <1>10, <1>11, <1>12, <1>13, <1>14, <1>15
        DEF Next

(* However the polls of the two workers, losses, restarts, discovery and   *)
(* the AppleMIDI sessions interleave, both ends stay consistent, and every *)
(* connection, the dead ones included, holds nothing but what belongs to   *)
(* its own session (poll of TcpServerTransport and TcpClientTransport in   *)
(* transport.py, _poll_sync_transport of remote_midi.py).                  *)
THEOREM SyncInvariant == Spec => []SyncInv
<1>1. Init => SyncInv
  BY Begins
<1>2. SyncInv /\ [Next]_vars => SyncInv'
  BY Steps
<1> QED BY <1>1, <1>2, PTL DEF Spec

(* What is handed on in a session is a prefix of what the other end sent   *)
(* in it, in order and each message once, and no session comes back: every *)
(* step of the transport is one of the channel or changes nothing of it    *)
(* (_close, drain_messages, send_message of transport.py,                  *)
(* _poll_sync_transport of remote_midi.py).                                *)
THEOREM Implements == Spec => ImplementsChannel
<1>1. Init => Channel!ChannelInit
  BY Begins
<1>2. SyncInv /\ [Next]_vars => [Channel!ChannelNext]_(Channel!channelVars)
  BY Steps
<1> QED BY <1>1, <1>2, SyncInvariant, PTL DEF Spec, ImplementsChannel, Channel!ChannelSpec

(* A connection is never held by nothing: as long as an end has one, its   *)
(* handshake deadline or the inactivity limit of its session is there to   *)
(* end it (_enforce_handshake_timeout, _heartbeat_and_timeout and _close   *)
(* of transport.py).                                                       *)
THEOREM NobodyIsStuck == Spec => []NeverStuck
<1>1. SyncInv => NeverStuck
  <2> SUFFICES ASSUME SyncInv, NEW e \in {server, client}
               PROVE  /\ e.sock # 0 <=> e.status \in {"CONNECTING", "HANDSHAKING", "CONNECTED"}
                      /\ e.status \in {"CONNECTING", "HANDSHAKING"} <=> e.left # NoDeadline
                      /\ e.status = "CONNECTED" <=> e.sid # NoSession /\ e.left = NoDeadline
    BY DEF NeverStuck
  <2>1. IsEnd(e)
    BY DEF SyncInv, Types
  <2> QED BY <2>1 DEF IsEnd
<1> QED BY <1>1, SyncInvariant, PTL

-----------------------------------------------------------------------------
(***************************************************************************)
(* Clocks and bounds: what an end counts and waits for, and what it takes  *)
(* for another listener's.  The invariant is Watch; it leans on SyncInv    *)
(* for what may still be on the way.                                       *)
(***************************************************************************)
\* No handshake among frames w names another listener or is a refusal.
Signed(w) == \A i \in 1..Len(w) : w[i].kind \in {"hello", "ack"} => w[i].n = 1

\* The limits of an end.
Bounded(e) ==
  /\ Len(e.out) <= MaxOutboundQueue /\ Len(e.events) <= MaxInboundQueue
  /\ e.left \in -1..HandshakeTimeout
  /\ e.wait \in 0..ReconnectMax /\ e.attempt \in 0..MaxAttempts
  /\ e.closing \in {"NONE", "PROTOCOL_INCOMPATIBLE"}

\* While there was one listener only, an end never saw a frame of another.
Trusting(e) ==
  service.token = 1 =>
    /\ e.reason \notin {"SESSION_MISMATCH", "PROTOCOL_INCOMPATIBLE"}
    /\ e.closing = "NONE" /\ Signed(e.out)
    /\ e.role = "client" /\ e.status # "ABSENT" => e.token = 1

\* Without a fault no handshake takes any time, and a beat comes in time.
OnTime(e) ==
  faults = 0 =>
    /\ e.reason \notin {"INACTIVITY_TIMEOUT", "HANDSHAKE_TIMEOUT"}
    /\ e.left \in {NoDeadline, HandshakeTimeout}
    /\ e.status = "HANDSHAKING" => e.quiet = 0
    /\ e.status = "CONNECTED" => e.quiet <= HeartbeatInterval

Sound(e) == Bounded(e) /\ Trusting(e) /\ OnTime(e)

\* Nothing is on its way from an end that has written tx.
Mute(tx, e) == tx = <<>> /\ e.out = <<>>

\* Whatever end e has not heard for, the other end o has not said for at least as long,
\* unless something, written in way or queued at o, is about to be heard.
Beats(e, o, way) ==
  e.status = "CONNECTED" /\ o.sock = e.sock =>
    /\ o.status = "HANDSHAKING" => e.quiet = 0
    /\ o.status = "CONNECTED" /\ Mute(way, o) => e.quiet <= o.sent

Introduced ==
  /\ service.token # 0
  /\ service.token = 1 =>
       /\ service.compatible /\ advert = service
       /\ \A c \in Conns, r \in Roles : Signed(pipe[c][r])

Pulse ==
  faults = 0 =>
    /\ cut = {}
    /\ \A c \in Conns : client.sock = c /\ server.sock = c =>
         Beats(client, server, pipe[c]["client"]) /\ Beats(server, client, pipe[c]["server"])

Watch ==
  /\ Sound(server) /\ server.status # "ABSENT" /\ Sound(client) /\ Introduced /\ Pulse
  /\ cut \subseteq Conns /\ faults \in 0..MaxFaults
-----------------------------------------------------------------------------
LEMMA SignedParts ==
  ASSUME NEW w \in Seq(Frame)
  PROVE  /\ Signed(<<>>)
         /\ \A m \in Frame : Signed(w) /\ (m.kind \in {"hello", "ack"} => m.n = 1) => Signed(Append(w, m))
         /\ \A k \in 0..Len(w) : Signed(w) => Signed(SubSeq(w, 1, k)) /\ Signed(SubSeq(w, k + 1, Len(w)))
         /\ \A v \in Seq(Frame) : Signed(w) /\ Signed(v) => Signed(w \o v)
<1>1. Signed(<<>>)
  BY EmptySeq DEF Signed
<1>2. Len(w) \in Nat
  BY LenProperties
<1>3. ASSUME NEW m \in Frame, Signed(w), m.kind \in {"hello", "ack"} => m.n = 1
      PROVE  Signed(Append(w, m))
  <2> DEFINE v == Append(w, m)
  <2>1. /\ Len(v) = Len(w) + 1 /\ v[Len(w) + 1] = m
        /\ \A i \in 1..Len(w) : v[i] = w[i]
    BY AppendProperties
  <2> HIDE DEF v
  <2>2. \A i \in 1..Len(v) : i \in 1..Len(w) \/ i = Len(w) + 1
    BY <1>2, <2>1
  <2> QED BY <1>3, <2>1, <2>2 DEF Signed
<1>4. ASSUME NEW k \in 0..Len(w), Signed(w)
      PROVE  Signed(SubSeq(w, 1, k)) /\ Signed(SubSeq(w, k + 1, Len(w)))
  <2> DEFINE u == SubSeq(w, 1, k)
             v == SubSeq(w, k + 1, Len(w))
  <2>1. /\ u \in Seq(Frame) /\ v \in Seq(Frame) /\ Len(u) = k /\ Len(v) = Len(w) - k /\ u \o v = w
        /\ \A i \in 1..k : u[i] = w[i]
    BY Cut
  <2>2. Len(u \o v) = Len(u) + Len(v) /\ \A i \in 1..Len(v) : (u \o v)[i + Len(u)] = v[i]
    <3> HIDE DEF u, v
    <3>1. Len(u) \in Nat /\ Len(v) \in Nat
      BY <2>1, LenProperties
    <3>2. \A i \in 1..Len(v) : i + Len(u) \in 1..Len(u) + Len(v) /\ ~(i + Len(u) <= Len(u)) /\ (i + Len(u)) - Len(u) = i
      BY <3>1
    <3>3. /\ Len(u \o v) = Len(u) + Len(v)
          /\ \A i \in 1..Len(u) + Len(v) : (u \o v)[i] = IF i <= Len(u) THEN u[i] ELSE v[i - Len(u)]
      BY <2>1, ConcatProperties
    <3> QED BY <3>2, <3>3
  <2> HIDE DEF u, v
  <2>3. \A i \in 1..Len(u) : i \in 1..Len(w)
    BY <1>2, <2>1
  <2>4. \A i \in 1..Len(v) : i + k \in 1..Len(w) /\ w[i + k] = v[i]
    BY <1>2, <2>1, <2>2
  <2>5. Signed(u)
    BY <1>4, <2>1, <2>3 DEF Signed
  <2>6. Signed(v)
    BY <1>4, <2>4 DEF Signed
  <2> QED BY <2>5, <2>6 DEF u, v
<1>5. ASSUME NEW v \in Seq(Frame), Signed(w), Signed(v) PROVE Signed(w \o v)
  <2>1. /\ Len(w \o v) = Len(w) + Len(v)
        /\ \A i \in 1..Len(w) : (w \o v)[i] = w[i]
        /\ \A i \in 1..Len(v) : (w \o v)[i + Len(w)] = v[i]
    BY ConcatProperties
  <2>2. Len(v) \in Nat
    BY LenProperties
  <2> DEFINE x == w \o v
  <2> HIDE DEF x
  <2>3. ASSUME NEW i \in 1..Len(x) PROVE x[i].kind \in {"hello", "ack"} => x[i].n = 1
    <3>1. CASE i \in 1..Len(w)
      BY <1>5, <2>1, <3>1 DEF Signed, x
    <3>2. CASE i \notin 1..Len(w)
      <4>1. i - Len(w) \in 1..Len(v) /\ (i - Len(w)) + Len(w) = i
        BY <1>2, <2>1, <2>2, <3>2 DEF x
      <4>2. x[i] = v[i - Len(w)]
        BY <2>1, <4>1 DEF x
      <4> QED BY <1>5, <4>1, <4>2 DEF Signed
    <3> QED BY <3>1, <3>2
  <2> QED BY <2>3 DEF Signed, x
<1> QED BY <1>1, <1>3, <1>4, <1>5

LEMMA Delays ==
  ASSUME NEW a \in 1..MaxAttempts
  PROVE  NextDelay(a) \in 0..ReconnectMax
<1> DEFINE y == 2 ^ (a - 1)
<1>1. a - 1 \in 0..MaxAttempts
  BY TransportAssumption
<1>2. y \in Nat
  BY <1>1, PowerAssumption
<1> HIDE DEF y
<1>3. ReconnectMin * y \in Nat /\ ReconnectMax \in Nat
  BY <1>2, TransportAssumption
<1>4. NextDelay(a) = Least(ReconnectMax, ReconnectMin * y)
  BY DEF NextDelay, y
<1> DEFINE z == ReconnectMin * y
<1> HIDE DEF z
<1>5. z \in Nat /\ NextDelay(a) = Least(ReconnectMax, z)
  BY <1>3, <1>4 DEF z
<1> QED BY <1>3, <1>5 DEF Least

\* The fields of an end that are read when frames are.
Shaped(e) ==
  /\ DOMAIN e = Fields /\ e.role \in Roles /\ e.status # "ABSENT" /\ e.sid \in Nat
  /\ e.out \in Seq(Frame) /\ e.events \in Seq(Frame)

\* No alarm, unless there is a reason.
Fair(reason) ==
  /\ service.token = 1 => reason \notin {"SESSION_MISMATCH", "PROTOCOL_INCOMPATIBLE"}
  /\ faults = 0 => reason \notin {"INACTIVITY_TIMEOUT", "HANDSHAKE_TIMEOUT"}

LEMMA BackoffSound ==
  ASSUME NEW e, DOMAIN e = Fields, e.attempt \in 0..MaxAttempts
  PROVE  LET q == Backoff(e) IN
         /\ DOMAIN q = Fields
         /\ \A f \in Fields \ {"attempt", "wait"} : q[f] = e[f]
         /\ q.attempt \in 0..MaxAttempts /\ q.wait \in 0..ReconnectMax
<1> DEFINE a == Least(e.attempt + 1, MaxAttempts)
           d == NextDelay(a)
           q == [e EXCEPT !.attempt = a, !.wait = d]
<1>1. a \in 1..MaxAttempts
  BY TransportAssumption DEF Least
<1>2. d \in 0..ReconnectMax
  BY <1>1, Delays
<1>3. Backoff(e) = q
  BY DEF Backoff
<1> HIDE DEF a, d
<1>4. /\ DOMAIN q = Fields /\ q.attempt = a /\ q.wait = d
      /\ \A f \in Fields \ {"attempt", "wait"} : q[f] = e[f]
  BY DEF Fields
<1>5. a \in 0..MaxAttempts
  BY <1>1
<1> QED BY <1>2, <1>3, <1>4, <1>5

LEMMA ClosedSound ==
  ASSUME NEW e, Shaped(e), Sound(e), NEW reason, Fair(reason)
  PROVE  LET q == Closed(e, reason) IN Shaped(q) /\ Sound(q) /\ q.sock = 0 /\ q.status = "CLOSED" /\ q.closing = "NONE"
<1> DEFINE shut == [e EXCEPT !.sock = 0, !.status = "CLOSED", !.reason = reason,
                             !.sid = NoSession, !.out = <<>>, !.left = NoDeadline,
                             !.closing = "NONE"]
           q == Closed(e, reason)
           F == {"sock", "status", "reason", "sid", "out", "left", "closing"}
<1>1. /\ DOMAIN shut = Fields /\ \A f \in Fields \ F : shut[f] = e[f]
      /\ shut.sock = 0 /\ shut.status = "CLOSED" /\ shut.reason = reason /\ shut.out = <<>>
      /\ shut.left = NoDeadline /\ shut.closing = "NONE" /\ shut.sid = 0
  BY DEF Shaped, Fields, NoSession
<1>2. q = Backoff(shut) \/ q = shut
  BY DEF Closed
<1> HIDE DEF shut, q
<1>3. shut.attempt = e.attempt /\ shut.wait = e.wait /\ e.attempt \in 0..MaxAttempts /\ e.wait \in 0..ReconnectMax
  BY <1>1 DEF Fields, Sound, Bounded
<1>4. /\ DOMAIN q = Fields /\ \A f \in Fields \ {"attempt", "wait"} : q[f] = shut[f]
      /\ q.attempt \in 0..MaxAttempts /\ q.wait \in 0..ReconnectMax
  BY <1>1, <1>2, <1>3, BackoffSound
<1>5. /\ q.role = e.role /\ q.events = e.events /\ q.sock = 0 /\ q.status = "CLOSED"
      /\ q.reason = reason /\ q.out = <<>> /\ q.left = NoDeadline /\ q.closing = "NONE" /\ q.sid = 0
      /\ q.token = e.token
  BY <1>1, <1>4 DEF Fields
<1>6. /\ <<>> \in Seq(Frame) /\ Len(<<>>) = 0 /\ Signed(<<>>) /\ MaxOutboundQueue \in Nat
      /\ NoDeadline \in -1..HandshakeTimeout
  <2>1. <<>> \in Seq(Frame) /\ Len(<<>>) = 0
    OBVIOUS
  <2>2. Signed(<<>>)
    BY <2>1, SignedParts
  <2> QED BY <2>1, <2>2, TransportAssumption DEF NoDeadline
<1>7. Shaped(q)
  BY <1>4, <1>5, <1>6 DEF Shaped
<1>8. Bounded(q)
  BY <1>4, <1>5, <1>6 DEF Bounded, Sound
<1>9. Trusting(q)
  BY <1>5, <1>6 DEF Sound, Shaped, Trusting, Fair
<1>10. OnTime(q)
  BY <1>5 DEF OnTime, Fair
<1> QED BY <1>5, <1>7, <1>8, <1>9, <1>10 DEF Sound, q

\* End q is end e with more to say, or has given up.
Adds(q, e) ==
  \/ q.sock = 0 /\ q.status = "CLOSED" /\ q.closing = "NONE"
  \/ /\ q.sock = e.sock /\ q.status = e.status /\ q.sid = e.sid /\ q.closing = e.closing
     /\ q.sent = e.sent /\ q.quiet = e.quiet /\ q.out # <<>>

LEMMA SentSound ==
  ASSUME NEW e, Shaped(e), Sound(e), NEW m \in Frame,
         service.token = 1 /\ m.kind \in {"hello", "ack"} => m.n = 1
  PROVE  LET q == SendMessage(e, m) IN
         Shaped(q) /\ Sound(q) /\ Adds(q, e)
<1>1. CASE Len(e.out) >= MaxOutboundQueue
  <2>1. Fair("QUEUE_OVERFLOW")
    BY DEF Fair
  <2>2. LET q == Closed(e, "QUEUE_OVERFLOW") IN
          Shaped(q) /\ Sound(q) /\ q.sock = 0 /\ q.status = "CLOSED" /\ q.closing = "NONE"
    BY <2>1, ClosedSound
  <2>3. SendMessage(e, m) = Closed(e, "QUEUE_OVERFLOW")
    BY <1>1 DEF SendMessage
  <2> QED BY <2>2, <2>3 DEF Adds
<1>2. CASE ~(Len(e.out) >= MaxOutboundQueue)
  <2> DEFINE v == Append(e.out, m)
             q == [e EXCEPT !.out = v]
  <2>1. SendMessage(e, m) = q
    BY <1>2 DEF SendMessage
  <2>2. v \in Seq(Frame) /\ v # <<>> /\ Len(v) = Len(e.out) + 1 /\ Len(e.out) \in Nat
    BY AppendProperties, LenProperties DEF Shaped
  <2>3. service.token = 1 => Signed(v)
    BY SignedParts DEF Sound, Trusting, Shaped
  <2> HIDE DEF v
  <2>4. DOMAIN q = Fields /\ q.out = v /\ \A f \in Fields \ {"out"} : q[f] = e[f]
    BY DEF Shaped, Fields
  <2> HIDE DEF q
  <2>5. /\ q.role = e.role /\ q.status = e.status /\ q.reason = e.reason /\ q.sock = e.sock
        /\ q.closing = e.closing /\ q.sid = e.sid /\ q.events = e.events /\ q.quiet = e.quiet
        /\ q.sent = e.sent /\ q.left = e.left /\ q.attempt = e.attempt /\ q.wait = e.wait /\ q.token = e.token
    BY <2>4 DEF Fields
  <2>6. Shaped(q)
    BY <2>2, <2>4, <2>5 DEF Shaped
  <2>7. Bounded(q)
    BY <1>2, <2>2, <2>4, <2>5, TransportAssumption DEF Sound, Bounded
  <2>8. Trusting(q)
    BY <2>3, <2>4, <2>5 DEF Sound, Trusting
  <2>9. OnTime(q)
    BY <2>5 DEF Sound, OnTime
  <2>10. Adds(q, e)
    BY <2>2, <2>4, <2>5 DEF Adds
  <2> QED BY <2>1, <2>5, <2>6, <2>7, <2>8, <2>9, <2>10 DEF Sound
<1> QED BY <1>1, <1>2
\* A port whose end and what it has written are sound.
SoundPort(p) ==
  /\ DOMAIN p = {"e", "tx"} /\ Shaped(p.e) /\ Sound(p.e)
  /\ p.tx \in Seq(Frame) /\ (service.token = 1 => Signed(p.tx))

\* Port q comes after port p: it has given up, or its end has been in the
\* connection for as long and has not taken back what it had to say.
Follows(q, p) ==
  \/ q.e.sock = 0
  \/ /\ q.e.sock = p.e.sock /\ q.e.sent = p.e.sent /\ q.e.quiet = p.e.quiet
     /\ q.e.status = p.e.status /\ q.e.sid = p.e.sid
     /\ Mute(q.tx, q.e) => Mute(p.tx, p.e)

LEMMA FlushedSound ==
  ASSUME NEW p, SoundPort(p), Len(p.tx) <= Window, p.e.closing # "NONE" => service.token # 1
  PROVE  LET q == FlushOutbound(p) IN
         SoundPort(q) /\ Follows(q, p) /\ (p.e.closing = "NONE" => q.e.sock = p.e.sock /\ q.e.closing = "NONE")
<1> DEFINE e == p.e
           out == p.e.out
           n == Least(Len(out), Window - Len(p.tx))
           left == SubSeq(out, n + 1, Len(out))
           said_ == SubSeq(out, 1, n)
           tx == p.tx \o said_
           x == [e EXCEPT !.out = left]
           y == IF left = <<>> /\ e.closing # "NONE" THEN Closed(x, e.closing) ELSE x
           q == [e |-> y, tx |-> tx]
<1>1. out \in Seq(Frame) /\ Len(out) \in Nat /\ Len(p.tx) \in Nat /\ Window \in Nat
  BY LenProperties, TransportAssumption DEF SoundPort, Shaped
<1>2. n \in 0..Len(out)
  BY <1>1 DEF Least
<1> HIDE DEF n
<1>3. /\ said_ \in Seq(Frame) /\ left \in Seq(Frame) /\ said_ \o left = out /\ Len(left) <= Len(out)
  <2>1. said_ \in Seq(Frame) /\ left \in Seq(Frame) /\ said_ \o left = out /\ Len(left) = Len(out) - n
    BY <1>1, <1>2, Cut
  <2> HIDE DEF said_, left
  <2> QED BY <1>1, <1>2, <2>1
<1>4. service.token = 1 => Signed(said_) /\ Signed(left)
  BY <1>1, <1>2, SignedParts DEF SoundPort, Sound, Trusting
<1> HIDE DEF left, said_
<1>5. tx \in Seq(Frame)
  BY <1>3, Joined DEF SoundPort
<1>6. service.token = 1 => Signed(tx)
  BY <1>3, <1>4, SignedParts DEF SoundPort
<1>7. tx = <<>> /\ left = <<>> => p.tx = <<>> /\ out = <<>>
  BY <1>3, Joined DEF SoundPort
<1> HIDE DEF tx
<1>8. /\ DOMAIN x = Fields /\ x.out = left /\ \A f \in Fields \ {"out"} : x[f] = e[f]
  BY DEF SoundPort, Shaped, Fields
<1> HIDE DEF x
<1>9. /\ x.role = e.role /\ x.status = e.status /\ x.reason = e.reason /\ x.sock = e.sock
      /\ x.closing = e.closing /\ x.sid = e.sid /\ x.events = e.events /\ x.quiet = e.quiet
      /\ x.sent = e.sent /\ x.left = e.left /\ x.attempt = e.attempt /\ x.wait = e.wait /\ x.token = e.token
  BY <1>8 DEF Fields
<1>10. Shaped(x)
  BY <1>3, <1>8, <1>9 DEF SoundPort, Shaped
<1>11. Sound(x)
  <2>1. Len(left) <= MaxOutboundQueue
    <3>1. Len(left) \in Nat /\ Len(out) <= MaxOutboundQueue /\ MaxOutboundQueue \in Nat
      BY <1>3, LenProperties, TransportAssumption DEF SoundPort, Sound, Bounded
    <3> QED BY <1>1, <1>3, <3>1
  <2>2. Bounded(x)
    BY <1>8, <1>9, <2>1 DEF SoundPort, Sound, Bounded
  <2>3. Trusting(x)
    BY <1>4, <1>8, <1>9 DEF SoundPort, Sound, Trusting
  <2>4. OnTime(x)
    BY <1>9 DEF SoundPort, Sound, OnTime
  <2> QED BY <2>2, <2>3, <2>4 DEF Sound
<1>12. FlushOutbound(p) = q
  BY <1>8, <1>9 DEF FlushOutbound, n, left, said_, tx, x
<1>13. CASE left = <<>> /\ e.closing # "NONE"
  <2>1. Fair(e.closing)
    BY <1>13 DEF Fair, SoundPort, Sound, Bounded
  <2>2. y = Closed(x, e.closing)
    BY <1>13
  <2>3. Shaped(y) /\ Sound(y) /\ y.sock = 0
    BY <1>10, <1>11, <2>1, <2>2, ClosedSound
  <2>4. q.e = y /\ q.tx = tx /\ DOMAIN q = {"e", "tx"}
    OBVIOUS
  <2> HIDE DEF y, q
  <2> QED BY <1>5, <1>6, <1>12, <1>13, <2>3, <2>4 DEF SoundPort, Follows
<1>14. CASE ~(left = <<>> /\ e.closing # "NONE")
  <2>1. y = x
    BY <1>14
  <2>2. q.e = x /\ q.tx = tx /\ DOMAIN q = {"e", "tx"}
    BY <2>1
  <2> HIDE DEF y, q
  <2>3. SoundPort(q)
    BY <1>5, <1>6, <1>10, <1>11, <2>2 DEF SoundPort
  <2>4. Follows(q, p)
    BY <1>7, <1>8, <1>9, <2>2 DEF Follows, Mute
  <2> QED BY <1>9, <1>12, <2>2, <2>3, <2>4
<1> QED BY <1>13, <1>14

\* What one frame makes of an end that is neither closed nor closing.
LEMMA CommonSound ==
  ASSUME NEW e, Shaped(e), Sound(e), NEW m \in Frame,
         service.token = 1 /\ m.kind \in {"hello", "ack"} => m.n = 1
  PROVE  LET q == HandleCommon(e, m) IN
         /\ Shaped(q) /\ Sound(q)
         /\ \/ q.sock = 0 /\ q.status = "CLOSED" /\ q.closing = "NONE"
            \/ /\ q.sock = e.sock /\ q.status = e.status /\ q.sid = e.sid /\ q.closing = e.closing
               /\ q.sent = e.sent /\ q.quiet = e.quiet /\ (q.out = <<>> => e.out = <<>>)
<1>1. CASE m.kind = "ping"
  <2>1. Pong(m.sid) \in Frame /\ Pong(m.sid).kind = "pong"
    BY PongFrame DEF Frame
  <2>2. HandleCommon(e, m) = SendMessage(e, Pong(m.sid))
    BY <1>1 DEF HandleCommon
  <2> DEFINE f == Pong(m.sid)
  <2> HIDE DEF f
  <2>3. f \in Frame /\ f.kind = "pong" /\ HandleCommon(e, m) = SendMessage(e, f)
    BY <2>1, <2>2 DEF f
  <2> DEFINE q == SendMessage(e, f)
  <2>4. Shaped(q) /\ Sound(q) /\ Adds(q, e)
    BY <2>3, SentSound
  <2> HIDE DEF q
  <2> QED BY <2>3, <2>4 DEF Adds, q
<1>2. CASE m.kind = "pong"
  <2>1. HandleCommon(e, m) = e
    BY <1>2 DEF HandleCommon
  <2> QED BY <2>1
<1>3. CASE m.kind \notin {"ping", "pong"} /\ Len(e.events) >= MaxInboundQueue
  <2>1. HandleCommon(e, m) = Closed(e, "QUEUE_OVERFLOW")
    BY <1>3 DEF HandleCommon
  <2>2. Fair("QUEUE_OVERFLOW")
    BY DEF Fair
  <2> QED BY <2>1, <2>2, ClosedSound
<1>4. CASE m.kind \notin {"ping", "pong"} /\ ~(Len(e.events) >= MaxInboundQueue)
  <2> DEFINE v == Append(e.events, m)
             q == [e EXCEPT !.events = v]
  <2>1. HandleCommon(e, m) = q
    BY <1>4 DEF HandleCommon
  <2>2. v \in Seq(Frame) /\ Len(v) = Len(e.events) + 1 /\ Len(e.events) \in Nat
    BY AppendProperties, LenProperties DEF Shaped
  <2> HIDE DEF v
  <2>3. DOMAIN q = Fields /\ q.events = v /\ \A f \in Fields \ {"events"} : q[f] = e[f]
    BY DEF Shaped, Fields
  <2> HIDE DEF q
  <2>4. /\ q.role = e.role /\ q.status = e.status /\ q.reason = e.reason /\ q.sock = e.sock
        /\ q.closing = e.closing /\ q.sid = e.sid /\ q.out = e.out /\ q.quiet = e.quiet
        /\ q.sent = e.sent /\ q.left = e.left /\ q.attempt = e.attempt /\ q.wait = e.wait /\ q.token = e.token
    BY <2>3 DEF Fields
  <2>5. Shaped(q)
    BY <2>2, <2>3, <2>4 DEF Shaped
  <2>6. Bounded(q)
    BY <1>4, <2>2, <2>3, <2>4, TransportAssumption DEF Sound, Bounded
  <2>7. Trusting(q) /\ OnTime(q)
    BY <2>4 DEF Sound, Trusting, OnTime
  <2> QED BY <2>1, <2>4, <2>5, <2>6, <2>7 DEF Sound
<1> QED BY <1>1, <1>2, <1>3, <1>4

\* An end that gets into its session keeps time from now on.
LEMMA EnteredSound ==
  ASSUME NEW e, Shaped(e), Sound(e), e.status = "HANDSHAKING",
         NEW q, DOMAIN q = Fields, q.status = "CONNECTED", q.left = NoDeadline, q.sid \in Nat,
         \A f \in Fields \ {"sid", "status", "left"} : q[f] = e[f]
  PROVE  /\ Shaped(q) /\ Sound(q)
         /\ q.sock = e.sock /\ q.sent = e.sent /\ q.quiet = e.quiet /\ q.out = e.out /\ q.closing = e.closing
<1>1. /\ q.role = e.role /\ q.reason = e.reason /\ q.sock = e.sock
      /\ q.closing = e.closing /\ q.out = e.out /\ q.events = e.events /\ q.quiet = e.quiet
      /\ q.sent = e.sent /\ q.attempt = e.attempt /\ q.wait = e.wait /\ q.token = e.token
  BY DEF Fields
<1>2. NoDeadline \in -1..HandshakeTimeout /\ HeartbeatInterval \in Nat
  BY TransportAssumption DEF NoDeadline
<1>3. Shaped(q)
  BY <1>1 DEF Shaped
<1>4. Bounded(q)
  BY <1>1, <1>2 DEF Sound, Bounded
<1>5. Trusting(q)
  BY <1>1 DEF Sound, Trusting
<1>6. OnTime(q)
  BY <1>1, <1>2 DEF Sound, OnTime
<1> QED BY <1>1, <1>3, <1>4, <1>5, <1>6 DEF Sound

\* End q is end e after a frame.
Handled(q, e) ==
  \/ q.sock = 0 /\ q.status = "CLOSED" /\ q.closing = "NONE"
  \/ /\ q.sock = e.sock /\ q.sent = e.sent /\ q.quiet = e.quiet /\ (q.out = <<>> => e.out = <<>>)
     /\ q.status \in {e.status, "CONNECTED"}
     /\ (e.status = "CONNECTED" \/ e.role = "server" \/ q.status = e.status) => q.sid = e.sid

\* A frame of the one listener there was.
Genuine(m) == service.token = 1 /\ m.kind \in {"hello", "ack"} => m.n = 1

LEMMA MessageSound ==
  ASSUME Introduced, service.token \in Nat,
         NEW e, Shaped(e), Sound(e), e.status \in {"HANDSHAKING", "CONNECTED"},
         NEW m \in Frame, Genuine(m)
  PROVE  LET q == HandleMessage(e, m) IN Shaped(q) /\ Sound(q) /\ Handled(q, e)
<1> DEFINE q == HandleMessage(e, m)
<1>1. CASE e.status = "HANDSHAKING" /\ e.role = "server" /\ m.kind = "hello"
  <2>1. q = HandleHello(e, m)
    BY <1>1 DEF HandleMessage
  <2>2. CASE m.n # service.token
    <3>1. Fair("SESSION_MISMATCH")
      BY <1>1, <2>2 DEF Fair, Genuine
    <3>2. q = Closed(e, "SESSION_MISMATCH")
      BY <2>1, <2>2 DEF HandleHello
    <3> HIDE DEF q
    <3>3. Shaped(q) /\ Sound(q) /\ q.sock = 0 /\ q.status = "CLOSED" /\ q.closing = "NONE"
      BY <3>1, <3>2, ClosedSound
    <3> QED BY <3>3 DEF Handled, q
  <2>3. CASE m.n = service.token
    <3> DEFINE x == [e EXCEPT !.status = "CONNECTED", !.left = NoDeadline]
               a == Ack(e.sid, TRUE)
    <3>1. q = SendMessage(x, a)
      BY <2>1, <2>3 DEF HandleHello
    <3>2. /\ DOMAIN x = Fields /\ x.status = "CONNECTED" /\ x.left = NoDeadline /\ x.sid = e.sid
          /\ \A f \in Fields \ {"sid", "status", "left"} : x[f] = e[f]
      BY DEF Shaped, Fields
    <3>3. a \in Frame /\ a.n = 1
      BY AckFrame DEF Shaped
    <3> HIDE DEF x, a, q
    <3>4. x.sid \in Nat
      BY <3>2 DEF Shaped
    <3>5. /\ Shaped(x) /\ Sound(x)
          /\ x.sock = e.sock /\ x.sent = e.sent /\ x.quiet = e.quiet /\ x.out = e.out /\ x.closing = e.closing
      BY <1>1, <3>2, <3>4, EnteredSound
    <3>6. Shaped(q) /\ Sound(q) /\ Adds(q, x)
      BY <3>1, <3>3, <3>5, SentSound
    <3> QED BY <1>1, <3>2, <3>5, <3>6 DEF Adds, Handled, q
  <2> QED BY <2>2, <2>3
<1>2. CASE e.status = "HANDSHAKING" /\ e.role = "client" /\ m.kind = "ack"
  <2>1. q = HandleAck(e, m)
    BY <1>2 DEF HandleMessage
  <2>2. /\ DOMAIN q = Fields /\ q.status = "CONNECTED" /\ q.left = NoDeadline /\ q.sid = m.sid
        /\ \A f \in Fields \ {"sid", "status", "left"} : q[f] = e[f]
    BY <2>1 DEF HandleAck, Shaped, Fields
  <2> HIDE DEF q
  <2>3. q.sid \in Nat
    BY <2>2 DEF Frame
  <2>4. /\ Shaped(q) /\ Sound(q)
        /\ q.sock = e.sock /\ q.sent = e.sent /\ q.quiet = e.quiet /\ q.out = e.out /\ q.closing = e.closing
    BY <1>2, <2>2, <2>3, EnteredSound
  <2> QED BY <1>2, <2>2, <2>4 DEF Handled, q
<1>3. CASE ~(e.status = "HANDSHAKING" /\ e.role = "server" /\ m.kind = "hello")
           /\ ~(e.status = "HANDSHAKING" /\ e.role = "client" /\ m.kind = "ack")
  <2>1. q = HandleCommon(e, m)
    BY <1>3 DEF HandleMessage
  <2> HIDE DEF q
  <2>2. /\ Shaped(q) /\ Sound(q)
        /\ \/ q.sock = 0 /\ q.status = "CLOSED" /\ q.closing = "NONE"
           \/ /\ q.sock = e.sock /\ q.status = e.status /\ q.sid = e.sid /\ q.closing = e.closing
              /\ q.sent = e.sent /\ q.quiet = e.quiet /\ (q.out = <<>> => e.out = <<>>)
    BY <2>1, CommonSound DEF Genuine
  <2> QED BY <2>2 DEF Handled, q
<1> QED BY <1>1, <1>2, <1>3

\* Port q is port p after frames have been handled.
Onward(q, p) ==
  \/ q.e.sock = 0
  \/ /\ q.e.sock = p.e.sock /\ q.e.sent = p.e.sent /\ q.e.quiet = p.e.quiet
     /\ Mute(q.tx, q.e) => Mute(p.tx, p.e)
     /\ q.e.status \in {p.e.status, "CONNECTED"}
     /\ (p.e.status = "CONNECTED" \/ p.e.role = "server" \/ q.e.status = p.e.status) => q.e.sid = p.e.sid

LEMMA FrameSound ==
  ASSUME Introduced, service.token \in Nat,
         NEW p, SoundPort(p), Len(p.tx) <= Window, p.e.status \in {"HANDSHAKING", "CONNECTED", "CLOSED"},
         p.e.status = "CLOSED" => p.e.sock = 0, NEW expected, NEW m \in Frame, Genuine(m),
         p.e.status # "CLOSED" /\ service.token = 1 => ~WrongSession(expected, m)
  PROVE  LET q == HandleFrame(expected, p, m) IN SoundPort(q) /\ Onward(q, p)
<1> DEFINE q == HandleFrame(expected, p, m)
           e == p.e
<1>1. ASSUME NEW reason, Fair(reason)
      PROVE  LET r == [p EXCEPT !.e = Closed(p.e, reason)] IN SoundPort(r) /\ Onward(r, p)
  <2> DEFINE x == Closed(p.e, reason)
             r == [p EXCEPT !.e = x]
  <2>1. r.e = x /\ r.tx = p.tx /\ DOMAIN r = {"e", "tx"}
    BY DEF SoundPort
  <2>2. Shaped(x) /\ Sound(x) /\ x.sock = 0
    BY <1>1, ClosedSound DEF SoundPort
  <2> HIDE DEF x, r
  <2>3. SoundPort(r) /\ Onward(r, p)
    BY <2>1, <2>2 DEF SoundPort, Onward
  <2> QED BY <2>3 DEF r, x
<1>2. CASE e.status = "CLOSED" \/ e.closing # "NONE"
  <2>1. q = p
    BY <1>2 DEF HandleFrame
  <2> QED BY <2>1 DEF Onward
<1>3. CASE ~(e.status = "CLOSED" \/ e.closing # "NONE") /\ WrongVersion(m)
  <2>1. q = HandleVersionMismatch(p)
    BY <1>3 DEF HandleFrame
  <2>2. service.token # 1
    BY <1>3 DEF WrongVersion, Introduced, Genuine
  <2>3. Fair("PROTOCOL_INCOMPATIBLE")
    BY <2>2 DEF Fair
  <2>4. CASE ~(e.role = "server" /\ e.status = "HANDSHAKING")
    <3>1. q = [p EXCEPT !.e = Closed(p.e, "PROTOCOL_INCOMPATIBLE")]
      BY <2>1, <2>4 DEF HandleVersionMismatch
    <3> QED BY <1>1, <2>3, <3>1
  <2>5. CASE e.role = "server" /\ e.status = "HANDSHAKING"
    <3> DEFINE x == [e EXCEPT !.closing = "PROTOCOL_INCOMPATIBLE"]
               a == Ack(e.sid, FALSE)
               y == SendMessage(x, a)
               r == [p EXCEPT !.e = y]
    <3>1. q = IF y.sock = 0 THEN r ELSE FlushOutbound(r)
      BY <2>1, <2>5 DEF HandleVersionMismatch, CloseAfterSending
    <3>2. DOMAIN x = Fields /\ x.closing = "PROTOCOL_INCOMPATIBLE" /\ \A f \in Fields \ {"closing"} : x[f] = e[f]
      BY DEF SoundPort, Shaped, Fields
    <3>3. a \in Frame
      BY AckFrame DEF SoundPort, Shaped
    <3>4. r.e = y /\ r.tx = p.tx /\ DOMAIN r = {"e", "tx"}
      BY DEF SoundPort
    <3> HIDE DEF x, a
    <3>5. /\ x.role = e.role /\ x.status = e.status /\ x.reason = e.reason /\ x.sock = e.sock
          /\ x.sid = e.sid /\ x.events = e.events /\ x.quiet = e.quiet /\ x.out = e.out
          /\ x.sent = e.sent /\ x.left = e.left /\ x.attempt = e.attempt /\ x.wait = e.wait /\ x.token = e.token
      BY <3>2 DEF Fields
    <3>6. Shaped(x)
      BY <3>2, <3>5 DEF SoundPort, Shaped
    <3>7. Sound(x)
      BY <2>2, <3>2, <3>5 DEF SoundPort, Sound, Bounded, Trusting, OnTime
    <3>8. Shaped(y) /\ Sound(y) /\ Adds(y, x)
      BY <2>2, <3>3, <3>6, <3>7, SentSound
    <3> HIDE DEF y, r
    <3>9. SoundPort(r)
      BY <3>4, <3>8 DEF SoundPort
    <3>10. Onward(r, p)
      BY <3>4, <3>5, <3>8 DEF Onward, Adds, Mute
    <3>11. SoundPort(FlushOutbound(r)) /\ Follows(FlushOutbound(r), r)
      BY <2>2, <3>4, <3>9, FlushedSound
    <3> DEFINE z == FlushOutbound(r)
    <3> HIDE DEF z, q
    <3>12. CASE y.sock = 0
      BY <3>1, <3>9, <3>10, <3>12 DEF q
    <3>13. CASE y.sock # 0
      <4>1. q = z /\ SoundPort(z) /\ Follows(z, r)
        BY <3>1, <3>11, <3>13 DEF z
      <4>2. r.e.role = p.e.role \/ TRUE
        OBVIOUS
      <4>3. CASE z.e.sock = 0
        BY <4>1, <4>3 DEF Onward, q
      <4>4. CASE z.e.sock # 0
        <5>1. r.e.sock # 0
          BY <3>4, <3>13
        <5>2. Onward(z, p)
          BY <3>4, <3>5, <3>8, <3>10, <4>1, <4>4, <5>1 DEF Onward, Follows, Adds
        <5> QED BY <4>1, <5>2 DEF q
      <4> QED BY <4>3, <4>4
    <3> QED BY <3>12, <3>13
  <2> QED BY <2>4, <2>5
<1>4. CASE ~(e.status = "CLOSED" \/ e.closing # "NONE") /\ ~WrongVersion(m) /\ WrongSession(expected, m)
  <2>1. q = [p EXCEPT !.e = Closed(p.e, "SESSION_MISMATCH")]
    BY <1>4 DEF HandleFrame
  <2>2. Fair("SESSION_MISMATCH")
    BY <1>4 DEF Fair
  <2> QED BY <1>1, <2>1, <2>2
<1>5. CASE ~(e.status = "CLOSED" \/ e.closing # "NONE") /\ ~WrongVersion(m) /\ ~WrongSession(expected, m)
  <2> DEFINE x == HandleMessage(e, m)
  <2>1. q = [p EXCEPT !.e = x]
    BY <1>5 DEF HandleFrame
  <2>2. Shaped(x) /\ Sound(x) /\ Handled(x, e)
    BY <1>5, MessageSound DEF SoundPort
  <2> HIDE DEF x
  <2>3. q.e = x /\ q.tx = p.tx /\ DOMAIN q = {"e", "tx"}
    BY <2>1 DEF SoundPort
  <2> HIDE DEF q
  <2>4. SoundPort(q) /\ Onward(q, p)
    BY <2>2, <2>3 DEF SoundPort, Onward, Handled, Mute
  <2> QED BY <2>4 DEF q
<1> QED BY <1>2, <1>3, <1>4, <1>5
LEMMA OnwardOn ==
  ASSUME NEW p, NEW q, NEW r, Onward(q, p), Onward(r, q), p.e.role = q.e.role
  PROVE  Onward(r, p)
<1>1. CASE r.e.sock = 0
  BY <1>1 DEF Onward
<1>2. CASE r.e.sock # 0
  BY <1>2 DEF Onward
<1> QED BY <1>1, <1>2

\* The client is never surprised by a frame of its connection.
LEMMA ClientExpects ==
  ASSUME Ready, NEW c \in Conns, NEW p, NEW in \in Seq(Frame), in # <<>>, NEW waits \in BOOLEAN,
         ClientPort(c, p, in, waits), NEW expected, p.e.status # "CLOSED",
         p.e.status = "HANDSHAKING" => expected = NoSession,
         p.e.status = "CONNECTED" => expected \in {NoSession, p.e.sid}
  PROVE  ~WrongSession(expected, in[1])
<1> DEFINE e == p.e
<1>1. /\ IsEnd(e) /\ e.role = "client" /\ e.sock \in {0, c}
      /\ e.status \in {"HANDSHAKING", "CONNECTED"} /\ News("client", e)
      /\ Link(c, e, server, in, p.tx, Len(e.events), 0, waits)
  BY DEF ClientPort, Port
<1>2. CASE e.status = "HANDSHAKING"
  BY <1>2 DEF WrongSession
<1>3. CASE e.status = "CONNECTED"
  <2>1. e.sock = c /\ Len(e.events) \in Nat
    BY <1>1, <1>3, LenProperties DEF IsEnd
  <2>2. e.sid \in 1..MaxSessions
    <3>1. e.sid \in 1..sessions /\ sessions \in 0..MaxSessions /\ MaxSessions \in Nat
      BY <1>1, <1>3, ControlAssumption DEF News, Brings, Ready, Types
    <3> QED BY <3>1
  <2>3. PICK k \in Nat : k = Len(e.events)
    BY <2>1
  <2>4. Types /\ IsEnd(server)
    BY DEF Ready, Types
  <2>5. ComesNext("client", in[1], e.sid, k)
    <3>1. Link(c, e, server, in, p.tx, k, 0, waits)
      BY <1>1, <2>3
    <3> HIDE DEF e
    <3> QED BY <1>1, <1>3, <2>1, <2>2, <2>4, <3>1, ClientTakes
  <2>6. in[1].sid = e.sid
    BY <2>5 DEF ComesNext
  <2> QED BY <1>3, <2>6 DEF WrongSession
<1> QED BY <1>1, <1>2, <1>3

LEMMA ServerExpects ==
  ASSUME Ready, NEW c \in Conns, NEW p, NEW out \in Seq(Frame), out # <<>>, NEW waits \in BOOLEAN, ~waits,
         ServerPort(c, p, out, waits), p.e.status # "CLOSED", p.e.closing = "NONE"
  PROVE  ~WrongSession(p.e.sid, out[1])
<1> DEFINE e == p.e
<1>1. /\ IsEnd(e) /\ e.role = "server" /\ e.sock = c
      /\ e.status \in {"HANDSHAKING", "CONNECTED"} /\ News("server", e)
      /\ p.tx \in Seq(Frame)
      /\ Link(c, client, e, p.tx, out, 0, Len(e.events), waits)
  BY DEF ServerPort, Port, IsEnd
<1>2. Types /\ IsEnd(client) /\ client.role = "client" /\ Len(e.events) \in Nat
  BY <1>1, LenProperties DEF Ready, Types, IsEnd
<1>3. CASE e.status = "HANDSHAKING"
  <2>1. out[1].kind = "hello"
    <3> HIDE DEF e
    <3>1. e.closing = "NONE"
      BY DEF e
    <3> QED BY <1>1, <1>2, <1>3, <3>1, ServerHailed
  <2> QED BY <2>1 DEF WrongSession
<1>4. CASE e.status = "CONNECTED"
  <2>1. e.sid \in 1..MaxSessions
    <3>1. e.sid \in 1..sessions /\ sessions \in 0..MaxSessions /\ MaxSessions \in Nat
      BY <1>1, <1>4, ControlAssumption DEF News, Brings, Ready, Types
    <3> QED BY <3>1
  <2>2. PICK k \in Nat : k = Len(e.events)
    BY <1>2
  <2>3. ComesNext("server", out[1], e.sid, k)
    <3>1. Link(c, client, e, p.tx, out, 0, k, waits)
      BY <1>1, <2>2
    <3> HIDE DEF e
    <3> QED BY <1>1, <1>2, <1>4, <2>1, <3>1, ServerTakes, ZenonT(60)
  <2>4. out[1].sid = e.sid
    BY <2>3 DEF ComesNext
  <2> QED BY <2>4 DEF WrongSession
<1> QED BY <1>1, <1>3, <1>4

LEMMA ClientReadsSound ==
  ASSUME Ready, Introduced, service.token \in Nat,
         NEW c \in Conns, NEW p, NEW way \in Seq(Frame), NEW waits \in BOOLEAN,
         ClientPort(c, p, way, waits), SoundPort(p), service.token = 1 => Signed(way),
         NEW k \in 0..Len(way)
  PROVE  LET q == Reading(p.e.sid, p, SubSeq(way, 1, k))[k] IN SoundPort(q) /\ Onward(q, p)
<1> DEFINE expected == p.e.sid
           frames == SubSeq(way, 1, k)
           after == Reading(expected, p, frames)
           rest(i) == SubSeq(way, i + 1, Len(way))
           Good(i) == ClientPort(c, after[i], rest(i), waits) /\ SoundPort(after[i]) /\ Onward(after[i], p)
           T == {i \in 0..k : Good(i)}
<1>1. /\ Len(way) \in Nat /\ k \in Nat /\ frames \in Seq(Frame) /\ Len(frames) = k
      /\ \A i \in 1..k : frames[i] = way[i]
  BY LenProperties, Cut
<1> HIDE DEF frames
<1>2. after[0] = p /\ \A i \in 1..k : after[i] = HandleFrame(expected, after[i - 1], frames[i])
  BY <1>1, ReadingFrames
<1>3. p.e.role = "client" /\ (p.e.status = "HANDSHAKING" => expected = NoSession)
  BY DEF ClientPort, Port, IsEnd
<1> HIDE DEF after, expected
<1>4. 0 \in T
  <2>1. rest(0) = way
    <3>1. 0 \in 0..Len(way)
      BY <1>1
    <3> QED BY <3>1, Cut
  <2> HIDE DEF rest
  <2>2. Onward(p, p)
    BY DEF Onward
  <2> QED BY <1>1, <1>2, <2>1, <2>2
<1>5. ASSUME NEW i \in 1..k, i - 1 \in T PROVE i \in T
  <2> DEFINE j == i - 1
  <2>1. j \in 0..Len(way) /\ j < Len(way) /\ j + 1 = i
    BY <1>1
  <2> HIDE DEF j
  <2>2. rest(j) \in Seq(Frame) /\ rest(j) # <<>> /\ rest(j)[1] = way[i] /\ Tail(rest(j)) = rest(i)
    BY <2>1, Cut
  <2> DEFINE p_ == after[j]
             q_ == after[i]
             in == rest(j)
             m == way[i]
  <2> HIDE DEF rest
  <2>3. ClientPort(c, p_, in, waits) /\ SoundPort(p_) /\ Onward(p_, p)
    BY <1>5 DEF j
  <2>4. q_ = HandleFrame(expected, p_, m)
    BY <1>1, <1>2 DEF j
  <2>5. in \in Seq(Frame) /\ in # <<>> /\ in[1] = m /\ Tail(in) = rest(i)
    BY <2>2
  <2>6. m \in Frame /\ Genuine(m)
    BY <1>1, ElementOfSeq DEF Signed, Genuine
  <2> HIDE DEF p_, q_, in, m
  <2>7. ClientPort(c, q_, rest(i), waits)
    BY <2>3, <2>4, <2>5, ClientReads
  <2>8. /\ p_.e.status \in {"HANDSHAKING", "CONNECTED", "CLOSED"} /\ Len(p_.tx) <= Window
        /\ p_.e.role = "client" /\ (p_.e.status = "CLOSED" => p_.e.sock = 0)
        /\ p_.e.status # "CLOSED" => p_.e.sock # 0
    BY <2>3 DEF ClientPort, Port, IsEnd
  <2>9. ASSUME p_.e.status # "CLOSED" PROVE ~WrongSession(expected, m)
    <3>1. p_.e.sock # 0
      BY <2>8, <2>9
    <3>2. /\ p_.e.status \in {p.e.status, "CONNECTED"}
          /\ (p.e.status = "CONNECTED" \/ p_.e.status = p.e.status) => p_.e.sid = p.e.sid
      BY <2>3, <3>1 DEF Onward
    <3>3. p.e.status \in {"HANDSHAKING", "CONNECTED", "CLOSED"} /\ (p.e.status = "CLOSED" => p.e.sock = 0)
      BY DEF ClientPort, Port, IsEnd
    <3>4. p.e.sock = p_.e.sock
      BY <2>3, <3>1 DEF Onward
    <3>5. p_.e.status = "HANDSHAKING" => expected = NoSession
      BY <1>3, <3>2
    <3>6. p_.e.status = "CONNECTED" => expected \in {NoSession, p_.e.sid}
      BY <1>3, <3>1, <3>2, <3>3, <3>4 DEF expected
    <3> QED BY <2>3, <2>5, <2>9, <3>5, <3>6, ClientExpects
  <2>10. SoundPort(q_) /\ Onward(q_, p_)
    BY <2>3, <2>4, <2>6, <2>8, <2>9, FrameSound
  <2>11. Onward(q_, p)
    BY <1>3, <2>3, <2>8, <2>10, OnwardOn
  <2>12. i \in 0..k
    BY <1>1
  <2> QED BY <2>7, <2>10, <2>11, <2>12 DEF q_
<1> HIDE DEF rest
<1>6. k \in T
  <2> HIDE DEF T
  <2>1. \A i \in 1..k : i - 1 \in T => i \in T
    BY <1>5
  <2>2. \A i \in 0..k : i \in T
    BY <1>1, <1>4, <2>1, Counting
  <2> QED BY <1>1, <2>2
<1> QED BY <1>6 DEF after, frames, expected

LEMMA ServerReadsSound ==
  ASSUME Ready, Introduced, service.token \in Nat,
         NEW c \in Conns, NEW p, NEW way \in Seq(Frame), NEW waits \in BOOLEAN, ~waits,
         ServerPort(c, p, way, waits), SoundPort(p), service.token = 1 => Signed(way),
         NEW k \in 0..Len(way)
  PROVE  LET q == Reading(p.e.sid, p, SubSeq(way, 1, k))[k] IN SoundPort(q) /\ Onward(q, p)
<1> DEFINE expected == p.e.sid
           frames == SubSeq(way, 1, k)
           after == Reading(expected, p, frames)
           rest(i) == SubSeq(way, i + 1, Len(way))
           Good(i) == ServerPort(c, after[i], rest(i), waits) /\ SoundPort(after[i]) /\ Onward(after[i], p)
           T == {i \in 0..k : Good(i)}
<1>1. /\ Len(way) \in Nat /\ k \in Nat /\ frames \in Seq(Frame) /\ Len(frames) = k
      /\ \A i \in 1..k : frames[i] = way[i]
  BY LenProperties, Cut
<1> HIDE DEF frames
<1>2. after[0] = p /\ \A i \in 1..k : after[i] = HandleFrame(expected, after[i - 1], frames[i])
  BY <1>1, ReadingFrames
<1>3. p.e.role = "server"
  BY DEF ServerPort, Port
<1> HIDE DEF after, expected
<1>4. 0 \in T
  <2>1. rest(0) = way
    <3>1. 0 \in 0..Len(way)
      BY <1>1
    <3> QED BY <3>1, Cut
  <2> HIDE DEF rest
  <2>2. Onward(p, p)
    BY DEF Onward
  <2> QED BY <1>1, <1>2, <2>1, <2>2
<1>5. ASSUME NEW i \in 1..k, i - 1 \in T PROVE i \in T
  <2> DEFINE j == i - 1
  <2>1. j \in 0..Len(way) /\ j < Len(way) /\ j + 1 = i
    BY <1>1
  <2> HIDE DEF j
  <2>2. rest(j) \in Seq(Frame) /\ rest(j) # <<>> /\ rest(j)[1] = way[i] /\ Tail(rest(j)) = rest(i)
    BY <2>1, Cut
  <2> DEFINE p_ == after[j]
             q_ == after[i]
             in == rest(j)
             m == way[i]
  <2> HIDE DEF rest
  <2>3. ServerPort(c, p_, in, waits) /\ SoundPort(p_) /\ Onward(p_, p)
    BY <1>5 DEF j
  <2>4. q_ = HandleFrame(expected, p_, m)
    BY <1>1, <1>2 DEF j
  <2>5. in \in Seq(Frame) /\ in # <<>> /\ in[1] = m /\ Tail(in) = rest(i)
    BY <2>2
  <2>6. m \in Frame /\ Genuine(m)
    BY <1>1, ElementOfSeq DEF Signed, Genuine
  <2> HIDE DEF p_, q_, in, m
  <2>7. ServerPort(c, q_, rest(i), waits)
    BY <2>3, <2>4, <2>5, ServerReads
  <2>8. /\ p_.e.status \in {"HANDSHAKING", "CONNECTED", "CLOSED"} /\ Len(p_.tx) <= Window
        /\ p_.e.role = "server" /\ (p_.e.status = "CLOSED" => p_.e.sock = 0)
        /\ p_.e.status # "CLOSED" => p_.e.sock # 0
    BY <2>3 DEF ServerPort, Port, IsEnd
  <2>9. ASSUME p_.e.status # "CLOSED", service.token = 1 PROVE ~WrongSession(expected, m)
    <3>1. p_.e.sid = expected
      BY <1>3, <2>3, <2>8, <2>9 DEF Onward, expected
    <3>2. p_.e.closing = "NONE"
      BY <2>3, <2>9 DEF SoundPort, Sound, Trusting
    <3>3. ~WrongSession(p_.e.sid, in[1])
      BY <2>3, <2>5, <2>9, <3>2, ServerExpects
    <3> QED BY <2>5, <3>1, <3>3
  <2>10. SoundPort(q_) /\ Onward(q_, p_)
    BY <2>3, <2>4, <2>6, <2>8, <2>9, FrameSound
  <2>11. Onward(q_, p)
    BY <1>3, <2>3, <2>8, <2>10, OnwardOn
  <2>12. i \in 0..k
    BY <1>1
  <2> QED BY <2>7, <2>10, <2>11, <2>12 DEF q_
<1> HIDE DEF rest
<1>6. k \in T
  <2> HIDE DEF T
  <2>1. \A i \in 1..k : i - 1 \in T => i \in T
    BY <1>5
  <2>2. \A i \in 0..k : i \in T
    BY <1>1, <1>4, <2>1, Counting
  <2> QED BY <1>1, <2>2
<1> QED BY <1>6 DEF after, frames, expected
LEMMA TouchedSound ==
  ASSUME NEW p, SoundPort(p), NEW t, t = [p EXCEPT !.e.quiet = 0]
  PROVE  /\ SoundPort(t) /\ t.tx = p.tx /\ t.e.quiet = 0
         /\ \A f \in Fields \ {"quiet"} : t.e[f] = p.e[f]
<1> DEFINE e == p.e
           q == [e EXCEPT !.quiet = 0]
<1>1. DOMAIN t = {"e", "tx"} /\ t.e = q /\ t.tx = p.tx
  BY DEF SoundPort
<1>2. DOMAIN q = Fields /\ q.quiet = 0 /\ \A f \in Fields \ {"quiet"} : q[f] = e[f]
  BY DEF SoundPort, Shaped, Fields
<1> HIDE DEF q
<1>3. /\ q.role = e.role /\ q.status = e.status /\ q.reason = e.reason /\ q.sock = e.sock
      /\ q.closing = e.closing /\ q.sid = e.sid /\ q.events = e.events /\ q.out = e.out
      /\ q.sent = e.sent /\ q.left = e.left /\ q.attempt = e.attempt /\ q.wait = e.wait /\ q.token = e.token
  BY <1>2 DEF Fields
<1>4. Shaped(q)
  BY <1>2, <1>3 DEF SoundPort, Shaped
<1>5. Sound(q)
  BY <1>2, <1>3, TransportAssumption DEF SoundPort, Sound, Bounded, Trusting, OnTime
<1> QED BY <1>1, <1>2, <1>4, <1>5 DEF SoundPort

LEMMA TouchedPorts ==
  ASSUME Ready, NEW c \in Conns, NEW p, p.e.sock = c, NEW waits \in BOOLEAN, NEW way \in Seq(Frame),
         SoundPort(p), NEW t, t = [p EXCEPT !.e.quiet = 0]
  PROVE  /\ ClientPort(c, p, way, waits) => ClientPort(c, t, way, waits)
         /\ ServerPort(c, p, way, waits) => ServerPort(c, t, way, waits)
<1> DEFINE e == p.e
           q == t.e
<1>1. /\ DOMAIN t = {"e", "tx"} /\ t.tx = p.tx /\ q.quiet = 0 /\ DOMAIN q = Fields
      /\ \A f \in Fields \ {"quiet"} : q[f] = e[f]
  BY TouchedSound DEF SoundPort, Shaped
<1>2. /\ q.role = e.role /\ q.status = e.status /\ q.sock = e.sock
      /\ q.closing = e.closing /\ q.sid = e.sid /\ q.events = e.events /\ q.out = e.out
  BY <1>1 DEF Fields
<1>3. IsEnd(e) => IsEnd(q)
  BY <1>1 DEF IsEnd, Fields
<1>4. p.tx \o q.out = p.tx \o e.out /\ Alike(q, e)
  BY <1>2 DEF Alike
<1> HIDE DEF e, q
<1>5. ASSUME ClientPort(c, p, way, waits) PROVE ClientPort(c, t, way, waits)
  <2>1. /\ IsEnd(e) /\ e.role = "client" /\ e.sock = c /\ e.sock \in {0, c}
        /\ e.status \in {"HANDSHAKING", "CONNECTED", "CLOSED"}
        /\ p.tx \in Seq(Frame) /\ Len(p.tx) <= Window /\ News("client", e)
        /\ Link(c, e, server, way, p.tx, Len(e.events), 0, waits)
    BY <1>5 DEF ClientPort, Port, e
  <2>2. Link(c, q, server, way, p.tx, Len(q.events), 0, waits)
    BY <1>2, <1>3, <1>4, <2>1, ClientFlushes
  <2>3. News("client", q)
    BY <1>2, <2>1 DEF News, Brings
  <2> QED BY <1>1, <1>2, <1>3, <2>1, <2>2, <2>3 DEF ClientPort, Port, q
<1>6. ASSUME ServerPort(c, p, way, waits) PROVE ServerPort(c, t, way, waits)
  <2>1. /\ IsEnd(e) /\ e.role = "server" /\ e.sock = c /\ e.sock \in {0, c}
        /\ e.status \in {"HANDSHAKING", "CONNECTED", "CLOSED"}
        /\ p.tx \in Seq(Frame) /\ Len(p.tx) <= Window /\ News("server", e)
        /\ e.status = "HANDSHAKING" => NewToBoth(e.sid)
        /\ e.sid \in {server.sid, NoSession}
        /\ Link(c, client, e, p.tx, way, 0, Len(e.events), waits)
    BY <1>6 DEF ServerPort, Port, e
  <2>2. Link(c, client, q, p.tx, way, 0, Len(q.events), waits)
    BY <1>2, <1>3, <1>4, <2>1, ServerFlushes
  <2>3. News("server", q)
    BY <1>2, <2>1 DEF News, Brings
  <2> QED BY <1>1, <1>2, <1>3, <2>1, <2>2, <2>3 DEF ServerPort, Port, q
<1> QED BY <1>5, <1>6

\* Port q is port p after a read of k frames.
ReadOn(q, p, k) ==
  \/ q.e.sock = 0
  \/ /\ q.e.sock = p.e.sock /\ q.e.sent = p.e.sent
     /\ Mute(q.tx, q.e) => Mute(p.tx, p.e)
     /\ q.e.status \in {p.e.status, "CONNECTED"}
     /\ IF k = 0 THEN q.e.quiet = p.e.quiet /\ q.e.status = p.e.status ELSE q.e.quiet = 0

LEMMA ProcessSound ==
  ASSUME NEW p, SoundPort(p), p.e.sock # 0, NEW way \in Seq(Frame), NEW k \in 0..Len(way), NEW found,
         \/ found.end = "open" /\ found.frames = SubSeq(way, 1, k)
         \/ found.end \in {"closed", "error"} /\ k = 0,
         NEW t, t = [p EXCEPT !.e.quiet = 0],
         LET r == Reading(t.e.sid, t, SubSeq(way, 1, k))[k] IN SoundPort(r) /\ Onward(r, t)
  PROVE  LET q == ProcessIncoming(p, found) IN SoundPort(q) /\ ReadOn(q, p, k)
<1> DEFINE q == ProcessIncoming(p, found)
<1>1. CASE found.end \in {"closed", "error"} /\ k = 0
  <2>1. PICK reason \in {"PEER_CLOSED", "SOCKET_ERROR"} : q = [p EXCEPT !.e = Closed(p.e, reason)]
    BY <1>1 DEF ProcessIncoming
  <2>2. Fair(reason)
    BY <2>1 DEF Fair
  <2> DEFINE x == Closed(p.e, reason)
  <2>3. Shaped(x) /\ Sound(x) /\ x.sock = 0
    BY <2>2, ClosedSound DEF SoundPort
  <2>4. q.e = x /\ q.tx = p.tx /\ DOMAIN q = {"e", "tx"}
    BY <2>1 DEF SoundPort
  <2> HIDE DEF x, q
  <2>5. SoundPort(q) /\ ReadOn(q, p, k)
    BY <2>3, <2>4 DEF SoundPort, ReadOn
  <2> QED BY <2>5 DEF q
<1>2. CASE found.end = "open" /\ found.frames = SubSeq(way, 1, k)
  <2>1. Len(found.frames) = k
    BY <1>2, Cut
  <2>2. CASE found.frames = <<>>
    <3>1. q = p
      BY <1>2, <2>2 DEF ProcessIncoming
    <3>2. k = 0
      BY <2>1, <2>2
    <3> QED BY <3>1, <3>2 DEF ReadOn
  <2>3. CASE found.frames # <<>>
    <3>1. q = Reading(p.e.sid, t, found.frames)[Len(found.frames)]
      BY <1>2, <2>3 DEF ProcessIncoming
    <3>2. t.e.sid = p.e.sid /\ t.e.sock = p.e.sock /\ t.e.sent = p.e.sent /\ t.e.status = p.e.status
          /\ t.e.out = p.e.out /\ t.e.quiet = 0 /\ t.tx = p.tx
      <4>1. /\ t.tx = p.tx /\ t.e.quiet = 0 /\ \A f \in Fields \ {"quiet"} : t.e[f] = p.e[f]
        BY TouchedSound, ZenonT(60)
      <4> QED BY <4>1 DEF Fields
    <3>3. q = Reading(t.e.sid, t, SubSeq(way, 1, k))[k]
      BY <1>2, <2>1, <3>1, <3>2
    <3> HIDE DEF q
    <3>4. SoundPort(q) /\ Onward(q, t)
      BY <3>3
    <3>5. k # 0
      <4>1. found.frames \in Seq(Frame)
        BY <1>2, Cut
      <4> QED BY <2>1, <2>3, <4>1, EmptySeq
    <3>6. ReadOn(q, p, k)
      BY <3>2, <3>4, <3>5 DEF Onward, ReadOn, Mute
    <3> QED BY <3>4, <3>6 DEF q
  <2> QED BY <2>2, <2>3
<1> QED BY <1>1, <1>2

LEMMA ClientProcessesSound ==
  ASSUME Ready, Introduced, service.token \in Nat,
         NEW c \in Conns, NEW p, NEW way \in Seq(Frame), NEW waits \in BOOLEAN,
         ClientPort(c, p, way, waits), p.e.sock = c, SoundPort(p), service.token = 1 => Signed(way),
         NEW k \in 0..Len(way), NEW found,
         \/ found.end = "open" /\ found.frames = SubSeq(way, 1, k)
         \/ found.end \in {"closed", "error"} /\ k = 0
  PROVE  LET q == ProcessIncoming(p, found) IN SoundPort(q) /\ ReadOn(q, p, k)
<1> DEFINE t == [p EXCEPT !.e.quiet = 0]
           r == Reading(t.e.sid, t, SubSeq(way, 1, k))[k]
<1>1. SoundPort(t) /\ ClientPort(c, t, way, waits)
  BY TouchedSound, TouchedPorts
<1> HIDE DEF t
<1>2. SoundPort(r) /\ Onward(r, t)
  BY <1>1, ClientReadsSound
<1>3. p.e.sock # 0
  BY TransportAssumption
<1>4. t = [p EXCEPT !.e.quiet = 0]
  BY DEF t
<1> QED BY <1>2, <1>3, <1>4, ProcessSound

LEMMA ServerProcessesSound ==
  ASSUME Ready, Introduced, service.token \in Nat,
         NEW c \in Conns, NEW p, NEW way \in Seq(Frame), NEW waits \in BOOLEAN, ~waits,
         ServerPort(c, p, way, waits), p.e.sock = c, SoundPort(p), service.token = 1 => Signed(way),
         NEW k \in 0..Len(way), NEW found,
         \/ found.end = "open" /\ found.frames = SubSeq(way, 1, k)
         \/ found.end \in {"closed", "error"} /\ k = 0
  PROVE  LET q == ProcessIncoming(p, found) IN SoundPort(q) /\ ReadOn(q, p, k)
<1> DEFINE t == [p EXCEPT !.e.quiet = 0]
           r == Reading(t.e.sid, t, SubSeq(way, 1, k))[k]
<1>1. SoundPort(t) /\ ServerPort(c, t, way, waits)
  BY TouchedSound, TouchedPorts
<1> HIDE DEF t
<1>2. SoundPort(r) /\ Onward(r, t)
  BY <1>1, ServerReadsSound
<1>3. p.e.sock # 0
  BY TransportAssumption
<1>4. t = [p EXCEPT !.e.quiet = 0]
  BY DEF t
<1> QED BY <1>2, <1>3, <1>4, ProcessSound

\* A beat in time; without a fault the limit is out of reach.
LEMMA BeatSound ==
  ASSUME NEW e, Shaped(e), Sound(e), e.quiet \in Nat
  PROVE  LET q == HeartbeatAndTimeout(e) IN
         /\ Shaped(q) /\ Sound(q)
         /\ \/ q = e
            \/ q.sock = 0
            \/ q.sock = e.sock /\ q.status = e.status /\ q.quiet = e.quiet /\ q.out # <<>>
<1> DEFINE q == HeartbeatAndTimeout(e)
<1>1. CASE e.status = "CONNECTED" /\ e.quiet >= InactivityTimeout
  <2>1. Fair("INACTIVITY_TIMEOUT")
    BY <1>1, TransportAssumption DEF Fair, Sound, OnTime
  <2>2. q = Closed(e, "INACTIVITY_TIMEOUT")
    BY <1>1 DEF HeartbeatAndTimeout
  <2> QED BY <2>1, <2>2, ClosedSound
<1>2. CASE e.status = "CONNECTED" /\ ~(e.quiet >= InactivityTimeout) /\ e.sent >= HeartbeatInterval
  <2> DEFINE x == [e EXCEPT !.sent = 0]
             m == Ping(e.sid)
  <2>1. q = SendMessage(x, m)
    BY <1>2 DEF HeartbeatAndTimeout
  <2>2. DOMAIN x = Fields /\ x.sent = 0 /\ \A f \in Fields \ {"sent"} : x[f] = e[f]
    BY DEF Shaped, Fields
  <2>3. m \in Frame /\ m.kind = "ping"
    BY PongFrame DEF Shaped
  <2> HIDE DEF x, m
  <2>4. /\ x.role = e.role /\ x.status = e.status /\ x.reason = e.reason /\ x.sock = e.sock
        /\ x.closing = e.closing /\ x.sid = e.sid /\ x.events = e.events /\ x.out = e.out
        /\ x.quiet = e.quiet /\ x.left = e.left /\ x.attempt = e.attempt /\ x.wait = e.wait /\ x.token = e.token
    BY <2>2 DEF Fields
  <2>5. Shaped(x)
    BY <2>2, <2>4 DEF Shaped
  <2>6. Sound(x)
    BY <2>4 DEF Sound, Bounded, Trusting, OnTime
  <2> HIDE DEF q
  <2>7. Shaped(q) /\ Sound(q) /\ Adds(q, x)
    BY <2>1, <2>3, <2>5, <2>6, SentSound
  <2> QED BY <2>4, <2>7 DEF Adds, q
<1>3. CASE ~(e.status = "CONNECTED" /\ e.quiet >= InactivityTimeout)
           /\ ~(e.status = "CONNECTED" /\ ~(e.quiet >= InactivityTimeout) /\ e.sent >= HeartbeatInterval)
  <2>1. q = e
    BY <1>3 DEF HeartbeatAndTimeout
  <2> QED BY <2>1
<1> QED BY <1>1, <1>2, <1>3

\* Draining, and the handshake's deadline: without a fault it never passes.
LEMMA EnforcedSound ==
  ASSUME NEW x, Shaped(x), Sound(x)
  PROVE  LET e == EnforceHandshakeTimeout(Drained(x)) IN
         /\ Shaped(e) /\ Sound(e)
         /\ \/ e.sock = 0
            \/ /\ e.sock = x.sock /\ e.status = x.status /\ e.sid = x.sid /\ e.closing = x.closing
               /\ e.out = x.out /\ e.quiet = x.quiet /\ e.sent = x.sent /\ e.token = x.token
<1> DEFINE d == Drained(x)
           e == EnforceHandshakeTimeout(d)
<1>1. DOMAIN d = Fields /\ d.events = <<>> /\ \A f \in Fields \ {"events"} : d[f] = x[f]
  BY DEF Drained, Shaped, Fields
<1> HIDE DEF d
<1>2. /\ d.role = x.role /\ d.status = x.status /\ d.reason = x.reason /\ d.sock = x.sock
      /\ d.closing = x.closing /\ d.sid = x.sid /\ d.sent = x.sent /\ d.out = x.out
      /\ d.quiet = x.quiet /\ d.left = x.left /\ d.attempt = x.attempt /\ d.wait = x.wait
      /\ d.token = x.token
  BY <1>1 DEF Fields
<1>3. Shaped(d)
  BY <1>1, <1>2 DEF Shaped
<1>4. Sound(d)
  <2>1. Len(<<>>) = 0 /\ MaxInboundQueue \in Nat
    BY TransportAssumption
  <2> QED BY <1>1, <1>2, <2>1 DEF Sound, Bounded, Trusting, OnTime
<1>5. CASE d.status \in {"CONNECTING", "HANDSHAKING"} /\ d.left = 0
  <2>1. Fair("HANDSHAKE_TIMEOUT")
    BY <1>4, <1>5, TransportAssumption DEF Fair, Sound, OnTime, NoDeadline
  <2>2. e = Closed(d, "HANDSHAKE_TIMEOUT")
    BY <1>5 DEF EnforceHandshakeTimeout
  <2> HIDE DEF e
  <2>3. Shaped(e) /\ Sound(e) /\ e.sock = 0
    BY <1>3, <1>4, <2>1, <2>2, ClosedSound
  <2> QED BY <2>3 DEF e, d
<1>6. CASE ~(d.status \in {"CONNECTING", "HANDSHAKING"} /\ d.left = 0)
  <2>1. e = d
    BY <1>6 DEF EnforceHandshakeTimeout
  <2> HIDE DEF e
  <2> QED BY <1>2, <1>3, <1>4, <2>1 DEF e, d
<1> QED BY <1>5, <1>6

LEMMA ShapedEnd ==
  ASSUME NEW e, IsEnd(e), e.status # "ABSENT"
  PROVE  Shaped(e)
BY DEF IsEnd, Shaped

\* End q is end e after a poll in which it has read k frames, tx is what the
\* frames it had written before, out, have become.
Polled(q, tx, e, out, k) ==
  \/ q.sock = 0
  \/ /\ q.sock = e.sock /\ q.status \in {e.status, "CONNECTED"}
     /\ IF k = 0 THEN q.quiet = e.quiet /\ q.status = e.status ELSE q.quiet = 0
     /\ Mute(tx, q) => Mute(out, e) /\ q.sent = e.sent

\* Neither end falls behind the other by a poll of its own.
LEMMA BeatsOn ==
  ASSUME NEW e, NEW o, NEW in \in Seq(Frame), NEW out, Beats(e, o, in), Beats(o, e, out),
         e.status \in {"HANDSHAKING", "CONNECTED"}, e.sent \in Nat, o.sent \in Nat,
         NEW k \in 0..Len(in), NEW q, NEW tx, Polled(q, tx, e, out, k), q.sock # 0
  PROVE  Beats(q, o, SubSeq(in, k + 1, Len(in))) /\ Beats(o, q, tx)
<1> DEFINE rest == SubSeq(in, k + 1, Len(in))
<1>1. k = 0 => rest = in
  <2>1. SubSeq(in, 0 + 1, Len(in)) = in
    BY Cut
  <2> QED BY <2>1
<1> HIDE DEF rest
<1>2. Beats(q, o, rest)
  <2>1. CASE k = 0
    BY <1>1, <2>1 DEF Beats, Polled
  <2>2. CASE k # 0
    <3>1. q.sock = e.sock /\ q.quiet = 0
      BY <2>2 DEF Polled
    <3> QED BY <3>1 DEF Beats
  <2> QED BY <2>1, <2>2
<1>3. Beats(o, q, tx)
  <2> SUFFICES ASSUME o.status = "CONNECTED", q.sock = o.sock
               PROVE  /\ q.status = "HANDSHAKING" => o.quiet = 0
                      /\ q.status = "CONNECTED" /\ Mute(tx, q) => o.quiet <= q.sent
    BY DEF Beats
  <2>1. q.sock = e.sock /\ q.status \in {e.status, "CONNECTED"} /\ (Mute(tx, q) => Mute(out, e) /\ q.sent = e.sent)
    BY DEF Polled
  <2>2. e.status = "HANDSHAKING" => o.quiet = 0
    BY <2>1 DEF Beats
  <2>3. e.status = "CONNECTED" /\ Mute(out, e) => o.quiet <= e.sent
    BY <2>1 DEF Beats
  <2> QED BY <2>1, <2>2, <2>3
<1> QED BY <1>2, <1>3 DEF rest

\* The end that flushes, reads and beats.
LEMMA BeatenSound ==
  ASSUME NEW p, NEW f, NEW r, SoundPort(r), NEW k, Follows(f, p), ReadOn(r, f, k), r.e.quiet \in Nat
  PROVE  LET q == HeartbeatAndTimeout(r.e) IN Shaped(q) /\ Sound(q) /\ Polled(q, r.tx, p.e, p.tx, k)
<1> DEFINE q == HeartbeatAndTimeout(r.e)
<1>1. /\ Shaped(q) /\ Sound(q)
      /\ \/ q = r.e
         \/ q.sock = 0
         \/ q.sock = r.e.sock /\ q.status = r.e.status /\ q.quiet = r.e.quiet /\ q.out # <<>>
  BY BeatSound DEF SoundPort
<1> HIDE DEF q
<1>2. Polled(q, r.tx, p.e, p.tx, k)
  <2>1. CASE f.e.sock = 0 \/ r.e.sock = 0
    <3>1. r.e.sock = 0
      BY <2>1 DEF ReadOn
    <3> QED BY <1>1, <3>1 DEF Polled
  <2>2. CASE f.e.sock # 0 /\ r.e.sock # 0
    <3>1. /\ r.e.sock = p.e.sock /\ r.e.sent = p.e.sent
          /\ Mute(r.tx, r.e) => Mute(p.tx, p.e)
          /\ r.e.status \in {p.e.status, "CONNECTED"}
          /\ IF k = 0 THEN r.e.quiet = p.e.quiet /\ r.e.status = p.e.status ELSE r.e.quiet = 0
      BY <2>2 DEF ReadOn, Follows
    <3> QED BY <1>1, <3>1 DEF Polled, Mute
  <2> QED BY <2>1, <2>2
<1> QED BY <1>1, <1>2 DEF q

\* Draining changes nothing that was promised.
LEMMA DrainedSound ==
  ASSUME NEW x, Shaped(x), Sound(x)
  PROVE  LET d == Drained(x) IN
         /\ Shaped(d) /\ Sound(d)
         /\ d.sock = x.sock /\ d.status = x.status /\ d.closing = x.closing /\ d.role = x.role
         /\ d.quiet = x.quiet /\ d.sent = x.sent /\ d.out = x.out
<1> DEFINE d == Drained(x)
<1>1. DOMAIN d = Fields /\ d.events = <<>> /\ \A f \in Fields \ {"events"} : d[f] = x[f]
  BY DEF Drained, Shaped, Fields
<1> HIDE DEF d
<1>2. /\ d.role = x.role /\ d.status = x.status /\ d.reason = x.reason /\ d.sock = x.sock
      /\ d.closing = x.closing /\ d.sid = x.sid /\ d.sent = x.sent /\ d.out = x.out
      /\ d.quiet = x.quiet /\ d.left = x.left /\ d.attempt = x.attempt /\ d.wait = x.wait
      /\ d.token = x.token
  BY <1>1 DEF Fields
<1>3. Shaped(d)
  BY <1>1, <1>2 DEF Shaped
<1>4. Sound(d)
  <2>1. Len(<<>>) = 0 /\ MaxInboundQueue \in Nat
    BY TransportAssumption
  <2> QED BY <1>1, <1>2, <2>1 DEF Sound, Bounded, Trusting, OnTime
<1> QED BY <1>2, <1>3, <1>4 DEF d

LEMMA ClientReadsWell ==
  ASSUME SyncInv, Watch, NEW c \in Conns, client.sock = c,
         client.status \in {"HANDSHAKING", "CONNECTED"}, NEW found \in Arrivals(Drained(client))
  PROVE  LET port == [e |-> Drained(client), tx |-> pipe[c]["server"]]
             read == ProcessIncoming(FlushOutbound(port), found)
             q == HeartbeatAndTimeout(read.e)
         IN  /\ Shaped(q) /\ Sound(q) /\ read.tx \in Seq(Frame)
             /\ service.token = 1 => Signed(read.tx)
             /\ Len(found.frames) \in 0..Len(pipe[c]["client"])
             /\ Polled(q, read.tx, client, pipe[c]["server"], Len(found.frames))
<1> DEFINE e == Drained(client)
           way == pipe[c]["client"]
           out == pipe[c]["server"]
           w == Contains(backlog, c)
           port == [e |-> e, tx |-> out]
           flushed == FlushOutbound(port)
           read == ProcessIncoming(flushed, found)
           q == HeartbeatAndTimeout(read.e)
<1>1. /\ Ready /\ Types /\ IsEnd(client) /\ client.role = "client" /\ c # 0 /\ Introduced
      /\ service.token \in Nat
  BY TransportAssumption DEF SyncInv, Ready, Types, Watch
<1>2. /\ way \in Seq(Frame) /\ out \in Seq(Frame) /\ Len(out) <= Window /\ w \in BOOLEAN
  BY <1>1 DEF Types, Roles, Contains
<1>3. service.token = 1 => Signed(way) /\ Signed(out)
  BY <1>1 DEF Introduced, Roles
<1>4. Shaped(client) /\ Sound(client)
  BY <1>1, ShapedEnd DEF Watch
<1>5. /\ Shaped(e) /\ Sound(e) /\ e.sock = c /\ e.status = client.status /\ e.closing = client.closing
      /\ e.role = "client" /\ e.quiet = client.quiet /\ e.sent = client.sent /\ e.out = client.out
  BY <1>1, <1>4, DrainedSound
<1>6. ClientPort(c, port, way, w)
  BY ClientBegins
<1>7. PICK k \in 0..Len(way) :
        /\ Len(found.frames) = k
        /\ \/ found.end = "open" /\ found.frames = SubSeq(way, 1, k)
           \/ found.end \in {"closed", "error"} /\ k = 0
  <2>1. e.role \in Roles /\ found \in Arrivals(e)
    BY <1>5 DEF Roles
  <2> HIDE DEF e
  <2> QED BY <1>1, <1>5, <2>1, FoundFrames
<1>8. port.e = e /\ port.tx = out /\ DOMAIN port = {"e", "tx"}
  OBVIOUS
<1> HIDE DEF port, e, way, out, w, flushed, read
<1>9. SoundPort(port)
  BY <1>2, <1>3, <1>5, <1>8 DEF SoundPort
<1>10. ClientPort(c, flushed, way, w) /\ flushed.e.sock = c
  BY <1>5, <1>6, <1>8, ClientFlushed DEF flushed
<1>11. SoundPort(flushed) /\ Follows(flushed, port)
  <2>1. port.e.closing = "NONE"
    BY <1>1, <1>5, <1>8 DEF IsEnd
  <2>2. Len(port.tx) <= Window
    BY <1>2, <1>8
  <2> QED BY <1>9, <2>1, <2>2, FlushedSound DEF flushed
<1>12. SoundPort(read) /\ ReadOn(read, flushed, k)
  BY <1>1, <1>2, <1>3, <1>7, <1>10, <1>11, ClientProcessesSound DEF read
<1>13. read.e.quiet \in Nat
  <2>1. ClientPort(c, read, SubSeq(way, k + 1, Len(way)), w)
    BY <1>1, <1>2, <1>7, <1>10, ClientProcesses DEF read
  <2> QED BY <2>1 DEF ClientPort, Port, IsEnd
<1>14. Shaped(q) /\ Sound(q) /\ Polled(q, read.tx, port.e, port.tx, k)
  BY <1>11, <1>12, <1>13, BeatenSound
<1> HIDE DEF q
<1>15. Polled(q, read.tx, client, out, k)
  BY <1>5, <1>8, <1>14 DEF Polled, Mute
<1> QED BY <1>7, <1>12, <1>14, <1>15 DEF SoundPort, q, read, flushed, port, e, out, way

LEMMA ServerReadsWell ==
  ASSUME SyncInv, Watch, NEW c \in Conns, server.sock = c, NEW found \in Arrivals(Drained(server))
  PROVE  LET port == [e |-> Drained(server), tx |-> pipe[c]["client"]]
             read == ProcessIncoming(FlushOutbound(port), found)
             q == HeartbeatAndTimeout(read.e)
         IN  /\ Shaped(q) /\ Sound(q) /\ read.tx \in Seq(Frame)
             /\ service.token = 1 => Signed(read.tx)
             /\ Len(found.frames) \in 0..Len(pipe[c]["server"])
             /\ Polled(q, read.tx, server, pipe[c]["client"], Len(found.frames))
<1> DEFINE e == Drained(server)
           way == pipe[c]["server"]
           out == pipe[c]["client"]
           w == Contains(backlog, c)
           port == [e |-> e, tx |-> out]
           flushed == FlushOutbound(port)
           read == ProcessIncoming(flushed, found)
           q == HeartbeatAndTimeout(read.e)
<1>1. /\ Ready /\ Types /\ IsEnd(server) /\ server.role = "server" /\ c # 0 /\ Introduced
      /\ service.token \in Nat
  BY TransportAssumption DEF SyncInv, Ready, Types, Watch
<1>2. /\ way \in Seq(Frame) /\ out \in Seq(Frame) /\ Len(out) <= Window /\ w \in BOOLEAN
  BY <1>1 DEF Types, Roles, Contains
<1>3. service.token = 1 => Signed(way) /\ Signed(out)
  BY <1>1 DEF Introduced, Roles
<1>4. Shaped(server) /\ Sound(server)
  BY <1>1, ShapedEnd DEF Watch
<1>5. /\ Shaped(e) /\ Sound(e) /\ e.sock = c /\ e.status = server.status /\ e.closing = server.closing
      /\ e.role = "server" /\ e.quiet = server.quiet /\ e.sent = server.sent /\ e.out = server.out
  BY <1>1, <1>4, DrainedSound
<1>6. ServerPort(c, port, way, w) /\ ~w
  BY ServerBegins
<1>7. PICK k \in 0..Len(way) :
        /\ Len(found.frames) = k
        /\ \/ found.end = "open" /\ found.frames = SubSeq(way, 1, k)
           \/ found.end \in {"closed", "error"} /\ k = 0
  <2>1. e.role \in Roles /\ found \in Arrivals(e)
    BY <1>5 DEF Roles
  <2> HIDE DEF e
  <2> QED BY <1>1, <1>5, <2>1, FoundFrames
<1>8. port.e = e /\ port.tx = out /\ DOMAIN port = {"e", "tx"}
  OBVIOUS
<1> HIDE DEF port, e, way, out, w, flushed, read
<1>9. SoundPort(port)
  BY <1>2, <1>3, <1>5, <1>8 DEF SoundPort
<1>10. ServerPort(c, flushed, way, w)
  BY <1>1, <1>2, <1>5, <1>6, <1>8, ServerFlushed DEF flushed
<1>11. SoundPort(flushed) /\ Follows(flushed, port)
  <2>1. port.e.closing # "NONE" => service.token # 1
    BY <1>5, <1>8 DEF Sound, Trusting
  <2>2. Len(port.tx) <= Window
    BY <1>2, <1>8
  <2> QED BY <1>9, <2>1, <2>2, FlushedSound DEF flushed
<1>12. SoundPort(read) /\ ReadOn(read, flushed, k) /\ read.e.quiet \in Nat
  <2>1. CASE flushed.e.sock = c
    <3>1. SoundPort(read) /\ ReadOn(read, flushed, k)
      BY <1>1, <1>2, <1>3, <1>6, <1>7, <1>10, <1>11, <2>1, ServerProcessesSound DEF read
    <3>2. ServerPort(c, read, SubSeq(way, k + 1, Len(way)), w)
      BY <1>1, <1>2, <1>6, <1>7, <1>10, <2>1, ServerProcesses DEF read
    <3> QED BY <3>1, <3>2 DEF ServerPort, Port, IsEnd
  <2>2. CASE flushed.e.sock # c
    <3>1. flushed.e.sock = 0 /\ flushed.e.quiet \in Nat
      BY <1>10, <2>2 DEF ServerPort, Port, IsEnd
    <3>2. read = flushed
      BY <3>1 DEF ProcessIncoming, read
    <3> QED BY <1>11, <3>1, <3>2 DEF ReadOn
  <2> QED BY <2>1, <2>2
<1>14. Shaped(q) /\ Sound(q) /\ Polled(q, read.tx, port.e, port.tx, k)
  BY <1>11, <1>12, BeatenSound
<1> HIDE DEF q
<1>15. Polled(q, read.tx, server, out, k)
  BY <1>5, <1>8, <1>14 DEF Polled, Mute
<1> QED BY <1>7, <1>12, <1>14, <1>15 DEF SoundPort, q, read, flushed, port, e, out, way

\* What has to be shown of a step of an end or of both, the listener staying.
LEMMA WatchKept ==
  ASSUME SyncInv, Watch, NEW s, server' = s, Sound(s), s.status # "ABSENT",
         NEW q, client' = q, Sound(q), UNCHANGED <<service, advert>>,
         faults' = faults \/ faults' \in 1..MaxFaults,
         NEW pp, pipe' = pp, service.token = 1 => \A c \in Conns, r \in Roles : Signed(pp[c][r]),
         cut' \subseteq Conns, faults' = 0 => cut' \subseteq cut,
         faults' = 0 => \A c \in Conns : q.sock = c /\ s.sock = c =>
           Beats(q, s, pp[c]["client"]) /\ Beats(s, q, pp[c]["server"])
  PROVE  Watch'
<1>1. Sound(server)' /\ Sound(client)'
  BY DEF Sound, Bounded, Trusting, OnTime
<1>2. Introduced'
  BY DEF Introduced, Watch
<1>3. Pulse'
  <2>1. CASE faults' = 0
    <3>1. cut' = {}
      BY <2>1 DEF Watch, Pulse
    <3>2. ASSUME NEW c \in Conns, client'.sock = c, server'.sock = c
          PROVE  Beats(client', server', pipe'[c]["client"]) /\ Beats(server', client', pipe'[c]["server"])
      BY <2>1, <3>2
    <3> QED BY <3>1, <3>2 DEF Pulse
  <2>2. CASE faults' # 0
    BY <2>2 DEF Pulse
  <2> QED BY <2>1, <2>2
<1>4. cut' \subseteq Conns /\ faults' \in 0..MaxFaults /\ server'.status # "ABSENT"
  BY ControlAssumption DEF Watch
<1> QED BY <1>1, <1>2, <1>3, <1>4 DEF Watch

LEMMA RepipedSigned ==
  ASSUME Types, \A d \in Conns, r \in Roles : Signed(pipe[d][r]),
         NEW c \in Conns, NEW in, NEW out, Signed(in), Signed(out)
  PROVE  \A d \in Conns, r \in Roles : Signed(Repiped(c, in, out)[d][r])
<1> DEFINE pp == Repiped(c, in, out)
<1>1. /\ pp[c]["client"] = in /\ pp[c]["server"] = out
      /\ \A d \in Conns \ {c} : pp[d] = pipe[d]
  BY DEF Types, Repiped, Roles
<1> HIDE DEF pp
<1>2. ASSUME NEW d \in Conns, NEW r \in Roles PROVE Signed(pp[d][r])
  <2>1. CASE d = c
    BY <1>1, <2>1 DEF Roles
  <2>2. CASE d # c
    <3>1. pp[d] = pipe[d]
      BY <1>1, <2>2
    <3> QED BY <3>1
  <2> QED BY <2>1, <2>2
<1> QED BY <1>2 DEF pp

LEMMA ClientExchangesWell ==
  ASSUME SyncInv, Watch, client.status \in {"HANDSHAKING", "CONNECTED"}, Exchange(Drained(client)),
         UNCHANGED <<server, service, advert>>, faults' = faults \/ faults' \in 1..MaxFaults
  PROVE  Watch'
<1> DEFINE c == client.sock
           port == [e |-> Drained(client), tx |-> pipe[c]["server"]]
           way == pipe[c]["client"]
           out == pipe[c]["server"]
<1>1. Types /\ IsEnd(client) /\ IsEnd(server) /\ client.role = "client"
  BY DEF SyncInv, Types
<1>2. c \in Conns /\ c # 0
  BY <1>1, TransportAssumption DEF IsEnd
<1>3. Drained(client).sock = c /\ Drained(client).role = "client"
  BY <1>1, QuietEnd DEF Alike
<1>4. PICK found \in Arrivals(Drained(client)) :
        /\ client' = HeartbeatAndTimeout(ProcessIncoming(FlushOutbound(port), found).e)
        /\ pipe' = Carried(c, "client", Len(found.frames), ProcessIncoming(FlushOutbound(port), found).tx)
        /\ cut' = cut
  BY <1>2, <1>3 DEF Exchange, Outcomes, Other
<1> DEFINE read == ProcessIncoming(FlushOutbound(port), found)
<1>5. PICK q, tx, k :
        /\ q = HeartbeatAndTimeout(read.e) /\ tx = read.tx /\ k = Len(found.frames)
  OBVIOUS
<1>6. /\ Shaped(q) /\ Sound(q) /\ tx \in Seq(Frame)
      /\ service.token = 1 => Signed(tx)
      /\ k \in 0..Len(way)
      /\ Polled(q, tx, client, out, k)
  <2>1. client.sock = c
    OBVIOUS
  <2> HIDE DEF c
  <2> QED BY <1>2, <1>5, <2>1, ClientReadsWell
<1>7. PICK rest : rest = SubSeq(way, k + 1, Len(way))
  OBVIOUS
<1>8. PICK pp : pp = Repiped(c, rest, tx)
  OBVIOUS
<1>9. client' = q /\ pipe' = pp /\ cut' = cut
  <2>1. Carried(c, "client", k, tx) = Repiped(c, rest, tx)
    BY <1>2, <1>7, CarriedPipes
  <2>2. client' = q /\ pipe' = Carried(c, "client", k, tx) /\ cut' = cut
    BY <1>4, <1>5
  <2> QED BY <1>8, <2>1, <2>2
<1>10. way \in Seq(Frame) /\ out \in Seq(Frame)
  BY <1>1, <1>2 DEF Types, Roles
<1> HIDE DEF port, read
<1>11. ASSUME service.token = 1 PROVE \A d \in Conns, r \in Roles : Signed(pp[d][r])
  <2>1. \A d \in Conns, r \in Roles : Signed(pipe[d][r])
    BY <1>11 DEF Watch, Introduced
  <2>2. Signed(way)
    BY <1>2, <2>1 DEF Roles
  <2>3. Signed(rest)
    BY <1>6, <1>7, <1>10, <2>2, SignedParts
  <2> QED BY <1>1, <1>2, <1>6, <1>8, <1>11, <2>1, <2>3, RepipedSigned
<1>12. pp[c]["client"] = rest /\ pp[c]["server"] = tx
  BY <1>1, <1>2, <1>8 DEF Types, Repiped, Roles
<1>13. ASSUME faults' = 0, NEW d \in Conns, q.sock = d, server.sock = d
       PROVE  Beats(q, server, pp[d]["client"]) /\ Beats(server, q, pp[d]["server"])
  <2>1. q.sock # 0 /\ d = c
    BY <1>2, <1>6, <1>13, TransportAssumption DEF Polled
  <2>2. faults = 0
    BY <1>13
  <2>3. Beats(client, server, way) /\ Beats(server, client, out)
    BY <1>2, <1>13, <2>1, <2>2 DEF Watch, Pulse
  <2>4. client.sent \in Nat /\ server.sent \in Nat
    BY <1>1 DEF IsEnd
  <2> HIDE DEF way, out, c
  <2>5. Beats(q, server, rest) /\ Beats(server, q, tx)
    BY <1>6, <1>7, <1>10, <2>1, <2>3, <2>4, BeatsOn
  <2> QED BY <1>12, <2>1, <2>5
<1>14. server' = server /\ Sound(server) /\ server.status # "ABSENT" /\ cut' \subseteq Conns
  BY <1>9 DEF Watch
<1>15. PICK s : s = server
  OBVIOUS
<1> HIDE DEF c, way, out
<1> QED BY <1>6, <1>9, <1>11, <1>13, <1>14, <1>15, WatchKept

LEMMA ClientCompletesWell ==
  ASSUME SyncInv, Watch, client.status = "CONNECTING",
         CompleteConnect(EnforceHandshakeTimeout(Drained(client))),
         EnforceHandshakeTimeout(Drained(client)).status = "CONNECTING",
         UNCHANGED <<server, service, advert>>, faults' = faults \/ faults' \in 1..MaxFaults
  PROVE  Watch'
<1> DEFINE e == EnforceHandshakeTimeout(Drained(client))
           c == client.sock
           way == pipe[c]["client"]
           out == pipe[c]["server"]
           hello == Hello(e.token)
           ready == [e EXCEPT !.quiet = 0, !.sent = 0, !.status = "HANDSHAKING",
                              !.left = HandshakeTimeout, !.attempt = 0]
<1>1. /\ Types /\ Links /\ IsEnd(client) /\ IsEnd(server) /\ client.role = "client"
  BY DEF SyncInv, Types
<1>2. c \in Conns /\ c # 0
  BY <1>1, TransportAssumption DEF IsEnd
<1>3. /\ way \in Seq(Frame) /\ out \in Seq(Frame) /\ Len(out) <= Window
  BY <1>1, <1>2 DEF Types, Roles
<1>4. Shaped(client) /\ Sound(client)
  BY <1>1, ShapedEnd DEF Watch
<1>5. IsEnd(e) /\ e.role = "client" /\ e.sock # 0
  BY <1>1, Enforced DEF IsEnd
<1>6. /\ Shaped(e) /\ Sound(e)
      /\ e.sock = c /\ e.status = "CONNECTING" /\ e.closing = "NONE" /\ e.out = <<>>
  BY <1>4, <1>5, EnforcedSound DEF IsEnd
<1>7. PICK x, port, flushed :
        /\ x = SendMessage(ready, hello) /\ port = [e |-> x, tx |-> out]
        /\ flushed = FlushOutbound(port)
  OBVIOUS
<1>8. client' = flushed.e /\ pipe' = Carried(c, "client", 0, flushed.tx) /\ cut' = cut
  BY <1>6, <1>7 DEF CompleteConnect
<1>9. hello \in Frame /\ (service.token = 1 => hello.n = 1)
  <2>1. service.token = 1 => e.token = 1
    BY <1>5, <1>6 DEF Sound, Trusting
  <2>2. e.token \in Nat
    BY <1>5 DEF IsEnd
  <2> QED BY <2>1, <2>2 DEF Hello, Frame, Kinds, NoSession
<1> HIDE DEF e, hello
<1>10. /\ DOMAIN ready = Fields /\ ready.quiet = 0 /\ ready.sent = 0 /\ ready.status = "HANDSHAKING"
       /\ ready.left = HandshakeTimeout /\ ready.attempt = 0
       /\ \A f \in Fields \ {"quiet", "sent", "status", "left", "attempt"} : ready[f] = e[f]
  BY <1>6 DEF Shaped, Fields
<1> HIDE DEF ready
<1>11. /\ ready.role = e.role /\ ready.reason = e.reason /\ ready.sock = c /\ ready.closing = "NONE"
       /\ ready.sid = e.sid /\ ready.events = e.events /\ ready.out = <<>> /\ ready.wait = e.wait
       /\ ready.token = e.token
  BY <1>6, <1>10 DEF Fields
<1>12. Shaped(ready) /\ Sound(ready)
  <2>1. Shaped(ready)
    BY <1>6, <1>10, <1>11 DEF Shaped
  <2>2. /\ HandshakeTimeout \in -1..HandshakeTimeout /\ 0 \in 0..MaxAttempts
    BY TransportAssumption
  <2>3. Bounded(ready)
    BY <1>6, <1>10, <1>11, <2>2 DEF Sound, Bounded
  <2>4. Trusting(ready)
    BY <1>6, <1>10, <1>11 DEF Sound, Trusting
  <2>5. OnTime(ready)
    BY <1>6, <1>10, <1>11 DEF Sound, OnTime
  <2> QED BY <2>1, <2>3, <2>4, <2>5 DEF Sound
<1>13. Shaped(x) /\ Sound(x) /\ x.closing = "NONE" /\ x.sock \in {0, c} /\ x.status \in {"HANDSHAKING", "CLOSED"}
       /\ (x.sock # 0 => x.status = "HANDSHAKING")
  BY <1>2, <1>7, <1>9, <1>10, <1>11, <1>12, SentSound DEF Adds
<1>14. SoundPort(port) /\ port.e = x /\ port.tx = out
  <2>1. port.e = x /\ port.tx = out /\ DOMAIN port = {"e", "tx"}
    BY <1>7
  <2>2. service.token = 1 => Signed(out)
    BY <1>2 DEF Watch, Introduced, Roles
  <2> QED BY <1>3, <1>13, <2>1, <2>2 DEF SoundPort
<1>15. SoundPort(flushed) /\ Follows(flushed, port)
  BY <1>3, <1>7, <1>13, <1>14, FlushedSound
<1>16. PICK q, tx, pp : q = flushed.e /\ tx = flushed.tx /\ pp = Repiped(c, way, tx)
  OBVIOUS
<1>17. /\ Sound(q) /\ (service.token = 1 => Signed(tx))
       /\ \/ q.sock = 0
          \/ q.sock = c /\ q.status = "HANDSHAKING"
  BY <1>13, <1>14, <1>15, <1>16 DEF SoundPort, Follows
<1>18. client' = q /\ pipe' = pp
  <2>1. SubSeq(way, 0 + 1, Len(way)) = way
    <3>1. 0 \in 0..Len(way)
      BY <1>3, LenProperties
    <3> QED BY <1>3, <3>1, Cut
  <2>2. Carried(c, "client", 0, tx) = Repiped(c, SubSeq(way, 0 + 1, Len(way)), tx)
    BY <1>2, CarriedPipes
  <2> QED BY <1>8, <1>16, <2>1, <2>2
<1>19. ASSUME service.token = 1 PROVE \A d \in Conns, r \in Roles : Signed(pp[d][r])
  <2>1. \A d \in Conns, r \in Roles : Signed(pipe[d][r])
    BY <1>19 DEF Watch, Introduced
  <2>2. Signed(way)
    BY <1>2, <2>1 DEF Roles
  <2> QED BY <1>1, <1>2, <1>16, <1>17, <1>19, <2>1, <2>2, RepipedSigned
<1>20. ASSUME NEW d \in Conns, q.sock = d, server.sock = d
       PROVE  Beats(q, server, pp[d]["client"]) /\ Beats(server, q, pp[d]["server"])
  <2>1. d = c /\ q.status = "HANDSHAKING"
    BY <1>17, <1>20, TransportAssumption
  <2>2. server.status # "CONNECTED"
    <3>1. ToClient(c, client, server, Written(c, way, server), 0)
      BY <1>1, <1>2 DEF Links, Link
    <3> QED BY <1>20, <2>1, <3>1 DEF ToClient
  <2> QED BY <2>1, <2>2 DEF Beats
<1>21. server' = server /\ Sound(server) /\ server.status # "ABSENT" /\ cut' \subseteq Conns /\ cut' \subseteq cut
  BY <1>8 DEF Watch
<1>22. PICK s : s = server
  OBVIOUS
<1> HIDE DEF c, way, out
<1> QED BY <1>17, <1>18, <1>19, <1>20, <1>21, <1>22, WatchKept

LEMMA ClientConnectsWell ==
  ASSUME SyncInv, Watch, NEW e, Shaped(e), Sound(e), e.role = "client", BeginConnect(e),
         UNCHANGED <<server, service, advert>>, faults' = faults \/ faults' \in 1..MaxFaults
  PROVE  Watch'
<1>1. Types
  BY DEF SyncInv
<1>2. PICK c \in Free :
        /\ client' = [e EXCEPT !.sock = c, !.status = "CONNECTING", !.left = HandshakeTimeout]
        /\ pipe' = [pipe EXCEPT ![c] = [r \in Roles |-> <<>>]]
        /\ cut' = cut \ {c}
  BY DEF BeginConnect
<1>3. c \in Conns /\ server.sock # c
  BY <1>2 DEF Free, Holds
<1>4. PICK q, pp :
        /\ q = [e EXCEPT !.sock = c, !.status = "CONNECTING", !.left = HandshakeTimeout]
        /\ pp = [pipe EXCEPT ![c] = [r \in Roles |-> <<>>]]
  OBVIOUS
<1>5. /\ DOMAIN q = Fields /\ q.sock = c /\ q.status = "CONNECTING" /\ q.left = HandshakeTimeout
      /\ \A f \in Fields \ {"sock", "status", "left"} : q[f] = e[f]
  BY <1>4 DEF Shaped, Fields
<1>6. /\ q.role = e.role /\ q.reason = e.reason /\ q.out = e.out /\ q.closing = e.closing /\ q.events = e.events
      /\ q.wait = e.wait /\ q.attempt = e.attempt /\ q.token = e.token /\ q.quiet = e.quiet
  BY <1>5 DEF Fields
<1>7. Sound(q)
  <2>1. HandshakeTimeout \in -1..HandshakeTimeout
    BY TransportAssumption
  <2>2. Bounded(q)
    BY <1>5, <1>6, <2>1 DEF Sound, Bounded
  <2>3. Trusting(q)
    BY <1>6 DEF Sound, Trusting, Shaped
  <2>4. OnTime(q)
    BY <1>5, <1>6 DEF Sound, OnTime
  <2> QED BY <2>2, <2>3, <2>4 DEF Sound
<1>8. ASSUME service.token = 1 PROVE \A d \in Conns, r \in Roles : Signed(pp[d][r])
  <2> SUFFICES ASSUME NEW d \in Conns, NEW r \in Roles PROVE Signed(pp[d][r])
    OBVIOUS
  <2>1. CASE d = c
    <3>1. pp[d][r] = <<>>
      BY <1>1, <1>4, <2>1 DEF Types
    <3>2. <<>> \in Seq(Frame)
      OBVIOUS
    <3> QED BY <3>1, <3>2, SignedParts
  <2>2. CASE d # c
    <3>1. pp[d] = pipe[d]
      BY <1>1, <1>4, <2>2 DEF Types
    <3> QED BY <1>8, <3>1 DEF Watch, Introduced
  <2> QED BY <2>1, <2>2
<1>9. ASSUME NEW d \in Conns, q.sock = d, server.sock = d PROVE FALSE
  BY <1>3, <1>5, <1>9
<1>10. server' = server /\ Sound(server) /\ server.status # "ABSENT" /\ cut' \subseteq Conns /\ cut' \subseteq cut
  BY <1>2 DEF Watch
<1>11. client' = q /\ pipe' = pp
  BY <1>2, <1>4
<1>12. PICK s : s = server
  OBVIOUS
<1> QED BY <1>7, <1>8, <1>9, <1>10, <1>11, <1>12, WatchKept

\* The client is, or has become, an end without a connection.
LEMMA ClientIdlesWell ==
  ASSUME SyncInv, Watch, NEW q, client' = q, Sound(q), q.sock = 0,
         UNCHANGED <<server, pipe, cut, service, advert>>, faults' = faults \/ faults' \in 1..MaxFaults
  PROVE  Watch'
<1>1. service.token = 1 => \A d \in Conns, r \in Roles : Signed(pipe[d][r])
  BY DEF Watch, Introduced
<1>2. \A d \in Conns : q.sock # d
  BY TransportAssumption
<1>3. server' = server /\ Sound(server) /\ server.status # "ABSENT" /\ cut' \subseteq Conns /\ cut' \subseteq cut
  BY DEF Watch
<1>4. PICK s, pp : s = server /\ pp = pipe
  OBVIOUS
<1> QED BY <1>1, <1>2, <1>3, <1>4, WatchKept

LEMMA RetrySound ==
  ASSUME NEW e, Shaped(e), Sound(e), e.role = "client"
  PROVE  Sound(ScheduleRetry(e)) /\ ScheduleRetry(e).sock = 0
<1> DEFINE b == Backoff(e)
           q == [b EXCEPT !.sock = 0, !.status = "IDLE", !.left = NoDeadline]
<1>1. /\ DOMAIN b = Fields
      /\ \A f \in Fields \ {"attempt", "wait"} : b[f] = e[f]
      /\ b.attempt \in 0..MaxAttempts /\ b.wait \in 0..ReconnectMax
  BY BackoffSound DEF Shaped, Sound, Bounded
<1> HIDE DEF b
<1>2. /\ DOMAIN q = Fields /\ q.sock = 0 /\ q.status = "IDLE" /\ q.left = NoDeadline
      /\ q.attempt = b.attempt /\ q.wait = b.wait
      /\ \A f \in Fields \ {"attempt", "wait", "sock", "status", "left"} : q[f] = e[f]
  BY <1>1 DEF Fields
<1> HIDE DEF q
<1>3. /\ q.role = e.role /\ q.reason = e.reason /\ q.out = e.out /\ q.closing = e.closing /\ q.events = e.events
      /\ q.token = e.token
  BY <1>2 DEF Fields
<1>4. Bounded(q)
  <2>1. NoDeadline \in -1..HandshakeTimeout
    BY TransportAssumption DEF NoDeadline
  <2> QED BY <1>1, <1>2, <1>3, <2>1 DEF Sound, Bounded
<1>5. Trusting(q)
  BY <1>3 DEF Sound, Trusting, Shaped
<1>6. OnTime(q)
  BY <1>2, <1>3 DEF Sound, OnTime
<1> QED BY <1>2, <1>4, <1>5, <1>6 DEF Sound, ScheduleRetry, q, b

LEMMA ClientPollsWell ==
  ASSUME SyncInv, Watch, client.status # "ABSENT", NEW faulty \in BOOLEAN, ClientPoll(faulty),
         advert' = advert, faults' = faults \/ faults' \in 1..MaxFaults
  PROVE  Watch'
<1> DEFINE e == EnforceHandshakeTimeout(Drained(client))
<1>1. IsEnd(client) /\ client.role = "client" /\ Shaped(client) /\ Sound(client)
  BY ShapedEnd DEF SyncInv, Types, Watch
<1>2. /\ IsEnd(e) /\ e.role = "client"
      /\ \/ e = Drained(client) /\ Alike(e, client)
         \/ e.sock = 0 /\ e.status = "CLOSED"
  BY <1>1, Enforced
<1>3. Shaped(e) /\ Sound(e)
  BY <1>1, EnforcedSound
<1>4. /\ UNCHANGED <<server, service>>
      /\ \/ e.sock = 0 /\ BeginConnect(e)
         \/ ConnectFails(e)
         \/ e.sock = 0 /\ client' = e /\ UNCHANGED <<backlog, pipe, cut>>
         \/ e.status = "CONNECTING" /\ CompleteConnect(e)
         \/ e.status \in {"HANDSHAKING", "CONNECTED"} /\ Exchange(e)
  BY DEF ClientPoll
<1>5. CASE BeginConnect(e)
  <2> HIDE DEF e
  <2> QED BY <1>2, <1>3, <1>4, <1>5, ClientConnectsWell
<1>6. CASE ConnectFails(e)
  <2>1. PICK q : q = ScheduleRetry(e) /\ client' = q /\ UNCHANGED <<pipe, cut>>
    BY <1>6 DEF ConnectFails
  <2> HIDE DEF e
  <2>2. Sound(q) /\ q.sock = 0
    BY <1>2, <1>3, <2>1, RetrySound
  <2> QED BY <1>4, <2>1, <2>2, ClientIdlesWell
<1>7. CASE e.sock = 0 /\ client' = e /\ UNCHANGED <<backlog, pipe, cut>>
  <2> HIDE DEF e
  <2>1. PICK q : q = e
    OBVIOUS
  <2> QED BY <1>3, <1>4, <1>7, <2>1, ClientIdlesWell
<1>8. CASE e.status = "CONNECTING" /\ CompleteConnect(e)
  <2>1. client.status = "CONNECTING"
    BY <1>2, <1>8 DEF Alike
  <2> QED BY <1>4, <1>8, <2>1, ClientCompletesWell
<1>9. CASE e.status \in {"HANDSHAKING", "CONNECTED"} /\ Exchange(e)
  <2>1. e = Drained(client) /\ client.status \in {"HANDSHAKING", "CONNECTED"}
    BY <1>2, <1>9 DEF Alike
  <2> HIDE DEF e
  <2>2. Exchange(Drained(client))
    BY <1>9, <2>1
  <2> QED BY <1>4, <2>1, <2>2, ClientExchangesWell
<1> QED BY <1>4, <1>5, <1>6, <1>7, <1>8, <1>9

LEMMA ServerPollsWell ==
  ASSUME SyncInv, Watch, NEW allowed, ServerPoll(allowed), UNCHANGED <<advert, faults>>
  PROVE  Watch'
<1> DEFINE begun == EnforceHandshakeTimeout(Drained(server))
<1>1. /\ Types /\ Links /\ IsEnd(server) /\ server.role = "server" /\ Shaped(server) /\ Sound(server)
      /\ IsEnd(client)
  BY ShapedEnd DEF SyncInv, Types, Watch
<1>2. /\ IsEnd(begun) /\ begun.role = "server"
      /\ \/ begun = Drained(server) /\ Alike(begun, server)
         \/ begun.sock = 0
  BY <1>1, Enforced
<1>3. Shaped(begun) /\ Sound(begun)
  BY <1>1, EnforcedSound
<1>4. PICK done \in Outcomes(begun), listenerFirst \in BOOLEAN :
        LET admits == /\ backlog # <<>> /\ allowed
                      /\ done.port.e.sock = 0
                      /\ begun.sock # 0 => ~listenerFirst
            taken == IF admits THEN Accepted(done.port.e, Head(backlog)) ELSE done.port.e
        IN  /\ server' = HeartbeatAndTimeout(taken)
            /\ pipe' = Carried(begun.sock, "server", done.read, done.port.tx)
            /\ UNCHANGED <<client, cut, service>>
  BY DEF ServerPoll
<1>5. PICK x, y, pp :
        /\ x = done.port.e /\ y = HeartbeatAndTimeout(x)
        /\ pp = Carried(begun.sock, "server", done.read, done.port.tx)
  OBVIOUS
<1> DEFINE admits == /\ backlog # <<>> /\ allowed
                     /\ x.sock = 0
                     /\ begun.sock # 0 => ~listenerFirst
<1>6. /\ server' = IF admits THEN HeartbeatAndTimeout(Accepted(x, Head(backlog))) ELSE y
      /\ pipe' = pp
      /\ UNCHANGED <<client, cut, service>>
  BY <1>4, <1>5
<1>7. admits => backlog # <<>> /\ x.sock = 0
  OBVIOUS
\* The end and the pipes before anybody is let in.
<1>8. /\ Shaped(y) /\ Sound(y) /\ (x.sock = 0 => y = x)
      /\ service.token = 1 => \A d \in Conns, r \in Roles : Signed(pp[d][r])
      /\ faults = 0 => \A d \in Conns : client.sock = d /\ y.sock = d =>
           Beats(client, y, pp[d]["client"]) /\ Beats(y, client, pp[d]["server"])
  <2>1. CASE begun.sock = 0
    <3>1. x = begun /\ pp = pipe
      BY <1>5, <2>1 DEF Outcomes, Carried
    <3>2. HeartbeatAndTimeout(begun) = begun
      BY <1>2, <2>1 DEF HeartbeatAndTimeout, IsEnd
    <3>3. service.token = 1 => \A d \in Conns, r \in Roles : Signed(pp[d][r])
      BY <3>1 DEF Watch, Introduced
    <3>4. \A d \in Conns : begun.sock # d
      BY <2>1, TransportAssumption
    <3> HIDE DEF begun, admits
    <3>5. y = begun
      BY <1>5, <3>1, <3>2
    <3> QED BY <1>3, <3>1, <3>3, <3>4, <3>5
  <2>2. CASE begun.sock # 0
    <3> DEFINE c == server.sock
               port == [e |-> Drained(server), tx |-> pipe[c]["client"]]
               way == pipe[c]["server"]
               out == pipe[c]["client"]
    <3>1. begun = Drained(server) /\ begun.sock = c /\ c \in Conns /\ begun.role = "server" /\ c # 0
      BY <1>1, <1>2, <2>2, TransportAssumption DEF Alike, IsEnd
    <3> HIDE DEF begun, admits
    <3>2. PICK found \in Arrivals(Drained(server)) :
            done = [read |-> Len(found.frames), port |-> ProcessIncoming(FlushOutbound(port), found)]
      BY <2>2, <3>1 DEF Outcomes, Other
    <3> DEFINE read == ProcessIncoming(FlushOutbound(port), found)
    <3>3. PICK tx, k : tx = read.tx /\ k = Len(found.frames)
      OBVIOUS
    <3>4. y = HeartbeatAndTimeout(read.e) /\ x = read.e /\ pp = Carried(c, "server", k, tx)
      BY <1>5, <3>1, <3>2, <3>3
    <3>5. /\ Shaped(y) /\ Sound(y) /\ tx \in Seq(Frame)
          /\ service.token = 1 => Signed(tx)
          /\ k \in 0..Len(way)
          /\ Polled(y, tx, server, out, k)
      <4>1. server.sock = c
        OBVIOUS
      <4> HIDE DEF c
      <4> QED BY <3>1, <3>3, <3>4, <4>1, ServerReadsWell
    <3>6. x.sock = 0 => y = x
      <4>1. read.e.sock = 0 => HeartbeatAndTimeout(read.e) = read.e
        <5>1. server.sock = c
          OBVIOUS
        <5> HIDE DEF c
        <5> QED BY <3>1, <5>1, ServerReadsOn
      <4> QED BY <3>4, <4>1
    <3> HIDE DEF read, port
    <3>7. PICK rest : rest = SubSeq(way, k + 1, Len(way))
      OBVIOUS
    <3>8. pp = Repiped(c, tx, rest)
      BY <1>1, <3>1, <3>4, <3>7, CarriedPipes
    <3>9. way \in Seq(Frame) /\ out \in Seq(Frame)
      BY <1>1, <3>1 DEF Types, Roles
    <3>10. ASSUME service.token = 1 PROVE \A d \in Conns, r \in Roles : Signed(pp[d][r])
      <4>1. \A d \in Conns, r \in Roles : Signed(pipe[d][r])
        BY <3>10 DEF Watch, Introduced
      <4>2. Signed(way)
        BY <3>1, <4>1 DEF Roles
      <4>3. Signed(rest)
        BY <3>5, <3>7, <3>9, <4>2, SignedParts
      <4> QED BY <1>1, <3>1, <3>5, <3>8, <3>10, <4>1, <4>3, RepipedSigned
    <3>11. pp[c]["client"] = tx /\ pp[c]["server"] = rest
      BY <1>1, <3>1, <3>8 DEF Types, Repiped, Roles
    <3>12. ASSUME faults = 0, NEW d \in Conns, client.sock = d, y.sock = d
           PROVE  Beats(client, y, pp[d]["client"]) /\ Beats(y, client, pp[d]["server"])
      <4>1. y.sock # 0 /\ d = c
        BY <3>1, <3>5, <3>12, TransportAssumption DEF Polled
      <4>2. Beats(client, server, out) /\ Beats(server, client, way)
        BY <3>1, <3>12, <4>1 DEF Watch, Pulse
      <4>3. client.sent \in Nat /\ server.sent \in Nat /\ server.status \in {"HANDSHAKING", "CONNECTED"}
        BY <1>1, <3>1 DEF IsEnd
      <4> HIDE DEF way, out, c
      <4>4. Beats(y, client, rest) /\ Beats(client, y, tx)
        BY <3>5, <3>7, <3>9, <4>1, <4>2, <4>3, BeatsOn
      <4> QED BY <3>11, <4>1, <4>4
    <3> HIDE DEF way, out, c
    <3> QED BY <3>5, <3>6, <3>10, <3>12
  <2> QED BY <2>1, <2>2
<1> HIDE DEF begun, admits
<1>9. Sound(client) /\ cut \subseteq Conns /\ y.status # "ABSENT"
  BY <1>8 DEF Watch, Shaped
<1>10. PICK q : q = client
  OBVIOUS
<1>11. CASE ~admits
  <2>1. server' = y
    BY <1>6, <1>11
  <2> QED BY <1>6, <1>8, <1>9, <1>10, <2>1, WatchKept
<1>12. CASE admits
  <2>1. PICK d : d = Head(backlog)
    OBVIOUS
  <2>2. d \in Conns /\ Contains(backlog, d)
    BY <1>1, <1>7, <1>12, <2>1, Unqueued DEF Types
  <2>3. PICK s : s = Accepted(x, d)
    OBVIOUS
  <2>4. y = x
    BY <1>7, <1>8, <1>12
  <2>5. /\ DOMAIN s = Fields /\ s.sock = d /\ s.status = "HANDSHAKING" /\ s.quiet = 0 /\ s.sent = 0
        /\ s.left = HandshakeTimeout
        /\ \A f \in Fields \ {"sock", "status", "quiet", "sent", "left", "sid"} : s[f] = x[f]
    BY <1>8, <2>3, <2>4 DEF Accepted, Shaped, Fields
  <2>6. /\ s.role = x.role /\ s.reason = x.reason /\ s.out = x.out /\ s.closing = x.closing
        /\ s.events = x.events /\ s.wait = x.wait /\ s.attempt = x.attempt /\ s.token = x.token
    BY <2>5 DEF Fields
  <2>7. Sound(s)
    <3>1. HandshakeTimeout \in -1..HandshakeTimeout
      BY TransportAssumption
    <3>2. Bounded(s)
      BY <1>8, <2>4, <2>5, <2>6, <3>1 DEF Sound, Bounded
    <3>3. Trusting(s)
      BY <1>8, <2>4, <2>6 DEF Sound, Trusting, Shaped
    <3>4. OnTime(s)
      BY <1>8, <2>4, <2>5, <2>6 DEF Sound, OnTime
    <3> QED BY <3>2, <3>3, <3>4 DEF Sound
  <2>8. server' = s
    BY <1>6, <1>12, <2>1, <2>3, <2>5 DEF HeartbeatAndTimeout
  <2>9. ASSUME NEW b \in Conns, client.sock = b, s.sock = b
        PROVE  Beats(client, s, pp[b]["client"]) /\ Beats(s, client, pp[b]["server"])
    <3>1. b = d /\ client.sock = d
      BY <2>5, <2>9
    <3>2. client.status # "CONNECTED"
      <4>1. Link(d, client, server, pipe[d]["client"], pipe[d]["server"], 0, 0, Contains(backlog, d))
        BY <1>1, <2>2 DEF Links
      <4>2. Hailed(d, client, Written(d, pipe[d]["server"], client))
        BY <2>2, <4>1 DEF Link, Waiting
      <4> QED BY <3>1, <4>2 DEF Hailed
    <3> QED BY <2>5, <3>2 DEF Beats
  <2> QED BY <1>6, <1>8, <1>9, <1>10, <2>5, <2>7, <2>8, <2>9, WatchKept
<1> QED BY <1>11, <1>12

LEMMA FreshSound ==
  ASSUME NEW e, NEW role \in Roles, NEW status \in {"IDLE", "ABSENT"}, NEW token \in Nat,
         \/ e = Fresh(role) /\ status = "IDLE" /\ role = "server"
         \/ e = [Fresh(role) EXCEPT !.status = status] /\ status = "ABSENT"
         \/ e = [Fresh(role) EXCEPT !.token = token] /\ (service.token = 1 => token = 1)
  PROVE  Sound(e) /\ e.sock = 0
<1>1. /\ e.sock = 0 /\ e.role = role /\ e.out = <<>> /\ e.events = <<>> /\ e.left = NoDeadline /\ e.wait = 0
      /\ e.attempt = 0 /\ e.closing = "NONE" /\ e.reason = "NONE" /\ e.status \in {"IDLE", "ABSENT"}
      /\ role = "client" /\ e.status # "ABSENT" => e.token = token /\ (service.token = 1 => token = 1)
  BY DEF Fresh, Roles
<1>2. /\ Len(<<>>) = 0 /\ <<>> \in Seq(Frame) /\ NoDeadline \in -1..HandshakeTimeout /\ 0 \in 0..ReconnectMax
      /\ 0 \in 0..MaxAttempts /\ MaxOutboundQueue \in Nat /\ MaxInboundQueue \in Nat
  BY TransportAssumption DEF NoDeadline
<1>3. Bounded(e)
  BY <1>1, <1>2 DEF Bounded
<1>4. Signed(<<>>)
  BY <1>2, SignedParts
<1>5. Trusting(e)
  BY <1>1, <1>4 DEF Trusting
<1>6. OnTime(e)
  BY <1>1 DEF OnTime
<1> QED BY <1>1, <1>3, <1>5, <1>6 DEF Sound

LEMMA StartedSound ==
  ASSUME NEW a \in [token : Nat, compatible : BOOLEAN], service.token = 1 => a.token = 1
  PROVE  Sound(Started(a)) /\ Started(a).sock = 0
<1>1. "client" \in Roles /\ a.token \in Nat /\ 0 \in Nat
  BY DEF Roles
<1>2. CASE a.compatible
  <2>1. Started(a) = [Fresh("client") EXCEPT !.token = a.token]
    BY <1>2 DEF Started
  <2>2. "IDLE" \in {"IDLE", "ABSENT"}
    OBVIOUS
  <2> QED BY <1>1, <2>1, <2>2, FreshSound
<1>3. CASE ~a.compatible
  <2>1. Started(a) = [Fresh("client") EXCEPT !.status = "ABSENT"]
    BY <1>3 DEF Started
  <2>2. "ABSENT" \in {"IDLE", "ABSENT"}
    OBVIOUS
  <2> QED BY <1>1, <2>1, <2>2, FreshSound
<1> QED BY <1>2, <1>3

\* One more message from one of the ends.
LEMMA ServerSendsWell ==
  ASSUME SyncInv, Watch, ServerSends
  PROVE  Watch'
<1>1. /\ Types /\ Told /\ IsEnd(server) /\ IsEnd(client) /\ Shaped(server) /\ Sound(server) /\ Ready
  BY ShapedEnd DEF SyncInv, Types, Watch, Ready
<1>2. server.status = "CONNECTED" /\ server.sid \in 1..MaxSessions /\ server.sock # 0
  <2>1. told["server"] # NoSession /\ server.sid = told["server"]
    BY DEF ServerSends, SendSyncMessage
  <2>2. server.status \in {"CLOSED", "CONNECTED"}
    BY <1>1, <2>1 DEF Told, Informed
  <2>3. server.sock # 0 /\ server.status = "CONNECTED"
    BY <1>1, <2>1, <2>2 DEF IsEnd
  <2> QED BY <1>1, <2>3, ServerSession
<1> DEFINE m == Data(server.sid, said[server.sid]["server"] + 1)
<1>3. m \in Frame /\ m.kind = "data"
  <2>1. said[server.sid]["server"] \in Nat /\ server.sid \in Nat
    <3>1. "server" \in Roles /\ 0 \in Nat
      BY DEF Roles
    <3>2. said[server.sid]["server"] \in Nat
      BY <1>1, <1>2, <3>1, SessionTypes
    <3> QED BY <1>1, <3>2 DEF IsEnd
  <2> QED BY <2>1, DataFrame
<1>4. PICK s : s = SendMessage(server, m) /\ server' = s
  BY DEF ServerSends
<1> HIDE DEF m
<1>5. Shaped(s) /\ Sound(s) /\ Adds(s, server)
  BY <1>1, <1>3, <1>4, SentSound
<1>6. UNCHANGED <<client, pipe, cut, service, advert, faults>>
  BY DEF ServerSends, SendSyncMessage
<1>7. ASSUME faults = 0, NEW c \in Conns, client.sock = c, s.sock = c
      PROVE  Beats(client, s, pipe[c]["client"]) /\ Beats(s, client, pipe[c]["server"])
  <2>1. s.sock # 0 /\ server.sock = c
    BY <1>5, <1>7, TransportAssumption DEF Adds
  <2>2. Beats(client, server, pipe[c]["client"]) /\ Beats(server, client, pipe[c]["server"])
    BY <1>7, <2>1 DEF Watch, Pulse
  <2>3. \A way : Polled(s, way, server, way, 0)
    BY <1>5, <2>1 DEF Polled, Adds, Mute
  <2> DEFINE in == pipe[c]["server"]
  <2>4. in \in Seq(Frame) /\ 0 \in 0..Len(in) /\ SubSeq(in, 0 + 1, Len(in)) = in
    <3>1. in \in Seq(Frame)
      BY <1>1 DEF Types, Roles
    <3>2. 0 \in 0..Len(in)
      BY <3>1, LenProperties
    <3> QED BY <3>1, <3>2, Cut
  <2>5. server.sent \in Nat /\ client.sent \in Nat
    BY <1>1 DEF IsEnd
  <2> HIDE DEF in
  <2>6. Beats(server, client, in)
    BY <2>2 DEF in
  <2>7. Beats(s, client, SubSeq(in, 0 + 1, Len(in))) /\ Beats(client, s, pipe[c]["client"])
    BY <1>2, <2>1, <2>2, <2>3, <2>4, <2>5, <2>6, BeatsOn
  <2> QED BY <2>4, <2>7 DEF in
<1>8. service.token = 1 => \A d \in Conns, r \in Roles : Signed(pipe[d][r])
  BY DEF Watch, Introduced
<1>9. Sound(client) /\ cut \subseteq Conns /\ s.status # "ABSENT"
  BY <1>5 DEF Watch, Shaped
<1>10. PICK q, pp : q = client /\ pp = pipe
  OBVIOUS
<1> QED BY <1>4, <1>5, <1>6, <1>7, <1>8, <1>9, <1>10, WatchKept

LEMMA ClientSendsWell ==
  ASSUME SyncInv, Watch, ClientSends
  PROVE  Watch'
<1>1. /\ Types /\ Told /\ IsEnd(server) /\ IsEnd(client) /\ Sound(client) /\ Ready
  BY DEF SyncInv, Types, Watch, Ready
<1>2. client.status = "CONNECTED" /\ client.sid \in 1..MaxSessions /\ client.sock # 0 /\ Shaped(client)
  <2>1. told["client"] # NoSession /\ client.sid = told["client"]
    BY DEF ClientSends, SendSyncMessage
  <2>2. client.status \in {"CLOSED", "CONNECTED"}
    BY <1>1, <2>1 DEF Told, Informed
  <2>3. client.sock # 0 /\ client.status = "CONNECTED"
    BY <1>1, <2>1, <2>2 DEF IsEnd
  <2> QED BY <1>1, <2>3, ClientSession, ShapedEnd
<1> DEFINE m == Data(client.sid, said[client.sid]["client"] + 1)
<1>3. m \in Frame /\ m.kind = "data"
  <2>1. said[client.sid]["client"] \in Nat /\ client.sid \in Nat
    <3>1. "client" \in Roles /\ 0 \in Nat
      BY DEF Roles
    <3>2. said[client.sid]["client"] \in Nat
      BY <1>1, <1>2, <3>1, SessionTypes
    <3> QED BY <1>1, <3>2 DEF IsEnd
  <2> QED BY <2>1, DataFrame
<1>4. PICK q : q = SendMessage(client, m) /\ client' = q
  BY DEF ClientSends
<1> HIDE DEF m
<1>5. Shaped(q) /\ Sound(q) /\ Adds(q, client)
  BY <1>1, <1>2, <1>3, <1>4, SentSound
<1>6. UNCHANGED <<server, pipe, cut, service, advert, faults>>
  BY DEF ClientSends, SendSyncMessage
<1>7. ASSUME faults = 0, NEW c \in Conns, q.sock = c, server.sock = c
      PROVE  Beats(q, server, pipe[c]["client"]) /\ Beats(server, q, pipe[c]["server"])
  <2>1. q.sock # 0 /\ client.sock = c
    BY <1>5, <1>7, TransportAssumption DEF Adds
  <2>2. Beats(client, server, pipe[c]["client"]) /\ Beats(server, client, pipe[c]["server"])
    BY <1>7, <2>1 DEF Watch, Pulse
  <2>3. \A way : Polled(q, way, client, way, 0)
    BY <1>5, <2>1 DEF Polled, Adds, Mute
  <2> DEFINE in == pipe[c]["client"]
  <2>4. in \in Seq(Frame) /\ 0 \in 0..Len(in) /\ SubSeq(in, 0 + 1, Len(in)) = in
    <3>1. in \in Seq(Frame)
      BY <1>1 DEF Types, Roles
    <3>2. 0 \in 0..Len(in)
      BY <3>1, LenProperties
    <3> QED BY <3>1, <3>2, Cut
  <2>5. server.sent \in Nat /\ client.sent \in Nat
    BY <1>1 DEF IsEnd
  <2> HIDE DEF in
  <2>6. Beats(client, server, in)
    BY <2>2 DEF in
  <2>7. Beats(q, server, SubSeq(in, 0 + 1, Len(in))) /\ Beats(server, q, pipe[c]["server"])
    BY <1>2, <2>1, <2>2, <2>3, <2>4, <2>5, <2>6, BeatsOn
  <2> QED BY <2>4, <2>7 DEF in
<1>8. service.token = 1 => \A d \in Conns, r \in Roles : Signed(pipe[d][r])
  BY DEF Watch, Introduced
<1>9. Sound(server) /\ cut \subseteq Conns /\ server.status # "ABSENT"
  BY DEF Watch
<1>10. PICK s, pp : s = server /\ pp = pipe
  OBVIOUS
<1> QED BY <1>4, <1>5, <1>6, <1>7, <1>8, <1>9, <1>10, WatchKept

\* A step that leaves both ends and the pipes alone.
LEMMA Untouched ==
  ASSUME SyncInv, Watch, UNCHANGED <<server, client, pipe, service, advert>>,
         faults' = faults \/ faults' \in 1..MaxFaults,
         cut' \subseteq Conns, faults' = 0 => cut' \subseteq cut
  PROVE  Watch'
<1>1. PICK s, q, pp : s = server /\ q = client /\ pp = pipe
  OBVIOUS
<1>2. /\ Sound(s) /\ s.status # "ABSENT" /\ Sound(q)
      /\ service.token = 1 => \A c \in Conns, r \in Roles : Signed(pp[c][r])
      /\ faults' = 0 => \A c \in Conns : q.sock = c /\ s.sock = c =>
           Beats(q, s, pp[c]["client"]) /\ Beats(s, q, pp[c]["server"])
  BY <1>1 DEF Watch, Introduced, Pulse
<1> QED BY <1>1, <1>2, WatchKept

LEMMA AgedFields ==
  ASSUME NEW e, DOMAIN e = Fields, NEW a, a = Aged(e), NEW w, NEW q, q = a \/ q = [a EXCEPT !.wait = w]
  PROVE  /\ \A f \in Fields \ {"quiet", "sent", "left", "wait"} : q[f] = e[f]
         /\ q.quiet = IF e.status = "CONNECTED" THEN Least(e.quiet + 1, InactivityTimeout) ELSE e.quiet
         /\ q.sent = IF e.status = "CONNECTED" THEN Least(e.sent + 1, HeartbeatInterval) ELSE e.sent
         /\ q.left = IF e.left > 0 THEN e.left - 1 ELSE e.left
         /\ q.wait \in {e.wait, w}
<1>1. /\ DOMAIN a = Fields
      /\ \A f \in Fields \ {"quiet", "sent", "left"} : a[f] = e[f]
      /\ a.quiet = IF e.status = "CONNECTED" THEN Least(e.quiet + 1, InactivityTimeout) ELSE e.quiet
      /\ a.sent = IF e.status = "CONNECTED" THEN Least(e.sent + 1, HeartbeatInterval) ELSE e.sent
      /\ a.left = IF e.left > 0 THEN e.left - 1 ELSE e.left
  BY DEF Aged, Fields
<1>2. /\ \A f \in Fields \ {"wait"} : q[f] = a[f]
      /\ q.wait \in {a.wait, w}
  BY <1>1 DEF Fields
<1>3. /\ \A f \in Fields \ {"quiet", "sent", "left", "wait"} : q[f] = e[f]
      /\ q.quiet = a.quiet /\ q.sent = a.sent /\ q.left = a.left /\ a.wait = e.wait
  BY <1>1, <1>2 DEF Fields
<1> QED BY <1>1, <1>2, <1>3

\* Time passes for an end; without a fault, for one that had nothing to wait for.
LEMMA AgedSound ==
  ASSUME NEW e, IsEnd(e), Sound(e), NEW w \in 0..ReconnectMax,
         NEW a, a = Aged(e), NEW q, q = a \/ q = [a EXCEPT !.wait = w]
  PROVE  /\ Bounded(q) /\ Trusting(q)
         /\ q.sock = e.sock /\ q.status = e.status /\ q.out = e.out
         /\ /\ e.status \notin {"CONNECTING", "HANDSHAKING"}
            /\ e.status = "CONNECTED" => e.quiet < HeartbeatInterval
            => OnTime(q)
<1>1. DOMAIN e = Fields
  BY DEF IsEnd
<1>2. /\ \A f \in Fields \ {"quiet", "sent", "left", "wait"} : q[f] = e[f]
      /\ q.quiet = IF e.status = "CONNECTED" THEN Least(e.quiet + 1, InactivityTimeout) ELSE e.quiet
      /\ q.left = IF e.left > 0 THEN e.left - 1 ELSE e.left
      /\ q.wait \in {e.wait, w}
  <2>1. PICK v : v = w
    OBVIOUS
  <2>2. a = Aged(e) /\ (q = a \/ q = [a EXCEPT !.wait = v])
    BY <2>1
  <2> QED BY ONLY <1>1, <2>1, <2>2, AgedFields
<1>3. q.wait \in {e.wait, w}
  BY <1>2
<1>4. /\ q.role = e.role /\ q.reason = e.reason /\ q.out = e.out /\ q.closing = e.closing /\ q.events = e.events
      /\ q.attempt = e.attempt /\ q.token = e.token /\ q.status = e.status /\ q.sock = e.sock
  BY <1>2 DEF Fields
<1>5. Bounded(q)
  <2>1. q.left \in -1..HandshakeTimeout
    <3>1. e.left \in -1..HandshakeTimeout /\ HandshakeTimeout \in Nat
      BY TransportAssumption DEF Sound, Bounded
    <3>2. q.left = IF e.left > 0 THEN e.left - 1 ELSE e.left
      BY <1>2
    <3> QED BY <3>1, <3>2
  <2> QED BY <1>3, <1>4, <2>1 DEF Sound, Bounded
<1>6. Trusting(q)
  BY <1>4 DEF Sound, Trusting
<1>7. ASSUME e.status \notin {"CONNECTING", "HANDSHAKING"},
             e.status = "CONNECTED" => e.quiet < HeartbeatInterval
      PROVE  OnTime(q)
  <2>1. ASSUME faults = 0 PROVE q.left \in {NoDeadline, HandshakeTimeout}
    <3>1. e.left = NoDeadline
      BY <1>7 DEF IsEnd
    <3> QED BY <1>2, <3>1 DEF NoDeadline
  <2>2. ASSUME q.status = "CONNECTED" PROVE q.quiet <= HeartbeatInterval
    <3>1. e.quiet < HeartbeatInterval /\ q.quiet = Least(e.quiet + 1, InactivityTimeout) /\ e.quiet \in Nat
      BY <1>2, <1>4, <1>7, <2>2 DEF IsEnd
    <3> QED BY <3>1, TransportAssumption DEF Least
  <2>3. faults = 0 => q.reason \notin {"INACTIVITY_TIMEOUT", "HANDSHAKE_TIMEOUT"}
    BY <1>4 DEF Sound, OnTime
  <2>4. q.status # "HANDSHAKING"
    BY <1>4, <1>7
  <2> QED BY <2>1, <2>2, <2>3, <2>4 DEF OnTime
<1> QED BY <1>4, <1>5, <1>6, <1>7

\* When time may pass without a fault, both ends are in the session or none is in any.
LEMMA SettledEnds ==
  ASSUME SyncInv, Watch, AllSettled, faults = 0, NEW e, NEW o, NEW r, NEW other,
         \/ e = server /\ o = client /\ r = "server" /\ other = "client"
         \/ e = client /\ o = server /\ r = "client" /\ other = "server"
  PROVE  /\ e.status \notin {"CONNECTING", "HANDSHAKING"}
         /\ e.status = "CONNECTED" =>
              /\ o.sock = e.sock /\ o.status = "CONNECTED" /\ o.sent < HeartbeatInterval
              /\ Mute(pipe[e.sock][r], o)
<1>1. /\ Types /\ Links /\ IsEnd(server) /\ IsEnd(client) /\ client.role = "client" /\ server.role = "server"
      /\ cut = {} /\ backlog = <<>>
  BY DEF SyncInv, Types, Watch, Pulse, AllSettled
<1>2. \A c : ~Contains(backlog, c)
  BY <1>1 DEF Contains
<1>3. EndSettled(server) /\ (client.sock # 0 => EndSettled(client))
  <2>1. client.sock # 0 => client.status # "ABSENT"
    BY <1>1 DEF IsEnd
  <2> QED BY <2>1 DEF AllSettled, Present, Settled
<1>4. ASSUME server.sock # 0 \/ client.sock # 0
      PROVE  /\ server.sock = client.sock /\ server.sock # 0 /\ client.status = "CONNECTED" /\ server.status = "CONNECTED"
             /\ server.out = <<>> /\ client.out = <<>>
             /\ pipe[server.sock]["server"] = <<>> /\ pipe[server.sock]["client"] = <<>>
             /\ server.sent < HeartbeatInterval /\ client.sent < HeartbeatInterval
  <2>1. server.sock # 0 => client.sock = server.sock
    BY <1>1, <1>3 DEF EndSettled, Holds, Other
  <2>2. client.sock # 0 => client.sock = server.sock
    BY <1>1, <1>2, <1>3 DEF EndSettled, Holds, Other
  <2>3. PICK c : c = server.sock /\ c = client.sock /\ c # 0 /\ c \in Conns
    BY <1>1, <1>4, <2>1, <2>2 DEF IsEnd
  <2>4. /\ server.out = <<>> /\ client.out = <<>> /\ pipe[c]["server"] = <<>> /\ pipe[c]["client"] = <<>>
        /\ client.status # "CONNECTING"
    BY <1>1, <1>3, <2>3 DEF EndSettled
  <2>5. Link(c, client, server, <<>>, <<>>, 0, 0, Contains(backlog, c))
    BY <1>1, <2>3, <2>4 DEF Links
  <2>6. Written(c, <<>>, server) = <<>> /\ Written(c, <<>>, client) = <<>>
    <3>1. <<>> \o <<>> = <<>>
      OBVIOUS
    <3> QED BY <2>4, <3>1 DEF Written
  <2>7. ToClient(c, client, server, <<>>, 0) /\ ToServer(c, server, client, <<>>, 0)
    BY <2>3, <2>5, <2>6 DEF Link
  <2>8. client.status = "CONNECTED"
    <3>1. client.status \in {"HANDSHAKING", "CONNECTED"}
      BY <1>1, <2>3, <2>4 DEF IsEnd
    <3>2. client.status # "HANDSHAKING"
      <4> SUFFICES ASSUME client.status = "HANDSHAKING" PROVE FALSE
        OBVIOUS
      <4>1. server.status = "HANDSHAKING" /\ server.closing = "NONE"
        BY <2>3, <2>7 DEF ToClient
      <4> QED BY <2>3, <2>7, <4>1 DEF ToServer
    <3> QED BY <3>1, <3>2
  <2>9. server.status = "CONNECTED"
    BY <2>3, <2>7, <2>8 DEF ToClient
  <2>10. server.sent < HeartbeatInterval /\ client.sent < HeartbeatInterval
    BY <1>3, <2>3, <2>8, <2>9 DEF EndSettled
  <2> QED BY <2>3, <2>4, <2>8, <2>9, <2>10
<1>5. e.status \in {"CONNECTING", "HANDSHAKING", "CONNECTED"} => e.sock # 0
  BY <1>1 DEF IsEnd
<1>6. CASE e.sock = 0
  BY <1>5, <1>6
<1>7. CASE e.sock # 0
  <2>1. server.sock # 0 \/ client.sock # 0
    BY <1>7
  <2> QED BY <1>4, <2>1 DEF Mute
<1> QED BY <1>6, <1>7

LEMMA TimeWatched ==
  ASSUME SyncInv, Watch, Elapse, UNCHANGED <<cut, advert>>,
         \/ AllSettled /\ faults' = faults
         \/ faults' \in 1..MaxFaults /\ faults' = faults + 1
  PROVE  Watch'
<1>1. /\ Types /\ IsEnd(server) /\ IsEnd(client) /\ Sound(server) /\ Sound(client) /\ server.status # "ABSENT"
      /\ faults \in Nat /\ cut \subseteq Conns
  BY ControlAssumption DEF SyncInv, Types, Watch
<1>2. PICK w, s, a, q :
        /\ w \in 0..ReconnectMax
        /\ server' = s /\ s = Aged(server)
        /\ a = Aged(client) /\ client' = q /\ q = [a EXCEPT !.wait = w]
  <2>1. client.wait \in 0..ReconnectMax
    BY <1>1 DEF Sound, Bounded
  <2>2. 0 \in 0..ReconnectMax /\ (client.wait # 0 => client.wait - 1 \in 0..ReconnectMax)
    BY <2>1, TransportAssumption
  <2> QED BY <2>2 DEF Elapse
<1>3. UNCHANGED <<pipe, service>>
  BY DEF Elapse
<1>4. /\ Bounded(s) /\ Trusting(s) /\ s.sock = server.sock /\ s.status = server.status /\ s.out = server.out
      /\ Bounded(q) /\ Trusting(q) /\ q.sock = client.sock /\ q.status = client.status /\ q.out = client.out
  BY <1>1, <1>2, AgedSound
<1>5. CASE faults' \in 1..MaxFaults /\ faults' = faults + 1
  <2>1. faults' # 0 /\ faults' \in 0..MaxFaults
    BY <1>5, ControlAssumption
  <2>2. Bounded(server)' /\ Bounded(client)'
    BY <1>2, <1>4 DEF Bounded
  <2>3. Trusting(server)' /\ Trusting(client)'
    BY <1>2, <1>3, <1>4 DEF Trusting
  <2>4. OnTime(server)' /\ OnTime(client)' /\ Pulse'
    BY <2>1 DEF OnTime, Pulse
  <2>5. Introduced'
    BY <1>3 DEF Watch, Introduced
  <2>6. Sound(server)' /\ Sound(client)'
    BY <2>2, <2>3, <2>4 DEF Sound
  <2>7. server'.status # "ABSENT" /\ cut' \subseteq Conns
    BY <1>1, <1>2, <1>4
  <2> QED BY <2>1, <2>4, <2>5, <2>6, <2>7 DEF Watch
<1>6. CASE AllSettled /\ faults' = faults
  <2>1. ASSUME faults = 0
        PROVE  /\ server.status \notin {"CONNECTING", "HANDSHAKING"}
               /\ server.status = "CONNECTED" =>
                    /\ client.sock = server.sock /\ client.status = "CONNECTED" /\ client.sent < HeartbeatInterval
                    /\ Mute(pipe[server.sock]["server"], client)
    BY <1>6, <2>1, SettledEnds
  <2>2. ASSUME faults = 0
        PROVE  /\ client.status \notin {"CONNECTING", "HANDSHAKING"}
               /\ client.status = "CONNECTED" =>
                    /\ server.sock = client.sock /\ server.status = "CONNECTED" /\ server.sent < HeartbeatInterval
                    /\ Mute(pipe[client.sock]["client"], server)
    BY <1>6, <2>2, SettledEnds
  <2>3. ASSUME faults = 0, server.status = "CONNECTED" PROVE server.quiet <= client.sent
    <3>1. PICK c \in Conns : c = server.sock /\ c = client.sock
      BY <1>1, <2>1, <2>3 DEF IsEnd
    <3>2. Beats(server, client, pipe[c]["server"])
      BY <2>3, <3>1 DEF Watch, Pulse
    <3> QED BY <2>1, <2>3, <3>1, <3>2 DEF Beats
  <2>4. ASSUME faults = 0, client.status = "CONNECTED" PROVE client.quiet <= server.sent
    <3>1. PICK c \in Conns : c = server.sock /\ c = client.sock
      BY <1>1, <2>2, <2>4 DEF IsEnd
    <3>2. Beats(client, server, pipe[c]["client"])
      BY <2>4, <3>1 DEF Watch, Pulse
    <3> QED BY <2>2, <2>4, <3>1, <3>2 DEF Beats
  <2>5. /\ server.quiet \in Nat /\ server.sent \in Nat /\ client.quiet \in Nat /\ client.sent \in Nat
        /\ HeartbeatInterval \in Nat /\ InactivityTimeout \in Nat
    BY <1>1, TransportAssumption DEF IsEnd
  <2>6. Sound(s) /\ Sound(q)
    <3>1. CASE faults = 0
      <4>1. server.status = "CONNECTED" => server.quiet < HeartbeatInterval
        BY <2>1, <2>3, <2>5, <3>1
      <4>2. client.status = "CONNECTED" => client.quiet < HeartbeatInterval
        BY <2>2, <2>4, <2>5, <3>1
      <4>3. OnTime(s)
        BY <1>1, <1>2, <2>1, <3>1, <4>1, AgedSound
      <4>4. OnTime(q)
        BY <1>1, <1>2, <2>2, <3>1, <4>2, AgedSound
      <4> QED BY <1>4, <4>3, <4>4 DEF Sound
    <3>2. CASE faults # 0
      BY <1>4, <3>2 DEF Sound, OnTime
    <3> QED BY <3>1, <3>2
  <2>7. /\ server.status = "CONNECTED" => s.quiet = Least(server.quiet + 1, InactivityTimeout)
                                         /\ s.sent = Least(server.sent + 1, HeartbeatInterval)
        /\ client.status = "CONNECTED" => q.quiet = Least(client.quiet + 1, InactivityTimeout)
                                         /\ q.sent = Least(client.sent + 1, HeartbeatInterval)
    <3>1. DOMAIN server = Fields /\ DOMAIN client = Fields
      BY <1>1 DEF IsEnd
    <3>2. /\ s.quiet = IF server.status = "CONNECTED" THEN Least(server.quiet + 1, InactivityTimeout) ELSE server.quiet
          /\ s.sent = IF server.status = "CONNECTED" THEN Least(server.sent + 1, HeartbeatInterval) ELSE server.sent
      BY <1>2, <3>1, AgedFields
    <3>3. /\ q.quiet = IF client.status = "CONNECTED" THEN Least(client.quiet + 1, InactivityTimeout) ELSE client.quiet
          /\ q.sent = IF client.status = "CONNECTED" THEN Least(client.sent + 1, HeartbeatInterval) ELSE client.sent
      BY <1>2, <3>1, AgedFields
    <3> QED BY <3>2, <3>3
  <2>8. ASSUME faults = 0, NEW c \in Conns, q.sock = c, s.sock = c
        PROVE  Beats(q, s, pipe[c]["client"]) /\ Beats(s, q, pipe[c]["server"])
    <3>1. /\ q.status \notin {"CONNECTING", "HANDSHAKING"} /\ s.status \notin {"CONNECTING", "HANDSHAKING"}
          /\ q.status = "CONNECTED" <=> s.status = "CONNECTED"
      BY <1>4, <2>1, <2>2, <2>8
    <3>2. ASSUME q.status = "CONNECTED" PROVE q.quiet <= s.sent /\ s.quiet <= q.sent
      <4>1. /\ server.status = "CONNECTED" /\ client.status = "CONNECTED"
            /\ server.quiet <= client.sent /\ client.quiet <= server.sent
            /\ server.sent < HeartbeatInterval /\ client.sent < HeartbeatInterval
        BY <1>4, <2>1, <2>2, <2>3, <2>4, <2>8, <3>1, <3>2
      <4> QED BY <2>5, <2>7, <4>1, TransportAssumption DEF Least
    <3> QED BY <3>1, <3>2 DEF Beats
  <2>9. service.token = 1 => \A c \in Conns, r \in Roles : Signed(pipe[c][r])
    BY DEF Watch, Introduced
  <2>10. PICK pp : pp = pipe
    OBVIOUS
  <2>11. s.status # "ABSENT"
    BY <1>1, <1>4
  <2> QED BY <1>1, <1>2, <1>3, <1>6, <2>6, <2>8, <2>9, <2>10, <2>11, WatchKept
<1> QED BY <1>5, <1>6

LEMMA Watched ==
  ASSUME SyncInv, Watch, [Next]_vars
  PROVE  Watch'
<1>1. /\ Types /\ IsEnd(server) /\ IsEnd(client) /\ Sound(server) /\ Sound(client) /\ server.role = "server"
      /\ server.status # "ABSENT" /\ cut \subseteq Conns /\ faults \in 0..MaxFaults /\ Introduced
  BY DEF SyncInv, Types, Watch
<1>2. Fault => faults' \in 1..MaxFaults /\ faults' = faults + 1
  BY <1>1, ControlAssumption DEF Fault
<1>3. CASE PollServer
  BY <1>3, ServerPollsWell DEF PollServer
<1>4. CASE PollClient
  <2>1. FALSE \in BOOLEAN /\ ClientPoll(FALSE) /\ client.status # "ABSENT" /\ advert' = advert /\ faults' = faults
    BY <1>4 DEF PollClient, Present
  <2> QED BY <2>1, ClientPollsWell
<1>5. CASE RefusedConnection
  <2>1. TRUE \in BOOLEAN /\ ClientPoll(TRUE) /\ client.status # "ABSENT" /\ advert' = advert /\ faults' \in 1..MaxFaults
    BY <1>2, <1>5 DEF RefusedConnection, Present
  <2> QED BY <2>1, ClientPollsWell
<1>6. CASE ServerSends
  BY <1>6, ServerSendsWell
<1>7. CASE ClientSends
  BY <1>7, ClientSendsWell
<1>8. ASSUME NEW r \in Roles, MidiConnected(r) PROVE Watch'
  <2>1. UNCHANGED <<server, pipe, cut, service, advert, faults>>
    BY <1>8 DEF MidiConnected
  <2>2. CASE r = "client"
    <3>1. PICK q : q = Started(advert) /\ client' = q
      BY <1>8, <2>2 DEF MidiConnected
    <3>2. service.token = 1 => advert.token = 1
      BY <1>1 DEF Introduced
    <3>3. Sound(q) /\ q.sock = 0
      BY <1>1, <3>1, <3>2, StartedSound DEF Types
    <3> QED BY <2>1, <3>1, <3>3, ClientIdlesWell
  <2>3. CASE r # "client"
    <3>1. client' = client
      BY <1>8, <2>3 DEF MidiConnected
    <3> QED BY <1>1, <2>1, <3>1, Untouched
  <2> QED BY <2>2, <2>3
<1>9. CASE ClientMidiEnds
  <2>1. PICK q : q = [Fresh("client") EXCEPT !.status = "ABSENT"] /\ client' = q
    BY <1>9 DEF ClientMidiEnds
  <2>2. Sound(q) /\ q.sock = 0
    <3>1. "client" \in Roles /\ 0 \in Nat /\ "ABSENT" \in {"IDLE", "ABSENT"}
      BY DEF Roles
    <3> QED BY <2>1, <3>1, FreshSound
  <2>3. UNCHANGED <<server, pipe, cut, service, advert>> /\ faults' \in 1..MaxFaults
    BY <1>2, <1>9 DEF ClientMidiEnds
  <2> QED BY <2>1, <2>2, <2>3, ClientIdlesWell
<1>10. CASE ServerMidiEnds
  <2>1. UNCHANGED <<client, pipe, cut, service, advert>> /\ faults' \in 1..MaxFaults
    BY <1>2, <1>10 DEF ServerMidiEnds
  <2>2. CASE server.sock = 0
    <3>1. server' = server
      BY <1>10, <2>2 DEF ServerMidiEnds
    <3> QED BY <1>1, <2>1, <3>1, Untouched
  <2>3. CASE server.sock # 0
    <3>1. PICK s : s = Closed(server, "ADDRESS_REJECTED") /\ server' = s
      BY <1>10, <2>3 DEF ServerMidiEnds
    <3>2. Shaped(server) /\ Fair("ADDRESS_REJECTED")
      BY <1>1, ShapedEnd DEF Fair
    <3>3. Sound(s) /\ s.status # "ABSENT"
      BY <1>1, <3>1, <3>2, ClosedSound
    <3>4. service.token = 1 => \A c \in Conns, r \in Roles : Signed(pipe[c][r])
      BY <1>1 DEF Introduced
    <3>5. faults' # 0
      BY <2>1
    <3>6. PICK q, pp : q = client /\ pp = pipe
      OBVIOUS
    <3> QED BY <1>1, <2>1, <3>1, <3>3, <3>4, <3>5, <3>6, WatchKept
  <2> QED BY <2>2, <2>3
<1>11. CASE ServerRestarts
  <2>1. PICK s : s = Fresh("server") /\ server' = s
    BY <1>11 DEF ServerRestarts
  <2>2. Sound(s) /\ s.status # "ABSENT"
    <3>1. "server" \in Roles /\ 0 \in Nat /\ "IDLE" \in {"IDLE", "ABSENT"}
      BY DEF Roles
    <3>2. s.status = "IDLE"
      BY <2>1 DEF Fresh
    <3> QED BY <2>1, <3>1, <3>2, FreshSound
  <2>3. UNCHANGED <<client, cut>> /\ faults' \in 1..MaxFaults
    BY <1>2, <1>11 DEF ServerRestarts
  <2>4. service'.token = service.token + 1 /\ service.token \in Nat /\ service.token # 0
    BY <1>1, <1>11 DEF ServerRestarts, Types, Introduced
  <2>5. service'.token # 1 /\ service'.token # 0 /\ faults' # 0 /\ faults' \in 0..MaxFaults
    BY <2>3, <2>4, ControlAssumption
  <2>6. Bounded(server)' /\ Bounded(client)'
    BY <1>1, <2>1, <2>2, <2>3 DEF Sound, Bounded
  <2>7. Sound(server)' /\ Sound(client)'
    BY <2>5, <2>6 DEF Sound, Trusting, OnTime
  <2>8. Introduced' /\ Pulse'
    BY <2>5 DEF Introduced, Pulse
  <2> QED BY <1>1, <2>1, <2>2, <2>3, <2>5, <2>7, <2>8 DEF Watch
<1>12. CASE DiscoverService
  <2>1. UNCHANGED <<server, pipe, cut, service, faults>>
    BY <1>12 DEF DiscoverService
  <2>2. service.token # 1
    BY <1>1, <1>12 DEF DiscoverService, Introduced
  <2>3. PICK q : client' = q /\ q = IF midi["client"] THEN Started(service) ELSE client
    BY <1>12 DEF DiscoverService
  <2>4. Sound(q) /\ (q.sock = 0 \/ q = client)
    BY <1>1, <2>2, <2>3, StartedSound DEF Types
  <2>5. Sound(server)' /\ Sound(client)'
    BY <1>1, <2>1, <2>3, <2>4 DEF Sound, Bounded, Trusting, OnTime
  <2>6. Introduced'
    BY <1>1, <2>1, <2>2 DEF Introduced
  <2>7. Pulse'
    <3>1. CASE q = client
      BY <2>1, <2>3, <3>1 DEF Watch, Pulse
    <3>2. CASE q.sock = 0
      <4>1. \A c \in Conns : q.sock # c
        BY <3>2, TransportAssumption
      <4> QED BY <2>1, <2>3, <4>1 DEF Watch, Pulse
    <3> QED BY <2>4, <3>1, <3>2
  <2> QED BY <1>1, <2>1, <2>5, <2>6, <2>7 DEF Watch
<1>13. CASE SilentLoss
  <2>1. /\ UNCHANGED <<server, client, pipe, service, advert>> /\ faults' \in 1..MaxFaults
        /\ cut' = cut \cup {client.sock} /\ client.sock # 0
    BY <1>2, <1>13 DEF SilentLoss, Silence
  <2>2. cut' \subseteq Conns /\ faults' # 0
    BY <1>1, <2>1 DEF IsEnd
  <2> QED BY <2>1, <2>2, Untouched
<1>14. CASE Tick
  BY <1>14, TimeWatched DEF Tick, ownerVars
<1>15. CASE SlowTick
  BY <1>2, <1>15, TimeWatched DEF SlowTick
<1>16. CASE UNCHANGED vars
  BY <1>1, <1>16, Untouched DEF vars, transportVars, ownerVars
<1> QED BY <1>3, <1>4, <1>5, <1>6, <1>7, <1>8, <1>9, <1>10, <1>11, <1>12, <1>13, <1>14, <1>15, <1>16
        DEF Next

LEMMA WatchBegins ==
  Init => Watch
<1> SUFFICES ASSUME Init PROVE Watch
  OBVIOUS
<1>1. "server" \in Roles /\ "client" \in Roles /\ 0 \in Nat
  BY DEF Roles
<1>2. Sound(server) /\ server.status # "ABSENT"
  <2>1. server = Fresh("server") /\ "IDLE" \in {"IDLE", "ABSENT"}
    BY DEF Init
  <2>2. server.status = "IDLE"
    BY <2>1 DEF Fresh
  <2> QED BY <1>1, <2>1, <2>2, FreshSound
<1>3. Sound(client) /\ client.sock = 0
  <2>1. client = [Fresh("client") EXCEPT !.status = "ABSENT"] /\ "ABSENT" \in {"IDLE", "ABSENT"}
    BY DEF Init
  <2> QED BY <1>1, <2>1, FreshSound
<1>4. Introduced
  <2>1. <<>> \in Seq(Frame)
    OBVIOUS
  <2>2. \A c \in Conns, r \in Roles : Signed(pipe[c][r])
    BY <2>1, SignedParts DEF Init
  <2> QED BY <2>2 DEF Init, Introduced
<1>5. Pulse
  BY <1>3, TransportAssumption DEF Init, Pulse
<1>6. cut \subseteq Conns /\ faults \in 0..MaxFaults
  BY ControlAssumption DEF Init
<1> QED BY <1>2, <1>3, <1>4, <1>5, <1>6 DEF Watch

\* The clocks, the queues and the tokens of both ends stay within their bounds.
LEMMA WatchInvariant == Spec => []Watch
<1>1. Init => Watch
  BY WatchBegins
<1>2. SyncInv /\ Watch /\ [Next]_vars => Watch'
  BY Watched
<1> QED BY <1>1, <1>2, SyncInvariant, PTL DEF Spec

(* Whatever is queued, read or waited for stays within the limits of the   *)
(* code: neither queue of an end outgrows its size, no deadline and no     *)
(* delay runs below zero or above what it was set to, and the backoff of   *)
(* every attempt ends at its longest delay (send_message, _handle_common,  *)
(* _schedule_retry, _enforce_handshake_timeout of transport.py).           *)
THEOREM Bounds == Spec => []TypeOK
<1>1. SyncInv /\ Watch => TypeOK
  <2> SUFFICES ASSUME SyncInv, Watch PROVE TypeOK
    OBVIOUS
  <2>1. ASSUME NEW e \in {server, client}
        PROVE  /\ e.sock \in Conns \cup {0}
               /\ e.status \in {"ABSENT", "IDLE", "CONNECTING", "HANDSHAKING", "CONNECTED", "CLOSED"}
               /\ e.sid \in 0..MaxSessions
               /\ Len(e.out) <= MaxOutboundQueue /\ Len(e.events) <= MaxInboundQueue
               /\ e.left \in -1..HandshakeTimeout /\ e.wait \in 0..ReconnectMax
    <3>1. IsEnd(e) /\ Bounded(e)
      BY DEF SyncInv, Types, Watch, Sound
    <3>2. e.sid \in 0..MaxSessions
      <4>1. e.sid \in 0..sessions /\ sessions \in 0..MaxSessions
        BY DEF SyncInv, Types, Told, Informed
      <4> QED BY <4>1, ControlAssumption
    <3> QED BY <3>1, <3>2 DEF IsEnd, Bounded
  <2>2. \A c \in Conns, r \in Roles : Len(pipe[c][r]) <= Window
    BY DEF SyncInv, Types
  <2>3. cut \subseteq Conns /\ faults \in 0..MaxFaults
    BY DEF Watch
  <2> QED BY <2>1, <2>2, <2>3 DEF TypeOK
<1> QED BY <1>1, SyncInvariant, WatchInvariant, PTL

(* A connection nothing happened to is never given up: without a fault no  *)
(* inactivity limit and no handshake deadline fires at either end, however *)
(* polls and ticks interleave and however long nobody has anything to say, *)
(* and before the listener is replaced no end refuses what it reads, the   *)
(* frames of connections it had given up included (_heartbeat_and_timeout, *)
(* _enforce_handshake_timeout and _handle_message of transport.py).        *)
THEOREM Alarms == Spec => []NoFalseAlarm
<1>1. Watch => NoFalseAlarm
  BY DEF Watch, Sound, OnTime, Trusting, NoFalseAlarm
<1> QED BY <1>1, WatchInvariant, PTL

=============================================================================
