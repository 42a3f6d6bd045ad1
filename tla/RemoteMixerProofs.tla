------------------------- MODULE RemoteMixerProofs --------------------------
(***************************************************************************)
(* Theorems about the remote mixer, for any number of sessions, edits,     *)
(* restarts and retries: every safety property that RemoteMixer states of  *)
(* it except NoBlindOverwrite, which the program does not have.            *)
(*                                                                         *)
(* The proofs rest on three inductive invariants.                          *)
(*                                                                         *)
(* Typed      the types, of the messages on the way as well.               *)
(* MirrorInv  what is published: the revisions on the way to the mirror    *)
(*            never go back, belong to the receiver's epoch, and lead from *)
(*            the mirror to what was published last, unless that was lost  *)
(*            (Stream, Shown); an old session leaves nothing on the way    *)
(*            (Sessions).                                                  *)
(* AnswerInv  what is answered: one number splits the commands into those  *)
(*            that are done with, of which the history carried is right,   *)
(*            and those that are on the way, in order; only the first have *)
(*            left something in the mixer, and of them only those that a   *)
(*            refusal does not call undone (Books); what the               *)
(*            sender holds for acknowledged is in effect (Credited);       *)
(*            answers wait in the order of the sessions they are for, so   *)
(*            that a flush drops those of lost sessions and no other       *)
(*            (Routed); what the sender waits for is somewhere, or known   *)
(*            to be lost (Followed).                                       *)
(*                                                                         *)
(* A step of the receiver sends messages of which a part is put on the     *)
(* way: Sends says what is known of the part that is lost.                 *)
(*                                                                         *)
(* None of the three is one that a run checks: MirrorIsCurrent says        *)
(* nothing of a mirror that waits for a snapshot, and of acknowledgements  *)
(* AnswersAreTrue knows only those on the way, so neither survives a step  *)
(* by itself.                                                              *)
(***************************************************************************)
EXTENDS RemoteMixer, TLAPS, SequenceTheorems, FiniteSetTheorems

-----------------------------------------------------------------------------
(* Types.                                                                  *)
Change == Volumes \cup {Edit}

Snapshots == [type : {"snapshot"}, epoch : Nat, revision : Nat, content : Content]

Deltas == [type : {"delta"}, epoch : Nat, base : Int, revision : Nat, volume : Volumes,
           content : Content]

Acks == [type : {"ack"}, id : Nat, revision : Nat]

Nacks == [type : {"nack"}, id : Nat, reason : {"refused", "permission_disabled"},
          revision : Nat, undone : BOOLEAN]

MirrorMessage == Snapshots \cup Deltas \cup Acks \cup Nacks

Commands == [type : {"command"}, session : Nat, id : Nat, epoch : Nat \cup {-1},
             expected : Nat, change : Change, seen : Nat]

Requests == [type : {"request"}, id : Nat]

AuthorityMessage == Commands \cup Requests

Waiting == [id : Nat, session : Nat]

QueuedIntent == [change : Change, seen : Nat]

SentIntent(n) == [id : 1..n, acked : Nat \cup {-1}]

SessionTyped ==
  /\ session \in 0..MaxSessions
  /\ up \in BOOLEAN
  /\ up => session # 0

LostTyped == lost \in [messages : 0..MaxLost, publication : BOOLEAN, commands : SUBSET Nat]

PublicationTyped ==
  /\ revision \in Nat
  /\ observed \in Content
  /\ volumePending \in BOOLEAN
  /\ deferred \in Seq(Waiting)
  /\ toMirror \in Seq(MirrorMessage)
  /\ LostTyped

MixerTyped ==
  /\ content \in Content
  /\ epoch \in Nat
  /\ editCapture \in BOOLEAN
  /\ volumeCapture \in BOOLEAN
  /\ authSession \in Nat
  /\ sessionAllowed \in BOOLEAN
  /\ served \in [request : Nat, revision : Nat]
  /\ commands \in Seq(Commands)

MirrorTyped ==
  /\ mirrorSession \in Nat
  /\ mirror \in Content \cup {NoMirror}
  /\ epochSeen \in Nat \cup {-1}
  /\ revisionSeen \in Nat
  /\ needsSnapshot \in BOOLEAN
  /\ denied \in BOOLEAN

RequestTyped == sentRequests \in Nat /\ requestId \in 0..sentRequests

Pending(intent, waiting) == Len(waiting) + (IF intent = NoIntent THEN 0 ELSE 1)

PendingTyped ==
  /\ sentCommands \in Nat
  /\ inflight \in SentIntent(sentCommands) \cup {NoIntent}
  /\ queue \in Seq(QueuedIntent)
  /\ Pending(inflight, queue) <= MaxPending

Typed ==
  /\ SessionTyped
  /\ toAuthority \in Seq(AuthorityMessage)
  /\ PublicationTyped
  /\ MixerTyped
  /\ MirrorTyped
  /\ RequestTyped
  /\ PendingTyped

(* The initial states are typed.                                           *)
LEMMA TypedInit == Init => Typed
<1> SUFFICES ASSUME Init PROVE Typed
  OBVIOUS
<1>1. \A S : <<>> \in Seq(S) /\ Len(<<>>) = 0
  BY EmptySeq
<1>2. SessionTyped
  <2>1. session = 0 /\ up = FALSE
    BY DEF Init, LinkInit
  <2>2. 0 \in 0..MaxSessions
    BY LinkAssumption
  <2> QED BY <2>1, <2>2 DEF SessionTyped
<1>3. content \in Content
  BY DEF Init, AuthInit, Content
<1>4. PublicationTyped
  <2>1. LostTyped
    <3>1. lost = [messages |-> 0, publication |-> FALSE, commands |-> {}]
      BY DEF Init, LinkInit
    <3> QED BY <3>1, LinkAssumption DEF LostTyped
  <2> QED BY <1>1, <1>3, <2>1 DEF Init, AuthInit, LinkInit, PublicationTyped
<1>5. MixerTyped
  BY <1>1, <1>3 DEF Init, AuthInit, MixerTyped
<1>6. RequestTyped
  BY DEF Init, FacadeInit, RequestTyped
<1>9. MirrorTyped
  <2>1. needsSnapshot \in BOOLEAN /\ denied \in BOOLEAN
    BY DEF Init, FacadeInit
  <2>2. mirrorSession \in Nat /\ epochSeen \in Nat \cup {-1} /\ revisionSeen \in Nat
    BY DEF Init, FacadeInit
  <2>3. mirror \in Content \cup {NoMirror}
    BY DEF Init, FacadeInit
  <2> QED BY <2>1, <2>2, <2>3 DEF MirrorTyped
<1>7. PendingTyped
  BY <1>1, FacadeAssumption DEF Init, FacadeInit, PendingTyped, Pending
<1>8. toAuthority \in Seq(AuthorityMessage)
  BY <1>1 DEF Init, LinkInit
<1> QED BY <1>2, <1>4, <1>5, <1>6, <1>7, <1>8, <1>9 DEF Typed

-----------------------------------------------------------------------------
(* What the receiver sends is typed.                                       *)
(* The answers that a flush sends.                                         *)
LEMMA AnswersTyped ==
  ASSUME NEW waiting \in Seq(Waiting), NEW r \in Nat
  PROVE  Answers(waiting, r) \in Seq(MirrorMessage)
<1> DEFINE past == {i \in 1..Len(waiting) : waiting[i].session # authSession}
           gone == Cardinality(past)
<1>1. Len(waiting) \in Nat
  OBVIOUS
<1>2. IsFiniteSet(1..Len(waiting)) /\ Cardinality(1..Len(waiting)) = Len(waiting)
  BY <1>1, FS_Interval
<1>3. gone \in Nat /\ gone <= Len(waiting)
  <2>1. past \subseteq 1..Len(waiting)
    OBVIOUS
  <2>2. IsFiniteSet(past) /\ gone <= Cardinality(1..Len(waiting))
    BY <1>2, <2>1, FS_Subset
  <2> QED BY <1>2, <2>2, FS_CardinalityType
<1>4. Len(waiting) - gone \in Nat
  BY <1>1, <1>3
<1>5. \A i \in 1..(Len(waiting) - gone) : AckOf(waiting[gone + i].id, r) \in MirrorMessage
  <2> HIDE DEF gone
  <2> SUFFICES ASSUME NEW i \in 1..(Len(waiting) - gone)
               PROVE  AckOf(waiting[gone + i].id, r) \in MirrorMessage
    OBVIOUS
  <2>1. gone + i \in 1..Len(waiting)
    BY <1>1, <1>3
  <2>2. waiting[gone + i] \in Waiting
    BY <2>1
  <2>3. waiting[gone + i].id \in Nat
    BY <2>2 DEF Waiting
  <2> QED BY <2>3 DEF AckOf, MirrorMessage, Acks
<1>6. Answers(waiting, r) = [i \in 1..(Len(waiting) - gone) |-> AckOf(waiting[gone + i].id, r)]
  BY DEF Answers
<1> HIDE DEF gone
<1> QED BY <1>4, <1>5, <1>6

LEMMA SnapshotTyped ==
  ASSUME NEW c \in Content, NEW r \in Nat, epoch \in Nat
  PROVE  SnapshotOf(c, r) \in MirrorMessage
BY DEF SnapshotOf, MirrorMessage, Snapshots

LEMMA VolumePublicationTyped ==
  ASSUME NEW c \in Content, epoch \in Nat, revision \in Nat
  PROVE  VolumePublication(c) \in MirrorMessage
<1>1. c.volume \in Volumes
  BY DEF Content
<1>2. DeltaOf(c, revision + 1) \in Deltas
  BY <1>1 DEF DeltaOf, Deltas
<1>3. SnapshotOf(c, revision + 1) \in MirrorMessage
  BY SnapshotTyped
<1> QED BY <1>2, <1>3 DEF VolumePublication, MirrorMessage

LEMMA FlushMessagesTyped ==
  ASSUME NEW c \in Content, NEW waiting \in Seq(Waiting), NEW pending \in BOOLEAN,
         epoch \in Nat, revision \in Nat
  PROVE  FlushMessages(pending, c, waiting) \in Seq(MirrorMessage)
<1>1. VolumePublication(c) \in MirrorMessage
  BY VolumePublicationTyped
<1>2. Answers(waiting, revision + 1) \in Seq(MirrorMessage)
  BY AnswersTyped
<1>3. <<VolumePublication(c)>> \in Seq(MirrorMessage)
  BY <1>1
<1>4. <<VolumePublication(c)>> \o Answers(waiting, revision + 1) \in Seq(MirrorMessage)
  BY <1>2, <1>3, ConcatProperties
<1> QED BY <1>4 DEF FlushMessages

(* What is put on the way is typed after it, and so is what finds the      *)
(* queue full.                                                             *)
LEMMA FittingIsPart ==
  ASSUME NEW S, NEW v \in Seq(S), NEW full \in 0..Len(v), NEW drained \in 0..Len(v),
         full <= drained
  PROVE  LET w == Fitting(v, full, drained)
         IN  /\ w \in Seq(S)
             /\ Len(w) = full + (Len(v) - drained)
             /\ \A i \in 1..Len(w) : w[i] = v[IF i <= full THEN i ELSE i + drained - full]
<1> DEFINE first == SubSeq(v, 1, full)
           rest == SubSeq(v, drained + 1, Len(v))
           w == Fitting(v, full, drained)
<1>1. Len(v) \in Nat /\ \A i \in 1..Len(v) : v[i] \in S
  BY LenProperties, ElementOfSeq
<1>2. /\ first \in Seq(S)
      /\ Len(first) = full
      /\ \A i \in 1..full : first[i] = v[i]
  <2>1. \A i \in 1..full : v[i] \in S
    BY <1>1
  <2>2. /\ first \in Seq(S)
        /\ Len(first) = IF 1 <= full THEN full - 1 + 1 ELSE 0
        /\ \A i \in 1..(full - 1 + 1) : first[i] = v[1 + i - 1]
    BY <2>1, SubSeqProperties
  <2> QED BY <1>1, <2>2
<1>3. /\ rest \in Seq(S)
      /\ Len(rest) = Len(v) - drained
      /\ \A i \in 1..(Len(v) - drained) : rest[i] = v[drained + i]
  <2>1. \A i \in (drained + 1)..Len(v) : v[i] \in S
    BY <1>1
  <2>2. drained + 1 \in Int /\ Len(v) \in Int
    BY <1>1
  <2>3. /\ rest \in Seq(S)
        /\ Len(rest) = IF drained + 1 <= Len(v) THEN Len(v) - (drained + 1) + 1 ELSE 0
        /\ \A i \in 1..(Len(v) - (drained + 1) + 1) : rest[i] = v[drained + 1 + i - 1]
    BY <2>1, <2>2, SubSeqProperties
  <2> QED BY <1>1, <2>3
<1> HIDE DEF first, rest
<1>4. w = first \o rest
  BY DEF Fitting, first, rest
<1>5. /\ w \in Seq(S)
      /\ Len(w) = full + (Len(v) - drained)
      /\ \A i \in 1..(full + (Len(v) - drained)) :
           w[i] = IF i <= full THEN first[i] ELSE rest[i - full]
  <2>1. /\ first \o rest \in Seq(S)
        /\ Len(first \o rest) = Len(first) + Len(rest)
        /\ \A i \in 1..(Len(first) + Len(rest)) :
             (first \o rest)[i] = IF i <= Len(first) THEN first[i] ELSE rest[i - Len(first)]
    BY <1>2, <1>3, ConcatProperties
  <2> QED BY <1>2, <1>3, <1>4, <2>1
<1>6. ASSUME NEW i \in 1..Len(w)
      PROVE  w[i] = v[IF i <= full THEN i ELSE i + drained - full]
  <2>1. CASE i <= full
    BY <1>1, <1>2, <1>5, <2>1
  <2>2. CASE ~(i <= full)
    <3>1. i - full \in 1..(Len(v) - drained) /\ drained + (i - full) = i + drained - full
      BY <1>1, <1>5, <2>2
    <3>2. w[i] = rest[i - full]
      BY <1>1, <1>5, <2>2
    <3> QED BY <1>3, <2>2, <3>1, <3>2
  <2> QED BY <2>1, <2>2
<1> QED BY <1>1, <1>5, <1>6

LEMMA LostWithTyped ==
  ASSUME LostTyped, NEW v \in Seq(MirrorMessage), NEW full \in 0..Len(v),
         NEW drained \in 0..Len(v), full <= drained, lost.messages + drained - full <= MaxLost,
         lost' = LostWith(v, full, drained)
  PROVE  LostTyped'
<1> DEFINE dropped == (full + 1)..drained
           published == {i \in 1..Len(v) : IsPublication(v[i])}
           answered == {v[i].id : i \in {k \in dropped : v[k].type \in {"ack", "nack"}}}
           newest == IF published = {} THEN lost.publication
                     ELSE \E i \in dropped \cap published : \A j \in published : j <= i
<1>1. lost.messages \in 0..MaxLost /\ lost.publication \in BOOLEAN /\ lost.commands \subseteq Nat
  BY DEF LostTyped
<1>2. Len(v) \in Nat /\ \A i \in 1..Len(v) : v[i] \in MirrorMessage
  BY LenProperties, ElementOfSeq
<1>3. lost.messages + drained - full \in 0..MaxLost
  BY <1>1, <1>2, LinkAssumption
<1>4. answered \subseteq Nat
  <2> SUFFICES ASSUME NEW k \in dropped, v[k].type \in {"ack", "nack"} PROVE v[k].id \in Nat
    OBVIOUS
  <2>1. v[k] \in MirrorMessage
    BY <1>2
  <2> QED BY <2>1 DEF MirrorMessage, Snapshots, Deltas, Acks, Nacks
<1>5. newest \in BOOLEAN
  BY <1>1
<1>6. lost' = [messages |-> lost.messages + drained - full, publication |-> newest,
               commands |-> lost.commands \cup answered]
  BY DEF LostWith
<1> HIDE DEF newest, answered
<1>7. lost.commands \cup answered \in SUBSET Nat
  BY <1>1, <1>4
<1>8. lost' \in [messages : 0..MaxLost, publication : BOOLEAN, commands : SUBSET Nat]
  BY <1>3, <1>5, <1>6, <1>7
<1> QED BY <1>8 DEF LostTyped

LEMMA ToMirrorTyped ==
  ASSUME NEW s, NEW messages \in Seq(MirrorMessage), ToMirror(s, messages),
         toMirror \in Seq(MirrorMessage), LostTyped
  PROVE  toMirror' \in Seq(MirrorMessage) /\ LostTyped'
<1>1. CASE Live(s)
  <2>1. PICK full \in 0..Len(messages), drained \in 0..Len(messages) :
          /\ full <= drained
          /\ lost.messages + drained - full <= MaxLost
          /\ toMirror' = toMirror \o Fitting(messages, full, drained)
          /\ lost' = LostWith(messages, full, drained)
    BY <1>1 DEF ToMirror
  <2>2. Fitting(messages, full, drained) \in Seq(MirrorMessage)
    BY <2>1, FittingIsPart
  <2>3. toMirror' \in Seq(MirrorMessage)
    BY <2>1, <2>2, ConcatProperties
  <2> QED BY <2>1, <2>3, LostWithTyped
<1>2. CASE ~Live(s)
  BY <1>2 DEF ToMirror, LostTyped
<1> QED BY <1>1, <1>2

LEMMA ToAuthorityTyped ==
  ASSUME NEW s, NEW m \in AuthorityMessage, ToAuthority(s, m),
         toAuthority \in Seq(AuthorityMessage), LostTyped
  PROVE  toAuthority' \in Seq(AuthorityMessage) /\ LostTyped'
<1>1. lost.messages \in 0..MaxLost /\ lost.publication \in BOOLEAN /\ lost.commands \subseteq Nat
  BY DEF LostTyped
<1>2. CASE UNCHANGED lost
  BY <1>2 DEF ToAuthority, LostTyped
<1>3. CASE /\ lost.messages < MaxLost
           /\ lost' = [lost EXCEPT !.messages = @ + 1,
                                   !.commands = IF m.type = "command" THEN @ \cup {m.id} ELSE @]
           /\ UNCHANGED toAuthority
  <2>1. m.id \in Nat
    BY DEF AuthorityMessage, Commands, Requests
  <2>2. lost.messages + 1 \in 0..MaxLost
    BY <1>1, <1>3, LinkAssumption
  <2>3. lost' \in [messages : 0..MaxLost, publication : BOOLEAN, commands : SUBSET Nat]
    BY <1>1, <1>3, <2>1, <2>2 DEF LostTyped
  <2> QED BY <1>3, <2>3 DEF LostTyped
<1> QED BY <1>2, <1>3 DEF ToAuthority

LEMMA ResendTyped ==
  ASSUME Typed, Resend
  PROVE  toMirror' \in Seq(MirrorMessage) /\ LostTyped'
<1>1. observed \in Content /\ revision \in Nat /\ epoch \in Nat
      /\ toMirror \in Seq(MirrorMessage) /\ LostTyped
  BY DEF Typed, MixerTyped, PublicationTyped
<1>2. lost.messages \in 0..MaxLost /\ lost.publication \in BOOLEAN /\ lost.commands \subseteq Nat
  BY <1>1 DEF LostTyped
<1>3. CASE /\ toMirror' = Append(toMirror, SnapshotOf(observed, revision))
           /\ lost' = [lost EXCEPT !.publication = FALSE]
  <2>1. SnapshotOf(observed, revision) \in MirrorMessage
    BY <1>1, SnapshotTyped
  <2>2. lost' \in [messages : 0..MaxLost, publication : BOOLEAN, commands : SUBSET Nat]
    BY <1>1, <1>2, <1>3 DEF LostTyped
  <2> QED BY <1>1, <1>3, <2>1, <2>2 DEF LostTyped
<1>4. CASE /\ lost.messages < MaxLost
           /\ lost' = [lost EXCEPT !.messages = @ + 1]
           /\ UNCHANGED toMirror
  <2>1. lost.messages + 1 \in 0..MaxLost
    BY <1>2, <1>4, LinkAssumption
  <2>2. lost' \in [messages : 0..MaxLost, publication : BOOLEAN, commands : SUBSET Nat]
    BY <1>1, <1>2, <1>4, <2>1 DEF LostTyped
  <2> QED BY <1>1, <1>4, <2>2 DEF LostTyped
<1>5. CASE UNCHANGED <<toMirror, lost>>
  BY <1>1, <1>5 DEF LostTyped
<1> QED BY <1>3, <1>4, <1>5 DEF Resend

LEMMA EndedTyped ==
  ASSUME LostTyped, Ended
  PROVE  /\ toMirror' \in Seq(MirrorMessage) /\ LostTyped'
         /\ toAuthority' \in Seq(AuthorityMessage)
<1>1. lost' \in [messages : 0..MaxLost, publication : BOOLEAN, commands : SUBSET Nat]
  BY DEF LostTyped, Ended
<1> QED BY <1>1, EmptySeq DEF LostTyped, Ended

(* What the receiver publishes, and when it publishes nothing, stays typed. *)
LEMMA PublishTyped ==
  ASSUME Typed, NEW c \in Content, NEW answers \in Seq(MirrorMessage), NEW done,
         PublishSnapshot(c, answers, done)
  PROVE  PublicationTyped'
<1>1. revision \in Nat /\ epoch \in Nat /\ deferred \in Seq(Waiting) /\ volumePending \in BOOLEAN
      /\ toMirror \in Seq(MirrorMessage) /\ LostTyped
  BY DEF Typed, PublicationTyped, LostTyped, MixerTyped
<1>2. AfterFlush \in Nat
  BY <1>1 DEF AfterFlush
<1>3. SnapshotMessages(c) \o answers \in Seq(MirrorMessage)
  <2>1. SnapshotOf(c, AfterFlush + 1) \in MirrorMessage
    BY <1>1, <1>2, SnapshotTyped
  <2>2. <<SnapshotOf(c, AfterFlush + 1)>> \in Seq(MirrorMessage)
    BY <2>1
  <2>3. FlushMessages(volumePending, c, deferred) \in Seq(MirrorMessage)
    BY <1>1, FlushMessagesTyped
  <2>4. SnapshotMessages(c) \in Seq(MirrorMessage)
    BY <2>2, <2>3, ConcatProperties DEF SnapshotMessages
  <2> QED BY <2>4, ConcatProperties
<1>4. toMirror' \in Seq(MirrorMessage) /\ LostTyped'
  BY <1>1, <1>3, ToMirrorTyped DEF PublishSnapshot
<1>5. deferred' \in Seq(Waiting)
  BY <1>1, EmptySeq DEF PublishSnapshot
<1>6. revision' \in Nat /\ observed' \in Content
  BY <1>2 DEF PublishSnapshot
<1>7. volumePending' \in BOOLEAN
  BY DEF PublishSnapshot
<1> QED BY <1>4, <1>5, <1>6, <1>7 DEF PublicationTyped, LostTyped

LEMMA FlushTyped ==
  ASSUME Typed, NEW c \in Content, NEW done, Flush(TRUE, c, deferred, done)
  PROVE  PublicationTyped'
<1>1. revision \in Nat /\ epoch \in Nat /\ deferred \in Seq(Waiting)
      /\ toMirror \in Seq(MirrorMessage) /\ LostTyped
  BY DEF Typed, PublicationTyped, LostTyped, MixerTyped
<1>2. FlushMessages(TRUE, c, deferred) \in Seq(MirrorMessage)
  BY <1>1, FlushMessagesTyped
<1>3. toMirror' \in Seq(MirrorMessage) /\ LostTyped'
  BY <1>1, <1>2, ToMirrorTyped DEF Flush
<1>4. deferred' \in Seq(Waiting)
  BY EmptySeq DEF Flush
<1>5. revision' \in Nat /\ observed' \in Content
  BY <1>1 DEF Flush
<1>6. volumePending' \in BOOLEAN
  BY DEF Flush
<1> QED BY <1>3, <1>4, <1>5, <1>6 DEF PublicationTyped, LostTyped

LEMMA NothingTyped ==
  ASSUME Typed, NothingPublished
  PROVE  PublicationTyped'
BY DEF Typed, PublicationTyped, LostTyped, NothingPublished

(* One message put on the way is typed after it.                           *)
LEMMA OneTyped ==
  ASSUME NEW s, NEW m \in MirrorMessage, ToMirror(s, <<m>>),
         toMirror \in Seq(MirrorMessage), LostTyped
  PROVE  toMirror' \in Seq(MirrorMessage) /\ LostTyped'
<1>1. <<m>> \in Seq(MirrorMessage)
  OBVIOUS
<1> QED BY <1>1, ToMirrorTyped

-----------------------------------------------------------------------------
(* What the receiver does stays typed: its user, its timers.               *)
AuthTyped == toAuthority \in Seq(AuthorityMessage) /\ SessionTyped /\ PublicationTyped
             /\ MixerTyped

LEMMA ChangedContentTyped ==
  ASSUME content \in Content
  PROVE  /\ [content EXCEPT !.local = @ + 1] \in Content
         /\ [content EXCEPT !.allowed = ~@] \in Content
         /\ \A v \in Volumes : [content EXCEPT !.volume = v] \in Content
         /\ \A n \in Nat : [content EXCEPT !.edit = n] \in Content
<1>1. [content EXCEPT !.local = @ + 1] \in Content
  BY DEF Content
<1>2. [content EXCEPT !.allowed = ~@] \in Content
  BY DEF Content
<1>3. \A v \in Volumes : [content EXCEPT !.volume = v] \in Content
  BY DEF Content
<1>4. \A n \in Nat : [content EXCEPT !.edit = n] \in Content
  BY DEF Content
<1> QED BY <1>1, <1>2, <1>3, <1>4

LEMMA AuthorityToldTyped == ASSUME Typed, AuthorityTold PROVE AuthTyped'
<1>1. Present \in Nat
  BY LinkAssumption DEF Typed, SessionTyped, Present
<1>2. sessionAllowed' \in BOOLEAN
  BY DEF AuthorityTold
<1>3. MixerTyped'
  BY <1>1, <1>2 DEF AuthorityTold, Typed, MixerTyped
<1>4. SessionTyped' /\ PublicationTyped' /\ toAuthority' \in Seq(AuthorityMessage)
  BY DEF AuthorityTold, Typed, SessionTyped, PublicationTyped, LostTyped, linkVars
<1> QED BY <1>3, <1>4 DEF AuthTyped

LEMMA LocalStepTyped == ASSUME Typed, LocalStep PROVE AuthTyped'
<1>1. content \in Content /\ content' \in Content
  BY ChangedContentTyped
     DEF Typed, MixerTyped, LocalStep, LocalEdit, LocalVolume, TogglePermission
<1>2. PublicationTyped'
  <2>1. CASE LocalEdit \/ \E v \in Volumes : LocalVolume(v)
    BY <2>1 DEF LocalEdit, LocalVolume, Typed, PublicationTyped, LostTyped, linkVars
  <2>2. CASE TogglePermission
    <3> DEFINE c == [content EXCEPT !.allowed = ~@]
    <3>1. c \in Content
      BY <1>1, ChangedContentTyped
    <3>2. CASE PublishSnapshot(c, <<>>, carried)
      BY <3>1, <3>2, EmptySeq, PublishTyped
    <3>3. CASE NothingPublished
      BY <3>3, NothingTyped
    <3> QED BY <2>2, <3>2, <3>3 DEF TogglePermission
  <2> QED BY <2>1, <2>2 DEF LocalStep
<1>3. editCapture' \in BOOLEAN /\ volumeCapture' \in BOOLEAN
  BY DEF Typed, MixerTyped, LocalStep, LocalEdit, LocalVolume, TogglePermission
<1>4. sessionAllowed' \in BOOLEAN
  <2>1. sessionAllowed' = sessionAllowed \/ sessionAllowed' = [content EXCEPT !.allowed = ~@].allowed
    BY DEF LocalStep, LocalEdit, LocalVolume, TogglePermission
  <2>2. \A c \in Content : c.allowed \in BOOLEAN
    BY DEF Content
  <2>3. [content EXCEPT !.allowed = ~@].allowed \in BOOLEAN
    BY <1>1, <2>2, ChangedContentTyped
  <2> QED BY <2>1, <2>3 DEF Typed, MixerTyped
<1>5. UNCHANGED <<epoch, authSession, served, commands, session, up, toAuthority>>
  BY DEF LocalStep, LocalEdit, LocalVolume, TogglePermission, linkVars
<1>6. SessionTyped' /\ toAuthority' \in Seq(AuthorityMessage)
  BY <1>5 DEF Typed, SessionTyped
<1>7. MixerTyped'
  BY <1>1, <1>3, <1>4, <1>5 DEF Typed, MixerTyped
<1> QED BY <1>2, <1>6, <1>7 DEF AuthTyped

LEMMA TimerTyped ==
  ASSUME Typed, CaptureLocalMutation \/ CaptureRuntimeVolume \/ FlushVolumePublication
  PROVE  AuthTyped'
<1>1. content \in Content
  BY DEF Typed, MixerTyped
<1>2. PublicationTyped'
  <2>1. CASE CaptureLocalMutation
    <3>1. CASE PublishSnapshot(content, <<>>, carried)
      BY <1>1, <3>1, EmptySeq, PublishTyped
    <3>2. CASE NothingPublished
      BY <3>2, NothingTyped
    <3> QED BY <2>1, <3>1, <3>2 DEF CaptureLocalMutation
  <2>2. CASE FlushVolumePublication
    BY <1>1, <2>2, FlushTyped DEF FlushVolumePublication
  <2>3. CASE CaptureRuntimeVolume
    <3>1. CASE NothingPublished
      BY <3>1, NothingTyped
    <3>2. CASE Flush(TRUE, content, deferred, carried)
      BY <1>1, <3>2, FlushTyped
    <3>3. CASE volumePending' = TRUE
               /\ UNCHANGED <<revision, observed, deferred, toMirror, lost>>
      BY <3>3 DEF Typed, PublicationTyped, LostTyped
    <3> QED BY <2>3, <3>1, <3>2, <3>3 DEF CaptureRuntimeVolume
  <2> QED BY <2>1, <2>2, <2>3
<1>3. editCapture' \in BOOLEAN /\ volumeCapture' \in BOOLEAN
  BY DEF Typed, MixerTyped, CaptureLocalMutation, CaptureRuntimeVolume, FlushVolumePublication
<1>4. UNCHANGED <<content, epoch, authSession, sessionAllowed, served, commands, session, up,
                  toAuthority>>
  BY DEF CaptureLocalMutation, CaptureRuntimeVolume, FlushVolumePublication
<1>5. SessionTyped' /\ toAuthority' \in Seq(AuthorityMessage)
  BY <1>4 DEF Typed, SessionTyped
<1>6. MixerTyped'
  BY <1>3, <1>4 DEF Typed, MixerTyped
<1> QED BY <1>2, <1>5, <1>6 DEF AuthTyped

(* What the receiver does stays typed: requests and commands.              *)
LEMMA ArrivalTyped ==
  ASSUME Typed, NEW type, Arrived(type)
  PROVE  /\ Head(toAuthority) \in AuthorityMessage /\ Head(toAuthority).type = type
         /\ toAuthority' \in Seq(AuthorityMessage)
         /\ SessionTyped'
<1>1. toAuthority \in Seq(AuthorityMessage) /\ toAuthority # <<>>
  BY DEF Typed, Arrived
<1>2. Head(toAuthority) \in AuthorityMessage /\ Tail(toAuthority) \in Seq(AuthorityMessage)
  BY <1>1, HeadTailProperties
<1>3. SessionTyped'
  BY DEF Arrived, Typed, SessionTyped
<1> QED BY <1>2, <1>3 DEF Arrived

LEMMA QueueCommandTyped == ASSUME Typed, QueueCommand PROVE AuthTyped'
<1>1. Head(toAuthority) \in Commands
  <2>1. Head(toAuthority) \in AuthorityMessage /\ Head(toAuthority).type = "command"
    BY ArrivalTyped DEF QueueCommand
  <2> QED BY <2>1 DEF AuthorityMessage, Requests
<1>2. commands' \in Seq(Commands)
  BY <1>1 DEF QueueCommand, Typed, MixerTyped
<1>3. MixerTyped'
  BY <1>2 DEF QueueCommand, Typed, MixerTyped
<1>4. PublicationTyped'
  BY DEF QueueCommand, Typed, PublicationTyped, LostTyped
<1> QED BY <1>3, <1>4, ArrivalTyped DEF AuthTyped, QueueCommand

LEMMA HandleSnapshotRequestTyped == ASSUME Typed, HandleSnapshotRequest PROVE AuthTyped'
<1> DEFINE id == Head(toAuthority).id
<1>1. Arrived("request")
  BY DEF HandleSnapshotRequest
<1>2. id \in Nat
  <2>1. Head(toAuthority) \in Requests
    BY <1>1, ArrivalTyped DEF AuthorityMessage, Commands
  <2> QED BY <2>1 DEF Requests
<1>3. content \in Content /\ observed \in Content /\ revision \in Nat /\ epoch \in Nat
      /\ toMirror \in Seq(MirrorMessage) /\ LostTyped
  BY DEF Typed, MixerTyped, PublicationTyped, LostTyped
<1>4. PublicationTyped' /\ served' \in [request : Nat, revision : Nat]
  <2> HIDE DEF id
  <2>1. ASSUME Resend,
               UNCHANGED <<revision, observed, volumePending, deferred, carried, served>>
        PROVE  PublicationTyped' /\ served' \in [request : Nat, revision : Nat]
    <3>1. toMirror' \in Seq(MirrorMessage) /\ LostTyped'
      BY <2>1, ResendTyped
    <3> QED BY <2>1, <3>1 DEF Typed, PublicationTyped, LostTyped, MixerTyped
  <2>2. ASSUME PublishSnapshot(content, <<>>, carried),
               served' = [request |-> id, revision |-> revision']
        PROVE  PublicationTyped' /\ served' \in [request : Nat, revision : Nat]
    <3>1. PublicationTyped'
      BY <1>3, <2>2, EmptySeq, PublishTyped
    <3> QED BY <1>2, <2>2, <3>1 DEF PublicationTyped, LostTyped
  <2>3. ASSUME NothingPublished,
               served' = IF served.request = id THEN [request |-> 0, revision |-> 0]
                                                ELSE served
        PROVE  PublicationTyped' /\ served' \in [request : Nat, revision : Nat]
    <3>1. PublicationTyped'
      BY <2>3, NothingTyped
    <3> QED BY <2>3, <3>1 DEF Typed, MixerTyped
  <2> QED BY <2>1, <2>2, <2>3 DEF HandleSnapshotRequest, id
<1>5. sessionAllowed' \in BOOLEAN
  <2>1. sessionAllowed' = content.allowed
    BY DEF HandleSnapshotRequest
  <2> QED BY <1>3, <2>1 DEF Content
<1>6. MixerTyped'
  BY <1>4, <1>5 DEF HandleSnapshotRequest, Typed, MixerTyped
<1> QED BY <1>1, <1>4, <1>6, ArrivalTyped DEF AuthTyped

LEMMA NextCommandTyped ==
  ASSUME Typed, NextCommand
  PROVE  /\ Head(commands) \in Commands
         /\ commands' \in Seq(Commands)
         /\ SessionTyped' /\ toAuthority' \in Seq(AuthorityMessage)
         /\ UNCHANGED <<epoch, authSession, sessionAllowed, served>>
<1>1. commands \in Seq(Commands) /\ commands # <<>>
  BY DEF Typed, MixerTyped, NextCommand
<1>2. Head(commands) \in Commands /\ Tail(commands) \in Seq(Commands)
  BY <1>1, HeadTailProperties
<1> QED BY <1>2 DEF NextCommand, Typed, SessionTyped

(* With the mixer and what was published typed, a command is done.         *)
LEMMA CommandDoneTyped ==
  ASSUME Typed, NextCommand, content' \in Content, PublicationTyped',
         UNCHANGED editCapture \/ editCapture' = TRUE,
         UNCHANGED volumeCapture \/ volumeCapture' = TRUE
  PROVE  AuthTyped'
<1>1. editCapture' \in BOOLEAN /\ volumeCapture' \in BOOLEAN
  BY DEF Typed, MixerTyped
<1>2. MixerTyped'
  BY <1>1, NextCommandTyped DEF Typed, MixerTyped
<1> QED BY <1>2, NextCommandTyped DEF AuthTyped

LEMMA NackTyped ==
  ASSUME NEW id \in Nat, NEW reason \in {"refused", "permission_disabled"},
         NEW r \in Nat, revision \in Nat
  PROVE  /\ NackOf(id, reason) \in MirrorMessage
         /\ \A undone \in BOOLEAN :
              [NackOf(id, reason) EXCEPT !.revision = r, !.undone = undone] \in MirrorMessage
BY DEF NackOf, MirrorMessage, Nacks

LEMMA RefuseCommandTyped == ASSUME Typed, RefuseCommand PROVE AuthTyped'
<1> DEFINE cmd == Head(commands)
<1>1. NextCommand
  BY DEF RefuseCommand
<1>2. cmd.id \in Nat
  BY <1>1, NextCommandTyped DEF Commands
<1>3. revision \in Nat /\ toMirror \in Seq(MirrorMessage) /\ LostTyped
  BY DEF Typed, PublicationTyped, LostTyped
<1>4. toMirror' \in Seq(MirrorMessage) /\ LostTyped'
  <2>1. \A reason \in {"refused", "permission_disabled"} : NackOf(cmd.id, reason) \in MirrorMessage
    BY <1>2, <1>3, NackTyped
  <2>2. \/ ToMirror(cmd.session, <<NackOf(cmd.id, "refused")>>)
        \/ ToMirror(cmd.session, <<NackOf(cmd.id, "permission_disabled")>>)
    BY DEF RefuseCommand
  <2> QED BY <1>3, <2>1, <2>2, OneTyped
<1>5. PublicationTyped'
  BY <1>4 DEF RefuseCommand, Typed, PublicationTyped, LostTyped
<1>6. content' \in Content
  BY DEF RefuseCommand, Typed, MixerTyped
<1> QED BY <1>1, <1>5, <1>6, CommandDoneTyped DEF RefuseCommand

LEMMA FailEditTyped == ASSUME Typed, FailEdit PROVE AuthTyped'
<1> DEFINE cmd == Head(commands)
           nack(undone) == [NackOf(cmd.id, "refused") EXCEPT !.revision = AfterFlush,
                                                             !.undone = undone]
           before == FlushMessages(volumePending, content, deferred)
<1>1. NextCommand
  BY DEF FailEdit
<1>2. cmd.id \in Nat
  BY <1>1, NextCommandTyped DEF Commands
<1>3. revision \in Nat /\ epoch \in Nat /\ volumePending \in BOOLEAN /\ content \in Content
      /\ observed \in Content /\ deferred \in Seq(Waiting) /\ toMirror \in Seq(MirrorMessage)
      /\ LostTyped
  BY DEF Typed, PublicationTyped, LostTyped, MixerTyped
<1>4. AfterFlush \in Nat
  BY <1>3 DEF AfterFlush
<1>5. content' \in Content /\ toMirror' \in Seq(MirrorMessage) /\ LostTyped'
  <2>1. PICK undone \in BOOLEAN :
          /\ content' = IF undone THEN content ELSE [content EXCEPT !.edit = cmd.id]
          /\ ToMirror(authSession, before \o <<nack(undone)>>)
    BY DEF FailEdit
  <2>2. nack(undone) \in MirrorMessage
    BY <1>2, <1>3, <1>4, NackTyped
  <2> HIDE DEF nack, before, cmd
  <2>3. before \in Seq(MirrorMessage) /\ <<nack(undone)>> \in Seq(MirrorMessage)
    BY <1>3, <2>2, FlushMessagesTyped DEF before
  <2>4. before \o <<nack(undone)>> \in Seq(MirrorMessage)
    BY <2>3, ConcatProperties
  <2>5. content' \in Content
    BY <1>2, <1>3, <2>1, ChangedContentTyped
  <2> QED BY <1>3, <2>1, <2>4, <2>5, ToMirrorTyped
<1>6. deferred' \in Seq(Waiting)
  BY <1>3, EmptySeq DEF FailEdit
<1>7. revision' \in Nat /\ observed' \in Content
  BY <1>3, <1>4 DEF FailEdit
<1>8. volumePending' \in BOOLEAN
  BY DEF FailEdit
<1>9. PublicationTyped'
  BY <1>5, <1>6, <1>7, <1>8 DEF PublicationTyped, LostTyped
<1> QED BY <1>1, <1>5, <1>9, CommandDoneTyped DEF FailEdit

LEMMA AckTyped == ASSUME NEW id \in Nat, NEW r \in Nat PROVE AckOf(id, r) \in MirrorMessage
BY DEF AckOf, MirrorMessage, Acks

LEMMA ApplyEditTyped == ASSUME Typed, ApplyEdit PROVE AuthTyped'
<1> DEFINE cmd == Head(commands)
           c == [content EXCEPT !.edit = cmd.id]
           r == AfterFlush + 1
           before == FlushMessages(volumePending, content, deferred)
<1>1. NextCommand
  BY DEF ApplyEdit
<1>2. cmd.id \in Nat
  BY <1>1, NextCommandTyped DEF Commands
<1>3. revision \in Nat /\ epoch \in Nat /\ volumePending \in BOOLEAN /\ content \in Content
      /\ deferred \in Seq(Waiting) /\ toMirror \in Seq(MirrorMessage) /\ LostTyped
  BY DEF Typed, PublicationTyped, LostTyped, MixerTyped
<1>4. r \in Nat
  BY <1>3 DEF AfterFlush
<1>5. c \in Content
  BY <1>2, <1>3, ChangedContentTyped
<1>6. toMirror' \in Seq(MirrorMessage) /\ LostTyped'
  <2> HIDE DEF c, r, cmd, before
  <2>1. SnapshotOf(c, r) \in MirrorMessage /\ AckOf(cmd.id, r) \in MirrorMessage
    BY <1>2, <1>3, <1>4, <1>5, SnapshotTyped, AckTyped
  <2>2. <<SnapshotOf(c, r), AckOf(cmd.id, r)>> \in Seq(MirrorMessage)
    BY <2>1
  <2>3. before \in Seq(MirrorMessage)
    BY <1>3, FlushMessagesTyped DEF before
  <2>4. before \o <<SnapshotOf(c, r), AckOf(cmd.id, r)>> \in Seq(MirrorMessage)
    BY <2>2, <2>3, ConcatProperties
  <2>5. ToMirror(authSession, before \o <<SnapshotOf(c, r), AckOf(cmd.id, r)>>)
    BY DEF ApplyEdit, c, r, cmd, before
  <2> QED BY <1>3, <2>4, <2>5, ToMirrorTyped
<1>7. deferred' \in Seq(Waiting)
  BY <1>3, EmptySeq DEF ApplyEdit
<1>8. revision' \in Nat /\ observed' \in Content /\ content' \in Content
  BY <1>4, <1>5 DEF ApplyEdit
<1>9. volumePending' \in BOOLEAN
  BY DEF ApplyEdit
<1>10. PublicationTyped'
  BY <1>6, <1>7, <1>8, <1>9 DEF PublicationTyped, LostTyped
<1> QED BY <1>1, <1>8, <1>10, CommandDoneTyped DEF ApplyEdit

LEMMA ApplyVolumeTyped == ASSUME Typed, ApplyVolume PROVE AuthTyped'
<1> DEFINE cmd == Head(commands)
           c == [content EXCEPT !.volume = cmd.change]
           answer == [id |-> cmd.id, session |-> cmd.session]
<1>1. NextCommand
  BY DEF ApplyVolume
<1>2. cmd \in Commands
  BY <1>1, NextCommandTyped
<1>3. cmd.id \in Nat /\ cmd.session \in Nat /\ cmd.change \in Volumes
  BY <1>2 DEF ApplyVolume, Commands, Change
<1>4. revision \in Nat /\ epoch \in Nat /\ observed \in Content /\ content \in Content
      /\ deferred \in Seq(Waiting) /\ toMirror \in Seq(MirrorMessage) /\ LostTyped
  BY DEF Typed, PublicationTyped, LostTyped, MixerTyped
<1>5. c \in Content
  BY <1>3, <1>4, ChangedContentTyped
<1>6. content' \in Content
  BY <1>5 DEF ApplyVolume
<1>7. PublicationTyped'
  <2> HIDE DEF c, cmd
  <2>1. ASSUME revision' = revision + 1, observed' = c, volumePending' = FALSE,
               deferred' = <<>>,
               ToMirror(authSession, FlushMessages(TRUE, c, deferred)
                                     \o <<AckOf(cmd.id, revision + 1)>>)
        PROVE  PublicationTyped'
    <3>1. AckOf(cmd.id, revision + 1) \in MirrorMessage
      BY <1>3, <1>4, AckTyped
    <3>2. <<AckOf(cmd.id, revision + 1)>> \in Seq(MirrorMessage)
      BY <3>1
    <3>3. FlushMessages(TRUE, c, deferred) \in Seq(MirrorMessage)
      BY <1>4, <1>5, FlushMessagesTyped
    <3>4. FlushMessages(TRUE, c, deferred) \o <<AckOf(cmd.id, revision + 1)>>
            \in Seq(MirrorMessage)
      BY <3>2, <3>3, ConcatProperties
    <3>5. toMirror' \in Seq(MirrorMessage) /\ LostTyped'
      BY <1>4, <2>1, <3>4, ToMirrorTyped
    <3>6. revision' \in Nat /\ deferred' \in Seq(Waiting)
      BY <1>4, <2>1, EmptySeq
    <3>7. volumePending' \in BOOLEAN
      BY <2>1
    <3> QED BY <1>5, <2>1, <3>5, <3>6, <3>7 DEF PublicationTyped, LostTyped
  <2>2. ASSUME volumePending' = TRUE, deferred' = Append(deferred, answer),
               UNCHANGED <<revision, observed, toMirror, lost>>
        PROVE  PublicationTyped'
    <3>1. answer \in Waiting
      BY <1>3 DEF Waiting
    <3>2. deferred' \in Seq(Waiting)
      BY <1>4, <2>2, <3>1
    <3> QED BY <1>4, <2>2, <3>2 DEF PublicationTyped, LostTyped
  <2> QED BY <2>1, <2>2 DEF ApplyVolume, c, cmd
<1> QED BY <1>1, <1>6, <1>7, CommandDoneTyped DEF ApplyVolume

LEMMA RestartReceiverTyped == ASSUME Typed, RestartReceiver PROVE AuthTyped'
<1>1. content \in Content /\ epoch \in Nat
  BY DEF Typed, MixerTyped
<1>2. \A S : <<>> \in Seq(S)
  BY EmptySeq
<1>3. deferred' \in Seq(Waiting) /\ toMirror' \in Seq(MirrorMessage) /\ LostTyped'
      /\ toAuthority' \in Seq(AuthorityMessage) /\ commands' \in Seq(Commands)
  BY <1>2, EndedTyped DEF RestartReceiver, Typed, PublicationTyped
<1>4. PublicationTyped'
  BY <1>1, <1>3 DEF RestartReceiver, PublicationTyped, LostTyped
<1>5. editCapture' \in BOOLEAN /\ volumeCapture' \in BOOLEAN /\ sessionAllowed' \in BOOLEAN
  BY DEF RestartReceiver
<1>6. epoch' \in Nat /\ content' \in Content /\ authSession' \in Nat
      /\ served' \in [request : Nat, revision : Nat]
  BY <1>1 DEF RestartReceiver
<1>7. MixerTyped'
  BY <1>3, <1>5, <1>6 DEF MixerTyped
<1>8. SessionTyped'
  BY DEF RestartReceiver, Ended, Typed, SessionTyped
<1> QED BY <1>3, <1>4, <1>7, <1>8 DEF AuthTyped

LEMMA ReceiverStepTyped == ASSUME Typed, ReceiverStep PROVE Typed'
<1>1. AuthTyped'
  BY LocalStepTyped, AuthorityToldTyped, TimerTyped, QueueCommandTyped,
     HandleSnapshotRequestTyped, RefuseCommandTyped, FailEditTyped, ApplyEditTyped,
     ApplyVolumeTyped, RestartReceiverTyped
     DEF ReceiverStep, AuthorityStep
<1>2. MirrorTyped' /\ RequestTyped' /\ PendingTyped'
  BY DEF ReceiverStep, facadeVars, Typed, MirrorTyped, RequestTyped, PendingTyped, Pending
<1> QED BY <1>1, <1>2 DEF Typed, AuthTyped

-----------------------------------------------------------------------------
(* What the sender does stays typed.                                       *)
FacadeTyped ==
  /\ toAuthority \in Seq(AuthorityMessage) /\ LostTyped
  /\ MirrorTyped /\ RequestTyped /\ PendingTyped

(* What it sends is typed.                                                 *)
LEMMA RequestSnapshotTyped ==
  ASSUME Typed, NEW s, NEW open, open = 0 \/ open = requestId, RequestSnapshot(s, open)
  PROVE  RequestTyped' /\ requestId' # 0 /\ toAuthority' \in Seq(AuthorityMessage) /\ LostTyped'
<1>1. sentRequests \in Nat /\ requestId \in 0..sentRequests
      /\ toAuthority \in Seq(AuthorityMessage) /\ LostTyped
  BY DEF Typed, PublicationTyped, RequestTyped
<1>2. sentRequests' \in Nat /\ requestId' \in 1..sentRequests'
  BY <1>1 DEF RequestSnapshot
<1>3. [type |-> "request", id |-> requestId'] \in AuthorityMessage
  BY <1>2 DEF AuthorityMessage, Requests
<1>4. toAuthority' \in Seq(AuthorityMessage) /\ LostTyped'
  BY <1>1, <1>3, ToAuthorityTyped DEF RequestSnapshot
<1> QED BY <1>2, <1>4 DEF RequestTyped

LEMMA ClearPendingTyped ==
  ASSUME Typed, ClearPending, UNCHANGED sentCommands
  PROVE  PendingTyped'
<1>1. <<>> \in Seq(QueuedIntent) /\ Len(<<>>) = 0
  BY EmptySeq
<1> QED BY <1>1, FacadeAssumption DEF Typed, PendingTyped, Pending, ClearPending

LEMMA ResynchronizeTyped ==
  ASSUME Typed, Resynchronize
  PROVE  FacadeTyped' /\ requestId' # 0
<1>1. RequestTyped' /\ requestId' # 0 /\ toAuthority' \in Seq(AuthorityMessage) /\ LostTyped'
  BY RequestSnapshotTyped DEF Resynchronize
<1>2. PendingTyped'
  BY ClearPendingTyped DEF Resynchronize
<1>3. needsSnapshot' \in BOOLEAN
  BY DEF Resynchronize
<1>4. MirrorTyped'
  BY <1>3 DEF Resynchronize, Typed, MirrorTyped
<1> QED BY <1>1, <1>2, <1>4 DEF FacadeTyped

(* The next intent is sent, and never more than MAX_PENDING_COMMANDS are   *)
(* waiting or on the way.                                                  *)
LEMMA SendNextTyped ==
  ASSUME Typed, NEW waiting \in Seq(QueuedIntent), Len(waiting) <= MaxPending,
         NEW e \in Nat \cup {-1}, NEW r \in Nat, SendNext(waiting, e, r)
  PROVE  PendingTyped' /\ toAuthority' \in Seq(AuthorityMessage) /\ LostTyped'
<1>1. sentCommands \in Nat /\ mirrorSession \in Nat /\ toAuthority \in Seq(AuthorityMessage)
      /\ LostTyped
  BY DEF Typed, PublicationTyped, PendingTyped, MirrorTyped
<1>2. CASE waiting = <<>>
  <2>1. <<>> \in Seq(QueuedIntent) /\ Len(<<>>) = 0
    BY EmptySeq
  <2> QED BY <1>1, <1>2, <2>1, FacadeAssumption
          DEF SendNext, PendingTyped, Pending, LostTyped
<1>3. CASE waiting # <<>>
  <2> DEFINE id == sentCommands + 1
             m == CommandOf(Head(waiting), id, e, r)
  <2>1. Head(waiting) \in QueuedIntent /\ Tail(waiting) \in Seq(QueuedIntent)
        /\ Len(Tail(waiting)) = Len(waiting) - 1 /\ Len(waiting) \in Nat
    BY <1>3, HeadTailProperties, LenProperties
  <2>2. Head(waiting).change \in Change /\ Head(waiting).seen \in Nat
    BY <2>1 DEF QueuedIntent
  <2>3. id \in Nat /\ id \in 1..id
    BY <1>1
  <2>4. m \in Commands
    BY <1>1, <2>2, <2>3 DEF CommandOf, Commands
  <2>7. /\ inflight' = [id |-> id, acked |-> -1]
        /\ queue' = Tail(waiting)
        /\ sentCommands' = id
        /\ ToAuthority(mirrorSession, m)
    BY <1>3 DEF SendNext
  <2>8. toAuthority' \in Seq(AuthorityMessage) /\ LostTyped'
    BY <1>1, <2>4, <2>7, ToAuthorityTyped DEF AuthorityMessage
  <2>9. inflight' \in SentIntent(sentCommands')
    BY <2>3, <2>7 DEF SentIntent
  <2>10. Len(queue') + 1 <= MaxPending /\ Len(queue') \in Nat
    BY <2>1, <2>7, FacadeAssumption
  <2>11. Pending(inflight', queue') <= MaxPending
    BY <2>10, FacadeAssumption DEF Pending
  <2>12. queue' \in Seq(QueuedIntent) /\ sentCommands' \in Nat
    BY <2>1, <2>3, <2>7
  <2> QED BY <2>8, <2>9, <2>11, <2>12 DEF PendingTyped
<1> QED BY <1>2, <1>3

LEMMA FinishTyped ==
  ASSUME Typed, NEW intent \in SentIntent(sentCommands) \cup {NoIntent},
         NEW waiting \in Seq(QueuedIntent), Pending(intent, waiting) <= MaxPending,
         NEW e \in Nat \cup {-1}, NEW r \in Nat, Finish(intent, waiting, e, r)
  PROVE  PendingTyped' /\ toAuthority' \in Seq(AuthorityMessage) /\ LostTyped'
<1>1. Len(waiting) \in Nat /\ Len(waiting) <= MaxPending
  <2>1. Len(waiting) \in Nat
    BY LenProperties
  <2> QED BY <2>1, FacadeAssumption DEF Pending
<1>2. CASE SendNext(waiting, e, r)
  BY <1>1, <1>2, SendNextTyped
<1>3. CASE inflight' = intent /\ queue' = waiting /\ UNCHANGED <<sentCommands, toAuthority, lost>>
  BY <1>3 DEF Typed, PublicationTyped, PendingTyped, LostTyped
<1> QED BY <1>2, <1>3 DEF Finish

(* Each message it handles, and each thing its user does, keeps the types. *)
LEMMA MirrorToldTyped == ASSUME Typed, MirrorTold PROVE FacadeTyped' /\ (up => requestId' # 0)
<1>1. RequestTyped' /\ (up => requestId' # 0) /\ toAuthority' \in Seq(AuthorityMessage)
      /\ LostTyped'
  <2>1. CASE up
    <3>1. RequestSnapshot(Present, 0)
      BY <2>1 DEF MirrorTold
    <3> QED BY <3>1, RequestSnapshotTyped
  <2>2. CASE ~up
    BY <2>2 DEF MirrorTold, Typed, PublicationTyped, RequestTyped, LostTyped
  <2> QED BY <2>1, <2>2
<1>2. PendingTyped'
  BY ClearPendingTyped DEF MirrorTold
<1>3. needsSnapshot' \in BOOLEAN /\ denied' \in BOOLEAN
  BY DEF MirrorTold
<1>4. mirrorSession' \in Nat
  BY LinkAssumption DEF MirrorTold, Present, Typed, SessionTyped
<1>5. mirror' \in Content \cup {NoMirror} /\ epochSeen' \in Nat \cup {-1} /\ revisionSeen' \in Nat
  BY DEF MirrorTold
<1>6. MirrorTyped'
  BY <1>3, <1>4, <1>5 DEF MirrorTyped
<1> QED BY <1>1, <1>2, <1>6 DEF FacadeTyped

LEMMA ReceivedTyped ==
  ASSUME Typed, NEW type, Received(type)
  PROVE  /\ Head(toMirror) \in MirrorMessage /\ Head(toMirror).type = type
         /\ toMirror' \in Seq(MirrorMessage)
<1>1. toMirror \in Seq(MirrorMessage) /\ toMirror # <<>>
  BY DEF Typed, PublicationTyped, Received
<1> QED BY <1>1, HeadTailProperties DEF Received

(* With a snapshot in hand there is a mirror.                              *)
LEMMA ReceiveSnapshotTyped ==
  ASSUME Typed, ReceiveSnapshot
  PROVE  /\ FacadeTyped'
         /\ requestId' # 0 \/ (mirror' # NoMirror /\ ~needsSnapshot' /\ ~denied')
<1> DEFINE s == Head(toMirror)
           newEpoch == epochSeen # -1 /\ epochSeen # s.epoch
           intent == IF newEpoch THEN NoIntent ELSE inflight
           waiting == IF newEpoch THEN <<>> ELSE queue
<1>1. s \in Snapshots
  <2>1. s \in MirrorMessage /\ s.type = "snapshot"
    BY ReceivedTyped DEF ReceiveSnapshot
  <2> QED BY <2>1 DEF MirrorMessage, Deltas, Acks, Nacks
<1>2. s.epoch \in Nat /\ s.revision \in Nat /\ s.content \in Content
  BY <1>1 DEF Snapshots
<1>3. CASE Resynchronize
  BY <1>3, ResynchronizeTyped
<1>4. ASSUME mirror' = s.content, epochSeen' = s.epoch, revisionSeen' = s.revision,
             needsSnapshot' = FALSE, denied' = FALSE, requestId' = 0,
             Finish(intent, waiting, s.epoch, s.revision),
             UNCHANGED <<mirrorSession, sentRequests>>
      PROVE  FacadeTyped' /\ mirror' # NoMirror /\ ~needsSnapshot' /\ ~denied'
  <2> HIDE DEF s, newEpoch
  <2>1. inflight \in SentIntent(sentCommands) \cup {NoIntent} /\ queue \in Seq(QueuedIntent)
        /\ Pending(inflight, queue) <= MaxPending
    BY DEF Typed, PendingTyped
  <2>2. intent \in SentIntent(sentCommands) \cup {NoIntent}
    BY <2>1
  <2>3. waiting \in Seq(QueuedIntent)
    BY <2>1, EmptySeq
  <2>4. Pending(intent, waiting) <= MaxPending
    <3>1. CASE newEpoch
      <4>1. Pending(NoIntent, <<>>) = 0
        BY EmptySeq DEF Pending
      <4> QED BY <3>1, <4>1, FacadeAssumption
    <3>2. CASE ~newEpoch
      BY <2>1, <3>2
    <3> QED BY <3>1, <3>2
  <2>5. PendingTyped' /\ toAuthority' \in Seq(AuthorityMessage) /\ LostTyped'
    BY <1>2, <1>4, <2>2, <2>3, <2>4, FinishTyped
  <2>6. RequestTyped'
    BY <1>4 DEF Typed, RequestTyped
  <2>7. MirrorTyped'
    BY <1>2, <1>4 DEF Typed, MirrorTyped
  <2>8. mirror' # NoMirror
    BY <1>2, <1>4, RemoteAssumption
  <2> QED BY <1>4, <2>5, <2>6, <2>7, <2>8 DEF FacadeTyped
<1> QED BY <1>3, <1>4 DEF ReceiveSnapshot

LEMMA UntouchedTyped == ASSUME Typed, Untouched PROVE FacadeTyped'
BY DEF Typed, PublicationTyped, Untouched, FacadeTyped, MirrorTyped, RequestTyped, PendingTyped,
       Pending, LostTyped

LEMMA ReceiveDeltaTyped ==
  ASSUME Typed, ReceiveDelta
  PROVE  /\ FacadeTyped'
         /\ \/ requestId' # 0
            \/ /\ mirror = NoMirror <=> mirror' = NoMirror
               /\ UNCHANGED <<mirrorSession, needsSnapshot, denied, requestId>>
<1> DEFINE d == Head(toMirror)
<1>1. d \in Deltas
  <2>1. d \in MirrorMessage /\ d.type = "delta"
    BY ReceivedTyped DEF ReceiveDelta
  <2> QED BY <2>1 DEF MirrorMessage, Snapshots, Acks, Nacks
<1>2. d.epoch \in Nat /\ d.revision \in Nat /\ d.volume \in Volumes
  BY <1>1 DEF Deltas
<1>3. CASE Untouched
  BY <1>3, UntouchedTyped DEF Untouched
<1>4. CASE Resynchronize
  BY <1>4, ResynchronizeTyped
<1>5. ASSUME Follows(d), mirror' = [mirror EXCEPT !.volume = d.volume],
             revisionSeen' = d.revision, Finish(inflight, queue, d.epoch, d.revision),
             UNCHANGED <<mirrorSession, epochSeen, needsSnapshot, requestId, denied, sentRequests>>
      PROVE  FacadeTyped' /\ mirror # NoMirror /\ mirror' # NoMirror
  <2> HIDE DEF d
  <2>1. mirror # NoMirror /\ mirror \in Content
    BY <1>5 DEF Follows, Typed, MirrorTyped
  <2>2. mirror' \in Content
    BY <1>2, <1>5, <2>1 DEF Content
  <2>3. mirror' # NoMirror
    BY <2>2, RemoteAssumption
  <2>4. PendingTyped' /\ toAuthority' \in Seq(AuthorityMessage) /\ LostTyped'
    <3>1. inflight \in SentIntent(sentCommands) \cup {NoIntent} /\ queue \in Seq(QueuedIntent)
          /\ Pending(inflight, queue) <= MaxPending
      BY DEF Typed, PendingTyped
    <3> QED BY <1>2, <1>5, <3>1, FinishTyped
  <2>5. MirrorTyped' /\ RequestTyped'
    BY <1>2, <1>5, <2>2 DEF Typed, MirrorTyped, RequestTyped
  <2> QED BY <2>1, <2>3, <2>4, <2>5 DEF FacadeTyped
<1> QED BY <1>3, <1>4, <1>5 DEF ReceiveDelta, Untouched

LEMMA ReceiveAckTyped ==
  ASSUME Typed, ReceiveAck
  PROVE  FacadeTyped' /\ UNCHANGED <<mirrorSession, mirror, needsSnapshot, denied, requestId>>
<1> DEFINE a == Head(toMirror)
           intent == IF IsFor(a) THEN [inflight EXCEPT !.acked = a.revision] ELSE inflight
<1>1. a \in Acks
  <2>1. a \in MirrorMessage /\ a.type = "ack"
    BY ReceivedTyped DEF ReceiveAck
  <2> QED BY <2>1 DEF MirrorMessage, Snapshots, Deltas, Nacks
<1>2. a.revision \in Nat
  BY <1>1 DEF Acks
<1>3. sentCommands \in Nat /\ inflight \in SentIntent(sentCommands) \cup {NoIntent}
      /\ queue \in Seq(QueuedIntent) /\ Pending(inflight, queue) <= MaxPending
      /\ Len(queue) \in Nat
  BY LenProperties DEF Typed, PendingTyped
<1>4. epochSeen \in Nat \cup {-1} /\ revisionSeen \in Nat
  BY DEF Typed, MirrorTyped
<1>5. Finish(intent, queue, epochSeen, revisionSeen)
  BY DEF ReceiveAck
<1>6. intent \in SentIntent(sentCommands) \cup {NoIntent} /\ Pending(intent, queue) <= MaxPending
  <2> HIDE DEF a
  <2>1. CASE IsFor(a)
    <3>1. inflight # NoIntent /\ inflight \in SentIntent(sentCommands)
      BY <1>3, <2>1 DEF IsFor
    <3>2. intent \in SentIntent(sentCommands)
      BY <1>2, <2>1, <3>1 DEF SentIntent
    <3>3. Pending(intent, queue) <= Pending(inflight, queue)
      BY <1>3, <3>1 DEF Pending
    <3>4. Pending(intent, queue) \in Int /\ Pending(inflight, queue) \in Int
      BY <1>3 DEF Pending
    <3> QED BY <1>3, <3>2, <3>3, <3>4, FacadeAssumption
  <2>2. CASE ~IsFor(a)
    BY <1>3, <2>2
  <2> QED BY <2>1, <2>2
<1>7. PendingTyped' /\ toAuthority' \in Seq(AuthorityMessage) /\ LostTyped'
  <2> HIDE DEF intent
  <2> QED BY <1>3, <1>4, <1>5, <1>6, FinishTyped
<1>8. MirrorTyped' /\ RequestTyped'
  BY DEF ReceiveAck, Typed, MirrorTyped, RequestTyped
<1> QED BY <1>7, <1>8 DEF FacadeTyped, ReceiveAck

(* What the sender waits for, and for whom, is as before.                  *)
Kept == UNCHANGED <<mirrorSession, mirror, needsSnapshot, denied, requestId>>

LEMMA ReceiveNackTyped == ASSUME Typed, ReceiveNack PROVE FacadeTyped' /\ (requestId' # 0 \/ Kept)
<1>1. CASE Resynchronize
  BY <1>1, ResynchronizeTyped
<1>2. CASE Untouched
  BY <1>2, UntouchedTyped DEF Untouched, Kept
<1>3. ASSUME ClearPending, denied' = TRUE, RequestSnapshot(mirrorSession, requestId),
             UNCHANGED <<mirrorSession, mirror, epochSeen, revisionSeen, needsSnapshot,
                         sentCommands>>
      PROVE  FacadeTyped' /\ requestId' # 0
  <2>1. RequestTyped' /\ requestId' # 0 /\ toAuthority' \in Seq(AuthorityMessage) /\ LostTyped'
    BY <1>3, RequestSnapshotTyped
  <2>2. PendingTyped'
    BY <1>3, ClearPendingTyped
  <2>3. denied' \in BOOLEAN
    BY <1>3
  <2>4. MirrorTyped'
    BY <1>3, <2>3 DEF Typed, MirrorTyped
  <2> QED BY <2>1, <2>2, <2>4 DEF FacadeTyped
<1> QED BY <1>1, <1>2, <1>3 DEF ReceiveNack

LEMMA ExpirePendingTyped == ASSUME Typed, ExpirePending PROVE FacadeTyped' /\ requestId' # 0
<1>1. CASE Resynchronize
  BY <1>1, ResynchronizeTyped
<1>2. ASSUME RequestSnapshot(mirrorSession, requestId),
             UNCHANGED <<mirrorSession, mirror, epochSeen, revisionSeen, needsSnapshot, denied,
                         inflight, queue, sentCommands>>
      PROVE  FacadeTyped' /\ requestId' # 0
  <2>1. RequestTyped' /\ requestId' # 0 /\ toAuthority' \in Seq(AuthorityMessage) /\ LostTyped'
    BY <1>2, RequestSnapshotTyped
  <2>2. MirrorTyped' /\ PendingTyped'
    BY <1>2 DEF Typed, MirrorTyped, PendingTyped, Pending
  <2> QED BY <2>1, <2>2 DEF FacadeTyped
<1> QED BY <1>1, <1>2 DEF ExpirePending

LEMMA SubmitTyped ==
  ASSUME Typed, NEW change \in Change, Submit(change)
  PROVE  FacadeTyped' /\ (requestId' # 0 \/ Kept)
<1> DEFINE intent == IntentOf(change)
           pending == Len(queue) + (IF inflight = NoIntent THEN 0 ELSE 1)
           sameKey == {i \in 1..Len(queue) : change # Edit /\ queue[i].change # Edit}
<1>1. mirror \in Content
  BY DEF Submit, Typed, MirrorTyped
<1>2. intent \in QueuedIntent
  <2>1. mirror.local \in Nat
    BY <1>1 DEF Content
  <2> QED BY <2>1 DEF IntentOf, QueuedIntent
<1>3. sentCommands \in Nat /\ inflight \in SentIntent(sentCommands) \cup {NoIntent}
      /\ queue \in Seq(QueuedIntent) /\ Pending(inflight, queue) <= MaxPending
      /\ Len(queue) \in Nat /\ toAuthority \in Seq(AuthorityMessage) /\ LostTyped
  BY LenProperties DEF Typed, PublicationTyped, PendingTyped
<1> HIDE DEF intent
<1>4. ASSUME NEW i \in sameKey, queue' = [queue EXCEPT ![i] = intent],
             UNCHANGED <<mirrorSession, mirror, epochSeen, revisionSeen, needsSnapshot,
                         requestId, denied, inflight, sentRequests, sentCommands, toAuthority,
                         lost>>
      PROVE  FacadeTyped' /\ Kept
  <2>1. i \in 1..Len(queue)
    OBVIOUS
  <2>2. queue' \in Seq(QueuedIntent) /\ Len(queue') = Len(queue)
    BY <1>2, <1>3, <1>4, <2>1, ExceptSeq
  <2>3. PendingTyped'
    BY <1>3, <1>4, <2>2 DEF PendingTyped, Pending
  <2>4. MirrorTyped' /\ RequestTyped'
    BY <1>4 DEF Typed, MirrorTyped, RequestTyped
  <2> QED BY <1>3, <1>4, <2>3, <2>4 DEF FacadeTyped, Kept, LostTyped
<1>5. CASE Resynchronize
  BY <1>5, ResynchronizeTyped
<1>6. ASSUME pending < MaxPending,
             IF inflight = NoIntent
               THEN SendNext(Append(queue, intent), epochSeen, revisionSeen)
               ELSE /\ queue' = Append(queue, intent)
                    /\ UNCHANGED <<inflight, sentCommands, toAuthority, lost>>,
             UNCHANGED <<mirrorSession, mirror, epochSeen, revisionSeen, needsSnapshot,
                         requestId, denied, sentRequests>>
      PROVE  FacadeTyped' /\ Kept
  <2>1. Append(queue, intent) \in Seq(QueuedIntent) /\ Len(Append(queue, intent)) = Len(queue) + 1
    BY <1>2, <1>3
  <2>2. PendingTyped' /\ toAuthority' \in Seq(AuthorityMessage) /\ LostTyped'
    <3>1. CASE inflight = NoIntent
      <4>1. Len(Append(queue, intent)) <= MaxPending
        BY <1>3, <1>6, <2>1, <3>1, FacadeAssumption
      <4>2. epochSeen \in Nat \cup {-1} /\ revisionSeen \in Nat
        BY DEF Typed, MirrorTyped
      <4> QED BY <1>6, <2>1, <3>1, <4>1, <4>2, SendNextTyped
    <3>2. CASE inflight # NoIntent
      <4>1. Len(queue) + 1 < MaxPending
        BY <1>6, <3>2
      <4>2. Len(Append(queue, intent)) + 1 <= MaxPending
        BY <1>3, <2>1, <4>1, FacadeAssumption
      <4>3. Pending(inflight', queue') <= MaxPending
        BY <1>6, <3>2, <4>2 DEF Pending
      <4> QED BY <1>3, <1>6, <2>1, <3>2, <4>3 DEF PendingTyped, LostTyped
    <3> QED BY <3>1, <3>2
  <2>3. MirrorTyped' /\ RequestTyped'
    BY <1>6 DEF Typed, MirrorTyped, RequestTyped
  <2> QED BY <1>6, <2>2, <2>3 DEF FacadeTyped, Kept
<1> QED BY <1>4, <1>5, <1>6 DEF Submit, intent

LEMMA FacadeStepTyped == ASSUME Typed, FacadeStep PROVE Typed'
<1>1. FacadeTyped'
  BY MirrorToldTyped, ReceiveSnapshotTyped, ReceiveDeltaTyped, ReceiveAckTyped, ReceiveNackTyped
     DEF FacadeStep, ReceiveMessage
<1>2. toMirror' \in Seq(MirrorMessage)
  <2>1. CASE MirrorTold
    BY <2>1 DEF MirrorTold, Typed, PublicationTyped
  <2>2. CASE ReceiveMessage
    BY <2>2, ReceivedTyped
       DEF ReceiveMessage, ReceiveSnapshot, ReceiveDelta, ReceiveAck, ReceiveNack
  <2> QED BY <2>1, <2>2 DEF FacadeStep
<1>3. UNCHANGED <<session, up>>
  BY DEF FacadeStep, ReceiveMessage, MirrorTold, ReceiveSnapshot, ReceiveDelta, ReceiveAck,
         ReceiveNack, Received
<1>4. UNCHANGED authVars
  BY DEF FacadeStep
<1>5. SessionTyped' /\ PublicationTyped' /\ MixerTyped'
  BY <1>1, <1>2, <1>3, <1>4
     DEF authVars, FacadeTyped, Typed, SessionTyped, PublicationTyped, MixerTyped
<1> QED BY <1>1, <1>5 DEF Typed, FacadeTyped

LEMMA UserOrExpireTyped == ASSUME Typed, UserStep \/ Expire PROVE Typed'
<1>1. FacadeTyped'
  BY SubmitTyped, ExpirePendingTyped DEF UserStep, Expire, Change
<1>2. UNCHANGED <<session, up, toMirror, authVars>>
  BY DEF UserStep, Expire, Submit, ExpirePending
<1>3. SessionTyped' /\ PublicationTyped' /\ MixerTyped'
  BY <1>1, <1>2 DEF authVars, FacadeTyped, Typed, SessionTyped, PublicationTyped, MixerTyped
<1> QED BY <1>1, <1>3 DEF Typed, FacadeTyped

LEMMA LinkStepTyped == ASSUME Typed, LinkStep PROVE Typed'
<1>1. SessionTyped'
  <2>1. session \in 0..MaxSessions /\ (up => session # 0)
    BY DEF Typed, SessionTyped
  <2>2. up' \in BOOLEAN
    BY DEF LinkStep, Connect, Break, Ended
  <2>3. CASE Connect
    <3>1. session' \in 0..MaxSessions /\ session' # 0
      BY <2>1, <2>3, LinkAssumption DEF Connect
    <3> QED BY <2>2, <3>1 DEF SessionTyped
  <2>4. CASE Break
    BY <2>1, <2>2, <2>4 DEF Break, Ended, SessionTyped
  <2> QED BY <2>3, <2>4 DEF LinkStep
<1>2. toMirror' \in Seq(MirrorMessage) /\ toAuthority' \in Seq(AuthorityMessage) /\ LostTyped'
  BY EndedTyped DEF LinkStep, Connect, Break, Typed, PublicationTyped, LostTyped
<1>3. PublicationTyped' /\ MixerTyped'
  BY <1>2 DEF LinkStep, authVars, Typed, PublicationTyped, MixerTyped
<1>4. MirrorTyped' /\ RequestTyped' /\ PendingTyped'
  BY DEF LinkStep, facadeVars, Typed, MirrorTyped, RequestTyped, PendingTyped, Pending
<1> QED BY <1>1, <1>2, <1>3, <1>4 DEF Typed

LEMMA TypedStep == ASSUME Typed, [Next]_vars PROVE Typed'
<1>1. CASE Next
  BY <1>1, LinkStepTyped, ReceiverStepTyped, FacadeStepTyped, UserOrExpireTyped DEF Next
<1>2. CASE UNCHANGED vars
  BY <1>2 DEF vars, linkVars, authVars, facadeVars, Typed, SessionTyped, PublicationTyped,
              LostTyped, MixerTyped, MirrorTyped, RequestTyped, PendingTyped, Pending
<1> QED BY <1>1, <1>2

(* Every variable of the remote mixer keeps its type, sessions and sent    *)
(* identities only count up, and the sender never holds more than          *)
(* MAX_PENDING_COMMANDS edits, queued or on the way (_submit).             *)
THEOREM RemoteTypeCorrect == Spec => []TypeOK
<1>1. Typed => TypeOK
  <2> SUFFICES ASSUME Typed PROVE TypeOK
    OBVIOUS
  <2>1. deferred \in Seq(Waiting) /\ queue \in Seq(QueuedIntent)
    BY DEF Typed, PublicationTyped, PendingTyped
  <2>2. \A i \in 1..Len(deferred) : deferred[i] \in [id : Nat, session : Nat]
    BY <2>1, ElementOfSeq DEF Waiting
  <2>3. \A i \in 1..Len(queue) : queue[i] \in [change : Volumes \cup {Edit}, seen : Nat]
    BY <2>1, ElementOfSeq DEF QueuedIntent, Change
  <2>4. /\ inflight \in [id : 1..sentCommands, acked : Nat \cup {-1}] \cup {NoIntent}
        /\ Len(queue) + (IF inflight = NoIntent THEN 0 ELSE 1) <= MaxPending
    BY DEF Typed, PendingTyped, Pending, SentIntent
  <2>5. session \in 0..MaxSessions /\ up \in BOOLEAN
    BY DEF Typed, SessionTyped
  <2>6. revision \in Nat /\ observed \in Content /\ volumePending \in BOOLEAN
    BY DEF Typed, PublicationTyped, LostTyped
  <2>7. lost \in [messages : 0..MaxLost, publication : BOOLEAN, commands : SUBSET Nat]
    BY DEF Typed, PublicationTyped, LostTyped
  <2> QED BY <2>2, <2>3, <2>4, <2>5, <2>6, <2>7
          DEF Typed, MixerTyped, MirrorTyped, RequestTyped, TypeOK
<1> QED BY <1>1, TypedInit, TypedStep, PTL DEF Spec

-----------------------------------------------------------------------------
(* The repair of a mirror.                                                 *)
LEMMA RequestOpenStep == ASSUME Typed, RequestIsOpen, [Next]_vars PROVE RequestIsOpen'
<1>1. CASE Kept
  BY <1>1 DEF Kept, RequestIsOpen
<1>2. CASE requestId' # 0
  BY <1>2 DEF RequestIsOpen
<1>3. CASE LinkStep \/ ReceiverStep
  BY <1>1, <1>3 DEF LinkStep, ReceiverStep, facadeVars, Kept
<1>4. CASE UserStep \/ Expire
  BY <1>1, <1>2, <1>4, SubmitTyped, ExpirePendingTyped DEF UserStep, Expire, Change
<1>5. CASE MirrorTold
  <2>1. CASE up
    BY <1>2, <1>5, <2>1, MirrorToldTyped
  <2>2. CASE ~up
    BY <1>5, <2>2 DEF MirrorTold, Present, RequestIsOpen
  <2> QED BY <2>1, <2>2
<1>6. CASE ReceiveSnapshot
  BY <1>6, ReceiveSnapshotTyped DEF RequestIsOpen
<1>7. CASE ReceiveDelta
  BY <1>7, ReceiveDeltaTyped DEF RequestIsOpen
<1>8. CASE ReceiveAck \/ ReceiveNack
  BY <1>1, <1>2, <1>8, ReceiveAckTyped, ReceiveNackTyped DEF Kept
<1>9. CASE UNCHANGED vars
  BY <1>1, <1>9 DEF vars, facadeVars, Kept
<1> QED BY <1>3, <1>4, <1>5, <1>6, <1>7, <1>8, <1>9 DEF Next, FacadeStep, ReceiveMessage

(* However the messages, the deadlines, the user's edits and the changes   *)
(* of session interleave, a sender whose mirror is missing, doubted or     *)
(* denied has a request for a snapshot open (_resynchronize, _apply_nack,  *)
(* expire_pending).                                                        *)
THEOREM RepairIsRequested == Spec => []RequestIsOpen
<1>1. Init => RequestIsOpen
  BY DEF Init, FacadeInit, RequestIsOpen
<1> QED BY <1>1, TypedInit, TypedStep, RequestOpenStep, PTL DEF Spec

-----------------------------------------------------------------------------
(* What the receiver has yet to publish.                                   *)
LEMMA CapturedStep == ASSUME ChangesAreCaptured, [Next]_vars PROVE ChangesAreCaptured'
<1>1. CASE LinkStep \/ FacadeStep \/ Expire \/ UserStep \/ UNCHANGED vars
  BY <1>1 DEF LinkStep, FacadeStep, Expire, UserStep, vars, authVars, ChangesAreCaptured
<1>2. CASE LocalStep
  BY <1>2 DEF LocalStep, LocalEdit, LocalVolume, TogglePermission, ChangesAreCaptured
<1>3. CASE AuthorityTold \/ QueueCommand \/ RefuseCommand
  BY <1>3 DEF AuthorityTold, QueueCommand, RefuseCommand, ChangesAreCaptured
<1>4. CASE CaptureLocalMutation
  BY <1>4 DEF CaptureLocalMutation, NothingPublished, PublishSnapshot, ChangesAreCaptured
<1>5. CASE CaptureRuntimeVolume
  BY <1>5 DEF CaptureRuntimeVolume, NothingPublished, Flush, ChangesAreCaptured
<1>6. CASE FlushVolumePublication
  BY <1>6 DEF FlushVolumePublication, Flush, ChangesAreCaptured
<1>7. CASE HandleSnapshotRequest
  BY <1>7 DEF HandleSnapshotRequest, NothingPublished, PublishSnapshot, ChangesAreCaptured
<1>8. CASE FailEdit \/ ApplyEdit \/ ApplyVolume
  BY <1>8 DEF FailEdit, ApplyEdit, ApplyVolume, ChangesAreCaptured
<1>9. CASE RestartReceiver
  BY <1>9 DEF RestartReceiver, ChangesAreCaptured
<1> QED BY <1>1, <1>2, <1>3, <1>4, <1>5, <1>6, <1>7, <1>8, <1>9
        DEF Next, ReceiverStep, AuthorityStep

(* Whatever the order of the timers, the commands and the restarts, the    *)
(* receiver has a capture or a flush to come as long as its mixer differs  *)
(* from what it published (capture_local_mutation, capture_runtime_volume, *)
(* flush_volume_publication).                                              *)
THEOREM NoChangeIsForgotten == Spec => []ChangesAreCaptured
<1>1. Init => ChangesAreCaptured
  BY DEF Init, AuthInit, ChangesAreCaptured
<1> QED BY <1>1, CapturedStep, PTL DEF Spec

(* The permission a session decides by, and its publication, without       *)
(* regard to whether there is a session: a session may begin later.        *)
PermissionKnown ==
  /\ authSession # 0 => sessionAllowed = content.allowed
  /\ observed.allowed # content.allowed => editCapture

LEMMA PermissionStep == ASSUME Typed, PermissionKnown, [Next]_vars PROVE PermissionKnown'
<1>1. content \in Content
  BY DEF Typed, MixerTyped
<1>2. \A n \in Nat : [content EXCEPT !.edit = n].allowed = content.allowed
  BY <1>1 DEF Content
<1>3. CASE LinkStep \/ FacadeStep \/ Expire \/ UserStep \/ UNCHANGED vars
  BY <1>3 DEF LinkStep, FacadeStep, Expire, UserStep, vars, authVars, PermissionKnown
<1>4. CASE AuthorityTold
  <2>1. authSession' # 0 => up
    BY <1>4 DEF AuthorityTold, Present
  <2>2. content.allowed \in BOOLEAN
    BY <1>1 DEF Content
  <2>3. sessionAllowed' = (up /\ content.allowed) /\ UNCHANGED <<content, observed, editCapture>>
    BY <1>4 DEF AuthorityTold
  <2>4. up => sessionAllowed' = content.allowed
    BY <2>2, <2>3
  <2> QED BY <2>1, <2>3, <2>4 DEF PermissionKnown
<1>5. CASE LocalEdit
  <2>1. content'.allowed = content.allowed
    BY <1>1, <1>5 DEF LocalEdit, Content
  <2> QED BY <1>5, <2>1 DEF LocalEdit, PermissionKnown
<1>6. CASE \E v \in Volumes : LocalVolume(v)
  <2>1. content'.allowed = content.allowed
    BY <1>1, <1>6 DEF LocalVolume, Content
  <2> QED BY <1>6, <2>1 DEF LocalVolume, PermissionKnown
<1>7. CASE TogglePermission
  BY <1>7 DEF TogglePermission, NothingPublished, PermissionKnown
<1>8. CASE CaptureLocalMutation
  BY <1>8 DEF CaptureLocalMutation, NothingPublished, PublishSnapshot, PermissionKnown
<1>9. CASE CaptureRuntimeVolume \/ FlushVolumePublication
  BY <1>9 DEF CaptureRuntimeVolume, FlushVolumePublication, NothingPublished, Flush,
              PermissionKnown
<1>10. CASE QueueCommand \/ RefuseCommand
  BY <1>10 DEF QueueCommand, RefuseCommand, NextCommand, PermissionKnown
<1>11. CASE HandleSnapshotRequest
  BY <1>11 DEF HandleSnapshotRequest, NothingPublished, PublishSnapshot, PermissionKnown
<1>12. CASE FailEdit
  <2>1. content'.allowed = content.allowed
    <3>1. NextCommand
      BY <1>12 DEF FailEdit
    <3>2. Head(commands).id \in Nat
      BY <3>1, NextCommandTyped DEF Commands
    <3> QED BY <1>2, <1>12, <3>2 DEF FailEdit
  <2> QED BY <1>12, <2>1 DEF FailEdit, NextCommand, PermissionKnown
<1>13. CASE ApplyEdit
  <2>1. content'.allowed = content.allowed
    <3>1. NextCommand
      BY <1>13 DEF ApplyEdit
    <3>2. Head(commands).id \in Nat
      BY <3>1, NextCommandTyped DEF Commands
    <3> QED BY <1>2, <1>13, <3>2 DEF ApplyEdit
  <2> QED BY <1>13, <2>1 DEF ApplyEdit, NextCommand, PermissionKnown
<1>14. CASE ApplyVolume
  <2>1. content'.allowed = content.allowed /\ observed' \in {content', observed}
    <3>1. NextCommand
      BY <1>14 DEF ApplyVolume
    <3>2. Head(commands).change \in Volumes
      <4>1. Head(commands) \in Commands
        BY <3>1, NextCommandTyped
      <4> QED BY <1>14, <4>1 DEF Commands, Change, ApplyVolume
    <3> QED BY <1>1, <1>14, <3>2 DEF ApplyVolume, Content
  <2> QED BY <1>14, <2>1 DEF ApplyVolume, NextCommand, PermissionKnown
<1>15. CASE RestartReceiver
  BY <1>15 DEF RestartReceiver, PermissionKnown
<1> QED BY <1>3, <1>4, <1>5, <1>6, <1>7, <1>8, <1>9, <1>10, <1>11, <1>12, <1>13, <1>14, <1>15
        DEF Next, ReceiverStep, LocalStep, AuthorityStep

(* The receiver decides by the permission as its user last set it, and the *)
(* sender is told of it (reconcile_permission, begin_transport_session).   *)
THEOREM PermissionIsCurrent == Spec => []PermissionIsTold
<1>1. Init => PermissionKnown
  BY DEF Init, AuthInit, PermissionKnown
<1>2. PermissionKnown => PermissionIsTold
  BY DEF PermissionKnown, PermissionIsTold
<1> QED BY <1>1, <1>2, TypedInit, TypedStep, PermissionStep, PTL DEF Spec

-----------------------------------------------------------------------------
(* The stream of publications.                                             *)
Silent(w) == \A i \in 1..Len(w) : ~IsPublication(w[i])

\* The last publication of w is revision r of epoch e, with content c.
Ends(w, e, r, c) ==
  \E i \in 1..Len(w) :
    /\ IsPublication(w[i])
    /\ \A j \in i + 1..Len(w) : ~IsPublication(w[j])
    /\ w[i].epoch = e /\ w[i].revision = r /\ w[i].content = c

\* The revisions that w names never go back, from lo to hi.
Rises(w, lo, hi) ==
  /\ lo <= hi
  /\ \A i \in 1..Len(w) :
       /\ lo <= w[i].revision /\ w[i].revision <= hi
       /\ \A j \in i..Len(w) : w[i].revision <= w[j].revision

OfEpoch(w, e) == \A i \in 1..Len(w) : IsPublication(w[i]) => w[i].epoch = e

LEMMA MessageFields ==
  ASSUME NEW m \in MirrorMessage
  PROVE  /\ m.revision \in Nat
         /\ m.type \in {"snapshot", "delta", "ack", "nack"}
         /\ IsPublication(m) => m.epoch \in Nat /\ m.content \in Content
<1>1. CASE m \in Snapshots
  BY <1>1 DEF Snapshots, IsPublication
<1>2. CASE m \in Deltas
  BY <1>2 DEF Deltas, IsPublication
<1>3. CASE m \in Acks
  BY <1>3 DEF Acks, IsPublication
<1>4. CASE m \in Nacks
  BY <1>4 DEF Nacks, IsPublication
<1> QED BY <1>1, <1>2, <1>3, <1>4 DEF MirrorMessage

\* What is known of the messages of two sequences that are joined.
LEMMA JoinedMessages ==
  ASSUME NEW w \in Seq(MirrorMessage), NEW v \in Seq(MirrorMessage)
  PROVE  /\ w \o v \in Seq(MirrorMessage)
         /\ Len(w \o v) = Len(w) + Len(v) /\ Len(w) \in Nat /\ Len(v) \in Nat
         /\ \A i \in 1..Len(w) : (w \o v)[i] = w[i]
         /\ \A i \in 1..Len(v) : (w \o v)[Len(w) + i] = v[i]
         /\ \A i \in 1..Len(w \o v) : i \in 1..Len(w) \/ i - Len(w) \in 1..Len(v)
<1>1. w \o v \in Seq(MirrorMessage) /\ Len(w) \in Nat /\ Len(v) \in Nat
  BY ConcatProperties
<1>2. Len(w \o v) = Len(w) + Len(v)
  BY ConcatProperties
<1>3. \A i \in 1..Len(w) + Len(v) : (w \o v)[i] = IF i <= Len(w) THEN w[i] ELSE v[i - Len(w)]
  BY ConcatProperties
<1> QED BY <1>1, <1>2, <1>3

LEMMA TailMessages ==
  ASSUME NEW w \in Seq(MirrorMessage), w # <<>>
  PROVE  /\ Tail(w) \in Seq(MirrorMessage) /\ Head(w) = w[1] /\ Head(w) \in MirrorMessage
         /\ Len(w) \in Nat \ {0} /\ Len(Tail(w)) = Len(w) - 1
         /\ \A i \in 1..Len(Tail(w)) : Tail(w)[i] = w[i + 1]
BY HeadTailProperties

LEMMA Pair == ASSUME NEW x \in MirrorMessage, NEW y \in MirrorMessage PROVE <<x>> \o <<y>> = <<x, y>>
<1> DEFINE u == <<x>> \o <<y>>
           w == <<x, y>>
<1>1. <<x>> \in Seq(MirrorMessage) /\ <<y>> \in Seq(MirrorMessage) /\ w \in Seq(MirrorMessage)
  OBVIOUS
<1>2. Len(<<x>>) = 1 /\ Len(<<y>>) = 1 /\ <<x>>[1] = x /\ <<y>>[1] = y /\ Len(w) = 2 /\ w[1] = x /\ w[2] = y
  OBVIOUS
<1>3. u \in Seq(MirrorMessage) /\ Len(u) = 2 /\ u[1] = x /\ u[2] = y
  <2>1. u \in Seq(MirrorMessage) /\ Len(u) = Len(<<x>>) + Len(<<y>>)
        /\ (\A i \in 1..Len(<<x>>) : u[i] = <<x>>[i])
        /\ (\A i \in 1..Len(<<y>>) : u[Len(<<x>>) + i] = <<y>>[i])
    BY <1>1, JoinedMessages
  <2> HIDE DEF u
  <2>2. Len(u) = 2
    BY <1>2, <2>1
  <2>3. u[1] = x
    <3>1. 1 \in 1..Len(<<x>>)
      BY <1>2
    <3>2. u[1] = <<x>>[1]
      BY <2>1, <3>1
    <3> QED BY <1>2, <3>2
  <2>4. u[2] = y
    <3>1. 1 \in 1..Len(<<y>>) /\ Len(<<x>>) + 1 = 2
      BY <1>2
    <3>2. u[Len(<<x>>) + 1] = <<y>>[1]
      BY <2>1, <3>1
    <3> QED BY <1>2, <3>1, <3>2
  <2> QED BY <2>1, <2>2, <2>3, <2>4
<1> HIDE DEF u, w
<1>4. \A i \in 1..Len(u) : u[i] = w[i]
  <2> SUFFICES ASSUME NEW i \in 1..2 PROVE u[i] = w[i]
    BY <1>3
  <2> QED BY <1>2, <1>3
<1>5. u = w
  BY <1>1, <1>2, <1>3, <1>4, SeqEqual
<1> QED BY <1>5 DEF u, w

LEMMA SilentJoin ==
  ASSUME NEW w \in Seq(MirrorMessage), NEW v \in Seq(MirrorMessage), Silent(w), Silent(v)
  PROVE  Silent(w \o v)
<1> SUFFICES ASSUME NEW i \in 1..Len(w \o v) PROVE ~IsPublication((w \o v)[i])
  BY DEF Silent
<1>1. CASE i \in 1..Len(w)
  BY <1>1, JoinedMessages DEF Silent
<1>2. CASE i - Len(w) \in 1..Len(v)
  <2>1. (w \o v)[Len(w) + (i - Len(w))] = v[i - Len(w)] /\ Len(w) + (i - Len(w)) = i
    BY <1>2, JoinedMessages
  <2> QED BY <1>2, <2>1 DEF Silent
<1> QED BY <1>1, <1>2, JoinedMessages

LEMMA EndsJoin ==
  ASSUME NEW w \in Seq(MirrorMessage), NEW v \in Seq(MirrorMessage), NEW e, NEW r, NEW c
  PROVE  /\ Ends(v, e, r, c) => Ends(w \o v, e, r, c)
         /\ Ends(w, e, r, c) /\ Silent(v) => Ends(w \o v, e, r, c)
<1> DEFINE u == w \o v
<1>1. Len(u) = Len(w) + Len(v) /\ Len(w) \in Nat /\ Len(v) \in Nat
  BY JoinedMessages
<1>2. \A i \in 1..Len(w) : u[i] = w[i]
  BY JoinedMessages
<1>3. \A i \in 1..Len(v) : u[Len(w) + i] = v[i]
  BY JoinedMessages
<1> HIDE DEF u
<1>4. ASSUME Ends(v, e, r, c) PROVE Ends(u, e, r, c)
  <2>1. PICK i \in 1..Len(v) :
          /\ IsPublication(v[i]) /\ \A j \in i + 1..Len(v) : ~IsPublication(v[j])
          /\ v[i].epoch = e /\ v[i].revision = r /\ v[i].content = c
    BY <1>4 DEF Ends
  <2>2. Len(w) + i \in 1..Len(u) /\ u[Len(w) + i] = v[i]
    BY <1>1, <1>3
  <2>3. ASSUME NEW j \in Len(w) + i + 1..Len(u) PROVE ~IsPublication(u[j])
    <3>1. j - Len(w) \in i + 1..Len(v) /\ j - Len(w) \in 1..Len(v) /\ Len(w) + (j - Len(w)) = j
      BY <1>1
    <3> QED BY <1>3, <2>1, <3>1
  <2> QED BY <2>1, <2>2, <2>3 DEF Ends
<1>5. ASSUME Ends(w, e, r, c), Silent(v) PROVE Ends(u, e, r, c)
  <2>1. PICK i \in 1..Len(w) :
          /\ IsPublication(w[i]) /\ \A j \in i + 1..Len(w) : ~IsPublication(w[j])
          /\ w[i].epoch = e /\ w[i].revision = r /\ w[i].content = c
    BY <1>5 DEF Ends
  <2>2. i \in 1..Len(u) /\ u[i] = w[i]
    BY <1>1, <1>2
  <2>3. ASSUME NEW j \in i + 1..Len(u) PROVE ~IsPublication(u[j])
    <3>1. CASE j <= Len(w)
      BY <1>1, <1>2, <2>1, <3>1
    <3>2. CASE j > Len(w)
      <4>1. j - Len(w) \in 1..Len(v) /\ Len(w) + (j - Len(w)) = j
        BY <1>1, <3>2
      <4> QED BY <1>3, <1>5, <4>1 DEF Silent
    <3> QED BY <1>1, <3>1, <3>2
  <2> QED BY <2>1, <2>2, <2>3 DEF Ends
<1> QED BY <1>4, <1>5 DEF u

LEMMA RisesJoin ==
  ASSUME NEW w \in Seq(MirrorMessage), NEW v \in Seq(MirrorMessage),
         NEW lo \in Nat, NEW mid \in Nat, NEW hi \in Nat, Rises(w, lo, mid), Rises(v, mid, hi)
  PROVE  Rises(w \o v, lo, hi)
<1> DEFINE u == w \o v
<1>1. Len(u) = Len(w) + Len(v) /\ Len(w) \in Nat /\ Len(v) \in Nat /\ u \in Seq(MirrorMessage)
  BY JoinedMessages
<1>2. \A i \in 1..Len(w) : u[i] = w[i]
  BY JoinedMessages
<1>3. \A i \in 1..Len(v) : u[Len(w) + i] = v[i]
  BY JoinedMessages
<1>4. /\ \A i \in 1..Len(u) : u[i].revision \in Nat
      /\ \A i \in 1..Len(w) : w[i].revision \in Nat
      /\ \A i \in 1..Len(v) : v[i].revision \in Nat
  BY <1>1, MessageFields, ElementOfSeq
<1> HIDE DEF u
<1>5. \A i \in 1..Len(u) : i > Len(w) =>
        i - Len(w) \in 1..Len(v) /\ u[i] = v[i - Len(w)]
  <2> SUFFICES ASSUME NEW i \in 1..Len(u), i > Len(w)
               PROVE  i - Len(w) \in 1..Len(v) /\ u[i] = v[i - Len(w)]
    OBVIOUS
  <2>1. i - Len(w) \in 1..Len(v) /\ Len(w) + (i - Len(w)) = i
    BY <1>1
  <2> QED BY <1>3, <2>1
<1>6. lo <= mid /\ mid <= hi
  BY DEF Rises
<1>7. ASSUME NEW i \in 1..Len(u)
      PROVE  /\ lo <= u[i].revision /\ u[i].revision <= hi
             /\ \A j \in i..Len(u) : u[i].revision <= u[j].revision
  <2>1. CASE i <= Len(w)
    <3>1. i \in 1..Len(w) /\ u[i] = w[i]
      BY <1>1, <1>2, <2>1
    <3>2. lo <= w[i].revision /\ w[i].revision <= mid /\ w[i].revision \in Nat
      BY <1>4, <3>1 DEF Rises
    <3>3. ASSUME NEW j \in i..Len(u) PROVE u[i].revision <= u[j].revision
      <4>1. CASE j <= Len(w)
        <5>1. j \in i..Len(w) /\ j \in 1..Len(w)
          BY <1>1, <4>1
        <5> QED BY <1>2, <3>1, <5>1 DEF Rises
      <4>2. CASE j > Len(w)
        <5>1. j \in 1..Len(u)
          BY <1>1
        <5>2. mid <= u[j].revision /\ u[j].revision \in Nat
          BY <1>4, <1>5, <4>2, <5>1 DEF Rises
        <5> QED BY <3>1, <3>2, <5>2
      <4> QED BY <1>1, <4>1, <4>2
    <3>4. u[i].revision <= hi
      BY <1>6, <3>1, <3>2
    <3> QED BY <3>1, <3>2, <3>3, <3>4
  <2>2. CASE i > Len(w)
    <3>1. i - Len(w) \in 1..Len(v) /\ u[i] = v[i - Len(w)]
      BY <1>5, <2>2
    <3>2. mid <= v[i - Len(w)].revision /\ v[i - Len(w)].revision <= hi
      BY <3>1 DEF Rises
    <3>3. ASSUME NEW j \in i..Len(u) PROVE u[i].revision <= u[j].revision
      <4>1. j \in 1..Len(u) /\ j > Len(w)
        BY <1>1, <2>2
      <4>2. j - Len(w) \in i - Len(w)..Len(v) /\ u[j] = v[j - Len(w)]
        BY <1>1, <1>5, <4>1
      <4> QED BY <3>1, <4>2 DEF Rises
    <3>4. lo <= u[i].revision
      BY <1>4, <1>6, <3>1, <3>2
    <3> QED BY <3>1, <3>2, <3>3, <3>4
  <2> QED BY <1>1, <2>1, <2>2
<1>8. lo <= hi
  BY <1>6
<1> QED BY <1>7, <1>8 DEF Rises, u

LEMMA RisesMore ==
  ASSUME NEW w \in Seq(MirrorMessage), NEW lo \in Nat, NEW low \in Nat, NEW mid \in Nat, NEW hi \in Nat,
         Rises(w, lo, mid), mid <= hi, low <= lo
  PROVE  Rises(w, low, hi)
<1>1. \A i \in 1..Len(w) : w[i].revision \in Nat
  BY MessageFields, ElementOfSeq
<1> QED BY <1>1 DEF Rises

LEMMA RisesTail ==
  ASSUME NEW w \in Seq(MirrorMessage), NEW lo \in Nat, NEW hi \in Nat, Rises(w, lo, hi), w # <<>>
  PROVE  /\ lo <= Head(w).revision /\ Head(w).revision <= hi
         /\ Rises(Tail(w), Head(w).revision, hi) /\ Rises(Tail(w), lo, hi)
<1>1. /\ Tail(w) \in Seq(MirrorMessage) /\ Head(w) = w[1] /\ Head(w) \in MirrorMessage
      /\ Len(w) \in Nat \ {0} /\ Len(Tail(w)) = Len(w) - 1
      /\ \A i \in 1..Len(Tail(w)) : Tail(w)[i] = w[i + 1]
  BY TailMessages
<1>2. Head(w).revision \in Nat
  BY <1>1, MessageFields
<1>3. lo <= Head(w).revision /\ Head(w).revision <= hi
  BY <1>1 DEF Rises
<1>4. Rises(Tail(w), Head(w).revision, hi)
  <2> SUFFICES ASSUME NEW i \in 1..Len(Tail(w))
               PROVE  /\ Head(w).revision <= Tail(w)[i].revision /\ Tail(w)[i].revision <= hi
                      /\ \A j \in i..Len(Tail(w)) : Tail(w)[i].revision <= Tail(w)[j].revision
    BY <1>3 DEF Rises
  <2>1. i + 1 \in 1..Len(w) /\ Tail(w)[i] = w[i + 1] /\ i + 1 \in 1..Len(w) /\ 1 \in 1..Len(w)
    BY <1>1
  <2>2. Head(w).revision <= Tail(w)[i].revision
    BY <1>1, <2>1 DEF Rises
  <2>3. ASSUME NEW j \in i..Len(Tail(w)) PROVE Tail(w)[i].revision <= Tail(w)[j].revision
    <3>1. j + 1 \in i + 1..Len(w) /\ j \in 1..Len(Tail(w))
      BY <1>1
    <3>2. Tail(w)[j] = w[j + 1]
      BY <1>1, <3>1
    <3> QED BY <2>1, <3>1, <3>2 DEF Rises
  <2>4. Tail(w)[i].revision <= hi
    BY <2>1 DEF Rises
  <2> QED BY <2>2, <2>3, <2>4
<1>5. Rises(Tail(w), lo, hi)
  <2>1. hi <= hi
    OBVIOUS
  <2> HIDE DEF Rises
  <2> QED BY <1>1, <1>2, <1>3, <1>4, <2>1, RisesMore
<1> QED BY <1>3, <1>4, <1>5

LEMMA EndsTail ==
  ASSUME NEW w \in Seq(MirrorMessage), w # <<>>, NEW e, NEW r, NEW c
  PROVE  /\ Silent(w) => Silent(Tail(w)) /\ ~IsPublication(Head(w))
         /\ Ends(w, e, r, c) => \/ Ends(Tail(w), e, r, c)
                                \/ /\ Silent(Tail(w)) /\ IsPublication(Head(w))
                                   /\ Head(w).epoch = e /\ Head(w).revision = r /\ Head(w).content = c
         /\ OfEpoch(w, e) => OfEpoch(Tail(w), e) /\ (IsPublication(Head(w)) => Head(w).epoch = e)
<1> DEFINE t == Tail(w)
<1>1. /\ Head(w) = w[1] /\ Len(w) \in Nat \ {0} /\ Len(t) = Len(w) - 1
      /\ \A i \in 1..Len(t) : t[i] = w[i + 1]
  BY TailMessages
<1> HIDE DEF t
<1>2. ASSUME Silent(w) PROVE Silent(t) /\ ~IsPublication(Head(w))
  <2>1. \A i \in 1..Len(t) : i + 1 \in 1..Len(w)
    BY <1>1
  <2> QED BY <1>1, <1>2, <2>1 DEF Silent
<1>3. ASSUME OfEpoch(w, e) PROVE OfEpoch(t, e) /\ (IsPublication(Head(w)) => Head(w).epoch = e)
  <2>1. \A i \in 1..Len(t) : i + 1 \in 1..Len(w)
    BY <1>1
  <2> QED BY <1>1, <1>3, <2>1 DEF OfEpoch
<1>4. ASSUME Ends(w, e, r, c)
      PROVE  \/ Ends(t, e, r, c)
             \/ /\ Silent(t) /\ IsPublication(Head(w))
                /\ Head(w).epoch = e /\ Head(w).revision = r /\ Head(w).content = c
  <2>1. PICK i \in 1..Len(w) :
          /\ IsPublication(w[i]) /\ \A j \in i + 1..Len(w) : ~IsPublication(w[j])
          /\ w[i].epoch = e /\ w[i].revision = r /\ w[i].content = c
    BY <1>4 DEF Ends
  <2>2. CASE i = 1
    <3>1. \A j \in 1..Len(t) : j + 1 \in i + 1..Len(w)
      BY <1>1, <2>2
    <3> QED BY <1>1, <2>1, <2>2, <3>1 DEF Silent
  <2>3. CASE i # 1
    <3>1. i - 1 \in 1..Len(t) /\ t[i - 1] = w[i]
      <4>1. i - 1 \in 1..Len(t) /\ i - 1 + 1 = i
        BY <1>1, <2>3
      <4> QED BY <1>1, <4>1
    <3>2. ASSUME NEW j \in i - 1 + 1..Len(t) PROVE ~IsPublication(t[j])
      <4>1. j \in 1..Len(t) /\ j + 1 \in i + 1..Len(w)
        BY <1>1
      <4> QED BY <1>1, <2>1, <4>1
    <3> QED BY <2>1, <3>1, <3>2 DEF Ends
  <2> QED BY <2>2, <2>3
<1> QED BY <1>2, <1>3, <1>4 DEF t

LEMMA OfEpochJoin ==
  ASSUME NEW w \in Seq(MirrorMessage), NEW v \in Seq(MirrorMessage), NEW e,
         OfEpoch(w, e), OfEpoch(v, e)
  PROVE  OfEpoch(w \o v, e)
<1> SUFFICES ASSUME NEW i \in 1..Len(w \o v), IsPublication((w \o v)[i])
             PROVE  (w \o v)[i].epoch = e
  BY DEF OfEpoch
<1>1. CASE i \in 1..Len(w)
  BY <1>1, JoinedMessages DEF OfEpoch
<1>2. CASE i - Len(w) \in 1..Len(v)
  <2>1. (w \o v)[Len(w) + (i - Len(w))] = v[i - Len(w)] /\ Len(w) + (i - Len(w)) = i
    BY <1>2, JoinedMessages
  <2> QED BY <1>2, <2>1 DEF OfEpoch
<1> QED BY <1>1, <1>2, JoinedMessages

-----------------------------------------------------------------------------
(* What of a turn's messages is put on the way.                            *)

\* v answers command id.
Tells(v, id) == \E i \in 1..Len(v) : v[i].type \in {"ack", "nack"} /\ v[i].id = id

\* w is part of v, in the same order.
Part(w, v) ==
  /\ w \in Seq(MirrorMessage)
  /\ \E place \in [1..Len(w) -> 1..Len(v)] :
       \A i \in 1..Len(w) : /\ w[i] = v[place[i]]
                            /\ \A j \in i + 1..Len(w) : place[i] < place[j]

LostAsBefore == lost'.publication = lost.publication /\ lost'.commands = lost.commands

\* What is missing in w was lost, and is known to be.
LossKnown(w, v) ==
  /\ \A e, r, c : Ends(v, e, r, c) => lost'.publication \/ Ends(w, e, r, c)
  /\ Silent(v) => lost'.publication = lost.publication
  /\ \A id : Tells(v, id) => Tells(w, id) \/ id \in lost'.commands
  /\ lost.commands \subseteq lost'.commands

\* The receiver sends v to session s, and a part of it is put on the way.
Sends(s, v) ==
  IF Live(s) THEN \E w : Part(w, v) /\ LossKnown(w, v) /\ toMirror' = toMirror \o w
             ELSE LostAsBefore /\ UNCHANGED toMirror

LEMMA FittingSends ==
  ASSUME NEW s, NEW v \in Seq(MirrorMessage), ToMirror(s, v)
  PROVE  Sends(s, v)
<1>1. CASE ~Live(s)
  BY <1>1 DEF ToMirror, Sends, LostAsBefore
<1>2. CASE Live(s)
  <2>1. PICK full \in 0..Len(v), drained \in 0..Len(v) :
          /\ full <= drained
          /\ toMirror' = toMirror \o Fitting(v, full, drained)
          /\ lost' = LostWith(v, full, drained)
    BY <1>2 DEF ToMirror
  <2> DEFINE w == Fitting(v, full, drained)
             dropped == (full + 1)..drained
             published == {i \in 1..Len(v) : IsPublication(v[i])}
             answered == {v[i].id : i \in {k \in dropped : v[k].type \in {"ack", "nack"}}}
             place == [i \in 1..Len(w) |-> IF i <= full THEN i ELSE i + drained - full]
  <2>2. /\ Len(v) \in Nat /\ full \in Nat /\ drained \in Nat
        /\ w \in Seq(MirrorMessage)
        /\ Len(w) = full + (Len(v) - drained)
        /\ \A i \in 1..Len(w) : w[i] = v[IF i <= full THEN i ELSE i + drained - full]
    BY <2>1, LenProperties, FittingIsPart
  <2>3. lost'.commands = lost.commands \cup answered
    BY <2>1 DEF LostWith
  <2>4. lost'.publication = IF published = {} THEN lost.publication
                            ELSE \E i \in dropped \cap published : \A j \in published : j <= i
    BY <2>1 DEF LostWith
  <2> HIDE DEF w, answered
  \* What is not dropped is in w.
  <2>5. ASSUME NEW i \in 1..Len(v), i \notin dropped
        PROVE  \E k \in 1..Len(w) : w[k] = v[i] /\ place[k] = i
    <3>1. CASE i <= full
      <4>1. i \in 1..Len(w)
        BY <2>2, <3>1
      <4> QED BY <2>2, <3>1, <4>1
    <3>2. CASE i > drained
      <4>1. i - (drained - full) \in 1..Len(w) /\ ~(i - (drained - full) <= full)
            /\ i - (drained - full) + drained - full = i
        BY <2>1, <2>2, <3>2
      <4> QED BY <2>2, <4>1
    <3>3. i <= full \/ i > drained
      BY <2>1, <2>2, <2>5
    <3> HIDE DEF place
    <3> QED BY <3>1, <3>2, <3>3
  <2>6. /\ place \in [1..Len(w) -> 1..Len(v)]
        /\ \A i \in 1..Len(w) : /\ w[i] = v[place[i]]
                                /\ \A j \in i + 1..Len(w) : place[i] < place[j]
    <3>1. \A i \in 1..Len(w) : (IF i <= full THEN i ELSE i + drained - full) \in 1..Len(v)
      BY <2>1, <2>2
    <3>2. \A i \in 1..Len(w) : \A j \in i + 1..Len(w) :
            (IF i <= full THEN i ELSE i + drained - full)
              < (IF j <= full THEN j ELSE j + drained - full)
      BY <2>1, <2>2
    <3>3. \A i \in 1..Len(w) : \A j \in i + 1..Len(w) : j \in 1..Len(w)
      BY <2>2
    <3> QED BY <2>2, <3>1, <3>2, <3>3
  <2> HIDE DEF place
  <2>7. Part(w, v)
    BY <2>2, <2>6 DEF Part
  <2>8. ASSUME NEW e, NEW r, NEW c, Ends(v, e, r, c), ~lost'.publication
        PROVE  Ends(w, e, r, c)
    <3>1. PICK i \in 1..Len(v) :
            /\ IsPublication(v[i]) /\ \A j \in i + 1..Len(v) : ~IsPublication(v[j])
            /\ v[i].epoch = e /\ v[i].revision = r /\ v[i].content = c
      BY <2>8 DEF Ends
    <3>2. i \in published /\ \A j \in published : j <= i
      BY <2>2, <3>1
    <3>3. i \notin dropped
      BY <2>4, <2>8, <3>2
    <3>4. PICK k \in 1..Len(w) : w[k] = v[i] /\ place[k] = i
      BY <2>5, <3>3
    <3>5. ASSUME NEW j \in k + 1..Len(w) PROVE ~IsPublication(w[j])
      <4>1. j \in 1..Len(w)
        BY <2>2
      <4>2. place[k] < place[j] /\ w[j] = v[place[j]] /\ place[j] \in 1..Len(v)
        BY <2>6, <4>1
      <4>3. place[j] \in i + 1..Len(v)
        BY <2>2, <3>4, <4>2
      <4> QED BY <3>1, <4>2, <4>3
    <3> QED BY <3>1, <3>4, <3>5 DEF Ends
  <2>9. ASSUME Silent(v) PROVE lost'.publication = lost.publication
    <3>1. published = {}
      BY <2>9 DEF Silent
    <3> QED BY <2>4, <3>1
  <2>10. ASSUME NEW id, Tells(v, id), id \notin lost'.commands PROVE Tells(w, id)
    <3>1. PICK i \in 1..Len(v) : v[i].type \in {"ack", "nack"} /\ v[i].id = id
      BY <2>10 DEF Tells
    <3>2. i \notin dropped
      BY <2>3, <2>10, <3>1 DEF answered
    <3>3. PICK k \in 1..Len(w) : w[k] = v[i]
      BY <2>5, <3>2
    <3> QED BY <3>1, <3>3 DEF Tells
  <2>11. LossKnown(w, v)
    BY <2>3, <2>8, <2>9, <2>10 DEF LossKnown
  <2> QED BY <1>2, <2>1, <2>7, <2>11 DEF Sends, w
<1> QED BY <1>1, <1>2

\* Nothing is sent, or lost that matters.
LEMMA NothingSends ==
  ASSUME NEW s, toMirror \in Seq(MirrorMessage), UNCHANGED toMirror, LostAsBefore
  PROVE  Sends(s, <<>>)
<1> DEFINE none == [i \in 1..0 |-> i]
<1>1. <<>> \in Seq(MirrorMessage) /\ Len(<<>>) = 0 /\ toMirror \o <<>> = toMirror
  BY EmptySeq, ConcatEmptySeq
<1>2. Part(<<>>, <<>>)
  <2>1. [i \in 1..0 |-> i] \in [1..0 -> 1..0] /\ \A i \in 1..0 : FALSE
    OBVIOUS
  <2> QED BY <1>1, <2>1 DEF Part
<1>3. LossKnown(<<>>, <<>>)
  BY <1>1 DEF LossKnown, LostAsBefore
<1> QED BY <1>1, <1>2, <1>3 DEF Sends, LostAsBefore

LEMMA PartOf ==
  ASSUME NEW v \in Seq(MirrorMessage), NEW w, Part(w, v)
  PROVE  /\ \A lo, hi : Rises(v, lo, hi) => Rises(w, lo, hi)
         /\ \A e : OfEpoch(v, e) => OfEpoch(w, e)
         /\ Silent(v) => Silent(w)
<1>1. PICK place \in [1..Len(w) -> 1..Len(v)] :
        \A i \in 1..Len(w) : /\ w[i] = v[place[i]]
                             /\ \A j \in i + 1..Len(w) : place[i] < place[j]
  BY DEF Part
<1>2. Len(w) \in Nat /\ Len(v) \in Nat /\ \A i \in 1..Len(w) : w[i].revision \in Nat
  BY MessageFields, ElementOfSeq, LenProperties DEF Part
<1>3. ASSUME NEW lo, NEW hi, Rises(v, lo, hi) PROVE Rises(w, lo, hi)
  <2>1. ASSUME NEW i \in 1..Len(w)
        PROVE  /\ lo <= w[i].revision /\ w[i].revision <= hi
               /\ \A j \in i..Len(w) : w[i].revision <= w[j].revision
    <3>1. place[i] \in 1..Len(v) /\ w[i] = v[place[i]]
      BY <1>1
    <3>2. ASSUME NEW j \in i..Len(w), j # i PROVE w[i].revision <= w[j].revision
      <4>1. j \in i + 1..Len(w) /\ j \in 1..Len(w)
        BY <1>2, <3>2
      <4>2. place[i] < place[j] /\ place[j] \in 1..Len(v) /\ w[j] = v[place[j]]
        BY <1>1, <4>1
      <4>3. place[j] \in place[i]..Len(v)
        BY <1>2, <3>1, <4>2
      <4> QED BY <1>3, <3>1, <4>2, <4>3 DEF Rises
    <3> QED BY <1>2, <1>3, <3>1, <3>2 DEF Rises
  <2> QED BY <1>3, <2>1 DEF Rises
<1>4. \A e : OfEpoch(v, e) => OfEpoch(w, e)
  BY <1>1 DEF OfEpoch
<1>5. Silent(v) => Silent(w)
  BY <1>1 DEF Silent
<1> QED BY <1>3, <1>4, <1>5

-----------------------------------------------------------------------------
(* The mirror and what is on the way to it.                                *)

\* The sender is told of the session that is up.
Joined == mirrorSession # 0 /\ mirrorSession = Present

\* Nobody knows of a session to come, and a lost one leaves nothing on the way.
Sessions ==
  /\ mirrorSession <= session /\ authSession <= session
  /\ ~up => toMirror = <<>> /\ toAuthority = <<>>

\* What is on the way ends with what was published last, if it publishes at all
\* and the last was not lost.
Stream ==
  /\ Rises(toMirror, 0, revision)
  /\ OfEpoch(toMirror, epoch)
  /\ Silent(toMirror) \/ (up /\ authSession = session)
  /\ ~lost.publication => Silent(toMirror) \/ Ends(toMirror, epoch, revision, observed)

\* What is on the way starts where the mirror is.
Shown ==
  Joined =>
    /\ Rises(toMirror, revisionSeen, revision)
    /\ mirror # NoMirror => authSession = session /\ epochSeen = epoch
    /\ mirror # NoMirror /\ ~needsSnapshot /\ Silent(toMirror) /\ ~lost.publication
         => revisionSeen = revision /\ mirror = observed

MirrorInv == Sessions /\ Stream /\ Shown

\* A step of the receiver sends v to session s, and v leads to what it then shows.
Posted(s, v) ==
  /\ Sends(s, v)
  /\ v \in Seq(MirrorMessage)
  /\ revision' \in Nat
  /\ Rises(v, revision, revision')
  /\ OfEpoch(v, epoch)
  /\ \/ s = authSession /\ Ends(v, epoch, revision', observed')
     \/ Silent(v) /\ revision' = revision /\ observed' = observed

\* The session, and the sender, are as they were.
Elsewhere == UNCHANGED <<session, up, authSession, epoch, facadeVars>>

LEMMA NothingRises ==
  ASSUME NEW lo \in Nat, NEW hi \in Nat, lo <= hi, NEW e
  PROVE  Rises(<<>>, lo, hi) /\ OfEpoch(<<>>, e) /\ Silent(<<>>) /\ <<>> \in Seq(MirrorMessage)
BY EmptySeq DEF Rises, OfEpoch, Silent

LEMMA PostedKeeps ==
  ASSUME Typed, MirrorInv, NEW s, NEW v, Posted(s, v), Elsewhere, up \/ UNCHANGED toAuthority
  PROVE  MirrorInv'
<1> USE DEF MirrorInv
<1>1. /\ toMirror \in Seq(MirrorMessage) /\ revision \in Nat /\ revisionSeen \in Nat /\ v \in Seq(MirrorMessage)
      /\ revision' \in Nat /\ revision <= revision' /\ observed \in Content
  BY DEF Typed, PublicationTyped, MirrorTyped, Posted, Rises
<1>2. /\ UNCHANGED <<session, up, authSession, epoch>>
      /\ UNCHANGED <<mirrorSession, mirror, epochSeen, revisionSeen, needsSnapshot>>
      /\ Joined' = Joined
  BY DEF Elsewhere, facadeVars, Joined, Present
<1>3. CASE ~Live(s)
  <2>1. toMirror' = toMirror /\ lost'.publication = lost.publication
    BY <1>3 DEF Posted, Sends, LostAsBefore
  <2>2. Rises(toMirror, 0, revision')
    BY <1>1, RisesMore DEF Stream
  <2>3. Joined => Rises(toMirror, revisionSeen, revision')
    BY <1>1, RisesMore DEF Shown
  <2>4. \/ Silent(toMirror) /\ ~(up /\ authSession = session)
        \/ revision' = revision /\ observed' = observed
    BY <1>3 DEF Posted, Live, Stream
  <2>5. Stream'
    BY <1>2, <2>1, <2>2, <2>4 DEF Stream
  <2>6. Sessions'
    BY <1>2, <2>1 DEF Sessions
  <2>7. Joined => up
    BY DEF Joined, Present
  <2>8. Shown'
    <3> SUFFICES ASSUME Joined
                 PROVE  /\ Rises(toMirror, revisionSeen, revision')
                        /\ mirror # NoMirror => authSession = session /\ epochSeen = epoch
                        /\ mirror # NoMirror /\ ~needsSnapshot /\ Silent(toMirror)
                           /\ ~lost.publication
                             => revisionSeen = revision' /\ mirror = observed'
      BY <1>2, <2>1 DEF Shown
    <3> QED BY <2>3, <2>4, <2>7 DEF Shown
  <2> QED BY <2>5, <2>6, <2>8
<1>4. CASE Live(s)
  <2>0. PICK w : Part(w, v) /\ LossKnown(w, v) /\ toMirror' = toMirror \o w
    BY <1>4 DEF Posted, Sends
  <2> DEFINE u == toMirror \o w
  <2>1. toMirror' = u /\ u \in Seq(MirrorMessage) /\ w \in Seq(MirrorMessage) /\ up
    BY <1>1, <1>4, <2>0, JoinedMessages DEF Part, Live
  <2>2. Rises(toMirror, 0, revision) /\ Rises(w, revision, revision') /\ OfEpoch(toMirror, epoch)
        /\ OfEpoch(w, epoch) /\ (Silent(v) => Silent(w))
    BY <1>1, <2>0, PartOf DEF Stream, Posted
  <2>3. Rises(u, 0, revision') /\ OfEpoch(u, epoch)
    BY <1>1, <2>1, <2>2, RisesJoin, OfEpochJoin
  <2>4. Joined => Rises(u, revisionSeen, revision')
    BY <1>1, <2>1, <2>2, RisesJoin DEF Shown
  \* A publication that is not lost ends what is on the way; none leaves it as it was.
  <2>5. \/ s = authSession /\ (lost'.publication \/ Ends(u, epoch, revision', observed'))
        \/ /\ revision' = revision /\ observed' = observed
           /\ lost'.publication = lost.publication
           /\ \/ Silent(toMirror) /\ Silent(u)
              \/ /\ up /\ authSession = session
                 /\ lost.publication \/ Ends(u, epoch, revision, observed)
    <3>1. CASE s = authSession /\ Ends(v, epoch, revision', observed')
      <4>1. lost'.publication \/ Ends(w, epoch, revision', observed')
        BY <2>0, <3>1 DEF LossKnown
      <4> QED BY <1>1, <2>1, <3>1, <4>1, EndsJoin
    <3>2. CASE Silent(v) /\ revision' = revision /\ observed' = observed
      <4>1. lost'.publication = lost.publication /\ Silent(w)
        BY <2>0, <2>2, <3>2 DEF LossKnown
      <4>2. CASE Silent(toMirror)
        BY <1>1, <2>1, <3>2, <4>1, <4>2, SilentJoin
      <4>3. CASE ~Silent(toMirror)
        <5>1. up /\ authSession = session
              /\ (lost.publication \/ Ends(toMirror, epoch, revision, observed))
          BY <4>3 DEF Stream
        <5> QED BY <1>1, <2>1, <3>2, <4>1, <5>1, EndsJoin
      <4> QED BY <4>2, <4>3
    <3> QED BY <3>1, <3>2 DEF Posted
  <2> HIDE DEF u
  <2>6. Stream'
    BY <1>2, <1>4, <2>1, <2>3, <2>5 DEF Stream, Live
  <2>7. Sessions'
    BY <1>2, <2>1 DEF Sessions
  <2>8. \/ ~Silent(u) \/ lost'.publication
        \/ /\ revision' = revision /\ observed' = observed /\ Silent(toMirror)
           /\ ~lost.publication
    BY <2>5 DEF Ends, Silent
  <2>9. Shown'
    <3> SUFFICES ASSUME Joined
                 PROVE  /\ Rises(u, revisionSeen, revision')
                        /\ mirror # NoMirror => authSession = session /\ epochSeen = epoch
                        /\ mirror # NoMirror /\ ~needsSnapshot /\ Silent(u)
                           /\ ~lost'.publication
                             => revisionSeen = revision' /\ mirror = observed'
      BY <1>2, <2>1 DEF Shown
    <3> QED BY <2>4, <2>8 DEF Shown
  <2> QED BY <2>6, <2>7, <2>9
<1> QED BY <1>3, <1>4

-----------------------------------------------------------------------------
(* What the receiver posts.                                                *)
LEMMA OneMessage ==
  ASSUME NEW m \in MirrorMessage, NEW e
  PROVE  /\ <<m>> \in Seq(MirrorMessage)
         /\ Rises(<<m>>, m.revision, m.revision)
         /\ (IsPublication(m) => m.epoch = e) => OfEpoch(<<m>>, e)
         /\ ~IsPublication(m) => Silent(<<m>>)
         /\ IsPublication(m) => Ends(<<m>>, m.epoch, m.revision, m.content)
<1>1. m.revision \in Nat
  BY MessageFields
<1>2. <<m>> \in Seq(MirrorMessage) /\ Len(<<m>>) = 1 /\ <<m>>[1] = m
  OBVIOUS
<1>3. IsPublication(m) => Ends(<<m>>, m.epoch, m.revision, m.content)
  BY <1>2 DEF Ends
<1>4. Rises(<<m>>, m.revision, m.revision)
  BY <1>1, <1>2 DEF Rises
<1> QED BY <1>2, <1>3, <1>4 DEF OfEpoch, Silent

LEMMA AnswersSilent ==
  ASSUME NEW waiting \in Seq(Waiting), NEW r \in Nat, NEW e
  PROVE  /\ Answers(waiting, r) \in Seq(MirrorMessage)
         /\ Rises(Answers(waiting, r), r, r) /\ Silent(Answers(waiting, r))
         /\ OfEpoch(Answers(waiting, r), e)
<1> DEFINE gone == Cardinality({i \in 1..Len(waiting) : waiting[i].session # authSession})
           a == Answers(waiting, r)
<1>1. a \in Seq(MirrorMessage)
  BY AnswersTyped
<1>2. a = [i \in 1..(Len(waiting) - gone) |-> AckOf(waiting[gone + i].id, r)]
  BY DEF Answers
<1> HIDE DEF gone, a
<1>3. \A i \in 1..Len(a) : i \in DOMAIN a
  BY <1>1
<1>4. \A i \in 1..Len(a) : a[i].revision = r /\ a[i].type = "ack"
  BY <1>2, <1>3 DEF AckOf
<1> QED BY <1>1, <1>4 DEF a, Rises, Silent, OfEpoch, IsPublication

LEMMA VolumePublished ==
  ASSUME NEW c \in Content, epoch \in Nat, revision \in Nat
  PROVE  /\ VolumePublication(c) \in MirrorMessage /\ IsPublication(VolumePublication(c))
         /\ VolumePublication(c).epoch = epoch /\ VolumePublication(c).revision = revision + 1
         /\ VolumePublication(c).content = c
<1>1. VolumePublication(c) \in MirrorMessage
  BY VolumePublicationTyped
<1> QED BY <1>1 DEF VolumePublication, SnapshotOf, DeltaOf, IsPublication

\* What a step of the receiver adds, from revision lo to hi: a publication of c
\* at the end, or none.
Adds(v, lo, hi, c) ==
  /\ v \in Seq(MirrorMessage)
  /\ Rises(v, lo, hi) /\ OfEpoch(v, epoch) /\ Ends(v, epoch, hi, c)

AddsNone(v, lo, hi) ==
  v \in Seq(MirrorMessage) /\ Rises(v, lo, hi) /\ OfEpoch(v, epoch) /\ Silent(v)

LEMMA AddsJoin ==
  ASSUME NEW v, NEW w, NEW lo \in Nat, NEW mid \in Nat, NEW hi \in Nat, NEW c
  PROVE  /\ Adds(v, lo, hi, c) /\ AddsNone(w, hi, hi) => Adds(v \o w, lo, hi, c)
         /\ (AddsNone(v, lo, mid) \/ \E d : Adds(v, lo, mid, d)) /\ Adds(w, mid, hi, c)
              => Adds(v \o w, lo, hi, c)
<1>1. ASSUME Adds(v, lo, hi, c), AddsNone(w, hi, hi) PROVE Adds(v \o w, lo, hi, c)
  <2>1. v \in Seq(MirrorMessage) /\ w \in Seq(MirrorMessage)
    BY <1>1 DEF Adds, AddsNone
  <2>2. v \o w \in Seq(MirrorMessage)
    BY <2>1, JoinedMessages
  <2>3. Rises(v \o w, lo, hi) /\ OfEpoch(v \o w, epoch)
    BY <1>1, <2>1, RisesJoin, OfEpochJoin DEF Adds, AddsNone
  <2>4. Ends(v \o w, epoch, hi, c)
    BY <1>1, <2>1, EndsJoin DEF Adds, AddsNone
  <2> QED BY <2>2, <2>3, <2>4 DEF Adds
<1>2. ASSUME v \in Seq(MirrorMessage), Rises(v, lo, mid), OfEpoch(v, epoch), Adds(w, mid, hi, c)
      PROVE  Adds(v \o w, lo, hi, c)
  <2>1. w \in Seq(MirrorMessage)
    BY <1>2 DEF Adds
  <2>2. v \o w \in Seq(MirrorMessage)
    BY <1>2, <2>1, JoinedMessages
  <2>3. Rises(v \o w, lo, hi) /\ OfEpoch(v \o w, epoch)
    BY <1>2, <2>1, RisesJoin, OfEpochJoin DEF Adds
  <2>4. Ends(v \o w, epoch, hi, c)
    BY <1>2, <2>1, EndsJoin DEF Adds
  <2> QED BY <2>2, <2>3, <2>4 DEF Adds
<1> QED BY <1>1, <1>2 DEF Adds, AddsNone

LEMMA FlushAdds ==
  ASSUME NEW c \in Content, NEW waiting \in Seq(Waiting), epoch \in Nat, revision \in Nat
  PROVE  Adds(FlushMessages(TRUE, c, waiting), revision, revision + 1, c)
<1> DEFINE p == VolumePublication(c)
           a == Answers(waiting, revision + 1)
<1>1. p \in MirrorMessage /\ IsPublication(p) /\ p.epoch = epoch /\ p.revision = revision + 1 /\ p.content = c
  BY VolumePublished
<1>2. AddsNone(a, revision + 1, revision + 1)
  BY AnswersSilent DEF AddsNone
<1> HIDE DEF p, a
<1>3. Adds(<<p>>, revision, revision + 1, c)
  <2>1. /\ <<p>> \in Seq(MirrorMessage) /\ Rises(<<p>>, revision + 1, revision + 1)
        /\ OfEpoch(<<p>>, epoch) /\ Ends(<<p>>, epoch, revision + 1, c)
    BY <1>1, OneMessage
  <2>2. revision + 1 \in Nat /\ revision <= revision + 1 /\ revision + 1 <= revision + 1
    OBVIOUS
  <2>3. Rises(<<p>>, revision, revision + 1)
    BY <2>1, <2>2, RisesMore
  <2> QED BY <2>1, <2>3 DEF Adds
<1>4. Adds(<<p>> \o a, revision, revision + 1, c)
  BY <1>2, <1>3, AddsJoin
<1> QED BY <1>4 DEF FlushMessages, p, a

\* What is flushed first, if anything.
LEMMA FirstAdds ==
  ASSUME NEW c \in Content, Typed
  PROVE  /\ AfterFlush \in Nat
         /\ volumePending =>
              /\ AfterFlush = revision + 1
              /\ Adds(FlushMessages(volumePending, c, deferred), revision, AfterFlush, c)
         /\ ~volumePending =>
              /\ AfterFlush = revision
              /\ FlushMessages(volumePending, c, deferred) = <<>>
              /\ AddsNone(FlushMessages(volumePending, c, deferred), revision, AfterFlush)
<1>1. epoch \in Nat /\ revision \in Nat /\ deferred \in Seq(Waiting) /\ volumePending \in BOOLEAN
  BY DEF Typed, PublicationTyped, MixerTyped
<1>2. CASE volumePending
  <2>1. volumePending = TRUE
    BY <1>1, <1>2
  <2>2. Adds(FlushMessages(TRUE, c, deferred), revision, revision + 1, c)
    BY <1>1, FlushAdds
  <2>3. AfterFlush = revision + 1 /\ AfterFlush \in Nat
    BY <1>1, <1>2 DEF AfterFlush
  <2> QED BY <2>1, <2>2, <2>3
<1>3. CASE ~volumePending
  BY <1>1, <1>3, NothingRises DEF AfterFlush, FlushMessages, AddsNone
<1> QED BY <1>2, <1>3

LEMMA SnapshotAdds ==
  ASSUME NEW c \in Content, Typed
  PROVE  /\ Adds(SnapshotMessages(c), revision, AfterFlush + 1, c)
         /\ AfterFlush + 1 \in Nat
<1> DEFINE s == SnapshotOf(c, AfterFlush + 1)
           f == FlushMessages(volumePending, c, deferred)
<1>1. epoch \in Nat /\ revision \in Nat /\ AfterFlush \in Nat
  BY FirstAdds DEF Typed, PublicationTyped, MixerTyped
<1>2. s \in MirrorMessage /\ IsPublication(s) /\ s.epoch = epoch /\ s.revision = AfterFlush + 1 /\ s.content = c
  <2>1. s \in MirrorMessage
    BY <1>1, SnapshotTyped
  <2> QED BY <2>1 DEF SnapshotOf, IsPublication
<1>3. AddsNone(f, revision, AfterFlush) \/ \E d : Adds(f, revision, AfterFlush, d)
  BY FirstAdds DEF Typed, PublicationTyped
<1> HIDE DEF s, f
<1>4. Adds(<<s>>, AfterFlush, AfterFlush + 1, c)
  <2>1. /\ <<s>> \in Seq(MirrorMessage) /\ Rises(<<s>>, AfterFlush + 1, AfterFlush + 1)
        /\ OfEpoch(<<s>>, epoch) /\ Ends(<<s>>, epoch, AfterFlush + 1, c)
    BY <1>2, OneMessage
  <2>2. AfterFlush + 1 \in Nat /\ AfterFlush <= AfterFlush + 1 /\ AfterFlush + 1 <= AfterFlush + 1
    BY <1>1
  <2>3. Rises(<<s>>, AfterFlush, AfterFlush + 1)
    BY <1>1, <2>1, <2>2, RisesMore
  <2> QED BY <2>1, <2>3 DEF Adds
<1>5. Adds(f \o <<s>>, revision, AfterFlush + 1, c)
  BY <1>1, <1>3, <1>4, AddsJoin
<1> QED BY <1>1, <1>5 DEF SnapshotMessages, s, f

LEMMA AddedIsPosted ==
  ASSUME NEW v, ToMirror(authSession, v), revision' \in Nat, Adds(v, revision, revision', observed')
  PROVE  Posted(authSession, v)
BY FittingSends DEF Posted, Adds

LEMMA NothingPosted ==
  ASSUME Typed, UNCHANGED <<toMirror, revision, observed>>, LostAsBefore
  PROVE  Posted(authSession, <<>>)
<1>1. revision \in Nat /\ epoch \in Nat /\ toMirror \in Seq(MirrorMessage)
  BY DEF Typed, PublicationTyped, MixerTyped
<1>2. Sends(authSession, <<>>)
  BY <1>1, NothingSends
<1>3. revision <= revision
  BY <1>1
<1> QED BY <1>1, <1>2, <1>3, NothingRises DEF Posted

LEMMA PublishPosts ==
  ASSUME Typed, NEW c \in Content, NEW done, PublishSnapshot(c, <<>>, done)
  PROVE  \E v : Posted(authSession, v)
<1> DEFINE v == SnapshotMessages(c)
<1>1. Adds(v, revision, AfterFlush + 1, c) /\ AfterFlush + 1 \in Nat
  BY SnapshotAdds
<1>2. v \o <<>> = v
  BY <1>1, ConcatEmptySeq DEF Adds
<1>3. ToMirror(authSession, v) /\ revision' = AfterFlush + 1 /\ observed' = c
  BY <1>2 DEF PublishSnapshot
<1> QED BY <1>1, <1>3, AddedIsPosted

LEMMA FlushPosts ==
  ASSUME Typed, NEW c \in Content, NEW done, Flush(TRUE, c, deferred, done)
  PROVE  \E v : Posted(authSession, v)
<1>1. epoch \in Nat /\ revision \in Nat /\ deferred \in Seq(Waiting) /\ revision + 1 \in Nat
  BY DEF Typed, PublicationTyped, MixerTyped
<1>2. Adds(FlushMessages(TRUE, c, deferred), revision, revision + 1, c)
  BY <1>1, FlushAdds
<1>3. ToMirror(authSession, FlushMessages(TRUE, c, deferred)) /\ revision' = revision + 1 /\ observed' = c
  BY DEF Flush
<1> QED BY <1>1, <1>2, <1>3, AddedIsPosted

\* Of each step of the receiver that leaves the session alone.
Posts == \E s, v : Posted(s, v)

LEMMA LocalPosts ==
  ASSUME Typed, LocalStep \/ CaptureLocalMutation \/ CaptureRuntimeVolume \/ FlushVolumePublication
  PROVE  Posts
<1>1. content \in Content /\ [content EXCEPT !.allowed = ~@] \in Content
  BY ChangedContentTyped DEF Typed, MixerTyped
<1>2. CASE UNCHANGED <<toMirror, lost, revision, observed>>
  BY <1>2, NothingPosted DEF Posts, LostAsBefore
<1>3. CASE \E c \in Content : PublishSnapshot(c, <<>>, carried)
  BY <1>3, PublishPosts DEF Posts
<1>4. CASE Flush(TRUE, content, deferred, carried)
  BY <1>1, <1>4, FlushPosts DEF Posts
<1>5. \/ UNCHANGED <<toMirror, lost, revision, observed>>
      \/ \E c \in Content : PublishSnapshot(c, <<>>, carried)
      \/ Flush(TRUE, content, deferred, carried)
  <2>1. CASE LocalEdit \/ \E v \in Volumes : LocalVolume(v)
    BY <2>1 DEF LocalEdit, LocalVolume, linkVars
  <2>2. CASE TogglePermission
    BY <1>1, <2>2 DEF TogglePermission, NothingPublished
  <2>3. CASE CaptureLocalMutation
    BY <1>1, <2>3 DEF CaptureLocalMutation, NothingPublished
  <2>4. CASE CaptureRuntimeVolume
    BY <2>4 DEF CaptureRuntimeVolume, NothingPublished
  <2>5. CASE FlushVolumePublication
    BY <2>5 DEF FlushVolumePublication
  <2> QED BY <2>1, <2>2, <2>3, <2>4, <2>5 DEF LocalStep
<1> QED BY <1>2, <1>3, <1>4, <1>5

LEMMA ResendSends ==
  ASSUME Typed, Resend
  PROVE  \/ LostAsBefore /\ UNCHANGED toMirror
         \/ Sends(authSession, <<SnapshotOf(observed, revision)>>)
<1>1. observed \in Content /\ epoch \in Nat /\ revision \in Nat /\ LostTyped
      /\ toMirror \in Seq(MirrorMessage)
  BY DEF Typed, MixerTyped, PublicationTyped
<1> DEFINE s == SnapshotOf(observed, revision)
<1>2. CASE /\ Live(authSession)
           /\ toMirror' = Append(toMirror, s) /\ lost' = [lost EXCEPT !.publication = FALSE]
  <2>1. s \in MirrorMessage
    BY <1>1, SnapshotTyped
  <2>2. IsPublication(s) /\ s.type \notin {"ack", "nack"}
    BY DEF IsPublication, SnapshotOf
  <2>3. lost'.publication = FALSE /\ lost'.commands = lost.commands
    BY <1>1, <1>2 DEF LostTyped
  <2> HIDE DEF s
  <2>4. <<s>> \in Seq(MirrorMessage) /\ Len(<<s>>) = 1 /\ <<s>>[1] = s
    BY <2>1
  <2>5. Part(<<s>>, <<s>>)
    <3> DEFINE place == [i \in 1..1 |-> i]
    <3>1. place \in [1..1 -> 1..1] /\ \A i \in 1..1 : place[i] = i
      OBVIOUS
    <3>2. \A i \in 1..1 : i = 1 /\ \A j \in i + 1..1 : FALSE
      OBVIOUS
    <3> HIDE DEF place
    <3>3. \A i \in 1..1 : /\ <<s>>[i] = <<s>>[place[i]]
                          /\ \A j \in i + 1..1 : place[i] < place[j]
      BY <3>1, <3>2
    <3> QED BY <2>4, <3>1, <3>3 DEF Part
  <2>6. LossKnown(<<s>>, <<s>>)
    <3>1. ~Silent(<<s>>)
      BY <2>2, <2>4 DEF Silent
    <3> QED BY <2>3, <3>1 DEF LossKnown
  <2>7. toMirror' = toMirror \o <<s>>
    BY <1>1, <1>2, <2>1, AppendIsConcat
  <2> QED BY <1>2, <2>5, <2>6, <2>7 DEF Sends, s
<1>3. \/ LostAsBefore /\ UNCHANGED toMirror
      \/ /\ Live(authSession)
         /\ toMirror' = Append(toMirror, s) /\ lost' = [lost EXCEPT !.publication = FALSE]
  BY <1>1 DEF Resend, LostTyped, LostAsBefore
<1> QED BY <1>2, <1>3

LEMMA ResendPosts ==
  ASSUME Typed, Resend, UNCHANGED <<revision, observed>>
  PROVE  \E v : Posted(authSession, v)
<1>1. observed \in Content /\ epoch \in Nat /\ revision \in Nat
  BY DEF Typed, MixerTyped, PublicationTyped
<1> DEFINE s == SnapshotOf(observed, revision)
<1>2. CASE LostAsBefore /\ UNCHANGED toMirror
  BY <1>2, NothingPosted
<1>3. CASE Sends(authSession, <<s>>)
  <2>1. s \in MirrorMessage
    BY <1>1, SnapshotTyped
  <2>2. IsPublication(s) /\ s.epoch = epoch /\ s.revision = revision /\ s.content = observed
    BY DEF IsPublication, SnapshotOf
  <2> HIDE DEF s
  <2>3. Adds(<<s>>, revision, revision', observed')
    BY <1>1, <2>1, <2>2, OneMessage DEF Adds
  <2>4. revision' \in Nat
    BY <1>1
  <2> QED BY <1>3, <2>3, <2>4 DEF Posted, Adds
<1> QED BY <1>2, <1>3, ResendSends

LEMMA RequestPosts ==
  ASSUME Typed, HandleSnapshotRequest
  PROVE  Posts
<1>1. content \in Content /\ observed \in Content /\ epoch \in Nat /\ revision \in Nat
  BY DEF Typed, MixerTyped, PublicationTyped
<1>2. CASE NothingPublished
  BY <1>2, NothingPosted DEF Posts, NothingPublished, LostAsBefore
<1>3. CASE PublishSnapshot(content, <<>>, carried)
  BY <1>1, <1>3, PublishPosts DEF Posts
<1>4. ASSUME Resend, UNCHANGED <<revision, observed>>
      PROVE  Posts
  BY <1>4, ResendPosts DEF Posts
<1> QED BY <1>2, <1>3, <1>4 DEF HandleSnapshotRequest

LEMMA NackPosts ==
  ASSUME Typed, NEW id \in Nat, NEW reason \in {"refused", "permission_disabled"}, NEW r \in Nat
  PROVE  /\ \A undone \in BOOLEAN :
              AddsNone(<<[NackOf(id, reason) EXCEPT !.revision = r, !.undone = undone]>>, r, r)
         /\ AddsNone(<<NackOf(id, reason)>>, revision, revision)
<1>1. revision \in Nat
  BY DEF Typed, PublicationTyped
<1>2. ASSUME NEW undone \in BOOLEAN
      PROVE  AddsNone(<<[NackOf(id, reason) EXCEPT !.revision = r, !.undone = undone]>>, r, r)
  <2> DEFINE m == [NackOf(id, reason) EXCEPT !.revision = r, !.undone = undone]
  <2>1. m \in MirrorMessage
    BY <1>1, NackTyped
  <2>2. m.revision = r /\ ~IsPublication(m)
    BY DEF NackOf, IsPublication
  <2> HIDE DEF m
  <2> QED BY <2>1, <2>2, OneMessage DEF AddsNone, m
<1>3. AddsNone(<<NackOf(id, reason)>>, revision, revision)
  <2> DEFINE n == NackOf(id, reason)
  <2>1. n \in MirrorMessage
    BY <1>1, NackTyped
  <2>2. n.revision = revision /\ ~IsPublication(n)
    BY DEF NackOf, IsPublication
  <2> HIDE DEF n
  <2> QED BY <1>1, <2>1, <2>2, OneMessage DEF AddsNone, n
<1> QED BY <1>2, <1>3

LEMMA AckPosts ==
  ASSUME Typed, NEW id \in Nat, NEW r \in Nat
  PROVE  AddsNone(<<AckOf(id, r)>>, r, r)
<1>1. AckOf(id, r) \in MirrorMessage
  BY AckTyped
<1>2. AckOf(id, r).revision = r /\ ~IsPublication(AckOf(id, r))
  BY DEF AckOf, IsPublication
<1> QED BY <1>1, <1>2, OneMessage DEF AddsNone

LEMMA RefusePosts ==
  ASSUME Typed, RefuseCommand
  PROVE  Posts
<1>1. Head(commands).id \in Nat
  BY NextCommandTyped DEF RefuseCommand, Commands
<1>2. PICK reason \in {"refused", "permission_disabled"} :
        ToMirror(Head(commands).session, <<NackOf(Head(commands).id, reason)>>)
  BY DEF RefuseCommand
<1>3. revision \in Nat /\ revision' = revision /\ observed' = observed
  BY DEF RefuseCommand, Typed, PublicationTyped
<1>4. AddsNone(<<NackOf(Head(commands).id, reason)>>, revision, revision)
  BY <1>1, NackPosts
<1> QED BY <1>2, <1>3, <1>4, FittingSends DEF Posts, Posted, AddsNone

LEMMA FailPosts ==
  ASSUME Typed, FailEdit
  PROVE  Posts
<1> DEFINE nackOf(undone) == [NackOf(Head(commands).id, "refused") EXCEPT
                                !.revision = AfterFlush, !.undone = undone]
           f == FlushMessages(volumePending, content, deferred)
<1>0. PICK undone \in BOOLEAN : ToMirror(authSession, f \o <<nackOf(undone)>>)
  BY DEF FailEdit
<1> DEFINE nack == nackOf(undone)
<1>1. Head(commands).id \in Nat
  BY NextCommandTyped DEF FailEdit, Commands
<1>2. content \in Content /\ revision \in Nat /\ volumePending \in BOOLEAN
  BY DEF Typed, MixerTyped, PublicationTyped
<1>3. AfterFlush \in Nat /\ AddsNone(<<nack>>, AfterFlush, AfterFlush)
  BY <1>1, <1>2, FirstAdds, NackPosts
<1>4. ToMirror(authSession, f \o <<nack>>) /\ revision' = AfterFlush
      /\ observed' = IF volumePending THEN content ELSE observed
  BY <1>0 DEF FailEdit
<1> HIDE DEF nack, nackOf
<1>5. CASE volumePending
  <2>1. Adds(f, revision, AfterFlush, content)
    BY <1>2, <1>5, FirstAdds
  <2> HIDE DEF f
  <2>2. Adds(f \o <<nack>>, revision, AfterFlush, content)
    BY <1>2, <1>3, <2>1, AddsJoin
  <2> QED BY <1>3, <1>4, <1>5, <2>2, AddedIsPosted DEF Posts
<1>6. CASE ~volumePending
  <2>1. f = <<>> /\ AfterFlush = revision
    BY <1>2, <1>6, FirstAdds
  <2>2. f \o <<nack>> = <<nack>>
    BY <1>3, <2>1, ConcatEmptySeq DEF AddsNone
  <2> QED BY <1>2, <1>3, <1>4, <1>6, <2>1, <2>2, FittingSends DEF Posts, Posted, AddsNone
<1> QED BY <1>5, <1>6

LEMMA ApplyEditPosts ==
  ASSUME Typed, ApplyEdit
  PROVE  Posts
<1> DEFINE cmd == Head(commands)
           c == [content EXCEPT !.edit = cmd.id]
           r == AfterFlush + 1
           f == FlushMessages(volumePending, content, deferred)
<1>1. cmd.id \in Nat
  BY NextCommandTyped DEF ApplyEdit, Commands
<1>2. content \in Content /\ revision \in Nat /\ volumePending \in BOOLEAN /\ epoch \in Nat
  BY DEF Typed, MixerTyped, PublicationTyped
<1>3. c \in Content
  BY <1>1, <1>2, ChangedContentTyped
<1>4. AfterFlush \in Nat /\ r \in Nat
  BY <1>2, FirstAdds
<1>5. /\ ToMirror(authSession, f \o <<SnapshotOf(c, r), AckOf(cmd.id, r)>>)
      /\ revision' = r /\ observed' = c
  BY DEF ApplyEdit
<1> HIDE DEF c, r, cmd
<1>6. Adds(<<SnapshotOf(c, r)>>, AfterFlush, r, c)
  <2> DEFINE s == SnapshotOf(c, r)
  <2>1. s \in MirrorMessage
    BY <1>2, <1>3, <1>4, SnapshotTyped
  <2>2. IsPublication(s) /\ s.epoch = epoch /\ s.revision = r /\ s.content = c
    BY DEF IsPublication, SnapshotOf
  <2> HIDE DEF s
  <2>3. AfterFlush <= r /\ r <= r
    BY <1>4 DEF r
  <2>4. /\ <<s>> \in Seq(MirrorMessage) /\ Rises(<<s>>, r, r)
        /\ OfEpoch(<<s>>, epoch) /\ Ends(<<s>>, epoch, r, c)
    BY <2>1, <2>2, OneMessage
  <2>5. Rises(<<s>>, AfterFlush, r)
    BY <1>4, <2>3, <2>4, RisesMore
  <2> QED BY <2>4, <2>5 DEF Adds, s
<1>7. AddsNone(<<AckOf(cmd.id, r)>>, r, r)
  BY <1>1, <1>4, AckPosts
<1>8. Adds(<<SnapshotOf(c, r)>> \o <<AckOf(cmd.id, r)>>, AfterFlush, r, c)
  BY <1>4, <1>6, <1>7, AddsJoin
<1>9. <<SnapshotOf(c, r)>> \o <<AckOf(cmd.id, r)>> = <<SnapshotOf(c, r), AckOf(cmd.id, r)>>
  BY <1>1, <1>2, <1>3, <1>4, SnapshotTyped, AckTyped, Pair
<1>10. AddsNone(f, revision, AfterFlush) \/ \E d : Adds(f, revision, AfterFlush, d)
  BY <1>2, FirstAdds
<1> HIDE DEF f
<1>11. Adds(f \o <<SnapshotOf(c, r), AckOf(cmd.id, r)>>, revision, r, c)
  BY <1>2, <1>4, <1>8, <1>9, <1>10, AddsJoin
<1> QED BY <1>4, <1>5, <1>11, AddedIsPosted DEF Posts

LEMMA ApplyVolumePosts ==
  ASSUME Typed, ApplyVolume
  PROVE  Posts
<1> DEFINE cmd == Head(commands)
           c == [content EXCEPT !.volume = cmd.change]
           f == FlushMessages(TRUE, c, deferred)
<1>1. cmd.id \in Nat /\ cmd.change \in Volumes
  BY NextCommandTyped DEF ApplyVolume, Commands, Change
<1>2. content \in Content /\ revision \in Nat /\ epoch \in Nat /\ deferred \in Seq(Waiting)
      /\ revision + 1 \in Nat
  BY DEF Typed, MixerTyped, PublicationTyped
<1>3. c \in Content
  BY <1>1, <1>2, ChangedContentTyped
<1> HIDE DEF c, cmd
<1>4. CASE UNCHANGED <<toMirror, lost, revision, observed>>
  BY <1>4, NothingPosted DEF Posts, LostAsBefore
<1>5. ASSUME ToMirror(authSession, f \o <<AckOf(cmd.id, revision + 1)>>),
             revision' = revision + 1, observed' = c
      PROVE  Posts
  <2>1. Adds(f, revision, revision + 1, c)
    BY <1>2, <1>3, FlushAdds
  <2>2. AddsNone(<<AckOf(cmd.id, revision + 1)>>, revision + 1, revision + 1)
    BY <1>1, <1>2, AckPosts
  <2> HIDE DEF f
  <2>3. Adds(f \o <<AckOf(cmd.id, revision + 1)>>, revision, revision + 1, c)
    BY <1>2, <2>1, <2>2, AddsJoin
  <2> QED BY <1>2, <1>5, <2>3, AddedIsPosted DEF Posts
<1> QED BY <1>4, <1>5 DEF ApplyVolume, c, cmd

LEMMA ReceiverKeeps ==
  ASSUME Typed, MirrorInv, ReceiverStep
  PROVE  MirrorInv'
<1>1. UNCHANGED facadeVars
  BY DEF ReceiverStep
<1>2. CASE AuthorityTold
  <2>1. /\ UNCHANGED <<session, up, toMirror, toAuthority, lost, revision, observed, epoch>>
        /\ UNCHANGED <<mirrorSession, mirror, epochSeen, revisionSeen, needsSnapshot>>
        /\ authSession # Present /\ authSession' = Present
    BY <1>1, <1>2 DEF AuthorityTold, linkVars, facadeVars
  <2>2. Sessions'
    BY <2>1 DEF MirrorInv, Sessions, Present, Typed, SessionTyped
  <2>3. Stream'
    BY <2>1 DEF MirrorInv, Stream, Present
  <2>4. Joined' = Joined /\ (Joined => up)
    BY <2>1 DEF Joined, Present
  <2>5. Shown'
    BY <2>1, <2>4 DEF MirrorInv, Shown, Present
  <2> QED BY <2>2, <2>3, <2>5 DEF MirrorInv
<1>3. CASE RestartReceiver
  <2>1. /\ session' = session /\ up' = FALSE /\ toMirror' = <<>> /\ toAuthority' = <<>>
        /\ authSession' = 0 /\ revision' = 0 /\ mirrorSession' = mirrorSession
    BY <1>1, <1>3 DEF RestartReceiver, Ended, facadeVars
  <2>2. Sessions'
    BY <2>1 DEF MirrorInv, Sessions, Typed, SessionTyped
  <2>3. Stream'
    <3>1. Rises(<<>>, 0, 0) /\ OfEpoch(<<>>, epoch') /\ Silent(<<>>)
      BY NothingRises
    <3> QED BY <2>1, <3>1 DEF Stream
  <2>4. ~Joined'
    BY <2>1 DEF Joined, Present
  <2> QED BY <2>2, <2>3, <2>4 DEF MirrorInv, Shown
<1>4. CASE QueueCommand \/ HandleSnapshotRequest
  <2>1. PICK s, v : Posted(s, v)
    BY <1>4, NothingPosted, RequestPosts DEF Posts, QueueCommand, LostAsBefore
  <2>2. UNCHANGED <<session, up, authSession, epoch>> /\ toAuthority # <<>>
    BY <1>4 DEF QueueCommand, HandleSnapshotRequest, Arrived
  <2>3. up
    BY <2>2 DEF MirrorInv, Sessions
  <2> QED BY <1>1, <2>1, <2>2, <2>3, PostedKeeps DEF Elsewhere
<1>5. CASE LocalStep \/ CaptureLocalMutation \/ CaptureRuntimeVolume \/ FlushVolumePublication
  <2>1. PICK s, v : Posted(s, v)
    BY <1>5, LocalPosts DEF Posts
  <2>2. UNCHANGED <<session, up, authSession, epoch, toAuthority>>
    BY <1>5 DEF LocalStep, LocalEdit, LocalVolume, TogglePermission, CaptureLocalMutation,
                CaptureRuntimeVolume, FlushVolumePublication, linkVars
  <2> QED BY <1>1, <2>1, <2>2, PostedKeeps DEF Elsewhere
<1>6. CASE RefuseCommand \/ FailEdit \/ ApplyEdit \/ ApplyVolume
  <2>1. PICK s, v : Posted(s, v)
    BY <1>6, RefusePosts, FailPosts, ApplyEditPosts, ApplyVolumePosts DEF Posts
  <2>2. UNCHANGED <<session, up, authSession, epoch, toAuthority>>
    BY <1>6 DEF RefuseCommand, FailEdit, ApplyEdit, ApplyVolume, NextCommand
  <2> QED BY <1>1, <2>1, <2>2, PostedKeeps DEF Elsewhere
<1> QED BY <1>2, <1>3, <1>4, <1>5, <1>6 DEF ReceiverStep, AuthorityStep

-----------------------------------------------------------------------------
(* The connection, the sender and its user.                                *)
\* A message to the receiver: of what is on the way to the mirror nothing is lost.
AsksOnly == (~up => toAuthority' = toAuthority) /\ lost'.publication = lost.publication

LEMMA ToAuthorityAsks == ASSUME Typed, NEW s, NEW m, ToAuthority(s, m) PROVE AsksOnly
<1>1. LostTyped
  BY DEF Typed, PublicationTyped
<1>2. ~up => ~Live(s)
  BY DEF Live
<1>3. lost'.publication = lost.publication
  BY <1>1 DEF ToAuthority, LostTyped
<1> QED BY <1>2, <1>3 DEF ToAuthority, AsksOnly

LEMMA SendingAsks ==
  ASSUME Typed
  PROVE  /\ \A s, open : RequestSnapshot(s, open) => AsksOnly
         /\ \A waiting, e, r : SendNext(waiting, e, r) => AsksOnly
         /\ \A intent, waiting, e, r : Finish(intent, waiting, e, r) => AsksOnly
<1>1. \A s, open : RequestSnapshot(s, open) => AsksOnly
  BY ToAuthorityAsks DEF RequestSnapshot
<1>2. UNCHANGED <<toAuthority, lost>> => AsksOnly
  BY DEF AsksOnly
<1>3. ASSUME NEW waiting, NEW e, NEW r, SendNext(waiting, e, r) PROVE AsksOnly
  <2>1. CASE waiting = <<>>
    BY <1>2, <1>3, <2>1 DEF SendNext
  <2>2. CASE waiting # <<>>
    <3>1. \E m : ToAuthority(mirrorSession, m)
      BY <1>3, <2>2 DEF SendNext
    <3> QED BY <3>1, ToAuthorityAsks
  <2> QED BY <2>1, <2>2
<1>4. \A intent, waiting, e, r : Finish(intent, waiting, e, r) => AsksOnly
  BY <1>2, <1>3 DEF Finish
<1> QED BY <1>1, <1>3, <1>4

LEMMA LinkKeeps ==
  ASSUME Typed, MirrorInv, LinkStep
  PROVE  MirrorInv'
<1>1. /\ UNCHANGED <<authSession, revision, observed, epoch>>
      /\ UNCHANGED <<mirrorSession, mirror, epochSeen, revisionSeen, needsSnapshot>>
  BY DEF LinkStep, authVars, facadeVars
<1>2. session \in Nat /\ mirrorSession \in Nat /\ authSession \in Nat /\ revision \in Nat
  BY LinkAssumption DEF Typed, SessionTyped, MirrorTyped, MixerTyped, PublicationTyped
<1>3. toMirror' = <<>> /\ toAuthority' = <<>> /\ session' >= session
  BY <1>2 DEF LinkStep, Connect, Break, Ended, MirrorInv, Sessions
<1>4. Sessions'
  <2>1. session' \in Nat
    BY <1>2 DEF LinkStep, Connect, Break
  <2> QED BY <1>1, <1>2, <1>3, <2>1 DEF Sessions, MirrorInv
<1>5. Stream'
  <2>1. Rises(<<>>, 0, revision) /\ OfEpoch(<<>>, epoch) /\ Silent(<<>>)
    BY <1>2, NothingRises
  <2> QED BY <1>1, <1>3, <2>1 DEF Stream
<1>6. ~Joined'
  <2>1. CASE Connect
    BY <1>1, <1>2, <2>1 DEF Connect, Joined, Present, MirrorInv, Sessions
  <2>2. CASE Break
    BY <2>2 DEF Break, Ended, Joined, Present
  <2> QED BY <2>1, <2>2 DEF LinkStep
<1> QED BY <1>4, <1>5, <1>6 DEF MirrorInv, Shown

\* The sender does something without a message from the receiver.
LEMMA SenderKeeps ==
  ASSUME Typed, MirrorInv, UNCHANGED <<authVars, session, up, toMirror>>,
         UNCHANGED <<mirrorSession, mirror, epochSeen, revisionSeen>>,
         needsSnapshot' = needsSnapshot \/ needsSnapshot' = TRUE, AsksOnly
  PROVE  MirrorInv'
<1>1. UNCHANGED <<authSession, revision, observed, epoch>> /\ Joined' = Joined
  BY DEF authVars, Joined, Present
<1> QED BY <1>1 DEF MirrorInv, Sessions, Stream, Shown, AsksOnly

LEMMA ResynchronizeKeeps ==
  ASSUME Typed, Resynchronize
  PROVE  /\ UNCHANGED <<mirrorSession, mirror, epochSeen, revisionSeen>>
         /\ needsSnapshot' = TRUE /\ AsksOnly
BY SendingAsks DEF Resynchronize

LEMMA UserKeeps ==
  ASSUME Typed, MirrorInv, UserStep \/ Expire
  PROVE  MirrorInv'
<1>1. UNCHANGED <<authVars, session, up, toMirror>>
  BY DEF UserStep, Expire, Submit, ExpirePending
<1>2. /\ UNCHANGED <<mirrorSession, mirror, epochSeen, revisionSeen>>
      /\ needsSnapshot' = needsSnapshot \/ needsSnapshot' = TRUE
      /\ AsksOnly
  <2>1. CASE Resynchronize
    BY <2>1, ResynchronizeKeeps
  <2>2. CASE Expire
    BY <2>1, <2>2, SendingAsks DEF Expire, ExpirePending
  <2>3. CASE \E change \in Volumes \cup {Edit} : Submit(change)
    <3>1. PICK change \in Volumes \cup {Edit} : Submit(change)
      BY <2>3
    <3>2. CASE UNCHANGED <<mirrorSession, mirror, epochSeen, revisionSeen, needsSnapshot>>
      <4>1. AsksOnly
        <5> SUFFICES ASSUME ~Resynchronize PROVE AsksOnly
          BY <2>1
        <5>1. CASE SendNext(Append(queue, IntentOf(change)), epochSeen, revisionSeen)
          BY <5>1, SendingAsks
        <5>2. UNCHANGED <<toAuthority, lost>> => AsksOnly
          BY DEF AsksOnly
        <5> QED BY <3>1, <5>1, <5>2 DEF Submit
      <4> QED BY <3>2, <4>1
    <3> QED BY <2>1, <3>1, <3>2 DEF Submit
  <2> QED BY <2>2, <2>3 DEF UserStep
<1> QED BY <1>1, <1>2, SenderKeeps

LEMMA MirrorToldKeeps ==
  ASSUME Typed, MirrorInv, MirrorTold, UNCHANGED authVars
  PROVE  MirrorInv'
<1>1. /\ UNCHANGED <<authSession, revision, observed, epoch>>
      /\ UNCHANGED <<session, up, toMirror>>
      /\ mirrorSession' = Present /\ mirror' = NoMirror /\ revisionSeen' = 0
  BY DEF authVars, MirrorTold
<1>2. AsksOnly
  <2>1. UNCHANGED <<toAuthority, lost>> => AsksOnly
    BY DEF AsksOnly
  <2> QED BY <2>1, SendingAsks DEF MirrorTold
<1>3. Sessions'
  BY <1>1, <1>2 DEF MirrorInv, Sessions, Present, Typed, SessionTyped, AsksOnly
<1>4. Stream'
  BY <1>1, <1>2 DEF MirrorInv, Stream, AsksOnly
<1>5. Shown'
  BY <1>1 DEF MirrorInv, Shown, Stream
<1> QED BY <1>3, <1>4, <1>5 DEF MirrorInv

\* The mirror takes message m off the stream: as before, or showing m.
LEMMA ReceivedKeeps ==
  ASSUME Typed, MirrorInv, UNCHANGED authVars, NEW type, Received(type),
         mirrorSession' = mirrorSession, lost'.publication = lost.publication,
         \/ /\ UNCHANGED <<mirror, epochSeen, revisionSeen>>
            /\ \/ needsSnapshot' = TRUE
               \/ ~IsPublication(Head(toMirror)) /\ needsSnapshot' = needsSnapshot
         \/ /\ IsPublication(Head(toMirror))
            /\ mirror' = Head(toMirror).content
            /\ revisionSeen' = Head(toMirror).revision
            /\ epochSeen' = Head(toMirror).epoch
  PROVE  MirrorInv'
<1> DEFINE m == Head(toMirror)
           t == Tail(toMirror)
<1>1. /\ toMirror \in Seq(MirrorMessage) /\ toMirror # <<>> /\ revision \in Nat /\ revisionSeen \in Nat
      /\ Joined /\ up
  BY DEF Typed, PublicationTyped, MirrorTyped, Received, Joined, Present
<1>2. UNCHANGED <<authSession, revision, observed, epoch, session, up>> /\ toMirror' = t /\ Joined' = Joined
  BY DEF authVars, Received, Joined, Present
<1>3. Rises(toMirror, 0, revision) /\ Rises(toMirror, revisionSeen, revision) /\ OfEpoch(toMirror, epoch)
  BY <1>1 DEF MirrorInv, Stream, Shown
<1>4. /\ Rises(t, 0, revision) /\ Rises(t, revisionSeen, revision) /\ Rises(t, m.revision, revision)
      /\ OfEpoch(t, epoch) /\ (IsPublication(m) => m.epoch = epoch)
  <2>1. Rises(t, 0, revision)
    BY <1>1, <1>3, RisesTail
  <2>2. Rises(t, revisionSeen, revision) /\ Rises(t, m.revision, revision)
    BY <1>1, <1>3, RisesTail
  <2> QED BY <1>1, <1>3, <2>1, <2>2, EndsTail
<1>5. /\ \/ Silent(toMirror) /\ Silent(t) /\ ~IsPublication(m)
         \/ authSession = session
      /\ \/ lost.publication
         \/ Silent(toMirror) /\ Silent(t) /\ ~IsPublication(m)
         \/ Ends(t, epoch, revision, observed)
         \/ Silent(t) /\ IsPublication(m) /\ m.revision = revision /\ m.content = observed
  BY <1>1, EndsTail DEF MirrorInv, Stream
<1> HIDE DEF m, t
<1>6. Ends(t, epoch, revision, observed) => ~Silent(t)
  BY DEF Ends, Silent
<1>7. Sessions'
  BY <1>1, <1>2 DEF MirrorInv, Sessions
<1>8. Stream'
  BY <1>1, <1>2, <1>4, <1>5 DEF Stream
<1>9. Shown'
  <2>1. Joined => (mirror # NoMirror => authSession = session /\ epochSeen = epoch)
    BY DEF MirrorInv, Shown
  <2>2. mirror # NoMirror /\ ~needsSnapshot /\ Silent(toMirror) /\ ~lost.publication
          => revisionSeen = revision /\ mirror = observed
    BY <1>1 DEF MirrorInv, Shown
  <2>3. CASE UNCHANGED <<mirror, epochSeen, revisionSeen>> /\ needsSnapshot' = TRUE
    BY <1>1, <1>2, <1>4, <2>1, <2>3 DEF Shown
  <2>4. CASE UNCHANGED <<mirror, epochSeen, revisionSeen, needsSnapshot>> /\ ~IsPublication(m)
    BY <1>1, <1>2, <1>4, <1>5, <1>6, <2>1, <2>2, <2>4 DEF Shown
  <2>5. CASE IsPublication(m) /\ mirror' = m.content /\ revisionSeen' = m.revision /\ epochSeen' = m.epoch
    BY <1>1, <1>2, <1>4, <1>5, <1>6, <2>5 DEF Shown
  <2> QED BY <2>3, <2>4, <2>5 DEF m
<1> QED BY <1>7, <1>8, <1>9 DEF MirrorInv

LEMMA HandlerAsks == ASSUME Typed, FacadeStep PROVE AsksOnly
<1>1. UNCHANGED <<toAuthority, lost>> => AsksOnly
  BY DEF AsksOnly
<1>2. CASE MirrorTold
  BY <1>1, <1>2, SendingAsks DEF MirrorTold
<1>3. CASE Resynchronize \/ Untouched
  BY <1>1, <1>3, SendingAsks DEF Resynchronize, Untouched
<1>4. CASE ReceiveSnapshot
  BY <1>3, <1>4, SendingAsks DEF ReceiveSnapshot
<1>5. CASE ReceiveDelta
  BY <1>3, <1>5, SendingAsks DEF ReceiveDelta
<1>6. CASE ReceiveAck
  BY <1>6, SendingAsks DEF ReceiveAck
<1>7. CASE ReceiveNack
  BY <1>3, <1>7, SendingAsks DEF ReceiveNack
<1> QED BY <1>2, <1>4, <1>5, <1>6, <1>7 DEF FacadeStep, ReceiveMessage

LEMMA FacadeKeeps ==
  ASSUME Typed, MirrorInv, FacadeStep
  PROVE  MirrorInv'
<1> DEFINE m == Head(toMirror)
<1>0. lost'.publication = lost.publication
  BY HandlerAsks DEF AsksOnly
<1>1. UNCHANGED authVars
  BY DEF FacadeStep
<1>2. CASE MirrorTold
  BY <1>1, <1>2, MirrorToldKeeps
<1>3. CASE ReceiveSnapshot
  <2>1. Received("snapshot") /\ IsPublication(m)
    BY <1>3 DEF ReceiveSnapshot, Received, IsPublication
  <2>2. CASE Resynchronize
    BY <1>0, <1>1, <2>1, <2>2, ResynchronizeKeeps, ReceivedKeeps
  <2>3. CASE ~Resynchronize
    <3>1. /\ mirror' = m.content /\ epochSeen' = m.epoch /\ revisionSeen' = m.revision
          /\ mirrorSession' = mirrorSession
      BY <1>3, <2>3 DEF ReceiveSnapshot
    <3> HIDE DEF m
    <3> QED BY <1>0, <1>1, <2>1, <3>1, ReceivedKeeps DEF m
  <2> QED BY <2>2, <2>3
<1>4. CASE ReceiveDelta
  <2>1. Received("delta") /\ IsPublication(m)
    BY <1>4 DEF ReceiveDelta, Received, IsPublication
  <2>2. CASE Resynchronize
    BY <1>0, <1>1, <2>1, <2>2, ResynchronizeKeeps, ReceivedKeeps
  <2>3. CASE Repeated(m) /\ Untouched
    <3>1. m.epoch = epoch
      <4>1. toMirror \in Seq(MirrorMessage) /\ toMirror # <<>>
        BY <2>1 DEF Received, Typed, PublicationTyped
      <4> QED BY <2>1, <4>1, EndsTail DEF MirrorInv, Stream
    <3>2. epochSeen = epoch
      BY <2>1, <2>3 DEF Repeated, MirrorInv, Shown, Joined, Received
    <3>3. /\ mirror' = m.content /\ epochSeen' = m.epoch /\ revisionSeen' = m.revision
          /\ mirrorSession' = mirrorSession
      BY <2>3, <3>1, <3>2 DEF Repeated, Untouched
    <3> HIDE DEF m
    <3> QED BY <1>0, <1>1, <2>1, <3>3, ReceivedKeeps DEF m
  <2>4. CASE ~Resynchronize /\ ~Repeated(m)
    <3>1. /\ mirror' = m.content /\ epochSeen' = m.epoch /\ revisionSeen' = m.revision
          /\ mirrorSession' = mirrorSession
      <4>1. /\ Follows(m) /\ mirror' = [mirror EXCEPT !.volume = m.volume] /\ revisionSeen' = m.revision
            /\ UNCHANGED <<mirrorSession, epochSeen>>
        BY <1>4, <2>4 DEF ReceiveDelta
      <4> HIDE DEF m
      <4> QED BY <4>1 DEF Follows
    <3> HIDE DEF m
    <3> QED BY <1>0, <1>1, <2>1, <3>1, ReceivedKeeps DEF m
  <2> QED BY <1>4, <2>2, <2>3, <2>4 DEF ReceiveDelta
<1>5. CASE ReceiveAck
  <2>1. Received("ack") /\ ~IsPublication(m)
    BY <1>5 DEF ReceiveAck, Received, IsPublication
  <2>2. UNCHANGED <<mirrorSession, mirror, epochSeen, revisionSeen, needsSnapshot>>
    BY <1>5 DEF ReceiveAck
  <2> QED BY <1>0, <1>1, <2>1, <2>2, ReceivedKeeps
<1>6. CASE ReceiveNack
  <2>1. Received("nack") /\ ~IsPublication(m)
    BY <1>6 DEF ReceiveNack, Received, IsPublication
  <2>2. /\ UNCHANGED <<mirrorSession, mirror, epochSeen, revisionSeen>>
        /\ needsSnapshot' = TRUE \/ needsSnapshot' = needsSnapshot
    BY <1>6 DEF ReceiveNack, Resynchronize, Untouched
  <2> QED BY <1>0, <1>1, <2>1, <2>2, ReceivedKeeps
<1> QED BY <1>2, <1>3, <1>4, <1>5, <1>6 DEF FacadeStep, ReceiveMessage

LEMMA MirrorStep == ASSUME Typed, MirrorInv, [Next]_vars PROVE MirrorInv'
<1>1. CASE UNCHANGED vars
  <2>1. /\ UNCHANGED <<authVars, session, up, toMirror, toAuthority, lost>>
        /\ UNCHANGED <<mirrorSession, mirror, epochSeen, revisionSeen, needsSnapshot>>
    BY <1>1 DEF vars, linkVars, facadeVars
  <2> QED BY <2>1, SenderKeeps DEF AsksOnly
<1> QED BY <1>1, LinkKeeps, ReceiverKeeps, FacadeKeeps, UserKeeps DEF Next

LEMMA MirrorBegins == Init => MirrorInv
<1> SUFFICES ASSUME Init PROVE MirrorInv
  OBVIOUS
<1>1. /\ toMirror = <<>> /\ toAuthority = <<>> /\ revision = 0 /\ session = 0 /\ mirrorSession = 0
      /\ authSession = 0
  BY DEF Init, LinkInit, AuthInit, FacadeInit
<1>2. Rises(<<>>, 0, 0) /\ OfEpoch(<<>>, epoch) /\ Silent(<<>>)
  BY NothingRises
<1> QED BY <1>1, <1>2 DEF MirrorInv, Sessions, Stream, Shown, Joined

(* A publication that is lost is noticed with the next one: a mirror that  *)
(* does not wait for a snapshot shows what the receiver published last, or *)
(* a message on its way will show it, unless that very publication found   *)
(* the outbound queue full; through lost messages and connections,         *)
(* restarts of the receiver, repeated snapshots and whatever the two users *)
(* do (apply_snapshot and apply_delta of state.py, publish_snapshot and    *)
(* flush_volume_publication of authority.py, _on_remote_sync_message of    *)
(* midi.py).                                                               *)
THEOREM MirrorFollows == Spec => []MirrorIsCurrent
<1>1. Typed /\ MirrorInv => MirrorIsCurrent
  <2> SUFFICES ASSUME Typed, MirrorInv, Synchronized, ~lost.publication PROVE
         IF Published = {}
           THEN epochSeen = epoch /\ revisionSeen = revision /\ mirror = observed
           ELSE \E i \in Published :
                  /\ \A j \in Published : j <= i
                  /\ toMirror[i].revision = revision
                  /\ toMirror[i].content = observed
    BY DEF MirrorIsCurrent
  <2>1. Joined /\ mirror # NoMirror /\ ~needsSnapshot
    BY DEF Synchronized, Joined
  <2>2. CASE Silent(toMirror)
    <3>1. Published = {}
      BY <2>2 DEF Published, Silent, IsPublication
    <3> QED BY <2>1, <2>2, <3>1 DEF MirrorInv, Shown
  <2>3. CASE Ends(toMirror, epoch, revision, observed)
    <3>1. PICK i \in 1..Len(toMirror) :
            /\ IsPublication(toMirror[i]) /\ \A j \in i + 1..Len(toMirror) : ~IsPublication(toMirror[j])
            /\ toMirror[i].revision = revision /\ toMirror[i].content = observed
      BY <2>3 DEF Ends
    <3>2. i \in Published
      BY <3>1 DEF Published, IsPublication
    <3>3. Len(toMirror) \in Nat
      BY LenProperties DEF Typed, PublicationTyped
    <3>4. \A j \in Published : j <= i
      BY <3>1, <3>3 DEF Published, IsPublication
    <3> QED BY <3>1, <3>2, <3>4
  <2> QED BY <2>2, <2>3 DEF MirrorInv, Stream
<1> QED BY <1>1, TypedInit, TypedStep, MirrorBegins, MirrorStep, PTL DEF Spec

-----------------------------------------------------------------------------
(* Commands and their answers.                                             *)

\* The commands of w have identities above lo and up to hi, in order.
Orders(w, lo, hi) ==
  \A i \in 1..Len(w) :
    w[i].type = "command" =>
      /\ lo < w[i].id /\ w[i].id <= hi
      /\ \A j \in i + 1..Len(w) : w[j].type = "command" => w[i].id < w[j].id

\* Those of w come before those of v.
Before(w, v) ==
  \A i \in 1..Len(w), j \in 1..Len(v) :
    w[i].type = "command" /\ v[j].type = "command" => w[i].id < v[j].id

\* Every acknowledgement of v names a revision that book knows of.
AcksTrue(v, book) ==
  \A i \in 1..Len(v) :
    v[i].type = "ack" =>
      v[i].id \in 1..Len(book) /\ 0 < book[v[i].id] /\ book[v[i].id] <= v[i].revision

Waits(waiting, id) == \E i \in 1..Len(waiting) : waiting[i].id = id

\* Every refusal of v is of a command up to b that book has no effect of, now
\* or later.
NacksTrue(v, b, book, waiting) ==
  \A i \in 1..Len(v) :
    v[i].type = "nack" =>
      /\ v[i].id <= b
      /\ v[i].id \in 1..Len(book) => book[v[i].id] = 0 /\ ~Waits(waiting, v[i].id)

\* A refusal of v that says so left nothing of the command in c and in o.
Undone(v, c, o) ==
  \A i \in 1..Len(v) :
    v[i].type = "nack" /\ v[i].undone => c.edit # v[i].id /\ o.edit # v[i].id

LEMMA TailOf ==
  ASSUME NEW S, NEW w \in Seq(S), w # <<>>
  PROVE  /\ Tail(w) \in Seq(S) /\ Head(w) = w[1] /\ Head(w) \in S
         /\ Len(w) \in Nat \ {0} /\ Len(Tail(w)) = Len(w) - 1 /\ 1 \in 1..Len(w)
         /\ \A i \in 1..Len(Tail(w)) : Tail(w)[i] = w[i + 1] /\ i + 1 \in 1..Len(w)
<1>1. /\ Tail(w) \in Seq(S) /\ Head(w) = w[1] /\ Head(w) \in S
      /\ Len(w) \in Nat \ {0} /\ Len(Tail(w)) = Len(w) - 1
      /\ \A i \in 1..Len(Tail(w)) : Tail(w)[i] = w[i + 1]
  BY HeadTailProperties
<1> QED BY <1>1

LEMMA AppendOf ==
  ASSUME NEW S, NEW w \in Seq(S), NEW m \in S
  PROVE  /\ Append(w, m) \in Seq(S) /\ Len(Append(w, m)) = Len(w) + 1 /\ Len(w) \in Nat
         /\ w \o <<m>> = Append(w, m)
         /\ \A i \in 1..Len(w) : Append(w, m)[i] = w[i] /\ i \in 1..Len(w) + 1
         /\ Append(w, m)[Len(w) + 1] = m /\ Len(w) + 1 \in 1..Len(w) + 1
         /\ \A i \in 1..Len(w) + 1 : i \in 1..Len(w) \/ i = Len(w) + 1
<1>1. /\ Append(w, m) \in Seq(S) /\ Len(Append(w, m)) = Len(w) + 1 /\ Len(w) \in Nat
      /\ \A i \in 1..Len(w) : Append(w, m)[i] = w[i]
      /\ Append(w, m)[Len(w) + 1] = m
  BY AppendProperties
<1>2. w \o <<m>> = Append(w, m)
  BY AppendIsConcat
<1> QED BY <1>1, <1>2

LEMMA OrdersTail ==
  ASSUME NEW S, NEW w \in Seq(S), w # <<>>, NEW lo, NEW hi, Orders(w, lo, hi)
  PROVE  /\ Orders(Tail(w), lo, hi)
         /\ Head(w).type = "command" =>
              lo < Head(w).id /\ Head(w).id <= hi /\ Orders(Tail(w), Head(w).id, hi)
         /\ \A v : Before(w, v) => Before(Tail(w), v)
         /\ \A v : Before(v, w) => Before(v, Tail(w))
<1> DEFINE t == Tail(w)
<1>1. /\ Head(w) = w[1] /\ 1 \in 1..Len(w) /\ Len(w) \in Nat \ {0} /\ Len(t) = Len(w) - 1
      /\ \A i \in 1..Len(t) : t[i] = w[i + 1] /\ i + 1 \in 1..Len(w)
  BY TailOf
<1> HIDE DEF t
<1>2. ASSUME NEW i \in 1..Len(t), t[i].type = "command"
      PROVE  /\ lo < t[i].id /\ t[i].id <= hi
             /\ \A j \in i + 1..Len(t) : t[j].type = "command" => t[i].id < t[j].id
             /\ Head(w).type = "command" => Head(w).id < t[i].id
  <2>1. t[i] = w[i + 1] /\ i + 1 \in 1..Len(w) /\ i + 1 \in 1 + 1..Len(w)
    BY <1>1
  <2>2. lo < t[i].id /\ t[i].id <= hi
    BY <1>2, <2>1 DEF Orders
  <2>3. ASSUME NEW j \in i + 1..Len(t), t[j].type = "command" PROVE t[i].id < t[j].id
    <3>1. j \in 1..Len(t) /\ j + 1 \in (i + 1) + 1..Len(w)
      BY <1>1
    <3> QED BY <1>1, <1>2, <2>1, <2>3, <3>1 DEF Orders
  <2>4. Head(w).type = "command" => Head(w).id < t[i].id
    BY <1>1, <1>2, <2>1 DEF Orders
  <2> QED BY <2>2, <2>3, <2>4
<1>3. Head(w).type = "command" => lo < Head(w).id /\ Head(w).id <= hi
  BY <1>1 DEF Orders
<1>4. \A v : Before(w, v) => Before(t, v)
  BY <1>1 DEF Before
<1>5. \A v : Before(v, w) => Before(v, t)
  BY <1>1 DEF Before
<1> QED BY <1>2, <1>3, <1>4, <1>5 DEF Orders, t

LEMMA OrdersAppend ==
  ASSUME NEW S, NEW w \in Seq(S), NEW m \in S, NEW lo, NEW hi, Orders(w, lo, hi),
         m.type = "command" => /\ lo < m.id /\ m.id <= hi
                               /\ \A i \in 1..Len(w) : w[i].type = "command" => w[i].id < m.id
  PROVE  Orders(Append(w, m), lo, hi)
<1> DEFINE u == Append(w, m)
<1>1. /\ Len(u) = Len(w) + 1 /\ Len(w) \in Nat
      /\ \A i \in 1..Len(w) : u[i] = w[i]
      /\ u[Len(w) + 1] = m
      /\ \A i \in 1..Len(w) + 1 : i \in 1..Len(w) \/ i = Len(w) + 1
  BY AppendOf
<1> HIDE DEF u
<1>2. ASSUME NEW i \in 1..Len(u), u[i].type = "command"
      PROVE  /\ lo < u[i].id /\ u[i].id <= hi
             /\ \A j \in i + 1..Len(u) : u[j].type = "command" => u[i].id < u[j].id
  <2>1. CASE i \in 1..Len(w)
    <3>1. u[i] = w[i] /\ lo < u[i].id /\ u[i].id <= hi
      BY <1>1, <1>2, <2>1 DEF Orders
    <3>2. ASSUME NEW j \in i + 1..Len(u), u[j].type = "command" PROVE u[i].id < u[j].id
      <4>1. CASE j = Len(w) + 1
        BY <1>1, <1>2, <2>1, <3>1, <3>2, <4>1
      <4>2. CASE j \in 1..Len(w)
        <5>1. j \in i + 1..Len(w) /\ u[j] = w[j]
          BY <1>1, <4>2
        <5> QED BY <1>2, <2>1, <3>1, <3>2, <5>1 DEF Orders
      <4>3. j \in 1..Len(w) + 1
        BY <1>1
      <4> QED BY <1>1, <4>1, <4>2, <4>3
    <3> QED BY <3>1, <3>2
  <2>2. CASE i = Len(w) + 1
    <3>1. \A j \in i + 1..Len(u) : FALSE
      BY <1>1, <2>2
    <3> QED BY <1>1, <1>2, <2>2, <3>1
  <2> QED BY <1>1, <2>1, <2>2
<1> QED BY <1>2 DEF Orders, u

LEMMA OrdersMore ==
  ASSUME NEW w \in Seq(AuthorityMessage), NEW lo, NEW hi \in Nat, NEW more \in Nat, Orders(w, lo, hi), hi <= more
  PROVE  Orders(w, lo, more)
<1> SUFFICES ASSUME NEW i \in 1..Len(w), w[i].type = "command" PROVE w[i].id <= more
  BY DEF Orders
<1>1. w[i] \in AuthorityMessage
  BY ElementOfSeq
<1>2. w[i].id \in Nat
  BY <1>1 DEF AuthorityMessage, Commands, Requests
<1>3. w[i].id <= hi
  BY DEF Orders
<1> QED BY <1>2, <1>3

\* What holds of the messages of w and of v holds of both together.
LEMMA AnswersJoin ==
  ASSUME NEW w \in Seq(MirrorMessage), NEW v \in Seq(MirrorMessage)
  PROVE  /\ \A book : AcksTrue(w, book) /\ AcksTrue(v, book) => AcksTrue(w \o v, book)
         /\ \A b, book, waiting :
              NacksTrue(w, b, book, waiting) /\ NacksTrue(v, b, book, waiting)
                => NacksTrue(w \o v, b, book, waiting)
         /\ \A c, o : Undone(w, c, o) /\ Undone(v, c, o) => Undone(w \o v, c, o)
         /\ \A id : Tells(w, id) \/ Tells(v, id) => Tells(w \o v, id)
<1> DEFINE u == w \o v
<1>1. /\ Len(u) = Len(w) + Len(v) /\ Len(w) \in Nat /\ Len(v) \in Nat
      /\ \A i \in 1..Len(w) : u[i] = w[i]
      /\ \A i \in 1..Len(v) : u[Len(w) + i] = v[i]
      /\ \A i \in 1..Len(u) : i \in 1..Len(w) \/ i - Len(w) \in 1..Len(v)
  BY JoinedMessages
<1> HIDE DEF u
<1>2. \A i \in 1..Len(u) : \/ i \in 1..Len(w) /\ u[i] = w[i]
                           \/ i - Len(w) \in 1..Len(v) /\ u[i] = v[i - Len(w)]
  <2> SUFFICES ASSUME NEW i \in 1..Len(u), i \notin 1..Len(w)
               PROVE  i - Len(w) \in 1..Len(v) /\ u[i] = v[i - Len(w)]
    BY <1>1
  <2>1. i - Len(w) \in 1..Len(v) /\ Len(w) + (i - Len(w)) = i
    BY <1>1
  <2> QED BY <1>1, <2>1
<1>3. \A book : AcksTrue(w, book) /\ AcksTrue(v, book) => AcksTrue(u, book)
  BY <1>2 DEF AcksTrue
<1>4. \A b, book, waiting :
         NacksTrue(w, b, book, waiting) /\ NacksTrue(v, b, book, waiting)
           => NacksTrue(u, b, book, waiting)
  BY <1>2 DEF NacksTrue
<1>5. ASSUME NEW id, Tells(w, id) PROVE Tells(u, id)
  <2>1. PICK i \in 1..Len(w) : w[i].type \in {"ack", "nack"} /\ w[i].id = id
    BY <1>5 DEF Tells
  <2>2. i \in 1..Len(u) /\ u[i] = w[i]
    BY <1>1
  <2> QED BY <2>1, <2>2 DEF Tells
<1>6. ASSUME NEW id, Tells(v, id) PROVE Tells(u, id)
  <2>1. PICK i \in 1..Len(v) : v[i].type \in {"ack", "nack"} /\ v[i].id = id
    BY <1>6 DEF Tells
  <2>2. Len(w) + i \in 1..Len(u) /\ u[Len(w) + i] = v[i]
    BY <1>1
  <2> QED BY <2>1, <2>2 DEF Tells
<1>7. \A c, o : Undone(w, c, o) /\ Undone(v, c, o) => Undone(u, c, o)
  BY <1>2 DEF Undone
<1> QED BY <1>3, <1>4, <1>5, <1>6, <1>7 DEF u

LEMMA AnswersTail ==
  ASSUME NEW w \in Seq(MirrorMessage), w # <<>>
  PROVE  /\ \A book : AcksTrue(w, book) => AcksTrue(Tail(w), book)
         /\ \A b, book, waiting : NacksTrue(w, b, book, waiting) => NacksTrue(Tail(w), b, book, waiting)
         /\ \A c, o : Undone(w, c, o) => Undone(Tail(w), c, o)
         /\ \A id : Tells(w, id) => \/ Tells(Tail(w), id)
                                    \/ Head(w).type \in {"ack", "nack"} /\ Head(w).id = id
<1> DEFINE t == Tail(w)
<1>1. /\ Head(w) = w[1] /\ 1 \in 1..Len(w) /\ Len(w) \in Nat \ {0} /\ Len(t) = Len(w) - 1
      /\ \A i \in 1..Len(t) : t[i] = w[i + 1] /\ i + 1 \in 1..Len(w)
  BY TailOf
<1> HIDE DEF t
<1>2. \A book : AcksTrue(w, book) => AcksTrue(t, book)
  BY <1>1 DEF AcksTrue
<1>3. \A b, book, waiting : NacksTrue(w, b, book, waiting) => NacksTrue(t, b, book, waiting)
  BY <1>1 DEF NacksTrue
<1>4. ASSUME NEW id, Tells(w, id), ~(Head(w).type \in {"ack", "nack"} /\ Head(w).id = id)
      PROVE  Tells(t, id)
  <2>1. PICK i \in 1..Len(w) : w[i].type \in {"ack", "nack"} /\ w[i].id = id
    BY <1>4 DEF Tells
  <2>2. i # 1
    BY <1>1, <1>4, <2>1
  <2>3. i - 1 \in 1..Len(t) /\ (i - 1) + 1 = i
    BY <1>1, <2>2
  <2>4. t[i - 1] = w[i]
    BY <1>1, <2>3
  <2> QED BY <2>1, <2>3, <2>4 DEF Tells
<1>5. \A c, o : Undone(w, c, o) => Undone(t, c, o)
  BY <1>1 DEF Undone
<1> QED BY <1>2, <1>3, <1>4, <1>5 DEF t

\* What holds of the messages of v holds of a part of them.
LEMMA PartAnswers ==
  ASSUME NEW v \in Seq(MirrorMessage), NEW w, Part(w, v)
  PROVE  /\ w \in Seq(MirrorMessage)
         /\ \A book : AcksTrue(v, book) => AcksTrue(w, book)
         /\ \A b, book, waiting : NacksTrue(v, b, book, waiting) => NacksTrue(w, b, book, waiting)
         /\ \A c, o : Undone(v, c, o) => Undone(w, c, o)
<1>1. PICK place \in [1..Len(w) -> 1..Len(v)] : \A i \in 1..Len(w) : w[i] = v[place[i]]
  BY DEF Part
<1>2. \A i \in 1..Len(w) : place[i] \in 1..Len(v) /\ w[i] = v[place[i]]
  BY <1>1
<1>3. \A book : AcksTrue(v, book) => AcksTrue(w, book)
  BY <1>2 DEF AcksTrue
<1>4. \A b, book, waiting : NacksTrue(v, b, book, waiting) => NacksTrue(w, b, book, waiting)
  BY <1>2 DEF NacksTrue
<1>5. \A c, o : Undone(v, c, o) => Undone(w, c, o)
  BY <1>2 DEF Undone
<1> QED BY <1>3, <1>4, <1>5 DEF Part

LEMMA NothingTold ==
  /\ \A book : AcksTrue(<<>>, book)
  /\ \A b, book, waiting : NacksTrue(<<>>, b, book, waiting)
  /\ \A c, o : Undone(<<>>, c, o)
  /\ \A lo, hi : Orders(<<>>, lo, hi)
  /\ \A v : Before(<<>>, v) /\ Before(v, <<>>)
BY EmptySeq DEF AcksTrue, NacksTrue, Undone, Orders, Before

-----------------------------------------------------------------------------
(* The books: which revision published the effect of which command.        *)

\* The revision r published the effect of command id, or one before it did.
Effective(id, r) == id \in 1..Len(carried) /\ 0 < carried[id] /\ carried[id] <= r

\* Commands up to b are done with, those above it are still to come.
BooksAt(b) ==
  /\ carried \in Seq(Nat)
  /\ Len(carried) <= b /\ b <= sentCommands
  /\ Orders(commands, b, sentCommands)
  /\ Orders(toAuthority, b, sentCommands)
  /\ Before(commands, toAuthority)
  /\ AcksTrue(toMirror, carried)
  /\ NacksTrue(toMirror, b, carried, deferred)
  /\ content.edit <= b /\ observed.edit <= b /\ Undone(toMirror, content, observed)
  /\ \A i \in 1..Len(deferred) : deferred[i].id \in 1..Len(carried) /\ carried[deferred[i].id] = 0

\* How far the receiver has come is not in its state: there is such a number.
Books == \E b \in Nat : BooksAt(b)

\* What the sender holds for acknowledged was published by then.
Credited ==
  Joined /\ inflight # NoIntent /\ inflight.acked >= 0 => Effective(inflight.id, inflight.acked)

\* What a step of the receiver enters, that sends v when commands up to b are
\* done with, the last of them command id (0 for none).
Entered(v, b, id) ==
  /\ carried' \in Seq(Nat) /\ Len(carried) <= Len(carried')
  /\ Len(carried') = Len(carried) \/ Len(carried') = id
  /\ \A k \in 1..Len(carried) : Waits(deferred, k) \/ carried'[k] = carried[k]
  /\ \A k \in 1..Len(carried') : k \in 1..Len(carried) \/ k = id \/ carried'[k] = 0
  /\ \A i \in 1..Len(deferred') :
       /\ deferred'[i].id \in 1..Len(carried') /\ carried'[deferred'[i].id] = 0
       /\ Waits(deferred, deferred'[i].id) \/ deferred'[i].id = id
  /\ AcksTrue(v, carried')
  /\ NacksTrue(v, b, carried', deferred')

\* The mixer and what was published of it show edits that were there, or that of
\* command id.
Edits(id) ==
  /\ content'.edit = content.edit \/ (id # 0 /\ content'.edit = id)
  /\ observed'.edit \in {observed.edit, content.edit} \/ (id # 0 /\ observed'.edit = id)

LEMMA StillEffective ==
  ASSUME NEW b, BooksAt(b), NEW v, NEW c, NEW id, Entered(v, c, id)
  PROVE  \A k, r : Effective(k, r) => Effective(k, r)'
<1> SUFFICES ASSUME NEW k, NEW r, Effective(k, r)
             PROVE  k \in 1..Len(carried') /\ 0 < carried'[k] /\ carried'[k] <= r
  BY DEF Effective
<1>1. k \in 1..Len(carried) /\ 0 < carried[k] /\ carried[k] <= r
  BY DEF Effective
<1>2. Len(carried) \in Nat /\ Len(carried') \in Nat /\ Len(carried) <= Len(carried')
  BY LenProperties DEF BooksAt, Entered
<1>3. ~Waits(deferred, k)
  BY <1>1 DEF BooksAt, Waits
<1>4. carried'[k] = carried[k]
  BY <1>1, <1>3 DEF Entered
<1> QED BY <1>1, <1>2, <1>4

LEMMA EnteredKeeps ==
  ASSUME Typed, NEW b \in Nat, BooksAt(b), NEW c \in Nat, b <= c, NEW id \in Nat,
         id = 0 \/ (b < id /\ id <= c),
         NEW s, NEW v \in Seq(MirrorMessage), Sends(s, v), Entered(v, c, id),
         Edits(id), Undone(v, content', observed')
  PROVE  /\ carried' \in Seq(Nat) /\ Len(carried') <= c
         /\ content'.edit <= c /\ observed'.edit <= c /\ Undone(toMirror', content', observed')
         /\ AcksTrue(toMirror', carried')
         /\ NacksTrue(toMirror', c, carried', deferred')
         /\ \A i \in 1..Len(deferred') :
              deferred'[i].id \in 1..Len(carried') /\ carried'[deferred'[i].id] = 0
<1>1. /\ toMirror \in Seq(MirrorMessage) /\ carried' \in Seq(Nat)
      /\ Len(carried) \in Nat /\ Len(carried') \in Nat /\ Len(carried) <= Len(carried')
      /\ Len(carried) <= b
  BY LenProperties DEF Typed, PublicationTyped, BooksAt, Entered
<1>2. Len(carried') <= c
  BY <1>1 DEF Entered
<1>3. AcksTrue(toMirror, carried')
  <2> SUFFICES ASSUME NEW i \in 1..Len(toMirror), toMirror[i].type = "ack"
               PROVE  /\ toMirror[i].id \in 1..Len(carried')
                      /\ 0 < carried'[toMirror[i].id]
                      /\ carried'[toMirror[i].id] <= toMirror[i].revision
    BY DEF AcksTrue
  <2>1. PICK k, r : k = toMirror[i].id /\ r = toMirror[i].revision
    OBVIOUS
  <2>2. Effective(k, r)
    BY <2>1 DEF BooksAt, AcksTrue, Effective
  <2>3. Effective(k, r)'
    BY <2>2, StillEffective
  <2> QED BY <2>1, <2>3 DEF Effective
<1>4. NacksTrue(toMirror, c, carried', deferred')
  <2> SUFFICES ASSUME NEW i \in 1..Len(toMirror), toMirror[i].type = "nack"
               PROVE  /\ toMirror[i].id <= c
                      /\ toMirror[i].id \in 1..Len(carried')
                           => carried'[toMirror[i].id] = 0 /\ ~Waits(deferred', toMirror[i].id)
    BY DEF NacksTrue
  <2> DEFINE k == toMirror[i].id
  <2>1. k \in Nat
    <3>1. toMirror[i] \in Nacks
      BY <1>1, ElementOfSeq DEF MirrorMessage, Snapshots, Deltas, Acks
    <3> QED BY <3>1 DEF Nacks
  <2>2. k <= b /\ (k \in 1..Len(carried) => carried[k] = 0 /\ ~Waits(deferred, k))
    BY DEF BooksAt, NacksTrue
  <2> HIDE DEF k
  <2>3. k \in 1..Len(carried') => k # id
    BY <2>1, <2>2
  <2>4. ~Waits(deferred, k)
    BY <2>2 DEF BooksAt, Waits
  <2>5. k \in 1..Len(carried') => carried'[k] = 0
    BY <2>2, <2>3, <2>4 DEF Entered
  <2>6. k \in 1..Len(carried') => ~Waits(deferred', k)
    BY <2>3, <2>4 DEF Entered, Waits
  <2>7. k <= c
    BY <2>1, <2>2
  <2> QED BY <2>5, <2>6, <2>7 DEF k
<1>5. PICK w \in Seq(MirrorMessage) :
        /\ toMirror' = toMirror \o w
        /\ AcksTrue(w, carried') /\ NacksTrue(w, c, carried', deferred')
        /\ Undone(w, content', observed')
  <2>1. AcksTrue(v, carried') /\ NacksTrue(v, c, carried', deferred')
    BY DEF Entered
  <2>2. CASE Live(s)
    <3>1. PICK w : Part(w, v) /\ toMirror' = toMirror \o w
      BY <2>2 DEF Sends
    <3> QED BY <2>1, <3>1, PartAnswers
  <2>3. CASE ~Live(s)
    BY <1>1, <2>3, NothingTold, EmptySeq, ConcatEmptySeq DEF Sends
  <2> QED BY <2>2, <2>3
<1>6. AcksTrue(toMirror', carried') /\ NacksTrue(toMirror', c, carried', deferred')
  BY <1>1, <1>3, <1>4, <1>5, AnswersJoin
<1>7. \A i \in 1..Len(deferred') :
         deferred'[i].id \in 1..Len(carried') /\ carried'[deferred'[i].id] = 0
  BY DEF Entered
<1>8. content'.edit <= c /\ observed'.edit <= c
  <2>1. content.edit \in Nat /\ observed.edit \in Nat
    BY DEF Typed, MixerTyped, PublicationTyped, Content
  <2> QED BY <2>1 DEF Edits, BooksAt
<1>9. Undone(toMirror, content', observed')
  <2> SUFFICES ASSUME NEW i \in 1..Len(toMirror), toMirror[i].type = "nack", toMirror[i].undone
               PROVE  content'.edit # toMirror[i].id /\ observed'.edit # toMirror[i].id
    BY DEF Undone
  <2>1. toMirror[i].id \in Nat
    <3>1. toMirror[i] \in Nacks
      BY <1>1, ElementOfSeq DEF MirrorMessage, Snapshots, Deltas, Acks
    <3> QED BY <3>1 DEF Nacks
  <2>2. toMirror[i].id <= b /\ content.edit # toMirror[i].id /\ observed.edit # toMirror[i].id
    BY DEF BooksAt, NacksTrue, Undone
  <2>3. id # 0 => toMirror[i].id # id
    BY <2>1, <2>2
  <2> QED BY <2>2, <2>3 DEF Edits
<1>10. Undone(toMirror', content', observed')
  BY <1>1, <1>5, <1>9, AnswersJoin
<1> QED BY <1>1, <1>2, <1>6, <1>7, <1>8, <1>10

\* done is the book with an entry for command id, or none.
Grows(done, id) ==
  /\ done \in Seq(Nat) /\ Len(carried) <= Len(done)
  /\ Len(done) = Len(carried) \/ Len(done) = id
  /\ \A k \in 1..Len(carried) : done[k] = carried[k]
  /\ \A k \in 1..Len(done) : k \in 1..Len(carried) \/ k = id \/ done[k] = 0

LEMMA CarriesTyped ==
  ASSUME NEW pending \in BOOLEAN, NEW waiting \in Seq(Waiting), NEW done \in Seq(Nat), revision \in Nat
  PROVE  LET d == FlushCarries(pending, waiting, done)
         IN  /\ d \in Seq(Nat) /\ Len(d) = Len(done)
             /\ \A k \in 1..Len(done) : d[k] = IF pending /\ Waits(waiting, k) THEN revision + 1 ELSE done[k]
<1> DEFINE d == FlushCarries(pending, waiting, done)
<1>1. Len(done) \in Nat /\ DOMAIN done = 1..Len(done) /\ \A k \in 1..Len(done) : done[k] \in Nat
  BY LenProperties, ElementOfSeq
<1>2. CASE pending
  <2> DEFINE g == [k \in 1..Len(done) |-> IF Waits(waiting, k) THEN revision + 1 ELSE done[k]]
  <2>1. d = g
    BY <1>1, <1>2 DEF FlushCarries, Waits
  <2>2. g \in Seq(Nat) /\ Len(g) = Len(done)
    <3>1. \A k \in 1..Len(done) : (IF Waits(waiting, k) THEN revision + 1 ELSE done[k]) \in Nat
      BY <1>1
    <3> QED BY <1>1, <3>1
  <2>3. \A k \in 1..Len(done) : g[k] = IF Waits(waiting, k) THEN revision + 1 ELSE done[k]
    OBVIOUS
  <2> HIDE DEF g
  <2> QED BY <1>2, <2>1, <2>2, <2>3
<1>3. CASE ~pending
  BY <1>3 DEF FlushCarries
<1> QED BY <1>2, <1>3

\* The acknowledgements of a flush.
LEMMA FlushAcks ==
  ASSUME Typed, NEW pending \in BOOLEAN, NEW c \in Content
  PROVE  LET f == FlushMessages(pending, c, deferred)
         IN  /\ f \in Seq(MirrorMessage)
             /\ \A i \in 1..Len(f) :
                  /\ f[i].type # "nack"
                  /\ f[i].type = "ack" => pending /\ f[i].revision = revision + 1 /\ Waits(deferred, f[i].id)
<1> DEFINE f == FlushMessages(pending, c, deferred)
           p == VolumePublication(c)
           a == Answers(deferred, revision + 1)
           gone == Cardinality({i \in 1..Len(deferred) : deferred[i].session # authSession})
<1>1. epoch \in Nat /\ revision \in Nat /\ deferred \in Seq(Waiting)
  BY DEF Typed, PublicationTyped, MixerTyped
<1>2. f \in Seq(MirrorMessage)
  BY <1>1, FlushMessagesTyped
<1>3. CASE ~pending
  BY <1>2, <1>3, EmptySeq DEF FlushMessages
<1>4. CASE pending
  <2>1. f = <<p>> \o a
    BY <1>4 DEF FlushMessages
  <2>2. p \in MirrorMessage /\ IsPublication(p)
    BY <1>1, VolumePublished
  <2>3. p.type # "ack" /\ p.type # "nack"
    BY <2>2 DEF IsPublication
  <2>4. a \in Seq(MirrorMessage)
    BY <1>1, AnswersTyped
  <2>5. \A i \in 1..Len(a) : a[i].type = "ack" /\ a[i].revision = revision + 1 /\ Waits(deferred, a[i].id)
    <3>1. a = [i \in 1..(Len(deferred) - gone) |-> AckOf(deferred[gone + i].id, revision + 1)]
      BY DEF Answers
    <3>2. gone \in Nat /\ Len(deferred) \in Nat
      <4>1. IsFiniteSet(1..Len(deferred))
        BY <1>1, FS_Interval
      <4>2. IsFiniteSet({i \in 1..Len(deferred) : deferred[i].session # authSession})
        BY <4>1, FS_Subset
      <4> QED BY <1>1, <4>2, FS_CardinalityType, LenProperties
    <3> HIDE DEF a, gone
    <3>4. \A i \in 1..Len(a) : i \in DOMAIN a /\ gone + i \in 1..Len(deferred)
      <4>1. DOMAIN a = 1..Len(a) /\ Len(a) \in Nat
        BY <2>4, LenProperties
      <4>2. DOMAIN a = 1..(Len(deferred) - gone)
        BY <3>1
      <4> QED BY <3>2, <4>1, <4>2
    <3> QED BY <3>1, <3>4 DEF AckOf, Waits
  <2> HIDE DEF a, p, f
  <2>6. Len(<<p>>) = 1 /\ <<p>>[1] = p /\ <<p>> \in Seq(MirrorMessage)
    BY <2>2
  <2>7. /\ \A i \in 1..Len(f) : i \in 1..Len(<<p>>) \/ i - Len(<<p>>) \in 1..Len(a)
        /\ \A i \in 1..Len(<<p>>) : f[i] = <<p>>[i]
        /\ \A i \in 1..Len(a) : f[Len(<<p>>) + i] = a[i]
    BY <2>1, <2>4, <2>6, JoinedMessages
  <2>8. \A i \in 1..Len(f) : f[i] = p \/ (i - 1 \in 1..Len(a) /\ f[i] = a[i - 1])
    <3> SUFFICES ASSUME NEW i \in 1..Len(f) PROVE f[i] = p \/ (i - 1 \in 1..Len(a) /\ f[i] = a[i - 1])
      OBVIOUS
    <3>0. Len(f) \in Nat
      BY <1>2, LenProperties DEF f
    <3>1. CASE i \in 1..Len(<<p>>)
      <4>1. i = 1
        BY <2>6, <3>1
      <4> QED BY <2>6, <2>7, <3>1, <4>1
    <3>2. CASE i - Len(<<p>>) \in 1..Len(a)
      <4>1. i - 1 \in 1..Len(a) /\ Len(<<p>>) + (i - 1) = i
        BY <2>6, <3>0, <3>2
      <4> QED BY <2>7, <4>1
    <3> QED BY <2>7, <3>1, <3>2
  <2> QED BY <1>2, <1>4, <2>3, <2>5, <2>8 DEF f
<1> QED BY <1>3, <1>4

\* A flush, or none, that sends messages t after its own.
LEMMA FlushEnters ==
  ASSUME Typed, NEW b \in Nat, BooksAt(b), NEW pending \in BOOLEAN, NEW c \in Content,
         NEW id, NEW done, Grows(done, id), carried' = FlushCarries(pending, deferred, done),
         deferred' = IF pending THEN <<>> ELSE deferred,
         NEW t \in Seq(MirrorMessage), NEW top,
         AcksTrue(t, carried'), NacksTrue(t, top, carried', deferred')
  PROVE  Entered(FlushMessages(pending, c, deferred) \o t, top, id)
<1> DEFINE f == FlushMessages(pending, c, deferred)
<1>1. revision \in Nat /\ deferred \in Seq(Waiting) /\ done \in Seq(Nat) /\ Len(done) \in Nat
      /\ Len(carried) \in Nat /\ Len(carried) <= Len(done)
  BY LenProperties DEF Typed, PublicationTyped, Grows, BooksAt
<1>2. /\ carried' \in Seq(Nat) /\ Len(carried') = Len(done)
      /\ \A k \in 1..Len(done) :
           carried'[k] = IF pending /\ Waits(deferred, k) THEN revision + 1 ELSE done[k]
  BY <1>1, CarriesTyped
<1>3. /\ f \in Seq(MirrorMessage)
      /\ \A i \in 1..Len(f) :
           /\ f[i].type # "nack"
           /\ f[i].type = "ack" => pending /\ f[i].revision = revision + 1 /\ Waits(deferred, f[i].id)
  BY FlushAcks
<1>4. \A k : Waits(deferred, k) => k \in 1..Len(carried) /\ k \in 1..Len(done)
  BY <1>1 DEF BooksAt, Waits
<1> HIDE DEF f
<1>5. AcksTrue(f, carried')
  BY <1>1, <1>2, <1>3, <1>4 DEF AcksTrue
<1>6. NacksTrue(f, top, carried', deferred')
  BY <1>3 DEF NacksTrue
<1>7. AcksTrue(f \o t, carried') /\ NacksTrue(f \o t, top, carried', deferred')
  BY <1>3, <1>5, <1>6, AnswersJoin
<1>8. \A k \in 1..Len(carried) : k \in 1..Len(done) /\ (Waits(deferred, k) \/ carried'[k] = carried[k])
  BY <1>1, <1>2 DEF Grows
<1>9. \A k \in 1..Len(carried') : k \in 1..Len(carried) \/ k = id \/ carried'[k] = 0
  BY <1>2, <1>4 DEF Grows
<1>10. \A i \in 1..Len(deferred') :
         /\ deferred'[i].id \in 1..Len(carried') /\ carried'[deferred'[i].id] = 0
         /\ Waits(deferred, deferred'[i].id) \/ deferred'[i].id = id
  <2>1. CASE pending
    BY <2>1, EmptySeq
  <2>2. CASE ~pending
    <3> SUFFICES ASSUME NEW i \in 1..Len(deferred)
                 PROVE  /\ deferred[i].id \in 1..Len(carried') /\ carried'[deferred[i].id] = 0
                        /\ Waits(deferred, deferred[i].id)
      BY <2>2
    <3>1. deferred[i].id \in 1..Len(carried) /\ carried[deferred[i].id] = 0
      BY DEF BooksAt
    <3>2. deferred[i].id \in 1..Len(done) /\ done[deferred[i].id] = 0
      BY <1>1, <3>1 DEF Grows
    <3> QED BY <1>2, <2>2, <3>2 DEF Waits
  <2> QED BY <2>1, <2>2
<1>11. Len(carried) <= Len(carried') /\ (Len(carried') = Len(carried) \/ Len(carried') = id)
  BY <1>1, <1>2 DEF Grows
<1> QED BY <1>2, <1>7, <1>8, <1>9, <1>10, <1>11 DEF Entered, f

-----------------------------------------------------------------------------
(* The routes: what a step of the receiver answers, and to whom.           *)

\* Answers are kept for the sessions in their order, and the commands of the
\* present session are with a receiver that knows of it.
Routed ==
  /\ \A i \in 1..Len(toAuthority) : toAuthority[i].type = "command" => toAuthority[i].session = session
  /\ \A i \in 1..Len(commands) :
       commands[i].session <= session /\ (up /\ commands[i].session = session => authSession = session)
  /\ \A i \in 1..Len(deferred) :
       /\ deferred[i].session <= session
       /\ up /\ deferred[i].session = session => authSession = session
       /\ authSession # 0 => deferred[i].session <= authSession
       /\ \A j \in i..Len(deferred) : deferred[i].session <= deferred[j].session

\* Command id of the present session waits for the flush.
WaitsNow(waiting, id) == \E i \in 1..Len(waiting) : waiting[i].id = id /\ waiting[i].session = session

\* A command of the present session that waited for the flush, or was next (id),
\* waits for it now or is told by v.
Covers(s, v, id) ==
  up => \A k : WaitsNow(deferred, k) \/ (id # 0 /\ k = id /\ Head(commands).session = session)
                 => WaitsNow(deferred', k) \/ (s = session /\ Tells(v, k))

\* A step of the receiver serves command id (0 for none), and commands up to b
\* are done with.
Serves(b, id) ==
  /\ Edits(id)
  /\ \E s : \E v \in Seq(MirrorMessage) :
       /\ Sends(s, v) /\ Entered(v, b, id) /\ Covers(s, v, id)
       /\ Undone(v, content', observed')

LEMMA FlushTells ==
  ASSUME Typed, Routed, up, NEW k, WaitsNow(deferred, k), NEW c \in Content
  PROVE  authSession = session /\ Tells(FlushMessages(TRUE, c, deferred), k)
<1> DEFINE past == {i \in 1..Len(deferred) : deferred[i].session # authSession}
           gone == Cardinality(past)
           p == VolumePublication(c)
           a == Answers(deferred, revision + 1)
<1>1. epoch \in Nat /\ revision \in Nat /\ deferred \in Seq(Waiting) /\ Len(deferred) \in Nat
      /\ session \in Nat
  BY LinkAssumption, LenProperties DEF Typed, PublicationTyped, MixerTyped, SessionTyped
<1>2. PICK i \in 1..Len(deferred) : deferred[i].id = k /\ deferred[i].session = session
  BY DEF WaitsNow
<1>3. authSession = session
  BY <1>2 DEF Routed
<1>4. \A j \in 1..Len(deferred) : deferred[j].session \in Nat
  <2>1. \A j \in 1..Len(deferred) : deferred[j] \in Waiting
    BY <1>1, ElementOfSeq
  <2> QED BY <2>1 DEF Waiting
<1>5. past \subseteq 1..(i - 1)
  <2> SUFFICES ASSUME NEW j \in 1..Len(deferred), deferred[j].session # session PROVE j <= i - 1
    BY <1>3
  <2> SUFFICES ASSUME j >= i PROVE FALSE
    BY <1>1
  <2>1. j \in i..Len(deferred)
    BY <1>1
  <2>2. session <= deferred[j].session /\ deferred[j].session <= session
    BY <1>2, <2>1 DEF Routed
  <2> QED BY <1>1, <1>4, <2>2
<1>6. gone \in Nat /\ gone <= i - 1
  <2>0. i - 1 \in Nat /\ 1 \in Int /\ (i - 1) - 1 + 1 = i - 1 /\ (1 > i - 1 => i - 1 = 0)
    BY <1>1
  <2>1. i - 1 \in Nat /\ IsFiniteSet(1..(i - 1)) /\ Cardinality(1..(i - 1)) = i - 1
    BY <2>0, FS_Interval
  <2>2. IsFiniteSet(past) /\ gone <= Cardinality(1..(i - 1))
    BY <1>5, <2>1, FS_Subset
  <2> QED BY <2>1, <2>2, FS_CardinalityType
<1>7. a = [j \in 1..(Len(deferred) - gone) |-> AckOf(deferred[gone + j].id, revision + 1)]
  BY DEF Answers
<1>8. a \in Seq(MirrorMessage)
  BY <1>1, AnswersTyped
<1> HIDE DEF gone, a, past
<1>9. Tells(a, k)
  <2>1. i - gone \in 1..(Len(deferred) - gone) /\ gone + (i - gone) = i
    BY <1>1, <1>6
  <2>2. a[i - gone] = AckOf(k, revision + 1)
    BY <1>2, <1>7, <2>1
  <2>3. i - gone \in 1..Len(a)
    <3>1. DOMAIN a = 1..Len(a) /\ DOMAIN a = 1..(Len(deferred) - gone)
      BY <1>7, <1>8, LenProperties
    <3> QED BY <2>1, <3>1
  <2> QED BY <2>2, <2>3 DEF Tells, AckOf
<1>10. p \in MirrorMessage
  BY <1>1, VolumePublished
<1> HIDE DEF p
<1>11. <<p>> \in Seq(MirrorMessage)
  BY <1>10
<1>12. Tells(<<p>> \o a, k)
  BY <1>8, <1>9, <1>11, AnswersJoin
<1> QED BY <1>3, <1>12 DEF FlushMessages, p, a

LEMMA FlushServes ==
  ASSUME Typed, Routed, NEW b \in Nat, BooksAt(b), NEW pending \in BOOLEAN, NEW c \in Content,
         NEW id, NEW done, Grows(done, id), carried' = FlushCarries(pending, deferred, done),
         deferred' = IF pending THEN <<>> ELSE deferred,
         NEW t \in Seq(MirrorMessage), NEW top,
         AcksTrue(t, carried'), NacksTrue(t, top, carried', deferred'),
         id # 0 => Tells(t, id) /\ (up /\ Head(commands).session = session => authSession = session),
         Edits(id), Undone(t, content', observed'),
         \/ ToMirror(authSession, FlushMessages(pending, c, deferred) \o t)
         \/ Sends(authSession, FlushMessages(pending, c, deferred) \o t)
  PROVE  Serves(top, id)
<1> DEFINE f == FlushMessages(pending, c, deferred)
           v == f \o t
<1>1. Entered(v, top, id)
  BY FlushEnters
<1>2. f \in Seq(MirrorMessage) /\ \A i \in 1..Len(f) : f[i].type # "nack"
  BY FlushAcks
<1>3. v \in Seq(MirrorMessage)
  BY <1>2, JoinedMessages
<1>4. Covers(authSession, v, id)
  <2> SUFFICES ASSUME up, NEW k, WaitsNow(deferred, k) \/ (id # 0 /\ k = id /\ Head(commands).session = session)
               PROVE  WaitsNow(deferred', k) \/ (authSession = session /\ Tells(v, k))
    BY DEF Covers
  <2>1. CASE WaitsNow(deferred, k) /\ pending
    <3>1. authSession = session /\ Tells(FlushMessages(TRUE, c, deferred), k)
      BY <2>1, FlushTells
    <3>2. FlushMessages(TRUE, c, deferred) = f
      BY <2>1 DEF FlushMessages
    <3> QED BY <1>2, <3>1, <3>2, AnswersJoin
  <2>2. CASE WaitsNow(deferred, k) /\ ~pending
    BY <2>2
  <2>3. CASE id # 0 /\ k = id /\ Head(commands).session = session
    <3>1. Tells(t, k) /\ authSession = session
      BY <2>3
    <3> QED BY <1>2, <3>1, AnswersJoin
  <2> QED BY <2>1, <2>2, <2>3
<1>5. Sends(authSession, v)
  BY <1>3, FittingSends
<1>6. Undone(v, content', observed')
  <2>1. Undone(f, content', observed')
    BY <1>2 DEF Undone
  <2> QED BY <1>2, <2>1, AnswersJoin
<1> HIDE DEF v
<1> QED BY <1>1, <1>3, <1>4, <1>5, <1>6 DEF Serves

LEMMA NotAnAnswer ==
  ASSUME NEW m \in MirrorMessage, m.type \notin {"ack", "nack"}
  PROVE  /\ <<m>> \in Seq(MirrorMessage)
         /\ \A book : AcksTrue(<<m>>, book)
         /\ \A b, book, waiting : NacksTrue(<<m>>, b, book, waiting)
         /\ \A c, o : Undone(<<m>>, c, o)
<1>1. <<m>> \in Seq(MirrorMessage) /\ Len(<<m>>) = 1 /\ <<m>>[1] = m
  OBVIOUS
<1>2. \A i \in 1..Len(<<m>>) : <<m>>[i] = m
  BY <1>1
<1> QED BY <1>1, <1>2 DEF AcksTrue, NacksTrue, Undone

LEMMA OneAck ==
  ASSUME NEW id \in Nat, NEW r \in Nat
  PROVE  /\ <<AckOf(id, r)>> \in Seq(MirrorMessage) /\ Tells(<<AckOf(id, r)>>, id)
         /\ \A book : id \in 1..Len(book) /\ 0 < book[id] /\ book[id] <= r => AcksTrue(<<AckOf(id, r)>>, book)
         /\ \A b, book, waiting : NacksTrue(<<AckOf(id, r)>>, b, book, waiting)
         /\ \A c, o : Undone(<<AckOf(id, r)>>, c, o)
<1> DEFINE m == AckOf(id, r)
<1>1. m \in MirrorMessage /\ m.id = id /\ m.revision = r /\ m.type = "ack"
  BY AckTyped DEF AckOf
<1> HIDE DEF m
<1>2. <<m>> \in Seq(MirrorMessage) /\ Len(<<m>>) = 1 /\ <<m>>[1] = m
  BY <1>1
<1>3. 1 \in 1..Len(<<m>>) /\ \A i \in 1..Len(<<m>>) : <<m>>[i] = m
  BY <1>2
<1>4. Tells(<<m>>, id)
  BY <1>1, <1>2, <1>3 DEF Tells
<1>5. \A book : id \in 1..Len(book) /\ 0 < book[id] /\ book[id] <= r => AcksTrue(<<m>>, book)
  BY <1>1, <1>3 DEF AcksTrue
<1>6. \A b, book, waiting : NacksTrue(<<m>>, b, book, waiting)
  BY <1>1, <1>3 DEF NacksTrue
<1>7. \A c, o : Undone(<<m>>, c, o)
  BY <1>1, <1>3 DEF Undone
<1> QED BY <1>2, <1>4, <1>5, <1>6, <1>7 DEF m

LEMMA OneNack ==
  ASSUME NEW id \in Nat, NEW m \in MirrorMessage, m.type = "nack", m.id = id
  PROVE  /\ <<m>> \in Seq(MirrorMessage) /\ Tells(<<m>>, id)
         /\ \A book : AcksTrue(<<m>>, book)
         /\ \A book, waiting : id \notin 1..Len(book) => NacksTrue(<<m>>, id, book, waiting)
         /\ \A c, o : (m.undone => c.edit # id /\ o.edit # id) => Undone(<<m>>, c, o)
<1>2. <<m>> \in Seq(MirrorMessage) /\ Len(<<m>>) = 1 /\ <<m>>[1] = m
  OBVIOUS
<1>3. 1 \in 1..Len(<<m>>) /\ \A i \in 1..Len(<<m>>) : <<m>>[i] = m
  BY <1>2
<1>4. Tells(<<m>>, id)
  BY <1>2, <1>3 DEF Tells
<1>5. \A book : AcksTrue(<<m>>, book)
  BY <1>3 DEF AcksTrue
<1>6. \A book, waiting : id \notin 1..Len(book) => NacksTrue(<<m>>, id, book, waiting)
  BY <1>3 DEF NacksTrue
<1>7. \A c, o : (m.undone => c.edit # id /\ o.edit # id) => Undone(<<m>>, c, o)
  BY <1>3 DEF Undone
<1> QED BY <1>2, <1>4, <1>5, <1>6, <1>7

LEMMA GrowsNothing == ASSUME NEW b, BooksAt(b), NEW id PROVE Grows(carried, id)
<1>1. carried \in Seq(Nat) /\ Len(carried) \in Nat
  BY LenProperties DEF BooksAt
<1> QED BY <1>1 DEF Grows

LEMMA GrowsApplied ==
  ASSUME NEW b \in Nat, BooksAt(b), NEW id \in Nat, b < id, NEW r \in Nat
  PROVE  Grows(Applied(id, r), id) /\ Len(Applied(id, r)) = id /\ Applied(id, r)[id] = r
<1> DEFINE d == Applied(id, r)
<1>1. /\ carried \in Seq(Nat) /\ Len(carried) \in Nat /\ DOMAIN carried = 1..Len(carried)
      /\ \A k \in 1..Len(carried) : carried[k] \in Nat
      /\ Len(carried) <= b
  BY LenProperties, ElementOfSeq DEF BooksAt
<1>2. d = [i \in 1..id |-> IF i = id THEN r ELSE IF i \in 1..Len(carried) THEN carried[i] ELSE 0]
  BY <1>1 DEF Applied
<1> HIDE DEF d
<1>3. d \in Seq(Nat) /\ Len(d) = id
  <2>1. \A i \in 1..id : (IF i = id THEN r ELSE IF i \in 1..Len(carried) THEN carried[i] ELSE 0) \in Nat
    BY <1>1
  <2> QED BY <1>2, <2>1
<1>4. \A k \in 1..id : d[k] = IF k = id THEN r ELSE IF k \in 1..Len(carried) THEN carried[k] ELSE 0
  BY <1>2
<1>5. id \in 1..id
  BY <1>1
<1>6. \A k \in 1..Len(carried) : k \in 1..id /\ k # id
  BY <1>1
<1> QED BY <1>1, <1>3, <1>4, <1>5, <1>6 DEF Grows, d

-----------------------------------------------------------------------------
(* What the sender waits for.                                              *)

\* w holds command id of the present session.
Asks(w, id) == \E i \in 1..Len(w) : w[i].type = "command" /\ w[i].id = id /\ w[i].session = session

\* What the sender waits for is acknowledged, or somebody has it, or it was lost
\* and is known to be.
Followed ==
  /\ mirrorSession = 0 => inflight = NoIntent
  /\ Joined /\ inflight # NoIntent =>
       \/ inflight.acked >= 0
       \/ inflight.id \in lost.commands
       \/ Asks(toAuthority, inflight.id)
       \/ Asks(commands, inflight.id)
       \/ WaitsNow(deferred, inflight.id)
       \/ Tells(toMirror, inflight.id)

AnswerInv == Books /\ Credited /\ Routed /\ Followed

LEMMA AsksTail ==
  ASSUME NEW S, NEW w \in Seq(S), w # <<>>, NEW id, Asks(w, id)
  PROVE  Asks(Tail(w), id) \/ (Head(w).type = "command" /\ Head(w).id = id /\ Head(w).session = session)
<1> DEFINE t == Tail(w)
<1>1. /\ Head(w) = w[1] /\ Len(w) \in Nat \ {0} /\ Len(t) = Len(w) - 1
      /\ \A i \in 1..Len(t) : t[i] = w[i + 1] /\ i + 1 \in 1..Len(w)
  BY TailOf
<1> HIDE DEF t
<1>2. PICK i \in 1..Len(w) : w[i].type = "command" /\ w[i].id = id /\ w[i].session = session
  BY DEF Asks
<1>3. CASE i = 1
  BY <1>1, <1>2, <1>3
<1>4. CASE i # 1
  <2>1. i - 1 \in 1..Len(t) /\ (i - 1) + 1 = i
    BY <1>1, <1>4
  <2>2. t[i - 1] = w[i]
    BY <1>1, <2>1
  <2>3. Asks(t, id)
    BY <1>2, <2>1, <2>2 DEF Asks
  <2> QED BY <2>3 DEF t
<1> QED BY <1>3, <1>4

LEMMA AsksAppend ==
  ASSUME NEW S, NEW w \in Seq(S), NEW m \in S
  PROVE  /\ \A id : Asks(w, id) => Asks(Append(w, m), id)
         /\ m.type = "command" /\ m.session = session => Asks(Append(w, m), m.id)
<1> DEFINE u == Append(w, m)
<1>1. /\ Len(u) = Len(w) + 1 /\ Len(w) \in Nat
      /\ \A i \in 1..Len(w) : u[i] = w[i] /\ i \in 1..Len(w) + 1
      /\ u[Len(w) + 1] = m /\ Len(w) + 1 \in 1..Len(w) + 1
  BY AppendOf
<1> HIDE DEF u
<1>2. \A id : Asks(w, id) => Asks(u, id)
  BY <1>1 DEF Asks
<1>3. m.type = "command" /\ m.session = session => Asks(u, m.id)
  BY <1>1 DEF Asks
<1> QED BY <1>2, <1>3 DEF u

LEMMA NothingServes ==
  ASSUME Typed, NEW b \in Nat, BooksAt(b), UNCHANGED <<toMirror, carried, deferred>>,
         LostAsBefore, Edits(0)
  PROVE  Serves(b, 0)
<1>1. toMirror \in Seq(MirrorMessage) /\ <<>> \in Seq(MirrorMessage)
  BY EmptySeq DEF Typed, PublicationTyped
<1>2. Sends(authSession, <<>>)
  BY <1>1, NothingSends
<1>3. Entered(<<>>, b, 0)
  <2>1. carried \in Seq(Nat) /\ Len(carried) \in Nat
    BY LenProperties DEF BooksAt
  <2>2. \A i \in 1..Len(deferred) :
          /\ deferred[i].id \in 1..Len(carried) /\ carried[deferred[i].id] = 0
          /\ Waits(deferred, deferred[i].id)
    BY DEF BooksAt, Waits
  <2> QED BY <2>1, <2>2, NothingTold DEF Entered
<1>4. Covers(authSession, <<>>, 0)
  BY DEF Covers
<1> QED BY <1>1, <1>2, <1>3, <1>4, NothingTold DEF Serves

LEMMA PublishServes ==
  ASSUME Typed, Routed, NEW b \in Nat, BooksAt(b), NEW c \in Content,
         PublishSnapshot(c, <<>>, carried), Edits(0)
  PROVE  Serves(b, 0)
<1> DEFINE s == SnapshotOf(c, AfterFlush + 1)
           f == FlushMessages(volumePending, c, deferred)
<1>1. epoch \in Nat /\ AfterFlush + 1 \in Nat /\ volumePending \in BOOLEAN
  BY FirstAdds DEF Typed, PublicationTyped, MixerTyped
<1>2. s \in MirrorMessage /\ s.type \notin {"ack", "nack"}
  <2>1. s \in MirrorMessage
    BY <1>1, SnapshotTyped
  <2> QED BY <2>1 DEF SnapshotOf
<1>3. f \in Seq(MirrorMessage)
  BY <1>1, FlushAcks
<1> HIDE DEF s
<1>4. /\ <<s>> \in Seq(MirrorMessage) /\ AcksTrue(<<s>>, carried')
      /\ NacksTrue(<<s>>, b, carried', deferred') /\ Undone(<<s>>, content', observed')
  BY <1>2, NotAnAnswer
<1>5. (f \o <<s>>) \o <<>> = f \o <<s>>
  BY <1>3, <1>4, JoinedMessages, ConcatEmptySeq
<1>6. ToMirror(authSession, f \o <<s>>)
  BY <1>5 DEF PublishSnapshot, SnapshotMessages, s
<1>7. Grows(carried, 0) /\ carried' = FlushCarries(volumePending, deferred, carried)
      /\ deferred' = IF volumePending THEN <<>> ELSE deferred
  BY GrowsNothing DEF PublishSnapshot
<1> QED BY <1>1, <1>4, <1>6, <1>7, FlushServes

LEMMA FlushAloneServes ==
  ASSUME Typed, Routed, NEW b \in Nat, BooksAt(b), NEW c \in Content,
         Flush(TRUE, c, deferred, carried), Edits(0)
  PROVE  Serves(b, 0)
<1> DEFINE f == FlushMessages(TRUE, c, deferred)
<1>1. f \in Seq(MirrorMessage) /\ <<>> \in Seq(MirrorMessage)
  BY FlushAcks, EmptySeq
<1>2. ToMirror(authSession, f \o <<>>)
  BY <1>1, ConcatEmptySeq DEF Flush
<1>3. /\ AcksTrue(<<>>, carried') /\ NacksTrue(<<>>, b, carried', deferred')
      /\ Undone(<<>>, content', observed')
  BY NothingTold
<1>4. Grows(carried, 0) /\ carried' = FlushCarries(TRUE, deferred, carried)
      /\ deferred' = IF TRUE THEN <<>> ELSE deferred
  BY GrowsNothing DEF Flush
<1> QED BY <1>1, <1>2, <1>3, <1>4, FlushServes

LEMMA TimerServes ==
  ASSUME Typed, Routed, NEW b \in Nat, BooksAt(b),
         LocalStep \/ CaptureLocalMutation \/ CaptureRuntimeVolume \/ FlushVolumePublication
           \/ HandleSnapshotRequest
  PROVE  Serves(b, 0)
<1>1. content \in Content /\ [content EXCEPT !.allowed = ~@] \in Content
  BY ChangedContentTyped DEF Typed, MixerTyped
<1>2. Edits(0)
  <2>1. content \in Content /\ observed \in Content
    BY DEF Typed, MixerTyped, PublicationTyped
  <2>2. CASE LocalEdit \/ \E v \in Volumes : LocalVolume(v)
    BY <2>1, <2>2 DEF LocalEdit, LocalVolume, Edits, Content
  <2>3. CASE TogglePermission
    BY <2>1, <2>3 DEF TogglePermission, NothingPublished, PublishSnapshot, Edits, Content
  <2>4. CASE CaptureLocalMutation \/ CaptureRuntimeVolume \/ FlushVolumePublication
    BY <2>1, <2>4 DEF CaptureLocalMutation, CaptureRuntimeVolume, FlushVolumePublication,
                      NothingPublished, PublishSnapshot, Flush, Edits
  <2>5. CASE HandleSnapshotRequest
    BY <2>1, <2>5 DEF HandleSnapshotRequest, NothingPublished, PublishSnapshot, Edits
  <2> QED BY <2>2, <2>3, <2>4, <2>5 DEF LocalStep
<1>3. CASE LostAsBefore /\ UNCHANGED <<toMirror, carried, deferred>>
  BY <1>2, <1>3, NothingServes
<1>4. CASE \E c \in Content : PublishSnapshot(c, <<>>, carried)
  BY <1>2, <1>4, PublishServes
<1>5. CASE Flush(TRUE, content, deferred, carried)
  BY <1>1, <1>2, <1>5, FlushAloneServes
<1>6. ASSUME Sends(authSession, <<SnapshotOf(observed, revision)>>), UNCHANGED <<carried, deferred>>
      PROVE  Serves(b, 0)
  <2> DEFINE s == SnapshotOf(observed, revision)
  <2>1. s \in MirrorMessage /\ s.type \notin {"ack", "nack"}
    <3>1. s \in MirrorMessage
      BY SnapshotTyped DEF Typed, PublicationTyped, MixerTyped
    <3> QED BY <3>1 DEF SnapshotOf
  <2> HIDE DEF s
  <2>2. /\ <<s>> \in Seq(MirrorMessage) /\ AcksTrue(<<s>>, carried')
        /\ NacksTrue(<<s>>, b, carried', deferred') /\ Undone(<<s>>, content', observed')
    BY <2>1, NotAnAnswer
  <2>3. <<>> \o <<s>> = <<s>> /\ FlushMessages(FALSE, observed, deferred) = <<>>
    BY <2>2, ConcatEmptySeq DEF FlushMessages
  <2>4. Sends(authSession, FlushMessages(FALSE, observed, deferred) \o <<s>>)
    BY <1>6, <2>3 DEF s
  <2>5. Grows(carried, 0) /\ carried' = FlushCarries(FALSE, deferred, carried)
        /\ deferred' = IF FALSE THEN <<>> ELSE deferred
    BY <1>6, GrowsNothing DEF FlushCarries
  <2>6. observed \in Content
    BY DEF Typed, PublicationTyped
  <2> QED BY <1>2, <2>2, <2>4, <2>5, <2>6, FlushServes
<1>7. CASE Resend /\ UNCHANGED <<carried, deferred>>
  BY <1>3, <1>6, <1>7, ResendSends
<1>8. \/ LostAsBefore /\ UNCHANGED <<toMirror, carried, deferred>>
      \/ \E c \in Content : PublishSnapshot(c, <<>>, carried)
      \/ Flush(TRUE, content, deferred, carried)
      \/ Resend /\ UNCHANGED <<carried, deferred>>
  <2>1. CASE LocalEdit \/ \E v \in Volumes : LocalVolume(v)
    BY <2>1 DEF LocalEdit, LocalVolume, linkVars, LostAsBefore
  <2>2. CASE TogglePermission
    BY <1>1, <2>2 DEF TogglePermission, NothingPublished, LostAsBefore
  <2>3. CASE CaptureLocalMutation
    BY <1>1, <2>3 DEF CaptureLocalMutation, NothingPublished, LostAsBefore
  <2>4. CASE CaptureRuntimeVolume
    BY <2>4 DEF CaptureRuntimeVolume, NothingPublished, LostAsBefore
  <2>5. CASE FlushVolumePublication
    BY <2>5 DEF FlushVolumePublication
  <2>6. CASE HandleSnapshotRequest
    BY <1>1, <2>6 DEF HandleSnapshotRequest, NothingPublished, LostAsBefore
  <2> QED BY <2>1, <2>2, <2>3, <2>4, <2>5, <2>6 DEF LocalStep
<1> QED BY <1>3, <1>4, <1>5, <1>7, <1>8

-----------------------------------------------------------------------------
(* Commands.                                                               *)
LEMMA NextInOrder ==
  ASSUME Typed, Routed, NEW b \in Nat, BooksAt(b), NextCommand
  PROVE  /\ Head(commands) \in Commands /\ Head(commands).id \in Nat /\ b < Head(commands).id
         /\ Head(commands).id <= sentCommands
         /\ up /\ Head(commands).session = session => authSession = session
         /\ Head(commands).id \notin 1..Len(carried)
<1>1. commands \in Seq(Commands) /\ commands # <<>>
  BY DEF Typed, MixerTyped, NextCommand
<1>2. Head(commands) \in Commands
  BY NextCommandTyped
<1>3. Head(commands).id \in Nat /\ Head(commands).type = "command"
  BY <1>2 DEF Commands
<1>4. Orders(commands, b, sentCommands)
  BY DEF BooksAt
<1>5. b < Head(commands).id /\ Head(commands).id <= sentCommands
  BY <1>1, <1>3, <1>4, OrdersTail
<1>6. Head(commands) = commands[1] /\ 1 \in 1..Len(commands)
  BY <1>1, TailOf
<1>7. Len(carried) \in Nat /\ Len(carried) <= b
  BY LenProperties DEF BooksAt
<1> QED BY <1>2, <1>3, <1>5, <1>6, <1>7 DEF Routed

LEMMA RefuseServes ==
  ASSUME Typed, Routed, NEW b \in Nat, BooksAt(b), RefuseCommand
  PROVE  Serves(Head(commands).id, Head(commands).id)
<1> DEFINE cmd == Head(commands)
<1>1. cmd.id \in Nat /\ b < cmd.id /\ cmd.id \notin 1..Len(carried)
  BY NextInOrder DEF RefuseCommand
<1>2. PICK reason \in {"refused", "permission_disabled"} : ToMirror(cmd.session, <<NackOf(cmd.id, reason)>>)
  BY DEF RefuseCommand
<1> DEFINE m == NackOf(cmd.id, reason)
<1>3. m \in MirrorMessage /\ m.type = "nack" /\ m.id = cmd.id
  <2>1. revision \in Nat
    BY DEF Typed, PublicationTyped
  <2>2. m \in MirrorMessage
    BY <1>1, <2>1, NackTyped
  <2> QED BY <2>2 DEF NackOf
<1>4. UNCHANGED <<carried, deferred, content, observed>>
  BY DEF RefuseCommand
<1>5. ToMirror(cmd.session, <<m>>)
  BY <1>2
<1> HIDE DEF m
<1> PICK id : id = cmd.id
  OBVIOUS
<1>6. /\ <<m>> \in Seq(MirrorMessage) /\ Tells(<<m>>, id)
      /\ AcksTrue(<<m>>, carried) /\ NacksTrue(<<m>>, id, carried, deferred)
      /\ Undone(<<m>>, content, observed)
  <2>1. content.edit \in Nat /\ observed.edit \in Nat
    BY DEF Typed, MixerTyped, PublicationTyped, Content
  <2>2. content.edit # id /\ observed.edit # id
    BY <1>1, <2>1 DEF BooksAt
  <2> QED BY <1>1, <1>3, <2>2, OneNack
<1>7. Entered(<<m>>, id, id)
  <2>1. carried \in Seq(Nat) /\ Len(carried) \in Nat
    BY LenProperties DEF BooksAt
  <2>2. \A i \in 1..Len(deferred) :
          /\ deferred[i].id \in 1..Len(carried) /\ carried[deferred[i].id] = 0
          /\ Waits(deferred, deferred[i].id)
    BY DEF BooksAt, Waits
  <2> QED BY <1>4, <1>6, <2>1, <2>2 DEF Entered
<1>8. Covers(cmd.session, <<m>>, id)
  BY <1>4, <1>6 DEF Covers
<1>9. Sends(cmd.session, <<m>>) /\ Edits(id) /\ Undone(<<m>>, content', observed')
  BY <1>4, <1>5, <1>6, FittingSends DEF Edits
<1> QED BY <1>6, <1>7, <1>8, <1>9 DEF Serves

LEMMA FailServes ==
  ASSUME Typed, Routed, NEW b \in Nat, BooksAt(b), FailEdit
  PROVE  Serves(Head(commands).id, Head(commands).id)
<1> DEFINE cmd == Head(commands)
<1> PICK undone \in BOOLEAN :
      /\ content' = IF undone THEN content ELSE [content EXCEPT !.edit = cmd.id]
      /\ ToMirror(authSession, FlushMessages(volumePending, content, deferred)
           \o <<[NackOf(cmd.id, "refused") EXCEPT !.revision = AfterFlush,
                                                  !.undone = undone]>>)
  BY DEF FailEdit
<1> DEFINE m == [NackOf(cmd.id, "refused") EXCEPT !.revision = AfterFlush,
                                                  !.undone = undone]
<1>1. cmd.id \in Nat /\ b < cmd.id /\ cmd.id \notin 1..Len(carried)
      /\ (up /\ cmd.session = session => authSession = session)
  BY NextInOrder DEF FailEdit
<1>2. content \in Content /\ volumePending \in BOOLEAN /\ AfterFlush \in Nat /\ revision \in Nat
      /\ deferred \in Seq(Waiting)
  BY FirstAdds DEF Typed, PublicationTyped, MixerTyped
<1>3. m \in MirrorMessage /\ m.type = "nack" /\ m.id = cmd.id /\ m.undone = undone
  <2>1. m \in MirrorMessage
    BY <1>1, <1>2, NackTyped
  <2> QED BY <2>1 DEF NackOf
<1>4. /\ ToMirror(authSession, FlushMessages(volumePending, content, deferred) \o <<m>>)
      /\ deferred' = IF volumePending THEN <<>> ELSE deferred
      /\ carried' = FlushCarries(volumePending, deferred, carried)
      /\ content'.edit = IF undone THEN content.edit ELSE cmd.id
      /\ observed'.edit \in {observed.edit, content.edit}
  BY <1>2 DEF FailEdit, Content
<1> HIDE DEF m
<1> PICK id : id = cmd.id
  OBVIOUS
<1>5. carried \in Seq(Nat)
  BY DEF BooksAt
<1>6. Len(carried') = Len(carried)
  BY <1>2, <1>4, <1>5, CarriesTyped
<1>7. /\ <<m>> \in Seq(MirrorMessage) /\ Tells(<<m>>, id)
      /\ AcksTrue(<<m>>, carried') /\ NacksTrue(<<m>>, id, carried', deferred')
      /\ Undone(<<m>>, content', observed')
  <2>1. content.edit \in Nat /\ observed.edit \in Nat
    BY DEF Typed, MixerTyped, PublicationTyped, Content
  <2>2. content.edit # id /\ observed.edit # id
    BY <1>1, <2>1 DEF BooksAt
  <2>3. m.undone => content'.edit # id /\ observed'.edit # id
    BY <1>3, <1>4, <2>2
  <2> QED BY <1>1, <1>3, <1>6, <2>3, OneNack
<1>8. Grows(carried, id)
  BY GrowsNothing
<1>9. id # 0 => Tells(<<m>>, id) /\ (up /\ Head(commands).session = session => authSession = session)
  BY <1>1, <1>7
<1>10. id # 0
  BY <1>1 DEF BooksAt
<1>11. Edits(id)
  BY <1>4, <1>10 DEF Edits
<1> HIDE DEF cmd
<1>12. Serves(id, id)
  BY <1>2, <1>4, <1>7, <1>8, <1>9, <1>11, FlushServes
<1> QED BY <1>12 DEF cmd

\* The effect of the command that is applied is entered under its revision.
LEMMA AppliedEffective ==
  ASSUME Typed, NEW b \in Nat, BooksAt(b), NEW id \in Nat, b < id, NEW r \in Nat, 0 < r,
         NEW pending \in BOOLEAN, carried' = FlushCarries(pending, deferred, Applied(id, r))
  PROVE  id \in 1..Len(carried') /\ carried'[id] = r
<1>1. Grows(Applied(id, r), id) /\ Len(Applied(id, r)) = id /\ Applied(id, r)[id] = r
  BY GrowsApplied
<1>2. Applied(id, r) \in Seq(Nat) /\ deferred \in Seq(Waiting) /\ revision \in Nat
  BY <1>1 DEF Grows, Typed, PublicationTyped
<1>3. /\ Len(carried') = id
      /\ \A k \in 1..id : carried'[k] = IF pending /\ Waits(deferred, k) THEN revision + 1 ELSE Applied(id, r)[k]
  BY <1>1, <1>2, CarriesTyped
<1>4. id \in 1..id
  OBVIOUS
<1>5. Len(carried) \in Nat /\ Len(carried) <= b
  BY LenProperties DEF BooksAt
<1>6. ~Waits(deferred, id)
  BY <1>5 DEF BooksAt, Waits
<1> QED BY <1>1, <1>3, <1>4, <1>6

LEMMA ApplyEditServes ==
  ASSUME Typed, Routed, NEW b \in Nat, BooksAt(b), ApplyEdit
  PROVE  Serves(Head(commands).id, Head(commands).id)
<1> DEFINE cmd == Head(commands)
           c == [content EXCEPT !.edit = cmd.id]
           r == AfterFlush + 1
           s == SnapshotOf(c, r)
           a == AckOf(cmd.id, r)
<1>1. cmd.id \in Nat /\ b < cmd.id /\ cmd.id # 0 /\ (up /\ cmd.session = session => authSession = session)
  BY NextInOrder DEF ApplyEdit
<1>2. content \in Content /\ volumePending \in BOOLEAN /\ AfterFlush \in Nat /\ epoch \in Nat
  BY FirstAdds DEF Typed, PublicationTyped, MixerTyped
<1>3. r \in Nat /\ 0 < r /\ c \in Content
  BY <1>1, <1>2, ChangedContentTyped
<1>4. /\ ToMirror(authSession, FlushMessages(volumePending, content, deferred) \o <<s, a>>)
      /\ deferred' = IF volumePending THEN <<>> ELSE deferred
      /\ carried' = FlushCarries(volumePending, deferred, Applied(cmd.id, r))
      /\ content'.edit = cmd.id /\ observed'.edit = cmd.id
  BY <1>2 DEF ApplyEdit, Content
<1> HIDE DEF c, r
<1>5. s \in MirrorMessage /\ s.type \notin {"ack", "nack"} /\ a \in MirrorMessage
  <2>1. s \in MirrorMessage /\ a \in MirrorMessage
    BY <1>1, <1>2, <1>3, SnapshotTyped, AckTyped
  <2> QED BY <2>1 DEF SnapshotOf
<1>6. cmd.id \in 1..Len(carried') /\ carried'[cmd.id] = r
  BY <1>1, <1>2, <1>3, <1>4, AppliedEffective
<1>7. /\ <<a>> \in Seq(MirrorMessage) /\ Tells(<<a>>, cmd.id) /\ AcksTrue(<<a>>, carried')
      /\ NacksTrue(<<a>>, cmd.id, carried', deferred') /\ Undone(<<a>>, content', observed')
  <2>1. 0 < carried'[cmd.id] /\ carried'[cmd.id] <= r
    BY <1>3, <1>6
  <2> QED BY <1>1, <1>3, <1>6, <2>1, OneAck
<1> HIDE DEF s, a
<1>8. /\ <<s>> \in Seq(MirrorMessage) /\ AcksTrue(<<s>>, carried')
      /\ NacksTrue(<<s>>, cmd.id, carried', deferred') /\ Undone(<<s>>, content', observed')
  BY <1>5, NotAnAnswer
<1>9. <<s>> \o <<a>> = <<s, a>>
  BY <1>5, Pair
<1> PICK id, t : id = cmd.id /\ t = <<s>> \o <<a>>
  OBVIOUS
<1>10. t \in Seq(MirrorMessage) /\ Tells(t, id) /\ AcksTrue(t, carried')
       /\ NacksTrue(t, id, carried', deferred') /\ Undone(t, content', observed')
  BY <1>7, <1>8, JoinedMessages, AnswersJoin
<1> PICK done : done = Applied(id, r)
  OBVIOUS
<1>11. Grows(done, id)
  BY <1>1, <1>3, GrowsApplied
<1>12. /\ id # 0 => Tells(t, id) /\ (up /\ Head(commands).session = session => authSession = session)
       /\ carried' = FlushCarries(volumePending, deferred, done)
       /\ ToMirror(authSession, FlushMessages(volumePending, content, deferred) \o t)
  BY <1>1, <1>4, <1>9, <1>10
<1>13. Edits(id)
  BY <1>1, <1>4 DEF Edits
<1> HIDE DEF cmd
<1>14. Serves(id, id)
  BY <1>2, <1>4, <1>10, <1>11, <1>12, <1>13, FlushServes
<1> QED BY <1>14 DEF cmd

LEMMA ApplyVolumeServes ==
  ASSUME Typed, Routed, NEW b \in Nat, BooksAt(b), ApplyVolume
  PROVE  Serves(Head(commands).id, Head(commands).id)
<1> DEFINE cmd == Head(commands)
           c == [content EXCEPT !.volume = cmd.change]
           answer == [id |-> cmd.id, session |-> cmd.session]
<1>1. cmd.id \in Nat /\ b < cmd.id /\ (up /\ cmd.session = session => authSession = session)
      /\ cmd.change \in Volumes /\ cmd.session \in Nat /\ cmd.session = authSession
  <2>1. NextCommand /\ cmd.change # Edit /\ cmd.session = authSession
    BY DEF ApplyVolume, Acceptable
  <2> QED BY <2>1, NextInOrder DEF Commands, Change
<1>2. content \in Content /\ revision \in Nat /\ deferred \in Seq(Waiting)
  BY DEF Typed, PublicationTyped, MixerTyped
<1>3. revision + 1 \in Nat /\ 0 < revision + 1 /\ c \in Content /\ 0 \in Nat
  BY <1>1, <1>2, ChangedContentTyped
<1> PICK id : id = cmd.id
  OBVIOUS
<1> PICK x : x = c
  OBVIOUS
<1>4. Edits(id)
  <2>1. content'.edit = content.edit /\ observed'.edit \in {observed.edit, content.edit}
    BY <1>2 DEF ApplyVolume, Content
  <2> QED BY <2>1 DEF Edits
<1>5. ASSUME deferred' = <<>>, carried' = FlushCarries(TRUE, deferred, Applied(id, revision + 1)),
             ToMirror(authSession, FlushMessages(TRUE, x, deferred) \o <<AckOf(id, revision + 1)>>)
      PROVE  Serves(id, id)
  <2>1. id \in 1..Len(carried') /\ carried'[id] = revision + 1
    BY <1>1, <1>3, <1>5, AppliedEffective
  <2> PICK t : t = <<AckOf(id, revision + 1)>>
    OBVIOUS
  <2>2. t \in Seq(MirrorMessage) /\ Tells(t, id) /\ AcksTrue(t, carried')
        /\ NacksTrue(t, id, carried', deferred') /\ Undone(t, content', observed')
    <3>1. 0 < carried'[id] /\ carried'[id] <= revision + 1
      BY <1>3, <2>1
    <3> QED BY <1>1, <1>3, <2>1, <3>1, OneAck
  <2> PICK done : done = Applied(id, revision + 1)
    OBVIOUS
  <2>3. Grows(done, id)
    BY <1>1, <1>3, GrowsApplied
  <2>4. /\ id # 0 => Tells(t, id) /\ (up /\ Head(commands).session = session => authSession = session)
        /\ carried' = FlushCarries(TRUE, deferred, done)
        /\ deferred' = IF TRUE THEN <<>> ELSE deferred
        /\ ToMirror(authSession, FlushMessages(TRUE, x, deferred) \o t)
    BY <1>1, <1>5, <2>2
  <2>5. x \in Content
    BY <1>3
  <2> QED BY <1>4, <2>2, <2>3, <2>4, <2>5, FlushServes
<1>6. ASSUME deferred' = Append(deferred, answer), carried' = Applied(id, 0),
             UNCHANGED <<toMirror, lost>>
      PROVE  Serves(id, id)
  <2>1. answer \in Waiting /\ answer.id = id /\ answer.session = cmd.session
    BY <1>1 DEF Waiting
  <2> HIDE DEF answer
  <2>2. /\ Len(deferred') = Len(deferred) + 1 /\ Len(deferred) \in Nat
        /\ \A i \in 1..Len(deferred) : deferred'[i] = deferred[i] /\ i \in 1..Len(deferred) + 1
        /\ deferred'[Len(deferred) + 1] = answer /\ Len(deferred) + 1 \in 1..Len(deferred) + 1
        /\ \A i \in 1..Len(deferred) + 1 : i \in 1..Len(deferred) \/ i = Len(deferred) + 1
    BY <1>2, <1>6, <2>1, AppendOf
  <2>3. Grows(carried', id) /\ Len(carried') = id /\ carried'[id] = 0
    BY <1>1, <1>3, <1>6, GrowsApplied
  <2>4. id \in 1..id
    BY <1>1
  <2>5. Len(carried) \in Nat /\ Len(carried) <= b
    BY LenProperties DEF BooksAt
  <2>6. \A i \in 1..Len(deferred) :
          /\ deferred[i].id \in 1..Len(carried') /\ carried'[deferred[i].id] = 0
          /\ Waits(deferred, deferred[i].id)
    <3> SUFFICES ASSUME NEW i \in 1..Len(deferred)
                 PROVE  deferred[i].id \in 1..Len(carried') /\ carried'[deferred[i].id] = 0
      BY DEF Waits
    <3>1. deferred[i].id \in 1..Len(carried) /\ carried[deferred[i].id] = 0
      BY DEF BooksAt
    <3> QED BY <1>1, <2>3, <2>5, <3>1 DEF Grows
  <2>7. \A i \in 1..Len(deferred') :
          /\ deferred'[i].id \in 1..Len(carried') /\ carried'[deferred'[i].id] = 0
          /\ Waits(deferred, deferred'[i].id) \/ deferred'[i].id = id
    BY <2>1, <2>2, <2>3, <2>4, <2>6
  <2>8. Entered(<<>>, id, id)
    BY <2>3, <2>7, NothingTold DEF Grows, Entered
  <2>9. Covers(authSession, <<>>, id)
    <3> SUFFICES ASSUME up, NEW k, WaitsNow(deferred, k) \/ (id # 0 /\ k = id /\ Head(commands).session = session)
                 PROVE  WaitsNow(deferred', k)
      BY DEF Covers
    <3>1. CASE WaitsNow(deferred, k)
      BY <2>2, <3>1 DEF WaitsNow
    <3>2. CASE k = id /\ cmd.session = session
      BY <2>1, <2>2, <3>2 DEF WaitsNow
    <3> QED BY <3>1, <3>2
  <2>10. Sends(authSession, <<>>) /\ <<>> \in Seq(MirrorMessage)
    BY <1>6, EmptySeq, NothingSends DEF Typed, PublicationTyped, LostAsBefore
  <2> QED BY <1>4, <2>8, <2>9, <2>10, NothingTold DEF Serves
<1>7. \/ /\ deferred' = <<>> /\ carried' = FlushCarries(TRUE, deferred, Applied(id, revision + 1))
         /\ ToMirror(authSession, FlushMessages(TRUE, x, deferred) \o <<AckOf(id, revision + 1)>>)
      \/ deferred' = Append(deferred, answer) /\ carried' = Applied(id, 0)
         /\ UNCHANGED <<toMirror, lost>>
  BY DEF ApplyVolume
<1> HIDE DEF cmd, answer, c
<1>8. Serves(id, id)
  BY <1>5, <1>6, <1>7
<1> QED BY <1>8 DEF cmd

-----------------------------------------------------------------------------
(* A step of the receiver, with its session left alone.                    *)
Handled(b, id) ==
  \/ id = 0 /\ commands' = commands
     /\ \/ toAuthority' = toAuthority
        \/ /\ toAuthority # <<>> /\ Head(toAuthority).type # "command"
           /\ toAuthority' = Tail(toAuthority)
  \/ /\ id = b /\ commands # <<>> /\ id = Head(commands).id
     /\ commands' = Tail(commands) /\ toAuthority' = toAuthority

LEMMA ServesKeeps ==
  ASSUME Typed, NEW b \in Nat, BooksAt(b), NEW c \in Nat, NEW id \in Nat,
         (id = 0 /\ c = b) \/ (id = c /\ b < id), Serves(c, id), Handled(c, id), UNCHANGED sentCommands
  PROVE  /\ Books'
         /\ \A k, r : Effective(k, r) => Effective(k, r)'
<1>1. PICK s, v : /\ v \in Seq(MirrorMessage) /\ Sends(s, v) /\ Entered(v, c, id)
                  /\ Edits(id) /\ Undone(v, content', observed')
  BY DEF Serves
<1>2. /\ carried' \in Seq(Nat) /\ Len(carried') <= c
      /\ content'.edit <= c /\ observed'.edit <= c /\ Undone(toMirror', content', observed')
      /\ AcksTrue(toMirror', carried')
      /\ NacksTrue(toMirror', c, carried', deferred')
      /\ \A i \in 1..Len(deferred') :
              deferred'[i].id \in 1..Len(carried') /\ carried'[deferred'[i].id] = 0
  <2>1. b <= c /\ (id = 0 \/ (b < id /\ id <= c))
    OBVIOUS
  <2> QED BY <1>1, <2>1, EnteredKeeps
<1>3. \A k, r : Effective(k, r) => Effective(k, r)'
  BY <1>1, StillEffective
<1>4. /\ commands \in Seq(Commands) /\ toAuthority \in Seq(AuthorityMessage)
      /\ Orders(commands, b, sentCommands) /\ Orders(toAuthority, b, sentCommands)
      /\ Before(commands, toAuthority) /\ b <= sentCommands
  BY DEF Typed, MixerTyped, BooksAt
<1>5. CASE id = 0 /\ commands' = commands
           /\ \/ toAuthority' = toAuthority
              \/ toAuthority # <<>> /\ toAuthority' = Tail(toAuthority)
  <2>1. c = b
    BY <1>5
  <2>2. Orders(toAuthority', b, sentCommands) /\ Before(commands, toAuthority')
    BY <1>4, <1>5, OrdersTail
  <2>3. BooksAt(b)'
    BY <1>2, <1>4, <1>5, <2>1, <2>2 DEF BooksAt
  <2> QED BY <1>3, <2>3 DEF Books
<1>6. CASE id = c /\ commands # <<>> /\ id = Head(commands).id
           /\ commands' = Tail(commands) /\ toAuthority' = toAuthority
  <2>1. /\ Head(commands) \in Commands /\ Head(commands) = commands[1] /\ 1 \in 1..Len(commands)
    BY <1>4, <1>6, TailOf
  <2>2. Head(commands).type = "command"
    BY <2>1 DEF Commands
  <2>3. Orders(Tail(commands), id, sentCommands) /\ id <= sentCommands /\ Before(Tail(commands), toAuthority)
    BY <1>4, <1>6, <2>2, OrdersTail
  <2>4. Orders(toAuthority, id, sentCommands)
    BY <1>4, <1>6, <2>1, <2>2 DEF Orders, Before
  <2>5. BooksAt(id)'
    BY <1>2, <1>6, <2>3, <2>4 DEF BooksAt
  <2> QED BY <1>3, <2>5 DEF Books
<1> QED BY <1>5, <1>6 DEF Handled

LEMMA ServesFollows ==
  ASSUME Typed, Routed, Followed, NEW c, NEW id, Serves(c, id), Handled(c, id),
         NEW b \in Nat, BooksAt(b), id # 0 => b < id,
         UNCHANGED <<session, up, facadeVars>>
  PROVE  Followed'
<1>1. /\ UNCHANGED <<session, up, mirrorSession, inflight>> /\ Joined' = Joined
      /\ \A w, k : Asks(w, k)' <=> Asks(w, k)
      /\ \A w, k : WaitsNow(w, k)' <=> WaitsNow(w, k)
  BY DEF facadeVars, Joined, Present, Asks, WaitsNow
<1>2. PICK s, v : v \in Seq(MirrorMessage) /\ Sends(s, v) /\ Covers(s, v, id)
  BY DEF Serves
<1>3. toMirror \in Seq(MirrorMessage) /\ commands \in Seq(Commands) /\ toAuthority \in Seq(AuthorityMessage)
  BY DEF Typed, PublicationTyped, MixerTyped
<1>4. mirrorSession' = 0 => inflight' = NoIntent
  BY <1>1 DEF Followed
<1>5. ASSUME Joined, inflight # NoIntent, ~(inflight.acked >= 0)
      PROVE  \/ inflight.id \in lost'.commands
             \/ Asks(toAuthority', inflight.id)
             \/ Asks(commands', inflight.id)
             \/ WaitsNow(deferred', inflight.id)
             \/ Tells(toMirror', inflight.id)
  <2> PICK k : k = inflight.id
    OBVIOUS
  <2>1. up
    BY <1>5 DEF Joined, Present
  <2>2. ASSUME Tells(v, k), s = session PROVE Tells(toMirror', k) \/ k \in lost'.commands
    <3>1. PICK w : Part(w, v) /\ LossKnown(w, v) /\ toMirror' = toMirror \o w
      BY <1>2, <2>1, <2>2 DEF Sends, Live
    <3>2. Tells(w, k) \/ k \in lost'.commands
      BY <2>2, <3>1 DEF LossKnown
    <3> QED BY <1>3, <3>1, <3>2, AnswersJoin DEF Part
  <2>3. CASE Asks(toAuthority, k)
    BY <1>3, <2>3, AsksTail DEF Handled
  <2>4. CASE Asks(commands, k)
    <3>1. CASE commands' = commands
      BY <2>4, <3>1
    <3>2. CASE id # 0 /\ commands # <<>> /\ id = Head(commands).id /\ commands' = Tail(commands)
      <4>1. Asks(Tail(commands), k) \/ (Head(commands).id = k /\ Head(commands).session = session)
        BY <1>3, <2>4, <3>2, AsksTail
      <4>2. CASE Head(commands).id = k /\ Head(commands).session = session
        BY <1>2, <2>1, <2>2, <3>2, <4>2 DEF Covers
      <4> QED BY <3>2, <4>1, <4>2
    <3>3. commands' # commands => id # 0
      <4>1. ASSUME id = 0, commands # <<>>, id = Head(commands).id PROVE FALSE
        <5>0. Head(commands) \in Commands
          BY <1>3, <4>1, TailOf
        <5>1. Head(commands).type = "command"
          BY <5>0 DEF Commands
        <5>2. b < Head(commands).id
          BY <1>3, <4>1, <5>1, OrdersTail DEF BooksAt
        <5> QED BY <4>1, <5>2
      <4> QED BY <4>1 DEF Handled
    <3> QED BY <3>1, <3>2, <3>3 DEF Handled
  <2>5. CASE WaitsNow(deferred, k)
    BY <1>2, <2>1, <2>2, <2>5 DEF Covers
  <2>6. CASE Tells(toMirror, k)
    <3>1. CASE Live(s)
      <4>1. PICK w : Part(w, v) /\ toMirror' = toMirror \o w
        BY <1>2, <3>1 DEF Sends
      <4> QED BY <1>3, <2>6, <4>1, AnswersJoin DEF Part
    <3>2. CASE ~Live(s)
      BY <1>2, <2>6, <3>2 DEF Sends
    <3> QED BY <3>1, <3>2
  <2>7. CASE k \in lost.commands
    BY <1>2, <2>7 DEF Sends, LossKnown, LostAsBefore
  <2>8. \/ k \in lost.commands \/ Asks(toAuthority, k) \/ Asks(commands, k) \/ WaitsNow(deferred, k) \/ Tells(toMirror, k)
    BY <1>5 DEF Followed
  <2> QED BY <2>3, <2>4, <2>5, <2>6, <2>7, <2>8
<1> QED BY <1>1, <1>4, <1>5 DEF Followed

LEMMA RoutedKeeps ==
  ASSUME Typed, Routed, UNCHANGED <<session, up, authSession>>,
         toAuthority' = toAuthority \/ (toAuthority # <<>> /\ toAuthority' = Tail(toAuthority)),
         commands' = commands \/ (commands # <<>> /\ commands' = Tail(commands)),
         \/ deferred' = deferred
         \/ deferred' = <<>>
         \/ \E answer \in Waiting : /\ answer.session = authSession /\ authSession # 0
                                    /\ answer.session <= session
                                    /\ deferred' = Append(deferred, answer)
  PROVE  Routed'
<1>1. /\ toAuthority \in Seq(AuthorityMessage) /\ commands \in Seq(Commands) /\ deferred \in Seq(Waiting)
  BY DEF Typed, PublicationTyped, MixerTyped
<1>2. \A i \in 1..Len(toAuthority') : toAuthority'[i].type = "command" => toAuthority'[i].session = session
  <2>1. CASE toAuthority' = toAuthority
    BY <2>1 DEF Routed
  <2>2. CASE toAuthority # <<>> /\ toAuthority' = Tail(toAuthority)
    <3>1. \A i \in 1..Len(toAuthority') : toAuthority'[i] = toAuthority[i + 1] /\ i + 1 \in 1..Len(toAuthority)
      BY <1>1, <2>2, TailOf
    <3> QED BY <3>1 DEF Routed
  <2> QED BY <2>1, <2>2
<1>3. \A i \in 1..Len(commands') :
        commands'[i].session <= session /\ (up /\ commands'[i].session = session => authSession = session)
  <2>1. CASE commands' = commands
    BY <2>1 DEF Routed
  <2>2. CASE commands # <<>> /\ commands' = Tail(commands)
    <3>1. \A i \in 1..Len(commands') : commands'[i] = commands[i + 1] /\ i + 1 \in 1..Len(commands)
      BY <1>1, <2>2, TailOf
    <3> QED BY <3>1 DEF Routed
  <2> QED BY <2>1, <2>2
<1>4. \A i \in 1..Len(deferred') :
       /\ deferred'[i].session <= session
       /\ up /\ deferred'[i].session = session => authSession = session
       /\ authSession # 0 => deferred'[i].session <= authSession
       /\ \A j \in i..Len(deferred') : deferred'[i].session <= deferred'[j].session
  <2>1. CASE deferred' = deferred
    BY <2>1 DEF Routed
  <2>2. CASE deferred' = <<>>
    BY <2>2, EmptySeq
  <2>3. ASSUME NEW answer \in Waiting, answer.session = authSession, authSession # 0,
               answer.session <= session, deferred' = Append(deferred, answer)
        PROVE  \A i \in 1..Len(deferred') :
                 /\ deferred'[i].session <= session
                 /\ up /\ deferred'[i].session = session => authSession = session
                 /\ authSession # 0 => deferred'[i].session <= authSession
                 /\ \A j \in i..Len(deferred') : deferred'[i].session <= deferred'[j].session
    <3>1. /\ Len(deferred') = Len(deferred) + 1 /\ Len(deferred) \in Nat
          /\ \A i \in 1..Len(deferred) : deferred'[i] = deferred[i] /\ i \in 1..Len(deferred) + 1
          /\ deferred'[Len(deferred) + 1] = answer
          /\ \A i \in 1..Len(deferred) + 1 : i \in 1..Len(deferred) \/ i = Len(deferred) + 1
      BY <1>1, <2>3, AppendOf
    <3>2. authSession \in Nat /\ answer.session \in Nat
      BY <2>3 DEF Waiting
    <3> TAKE i \in 1..Len(deferred')
    <3>3. CASE i \in 1..Len(deferred)
      <4>1. /\ deferred'[i].session <= session
            /\ up /\ deferred'[i].session = session => authSession = session
            /\ deferred'[i].session <= authSession
        BY <2>3, <3>1, <3>3 DEF Routed
      <4>2. ASSUME NEW j \in i..Len(deferred') PROVE deferred'[i].session <= deferred'[j].session
        <5>1. CASE j = Len(deferred) + 1
          BY <2>3, <3>1, <4>1, <5>1
        <5>2. CASE j # Len(deferred) + 1
          <6>1. j \in i..Len(deferred) /\ j \in 1..Len(deferred)
            BY <3>1, <5>2
          <6> QED BY <3>1, <3>3, <6>1 DEF Routed
        <5> QED BY <5>1, <5>2
      <4> QED BY <4>1, <4>2
    <3>4. CASE i = Len(deferred) + 1
      <4>1. \A j \in i..Len(deferred') : j = i
        BY <3>1, <3>4
      <4>2. deferred'[i] = answer /\ answer.session <= answer.session
        BY <3>1, <3>2, <3>4
      <4> QED BY <2>3, <4>1, <4>2
    <3> QED BY <3>1, <3>3, <3>4
  <2> QED BY <2>1, <2>2, <2>3
<1> QED BY <1>2, <1>3, <1>4 DEF Routed

\* What the handlers do to the commands, and to those that wait for the flush.
LEMMA ReceiverRoutes ==
  ASSUME Typed, Routed, NEW b \in Nat, BooksAt(b),
         \/ LocalStep \/ CaptureLocalMutation \/ CaptureRuntimeVolume \/ FlushVolumePublication
         \/ HandleSnapshotRequest \/ RefuseCommand \/ FailEdit \/ ApplyEdit \/ ApplyVolume
  PROVE  /\ Routed'
         /\ UNCHANGED <<session, up, authSession>>
         /\ \/ Handled(b, 0) /\ Serves(b, 0)
            \/ \E id \in Nat : b < id /\ Handled(id, id) /\ Serves(id, id)
<1>1. CASE LocalStep \/ CaptureLocalMutation \/ CaptureRuntimeVolume \/ FlushVolumePublication
             \/ HandleSnapshotRequest
  <2>1. UNCHANGED <<session, up, authSession, commands>>
    BY <1>1 DEF LocalStep, LocalEdit, LocalVolume, TogglePermission, CaptureLocalMutation,
                CaptureRuntimeVolume, FlushVolumePublication, HandleSnapshotRequest, Arrived, linkVars
  <2>2. \/ toAuthority' = toAuthority
        \/ toAuthority # <<>> /\ Head(toAuthority).type # "command" /\ toAuthority' = Tail(toAuthority)
    BY <1>1 DEF LocalStep, LocalEdit, LocalVolume, TogglePermission, CaptureLocalMutation,
                CaptureRuntimeVolume, FlushVolumePublication, HandleSnapshotRequest, Arrived, linkVars
  <2>3. deferred' = deferred \/ deferred' = <<>>
    BY <1>1 DEF LocalStep, LocalEdit, LocalVolume, TogglePermission, CaptureLocalMutation,
                CaptureRuntimeVolume, FlushVolumePublication, HandleSnapshotRequest, Flush,
                PublishSnapshot, NothingPublished
  <2>4. Routed'
    BY <2>1, <2>2, <2>3, RoutedKeeps
  <2>5. Handled(b, 0)
    BY <2>1, <2>2 DEF Handled
  <2>6. Serves(b, 0)
    BY <1>1, TimerServes
  <2> QED BY <2>1, <2>4, <2>5, <2>6
<1>2. CASE RefuseCommand \/ FailEdit \/ ApplyEdit \/ ApplyVolume
  <2>1. NextCommand
    BY <1>2 DEF RefuseCommand, FailEdit, ApplyEdit, ApplyVolume
  <2>2. /\ UNCHANGED <<session, up, authSession, toAuthority>>
        /\ commands # <<>> /\ commands' = Tail(commands)
    BY <2>1 DEF NextCommand
  <2> PICK id : id = Head(commands).id
    OBVIOUS
  <2>3. id \in Nat /\ b < id /\ Head(commands) \in Commands
    BY <2>1, NextInOrder
  <2>4. Handled(id, id)
    BY <2>2 DEF Handled
  <2>5. Serves(id, id)
    BY <1>2, RefuseServes, FailServes, ApplyEditServes, ApplyVolumeServes
  <2>6. \/ deferred' = deferred
        \/ deferred' = <<>>
        \/ \E answer \in Waiting : /\ answer.session = authSession /\ authSession # 0
                                   /\ answer.session <= session
                                   /\ deferred' = Append(deferred, answer)
    <3>1. CASE RefuseCommand \/ FailEdit \/ ApplyEdit
      BY <3>1 DEF RefuseCommand, FailEdit, ApplyEdit
    <3>2. CASE ApplyVolume
      <4> DEFINE answer == [id |-> Head(commands).id, session |-> Head(commands).session]
      <4>1. answer \in Waiting /\ answer.session = Head(commands).session
        BY <2>3 DEF Commands, Waiting
      <4>2. Head(commands).session <= session
        <5>1. Head(commands) = commands[1] /\ 1 \in 1..Len(commands)
          BY <2>2, TailOf DEF Typed, MixerTyped
        <5> QED BY <5>1 DEF Routed
      <4>3. Head(commands).session = authSession /\ authSession # 0
        BY <3>2 DEF ApplyVolume, Acceptable
      <4>4. deferred' = <<>> \/ deferred' = Append(deferred, answer)
        BY <3>2 DEF ApplyVolume
      <4> HIDE DEF answer
      <4> QED BY <4>1, <4>2, <4>3, <4>4
    <3> QED BY <1>2, <3>1, <3>2
  <2>7. Routed'
    BY <2>2, <2>6, RoutedKeeps
  <2> QED BY <2>2, <2>3, <2>4, <2>5, <2>7
<1> QED BY <1>1, <1>2

LEMMA HandlerKeeps ==
  ASSUME Typed, AnswerInv, UNCHANGED facadeVars,
         \/ LocalStep \/ CaptureLocalMutation \/ CaptureRuntimeVolume \/ FlushVolumePublication
         \/ HandleSnapshotRequest \/ RefuseCommand \/ FailEdit \/ ApplyEdit \/ ApplyVolume
  PROVE  AnswerInv'
<1>1. Routed /\ Followed /\ Credited
  BY DEF AnswerInv
<1>2. PICK b \in Nat : BooksAt(b)
  BY DEF AnswerInv, Books
<1>3. /\ Routed'
      /\ UNCHANGED <<session, up, authSession>>
      /\ \/ Handled(b, 0) /\ Serves(b, 0)
         \/ \E id \in Nat : b < id /\ Handled(id, id) /\ Serves(id, id)
  BY <1>1, <1>2, ReceiverRoutes
<1>4. PICK id \in Nat, c \in Nat : /\ (id = 0 /\ c = b) \/ (id = c /\ b < id)
                                   /\ Handled(c, id) /\ Serves(c, id)
  BY <1>3
<1>5. Books' /\ \A k, r : Effective(k, r) => Effective(k, r)'
  BY <1>2, <1>4, ServesKeeps DEF facadeVars
<1>6. id # 0 => b < id
  BY <1>4
<1>7. Followed'
  BY <1>1, <1>2, <1>3, <1>4, <1>6, ServesFollows
<1>8. Credited'
  BY <1>1, <1>3, <1>5 DEF Credited, Joined, Present, facadeVars
<1> QED BY <1>3, <1>5, <1>7, <1>8 DEF AnswerInv

LEMMA QueueKeeps ==
  ASSUME Typed, AnswerInv, QueueCommand, UNCHANGED facadeVars
  PROVE  AnswerInv'
<1> DEFINE m == Head(toAuthority)
<1>1. /\ toAuthority \in Seq(AuthorityMessage) /\ toAuthority # <<>> /\ commands \in Seq(Commands)
      /\ commands' = Append(commands, m) /\ toAuthority' = Tail(toAuthority) /\ authSession = Present
  BY DEF Typed, MixerTyped, QueueCommand, Arrived
<1>2. /\ UNCHANGED <<session, up, toMirror, lost, carried, deferred, content, observed>>
      /\ UNCHANGED authSession
      /\ UNCHANGED <<mirrorSession, inflight, sentCommands>> /\ Joined' = Joined
  BY DEF QueueCommand, Arrived, facadeVars, Joined, Present
<1>3. m \in Commands /\ m.type = "command" /\ m = toAuthority[1] /\ 1 \in 1..Len(toAuthority)
  <2>1. m \in AuthorityMessage /\ m = toAuthority[1] /\ 1 \in 1..Len(toAuthority)
    BY <1>1, TailOf
  <2>2. m.type = "command"
    BY DEF QueueCommand, Arrived
  <2> QED BY <2>1, <2>2 DEF AuthorityMessage, Requests
<1> HIDE DEF m
<1>4. Books'
  <2>1. PICK b \in Nat : BooksAt(b)
    BY DEF AnswerInv, Books
  <2>2. /\ Orders(commands, b, sentCommands) /\ Orders(toAuthority, b, sentCommands)
        /\ Before(commands, toAuthority)
    BY <2>1 DEF BooksAt
  <2>3. /\ Orders(toAuthority', b, sentCommands) /\ Before(commands, toAuthority')
        /\ b < m.id /\ m.id <= sentCommands /\ Orders(toAuthority', m.id, sentCommands)
    BY <1>1, <1>3, <2>2, OrdersTail DEF m
  <2>4. \A i \in 1..Len(commands) : commands[i].type = "command" => commands[i].id < m.id
    BY <1>3, <2>2 DEF Before
  <2>5. Orders(commands', b, sentCommands)
    BY <1>1, <1>3, <2>2, <2>3, <2>4, OrdersAppend
  <2>6. Before(commands', toAuthority')
    <3>1. /\ \A i \in 1..Len(commands) : commands'[i] = commands[i]
          /\ commands'[Len(commands) + 1] = m /\ Len(commands') = Len(commands) + 1
          /\ \A i \in 1..Len(commands) + 1 : i \in 1..Len(commands) \/ i = Len(commands) + 1
      BY <1>1, <1>3, AppendOf
    <3>2. \A i \in 1..Len(commands') : commands'[i] = m \/ (i \in 1..Len(commands) /\ commands'[i] = commands[i])
      BY <3>1
    <3> QED BY <2>3, <3>2 DEF Before, Orders
  <2>7. BooksAt(b)'
    BY <1>2, <2>1, <2>3, <2>5, <2>6 DEF BooksAt
  <2> QED BY <2>7 DEF Books
<1>5. Credited'
  BY <1>2 DEF AnswerInv, Credited, Effective
<1>6. m.session = session
  BY <1>3 DEF AnswerInv, Routed
<1>7. Routed'
  <2>1. \A i \in 1..Len(toAuthority') : toAuthority'[i] = toAuthority[i + 1] /\ i + 1 \in 1..Len(toAuthority)
    BY <1>1, TailOf
  <2>2. /\ \A i \in 1..Len(commands) : commands'[i] = commands[i]
        /\ commands'[Len(commands) + 1] = m /\ Len(commands') = Len(commands) + 1
        /\ \A i \in 1..Len(commands) + 1 : i \in 1..Len(commands) \/ i = Len(commands) + 1
    BY <1>1, <1>3, AppendOf
  <2>3. \A i \in 1..Len(commands') : commands'[i] = m \/ (i \in 1..Len(commands) /\ commands'[i] = commands[i])
    BY <2>2
  <2>4. session \in Nat /\ (up => authSession = session)
    BY <1>1 DEF Typed, SessionTyped, Present
  <2>5. \A i \in 1..Len(toAuthority') :
          toAuthority'[i].type = "command" => toAuthority'[i].session = session
    BY <2>1 DEF AnswerInv, Routed
  <2>6. \A i \in 1..Len(commands') :
          commands'[i].session <= session /\ (up /\ commands'[i].session = session => authSession = session)
    BY <1>6, <2>3, <2>4 DEF AnswerInv, Routed
  <2> QED BY <1>2, <2>5, <2>6 DEF AnswerInv, Routed
<1>8. Followed'
  <2>1. /\ \A w, k : Asks(w, k)' <=> Asks(w, k)
        /\ \A w, k : WaitsNow(w, k)' <=> WaitsNow(w, k)
    BY <1>2 DEF Asks, WaitsNow
  <2>2. \A k : Asks(toAuthority, k) => Asks(toAuthority', k) \/ m.id = k
    BY <1>1, AsksTail DEF m
  <2>3. \A k : Asks(commands, k) => Asks(commands', k)
    BY <1>1, <1>3, AsksAppend
  <2>4. Asks(commands', m.id)
    BY <1>1, <1>3, <1>6, AsksAppend
  <2>5. \A k : Asks(toAuthority, k) => Asks(toAuthority', k) \/ Asks(commands', k)
    BY <2>2, <2>4
  <2> QED BY <1>2, <2>1, <2>3, <2>5 DEF AnswerInv, Followed
<1> QED BY <1>4, <1>5, <1>7, <1>8 DEF AnswerInv

LEMMA ToldAnswers ==
  ASSUME Typed, AnswerInv, AuthorityTold, UNCHANGED facadeVars
  PROVE  AnswerInv'
<1>1. /\ UNCHANGED <<session, up, toMirror, toAuthority, lost, commands, carried, deferred>>
      /\ UNCHANGED <<content, observed>>
      /\ UNCHANGED <<mirrorSession, inflight, sentCommands>> /\ Joined' = Joined
      /\ authSession' = Present
  BY DEF AuthorityTold, linkVars, facadeVars, Joined, Present
<1>2. Books'
  <2>1. \A b : BooksAt(b)' <=> BooksAt(b)
    BY <1>1 DEF BooksAt
  <2> QED BY <2>1 DEF AnswerInv, Books
<1>3. Credited'
  BY <1>1 DEF AnswerInv, Credited, Effective
<1>4. Routed'
  BY <1>1 DEF AnswerInv, Routed, Present
<1>5. Followed'
  BY <1>1 DEF AnswerInv, Followed, Asks, WaitsNow
<1> QED BY <1>2, <1>3, <1>4, <1>5 DEF AnswerInv

\* A connection, or the receiver, that goes takes what was on the way with it.
LEMMA GoneAnswers ==
  ASSUME Typed, MirrorInv, AnswerInv, UNCHANGED facadeVars, LinkStep \/ RestartReceiver
  PROVE  AnswerInv'
<1>1. toMirror' = <<>> /\ toAuthority' = <<>> /\ UNCHANGED <<mirrorSession, inflight, sentCommands>>
  BY DEF LinkStep, Connect, Break, Ended, MirrorInv, Sessions, RestartReceiver, facadeVars
<1>2. session \in Nat /\ mirrorSession \in Nat /\ authSession \in Nat /\ mirrorSession <= session
  BY LinkAssumption DEF Typed, SessionTyped, MirrorTyped, MixerTyped, MirrorInv, Sessions
<1>3. ~Joined'
  <2>1. CASE Connect
    BY <1>1, <1>2, <2>1 DEF Connect, Joined, Present
  <2>2. CASE Break \/ RestartReceiver
    BY <2>2 DEF Break, Ended, RestartReceiver, Joined, Present
  <2> QED BY <2>1, <2>2 DEF LinkStep
<1>4. Credited' /\ Followed'
  BY <1>1, <1>3 DEF AnswerInv, Followed, Credited
<1>5. PICK b \in Nat : BooksAt(b)
  BY DEF AnswerInv, Books
<1>6. CASE LinkStep
  <2>1. UNCHANGED <<carried, commands, deferred, authSession, content, observed>>
    BY <1>6 DEF LinkStep, authVars
  <2>2. BooksAt(b)'
    BY <1>1, <1>5, <2>1, NothingTold DEF BooksAt
  <2>3. /\ session' \in Nat /\ session <= session'
        /\ up' => session' > session
    BY <1>2, <1>6 DEF LinkStep, Connect, Break, Ended
  <2>4. \A i \in 1..Len(commands) : commands[i].session \in Nat
    <3>1. \A i \in 1..Len(commands) : commands[i] \in Commands
      BY ElementOfSeq DEF Typed, MixerTyped
    <3> QED BY <3>1 DEF Commands
  <2>5. \A i \in 1..Len(deferred) : deferred[i].session \in Nat
    <3>1. \A i \in 1..Len(deferred) : deferred[i] \in Waiting
      BY ElementOfSeq DEF Typed, PublicationTyped
    <3> QED BY <3>1 DEF Waiting
  <2>6. \A i \in 1..Len(commands) : commands[i].session <= session' /\ (up' => commands[i].session # session')
    BY <1>2, <2>3, <2>4 DEF AnswerInv, Routed
  <2>7. \A i \in 1..Len(deferred) : deferred[i].session <= session' /\ (up' => deferred[i].session # session')
    BY <1>2, <2>3, <2>5 DEF AnswerInv, Routed
  <2>8. Routed'
    BY <1>1, <2>1, <2>6, <2>7, EmptySeq DEF AnswerInv, Routed
  <2> QED BY <1>4, <2>2, <2>8 DEF AnswerInv, Books
<1>7. CASE RestartReceiver
  <2>1. /\ commands' = <<>> /\ deferred' = <<>> /\ carried' = [id \in DOMAIN carried |-> 0]
        /\ content' = content /\ observed' = content
    BY <1>7 DEF RestartReceiver
  <2>2. carried' \in Seq(Nat) /\ Len(carried') = Len(carried)
    <3>1. carried \in Seq(Nat) /\ Len(carried) \in Nat /\ DOMAIN carried = 1..Len(carried)
      BY <1>5, LenProperties DEF BooksAt
    <3> QED BY <2>1, <3>1
  <2>3. BooksAt(b)'
    BY <1>1, <1>5, <2>1, <2>2, NothingTold, EmptySeq DEF BooksAt
  <2>4. Routed'
    BY <1>1, <2>1, EmptySeq DEF Routed
  <2> QED BY <1>4, <2>3, <2>4 DEF AnswerInv, Books
<1> QED BY <1>6, <1>7

LEMMA ReceiverAnswers ==
  ASSUME Typed, MirrorInv, AnswerInv, ReceiverStep
  PROVE  AnswerInv'
<1>1. UNCHANGED facadeVars
  BY DEF ReceiverStep
<1> QED BY <1>1, HandlerKeeps, QueueKeeps, ToldAnswers, GoneAnswers DEF ReceiverStep, AuthorityStep

-----------------------------------------------------------------------------
(* The steps of the sender.                                                *)
LossesStay == lost.commands \subseteq lost'.commands

\* Nothing is sent, or what is sent is lost and is no command.
SendsNothing == UNCHANGED <<toAuthority, sentCommands>> /\ LossesStay

SendsRequest ==
  /\ UNCHANGED sentCommands /\ LossesStay
  /\ \E m \in Requests : toAuthority' = Append(toAuthority, m)

\* The next command goes out, if the session of the mirror is still up, unless it
\* is lost and is known to be.
SendsCommand ==
  /\ sentCommands' = sentCommands + 1
  /\ inflight' = [id |-> sentCommands + 1, acked |-> -1]
  /\ \/ /\ Live(mirrorSession)
        /\ \E m \in Commands : /\ m.id = sentCommands + 1 /\ m.session = session
                               /\ toAuthority' = Append(toAuthority, m)
     \/ /\ toAuthority' = toAuthority
        /\ Live(mirrorSession) => sentCommands + 1 \in lost'.commands

\* The message that is taken off the stream answers what the sender waits for.
Answering == Head(toMirror).type \in {"ack", "nack"} /\ Head(toMirror).id = inflight.id

Acknowledged ==
  /\ SendsNothing
  /\ inflight # NoIntent
  /\ Head(toMirror).type = "ack" /\ Head(toMirror).id = inflight.id
  /\ inflight' = [inflight EXCEPT !.acked = Head(toMirror).revision]

\* What a step of the sender does about its commands when it handles a message
\* (taken), or something else.
Handles(taken) ==
  /\ UNCHANGED <<authVars, session, up, mirrorSession>> /\ mirrorSession # 0
  /\ IF taken THEN Joined /\ toMirror # <<>> /\ toMirror' = Tail(toMirror)
              ELSE toMirror' = toMirror
  /\ \/ SendsCommand
     \/ (SendsNothing \/ SendsRequest) /\ inflight' = NoIntent
     \/ /\ SendsNothing \/ SendsRequest
        /\ inflight' = inflight /\ (taken /\ inflight # NoIntent => ~Answering)
     \/ taken /\ Acknowledged

LEMMA SendingKeeps ==
  ASSUME Typed, AnswerInv, UNCHANGED <<authVars, session, up>>,
         toMirror' = toMirror \/ (toMirror # <<>> /\ toMirror' = Tail(toMirror)),
         SendsNothing \/ SendsRequest \/ SendsCommand
  PROVE  Books' /\ Routed'
<1>1. PICK b \in Nat : BooksAt(b)
  BY DEF AnswerInv, Books
<1>2. /\ toMirror \in Seq(MirrorMessage) /\ commands \in Seq(Commands)
      /\ toAuthority \in Seq(AuthorityMessage) /\ sentCommands \in Nat
  BY DEF Typed, PublicationTyped, MixerTyped, PendingTyped
<1>3. UNCHANGED <<carried, commands, deferred, content, observed, session, up, authSession>>
  BY DEF authVars
<1>4. /\ AcksTrue(toMirror', carried) /\ NacksTrue(toMirror', b, carried, deferred)
      /\ Undone(toMirror', content, observed)
  BY <1>1, <1>2, AnswersTail DEF BooksAt
<1>5. /\ Orders(commands, b, sentCommands) /\ Orders(toAuthority, b, sentCommands)
      /\ Before(commands, toAuthority) /\ b <= sentCommands
  BY <1>1 DEF BooksAt
<1>6. SendsNothing \/ SendsRequest \/ SendsCommand
  OBVIOUS
<1>7. CASE toAuthority' = toAuthority /\ sentCommands' = sentCommands
  <2>1. BooksAt(b)'
    BY <1>1, <1>3, <1>4, <1>5, <1>7 DEF BooksAt
  <2>2. Routed'
    BY <1>3, <1>7 DEF AnswerInv, Routed
  <2> QED BY <2>1, <2>2 DEF Books
<1>8. ASSUME sentCommands' \in Nat, sentCommands <= sentCommands',
             NEW m \in AuthorityMessage, toAuthority' = Append(toAuthority, m),
             m.type = "command" => sentCommands < m.id /\ m.id <= sentCommands' /\ m.session = session
      PROVE  Books' /\ Routed'
  <2>1. commands \in Seq(AuthorityMessage)
    BY <1>2, ElementOfSeq DEF AuthorityMessage
  <2>2. Orders(commands, b, sentCommands') /\ Orders(toAuthority, b, sentCommands')
    BY <1>2, <1>5, <1>8, <2>1, OrdersMore
  <2>3. m \in AuthorityMessage /\ m.id \in Nat /\ (m.type = "command" => b < m.id)
    <3>1. m.id \in Nat
      BY DEF AuthorityMessage, Commands, Requests
    <3> QED BY <1>2, <1>5, <1>8, <3>1
  <2>4. ASSUME m.type = "command", NEW w \in Seq(AuthorityMessage), Orders(w, b, sentCommands),
               NEW i \in 1..Len(w), w[i].type = "command"
        PROVE  w[i].id < m.id
    <3>1. w[i] \in AuthorityMessage
      BY ElementOfSeq
    <3>2. w[i].id \in Nat
      BY <3>1 DEF AuthorityMessage, Commands, Requests
    <3>3. w[i].id <= sentCommands
      BY <2>4 DEF Orders
    <3> QED BY <1>2, <1>8, <2>3, <2>4, <3>2, <3>3
  <2>5. Orders(toAuthority', b, sentCommands')
    <3>1. m.type = "command" => /\ b < m.id /\ m.id <= sentCommands'
                                /\ \A i \in 1..Len(toAuthority) :
                                     toAuthority[i].type = "command" => toAuthority[i].id < m.id
      BY <1>2, <1>5, <1>8, <2>3, <2>4
    <3> QED BY <1>2, <1>8, <2>2, <3>1, OrdersAppend
  <2>6. \A i \in 1..Len(toAuthority') :
          toAuthority'[i] = m \/ (i \in 1..Len(toAuthority) /\ toAuthority'[i] = toAuthority[i])
    <3>1. /\ Len(toAuthority') = Len(toAuthority) + 1
          /\ \A i \in 1..Len(toAuthority) : toAuthority'[i] = toAuthority[i]
          /\ toAuthority'[Len(toAuthority) + 1] = m
          /\ \A i \in 1..Len(toAuthority) + 1 : i \in 1..Len(toAuthority) \/ i = Len(toAuthority) + 1
      BY <1>2, <1>8, AppendOf
    <3> QED BY <3>1
  <2>7. Before(commands, toAuthority')
    BY <1>5, <2>1, <2>4, <2>6 DEF Before
  <2>8. b <= sentCommands'
    BY <1>2, <1>5, <1>8
  <2>9. BooksAt(b)'
    BY <1>1, <1>3, <1>4, <2>2, <2>5, <2>7, <2>8 DEF BooksAt
  <2>10. Routed'
    BY <1>3, <1>8, <2>6 DEF AnswerInv, Routed
  <2> QED BY <2>9, <2>10 DEF Books
<1>9. CASE SendsRequest
  <2>1. PICK m \in Requests : toAuthority' = Append(toAuthority, m)
    BY <1>9 DEF SendsRequest
  <2>2. m \in AuthorityMessage /\ m.type # "command" /\ sentCommands' \in Nat /\ sentCommands <= sentCommands'
    BY <1>2, <1>9 DEF AuthorityMessage, Requests, SendsRequest
  <2> QED BY <1>8, <2>1, <2>2
<1>10. CASE SendsCommand /\ toAuthority' # toAuthority
  <2>1. PICK m \in Commands : /\ m.id = sentCommands + 1 /\ m.session = session
                              /\ toAuthority' = Append(toAuthority, m)
    BY <1>10 DEF SendsCommand
  <2>2. /\ m \in AuthorityMessage /\ sentCommands' \in Nat /\ sentCommands <= sentCommands'
        /\ sentCommands < m.id /\ m.id <= sentCommands'
    BY <1>2, <1>10, <2>1 DEF AuthorityMessage, SendsCommand
  <2> QED BY <1>8, <2>1, <2>2
<1>11. CASE SendsCommand /\ toAuthority' = toAuthority
  <2>1. toAuthority' = toAuthority /\ sentCommands' \in Nat /\ sentCommands <= sentCommands'
    BY <1>2, <1>11 DEF SendsCommand
  <2>2. commands \in Seq(AuthorityMessage)
    BY <1>2, ElementOfSeq DEF AuthorityMessage
  <2>3. Orders(commands, b, sentCommands') /\ Orders(toAuthority, b, sentCommands')
    BY <1>2, <1>5, <2>1, <2>2, OrdersMore
  <2>4. b <= sentCommands'
    BY <1>2, <1>5, <2>1
  <2>5. BooksAt(b)'
    BY <1>1, <1>3, <1>4, <1>5, <2>1, <2>3, <2>4 DEF BooksAt
  <2>6. Routed'
    BY <1>3, <2>1 DEF AnswerInv, Routed
  <2> QED BY <2>5, <2>6 DEF Books
<1> QED BY <1>6, <1>7, <1>9, <1>10, <1>11 DEF SendsNothing

LEMMA HandlesAnswers ==
  ASSUME Typed, AnswerInv, NEW taken \in BOOLEAN, Handles(taken)
  PROVE  AnswerInv'
<1>1. Books' /\ Routed'
  <2>1. /\ UNCHANGED <<authVars, session, up>>
        /\ toMirror' = toMirror \/ (toMirror # <<>> /\ toMirror' = Tail(toMirror))
        /\ SendsNothing \/ SendsRequest \/ SendsCommand
    BY DEF Handles, Acknowledged
  <2> QED BY <2>1, SendingKeeps
<1>2. /\ UNCHANGED <<carried, commands, deferred, session, up, mirrorSession>> /\ Joined' = Joined
      /\ mirrorSession # 0
  BY DEF Handles, authVars, Joined, Present
<1>3. /\ toMirror \in Seq(MirrorMessage) /\ toAuthority \in Seq(AuthorityMessage)
      /\ inflight \in SentIntent(sentCommands) \cup {NoIntent}
  BY DEF Typed, PublicationTyped, PendingTyped
<1>4. Credited'
  <2> SUFFICES ASSUME Joined, inflight' # NoIntent, inflight'.acked >= 0
               PROVE  Effective(inflight'.id, inflight'.acked)
    BY <1>2 DEF Credited, Effective
  <2>1. CASE SendsCommand
    BY <2>1 DEF SendsCommand
  <2>2. CASE inflight' = inflight
    BY <2>2 DEF AnswerInv, Credited
  <2>3. CASE taken /\ Acknowledged
    <3>1. toMirror # <<>> /\ Head(toMirror) = toMirror[1] /\ 1 \in 1..Len(toMirror)
      BY <1>3, <2>3, TailOf DEF Handles
    <3>2. PICK b \in Nat : BooksAt(b)
      BY DEF AnswerInv, Books
    <3>3. Effective(Head(toMirror).id, Head(toMirror).revision)
      BY <2>3, <3>1, <3>2 DEF BooksAt, AcksTrue, Acknowledged, Effective
    <3>4. inflight'.id = Head(toMirror).id /\ inflight'.acked = Head(toMirror).revision
      BY <1>3, <2>3 DEF Acknowledged, SentIntent
    <3> QED BY <3>3, <3>4
  <2> QED BY <2>1, <2>2, <2>3 DEF Handles
<1>5. Followed'
  <2> SUFFICES ASSUME Joined, inflight' # NoIntent, ~(inflight'.acked >= 0)
               PROVE  \/ inflight'.id \in lost'.commands
                      \/ Asks(toAuthority', inflight'.id)
                      \/ Asks(commands, inflight'.id)
                      \/ WaitsNow(deferred, inflight'.id)
                      \/ Tells(toMirror', inflight'.id)
    BY <1>2 DEF Followed, Asks, WaitsNow
  <2>1. CASE SendsCommand
    <3>1. Live(mirrorSession)
      BY DEF Joined, Present, Live
    <3>2. CASE toAuthority' = toAuthority /\ sentCommands + 1 \in lost'.commands
      BY <2>1, <3>2 DEF SendsCommand
    <3>3. ASSUME NEW m \in Commands, m.id = sentCommands + 1, m.session = session,
                 toAuthority' = Append(toAuthority, m)
          PROVE  Asks(toAuthority', inflight'.id)
      <4>1. m \in AuthorityMessage /\ m.type = "command" /\ inflight'.id = m.id
        BY <2>1, <3>3 DEF AuthorityMessage, Commands, SendsCommand
      <4> QED BY <1>3, <3>3, <4>1, AsksAppend
    <3> QED BY <2>1, <3>1, <3>2, <3>3 DEF SendsCommand
  <2>2. CASE inflight' = inflight /\ (SendsNothing \/ SendsRequest) /\ (taken => ~Answering)
    <3>1. \/ inflight.id \in lost.commands
          \/ Asks(toAuthority, inflight.id) \/ Asks(commands, inflight.id)
          \/ WaitsNow(deferred, inflight.id) \/ Tells(toMirror, inflight.id)
      BY <2>2 DEF AnswerInv, Followed
    <3>2. Asks(toAuthority, inflight.id) => Asks(toAuthority', inflight.id)
      <4>1. CASE SendsNothing
        BY <4>1 DEF SendsNothing
      <4>2. CASE SendsRequest
        <5>1. PICK m \in Requests : toAuthority' = Append(toAuthority, m)
          BY <4>2 DEF SendsRequest
        <5>2. m \in AuthorityMessage
          BY DEF AuthorityMessage
        <5> QED BY <1>3, <5>1, <5>2, AsksAppend
      <4> QED BY <2>2, <4>1, <4>2
    <3>3. Tells(toMirror, inflight.id) => Tells(toMirror', inflight.id)
      BY <1>3, <2>2, AnswersTail DEF Handles, Answering
    <3>4. inflight.id \in lost.commands => inflight.id \in lost'.commands
      BY <2>2 DEF SendsNothing, SendsRequest, LossesStay
    <3> QED BY <2>2, <3>1, <3>2, <3>3, <3>4
  <2>3. CASE taken /\ Acknowledged
    <3>1. toMirror # <<>> /\ Head(toMirror) \in MirrorMessage
      BY <1>3, <2>3, TailOf DEF Handles
    <3>2. Head(toMirror).revision \in Nat
      BY <3>1, MessageFields
    <3>3. inflight'.acked = Head(toMirror).revision
      BY <1>3, <2>3 DEF Acknowledged, SentIntent
    <3> QED BY <3>2, <3>3
  <2> QED BY <2>1, <2>2, <2>3 DEF Handles
<1> QED BY <1>1, <1>4, <1>5 DEF AnswerInv

LEMMA ToAuthoritySends ==
  ASSUME Typed, NEW s, NEW m, ToAuthority(s, m)
  PROVE  /\ LossesStay
         /\ \/ Live(s) /\ toAuthority' = Append(toAuthority, m)
            \/ /\ toAuthority' = toAuthority
               /\ Live(s) /\ m.type = "command" => m.id \in lost'.commands
<1>1. LostTyped
  BY DEF Typed, PublicationTyped
<1>2. CASE /\ UNCHANGED lost
           /\ \/ Live(s) /\ toAuthority' = Append(toAuthority, m)
              \/ ~Live(s) /\ UNCHANGED toAuthority
  BY <1>2 DEF LossesStay
<1>3. CASE /\ Live(s) /\ toAuthority' = toAuthority
           /\ lost' = [lost EXCEPT !.messages = @ + 1,
                                   !.commands = IF m.type = "command"
                                                  THEN @ \cup {m.id} ELSE @]
  <2>1. lost'.commands = IF m.type = "command" THEN lost.commands \cup {m.id} ELSE lost.commands
    BY <1>1, <1>3 DEF LostTyped
  <2> QED BY <1>3, <2>1 DEF LossesStay
<1> QED BY <1>2, <1>3 DEF ToAuthority

LEMMA RequestSends ==
  ASSUME Typed, NEW s, NEW open, open = 0 \/ open = requestId, RequestSnapshot(s, open),
         UNCHANGED sentCommands
  PROVE  SendsNothing \/ SendsRequest
<1> DEFINE m == [type |-> "request", id |-> requestId']
<1>1. m \in Requests
  BY RequestSnapshotTyped DEF RequestTyped, Requests
<1>2. ToAuthority(s, m)
  BY DEF RequestSnapshot
<1> HIDE DEF m
<1>3. LossesStay /\ (toAuthority' = Append(toAuthority, m) \/ toAuthority' = toAuthority)
  BY <1>2, ToAuthoritySends
<1> QED BY <1>1, <1>3 DEF SendsNothing, SendsRequest

LEMMA NextSends ==
  ASSUME Typed, NEW waiting \in Seq(QueuedIntent), NEW e \in Nat \cup {-1}, NEW r \in Nat,
         SendNext(waiting, e, r)
  PROVE  SendsCommand \/ (SendsNothing /\ inflight' = NoIntent)
<1>1. CASE waiting = <<>>
  BY <1>1 DEF SendNext, SendsNothing, LossesStay
<1>2. CASE waiting # <<>>
  <2> DEFINE id == sentCommands + 1
             m == CommandOf(Head(waiting), id, e, r)
  <2>1. sentCommands \in Nat /\ mirrorSession \in Nat /\ toAuthority \in Seq(AuthorityMessage)
    BY DEF Typed, PendingTyped, MirrorTyped
  <2>2. Head(waiting) \in QueuedIntent
    BY <1>2, TailOf
  <2>3. Head(waiting).change \in Change /\ Head(waiting).seen \in Nat /\ id \in Nat
    BY <2>1, <2>2 DEF QueuedIntent
  <2>4. m \in Commands /\ m.id = id /\ m.session = mirrorSession /\ m.type = "command"
    BY <2>1, <2>3 DEF CommandOf, Commands
  <2>5. inflight' = [id |-> id, acked |-> -1] /\ sentCommands' = id /\ ToAuthority(mirrorSession, m)
    BY <1>2 DEF SendNext
  <2> HIDE DEF m
  <2>6. \/ Live(mirrorSession) /\ toAuthority' = Append(toAuthority, m)
        \/ /\ toAuthority' = toAuthority
           /\ Live(mirrorSession) => id \in lost'.commands
    BY <2>4, <2>5, ToAuthoritySends
  <2>7. Live(mirrorSession) => m.session = session
    BY <2>4 DEF Live
  <2> QED BY <2>4, <2>5, <2>6, <2>7 DEF SendsCommand
<1> QED BY <1>1, <1>2

LEMMA FinishSends ==
  ASSUME Typed, NEW intent, NEW waiting \in Seq(QueuedIntent), NEW e \in Nat \cup {-1},
         NEW r \in Nat, Finish(intent, waiting, e, r)
  PROVE  \/ /\ intent # NoIntent /\ intent.acked >= 0 /\ r >= intent.acked
            /\ SendsCommand \/ (SendsNothing /\ inflight' = NoIntent)
         \/ SendsNothing /\ inflight' = intent
<1>1. CASE intent # NoIntent /\ intent.acked >= 0 /\ r >= intent.acked
  BY <1>1, NextSends DEF Finish
<1>2. CASE ~(intent # NoIntent /\ intent.acked >= 0 /\ r >= intent.acked)
  BY <1>2 DEF Finish, SendsNothing, LossesStay
<1> QED BY <1>1, <1>2

\* A step of the sender that gives up what it waits for.
LEMMA ResynchronizeSends ==
  ASSUME Typed, Resynchronize
  PROVE  /\ SendsNothing \/ SendsRequest
         /\ inflight' = NoIntent /\ needsSnapshot' /\ UNCHANGED mirrorSession
<1>1. RequestSnapshot(mirrorSession, requestId) /\ UNCHANGED sentCommands
  BY DEF Resynchronize
<1> QED BY <1>1, RequestSends DEF Resynchronize, ClearPending

LEMMA TakenHandles ==
  ASSUME NEW type, Received(type), UNCHANGED <<authVars, mirrorSession>>,
         \/ SendsCommand
         \/ (SendsNothing \/ SendsRequest) /\ inflight' = NoIntent
         \/ SendsNothing /\ inflight' = inflight /\ (inflight # NoIntent => ~Answering)
         \/ Acknowledged
  PROVE  Handles(TRUE)
<1>1. UNCHANGED <<session, up>> /\ mirrorSession # 0 /\ Joined
      /\ toMirror # <<>> /\ toMirror' = Tail(toMirror)
  BY DEF Received, Joined
<1> QED BY <1>1 DEF Handles

LEMMA PublicationHandles ==
  ASSUME Typed, ReceiveSnapshot \/ ReceiveDelta, UNCHANGED authVars
  PROVE  Handles(TRUE)
<1> DEFINE m == Head(toMirror)
<1>1. PICK type \in {"snapshot", "delta"} : Received(type)
  BY DEF ReceiveSnapshot, ReceiveDelta
<1>2. m.type = type /\ ~Answering
  BY <1>1 DEF Received, Answering
<1>3. m \in MirrorMessage
  BY <1>1, ReceivedTyped
<1>4. m.epoch \in Nat /\ m.revision \in Nat
  BY <1>2, <1>3 DEF MirrorMessage, Snapshots, Deltas, Acks, Nacks
<1>5. queue \in Seq(QueuedIntent) /\ <<>> \in Seq(QueuedIntent)
  BY EmptySeq DEF Typed, PendingTyped
<1>6. CASE Resynchronize
  BY <1>1, <1>6, ResynchronizeSends, TakenHandles
<1>7. CASE Untouched
  BY <1>1, <1>2, <1>7, TakenHandles DEF Untouched, SendsNothing, LossesStay
<1>8. ASSUME NEW waiting \in Seq(QueuedIntent), NEW intent \in {inflight, NoIntent},
             Finish(intent, waiting, m.epoch, m.revision), UNCHANGED mirrorSession
      PROVE  Handles(TRUE)
  <2> HIDE DEF m
  <2>1. \/ SendsCommand
        \/ SendsNothing /\ inflight' \in {inflight, NoIntent}
    BY <1>4, <1>8, FinishSends
  <2> QED BY <1>1, <1>2, <1>8, <2>1, TakenHandles
<1>9. CASE ReceiveSnapshot /\ ~Resynchronize
  <2> DEFINE newEpoch == epochSeen # -1 /\ epochSeen # m.epoch
             waiting == IF newEpoch THEN <<>> ELSE queue
             intent == IF newEpoch THEN NoIntent ELSE inflight
  <2>1. Finish(intent, waiting, m.epoch, m.revision) /\ UNCHANGED mirrorSession
    BY <1>9 DEF ReceiveSnapshot
  <2>2. waiting \in Seq(QueuedIntent) /\ intent \in {inflight, NoIntent}
    BY <1>5
  <2> HIDE DEF waiting, intent, newEpoch
  <2> QED BY <1>8, <2>1, <2>2
<1>10. CASE ReceiveDelta /\ ~Resynchronize /\ ~Untouched
  <2>1. Finish(inflight, queue, m.epoch, m.revision) /\ UNCHANGED mirrorSession
    BY <1>10 DEF ReceiveDelta
  <2> QED BY <1>5, <1>8, <2>1
<1> QED BY <1>6, <1>7, <1>9, <1>10

LEMMA AckHandles ==
  ASSUME Typed, ReceiveAck, UNCHANGED authVars
  PROVE  Handles(TRUE)
<1> DEFINE a == Head(toMirror)
           intent == IF IsFor(a) THEN [inflight EXCEPT !.acked = a.revision] ELSE inflight
<1>1. Received("ack") /\ Finish(intent, queue, epochSeen, revisionSeen) /\ UNCHANGED mirrorSession
  BY DEF ReceiveAck
<1>2. queue \in Seq(QueuedIntent) /\ epochSeen \in Nat \cup {-1} /\ revisionSeen \in Nat
  BY DEF Typed, PendingTyped, MirrorTyped
<1>3. a.type = "ack"
  BY <1>1 DEF Received
<1>4. IsFor(a) => inflight # NoIntent /\ inflight.id = a.id /\ intent = [inflight EXCEPT !.acked = a.revision]
  BY DEF IsFor
<1>5. ~IsFor(a) => intent = inflight /\ (inflight # NoIntent => ~Answering)
  BY DEF IsFor, Answering
<1> HIDE DEF intent
<1>6. \/ SendsCommand
      \/ SendsNothing /\ inflight' = NoIntent
      \/ SendsNothing /\ inflight' = intent
  BY <1>1, <1>2, FinishSends
<1>7. CASE SendsNothing /\ inflight' = intent
  <2>1. IsFor(a) => Acknowledged
    BY <1>3, <1>4, <1>7 DEF Acknowledged
  <2>2. ~IsFor(a) => inflight' = inflight /\ (inflight # NoIntent => ~Answering)
    BY <1>5, <1>7
  <2> QED BY <1>1, <1>7, <2>1, <2>2, TakenHandles
<1> QED BY <1>1, <1>6, <1>7, TakenHandles

\* A refusal is never older than the mirror: the stream rises.
LEMMA NeverOutdated ==
  ASSUME Typed, MirrorInv, NEW type, Received(type)
  PROVE  revisionSeen <= Head(toMirror).revision
<1>1. Joined /\ toMirror # <<>> /\ toMirror \in Seq(MirrorMessage)
  BY DEF Received, Joined, Typed, PublicationTyped
<1>2. Head(toMirror) = toMirror[1] /\ 1 \in 1..Len(toMirror)
  BY <1>1, TailOf
<1> QED BY <1>1, <1>2 DEF MirrorInv, Shown, Rises

LEMMA NackHandles ==
  ASSUME Typed, MirrorInv, ReceiveNack, UNCHANGED authVars
  PROVE  Handles(TRUE)
<1> DEFINE n == Head(toMirror)
<1>1. Received("nack")
  BY DEF ReceiveNack
<1>2. n \in MirrorMessage
  BY <1>1, ReceivedTyped
<1>3. ~Outdated(n)
  <2>1. revisionSeen \in Nat /\ n.revision \in Nat /\ revisionSeen <= n.revision
    BY <1>1, <1>2, MessageFields, NeverOutdated DEF Typed, MirrorTyped
  <2> QED BY <2>1 DEF Outdated
<1>4. CASE Resynchronize
  BY <1>1, <1>4, ResynchronizeSends, TakenHandles
<1>5. CASE ~IsFor(n) /\ Untouched
  <2>1. inflight # NoIntent => ~Answering
    BY <1>5 DEF IsFor, Answering
  <2> QED BY <1>1, <1>5, <2>1, TakenHandles DEF Untouched, SendsNothing, LossesStay
<1>6. CASE ClearPending /\ RequestSnapshot(mirrorSession, requestId) /\ UNCHANGED <<mirrorSession, sentCommands>>
  <2>1. SendsNothing \/ SendsRequest
    BY <1>6, RequestSends
  <2> QED BY <1>1, <1>6, <2>1, TakenHandles DEF ClearPending
<1> QED BY <1>3, <1>4, <1>5, <1>6 DEF ReceiveNack

LEMMA ExpireHandles ==
  ASSUME Typed, Expire
  PROVE  Handles(FALSE)
<1>1. UNCHANGED <<authVars, session, up, toMirror>> /\ mirrorSession # 0
  BY DEF Expire, ExpirePending
<1>2. CASE Resynchronize
  BY <1>1, <1>2, ResynchronizeSends DEF Handles
<1>3. CASE RequestSnapshot(mirrorSession, requestId) /\ UNCHANGED <<mirrorSession, inflight, sentCommands>>
  <2>1. SendsNothing \/ SendsRequest
    BY <1>3, RequestSends
  <2> QED BY <1>1, <1>3, <2>1 DEF Handles
<1> QED BY <1>2, <1>3 DEF Expire, ExpirePending

LEMMA SubmitHandles ==
  ASSUME Typed, UserStep
  PROVE  Handles(FALSE)
<1>1. PICK change \in Change : Submit(change)
  BY DEF UserStep, Change
<1>2. UNCHANGED <<authVars, session, up, toMirror>> /\ mirrorSession # 0
  BY <1>1 DEF UserStep, Submit
<1>3. CASE Resynchronize
  BY <1>2, <1>3, ResynchronizeSends DEF Handles
<1>4. CASE UNCHANGED <<mirrorSession, inflight, sentCommands, toAuthority, lost>>
  BY <1>2, <1>4 DEF Handles, SendsNothing, LossesStay
<1>5. ASSUME SendNext(Append(queue, IntentOf(change)), epochSeen, revisionSeen),
             UNCHANGED mirrorSession
      PROVE  Handles(FALSE)
  <2>1. mirror # NoMirror /\ mirror \in Content \cup {NoMirror} /\ queue \in Seq(QueuedIntent)
        /\ epochSeen \in Nat \cup {-1} /\ revisionSeen \in Nat
    BY <1>1 DEF Submit, Typed, MirrorTyped, PendingTyped
  <2>2. IntentOf(change) \in QueuedIntent
    BY <2>1 DEF IntentOf, QueuedIntent, Content
  <2>3. Append(queue, IntentOf(change)) \in Seq(QueuedIntent)
    BY <2>1, <2>2, AppendOf
  <2>4. SendsCommand \/ (SendsNothing /\ inflight' = NoIntent)
    BY <1>5, <2>1, <2>3, NextSends
  <2> QED BY <1>2, <1>5, <2>4 DEF Handles
<1> QED BY <1>1, <1>3, <1>4, <1>5 DEF Submit

LEMMA MirrorToldAnswers ==
  ASSUME Typed, AnswerInv, MirrorTold, UNCHANGED authVars
  PROVE  AnswerInv'
<1>1. UNCHANGED <<session, up, toMirror, sentCommands>> /\ inflight' = NoIntent
  BY DEF MirrorTold, ClearPending
<1>2. SendsNothing \/ SendsRequest
  <2>1. CASE up
    <3>1. RequestSnapshot(Present, 0)
      BY <2>1 DEF MirrorTold
    <3> QED BY <1>1, <3>1, RequestSends
  <2>2. CASE ~up
    BY <2>2 DEF MirrorTold, SendsNothing, LossesStay
  <2> QED BY <2>1, <2>2
<1>3. Books' /\ Routed'
  BY <1>1, <1>2, SendingKeeps
<1> QED BY <1>1, <1>3 DEF AnswerInv, Credited, Followed

LEMMA AnswerStep ==
  ASSUME Typed, MirrorInv, AnswerInv, [Next]_vars
  PROVE  AnswerInv'
<1>1. CASE LinkStep
  BY <1>1, GoneAnswers DEF LinkStep
<1>2. CASE ReceiverStep
  BY <1>2, ReceiverAnswers
<1>3. CASE FacadeStep
  BY <1>3, MirrorToldAnswers, PublicationHandles, AckHandles, NackHandles, HandlesAnswers
     DEF FacadeStep, ReceiveMessage
<1>4. CASE Expire
  BY <1>4, ExpireHandles, HandlesAnswers
<1>5. CASE UserStep
  BY <1>5, SubmitHandles, HandlesAnswers
<1>6. CASE UNCHANGED vars
  <2>1. /\ UNCHANGED <<authVars, session, up, toMirror, toAuthority, lost>>
        /\ UNCHANGED <<mirrorSession, inflight, sentCommands>>
    BY <1>6 DEF vars, linkVars, facadeVars
  <2>2. Books' /\ Routed'
    BY <2>1, SendingKeeps DEF SendsNothing, LossesStay
  <2>3. UNCHANGED <<carried, commands, deferred>>
    BY <2>1 DEF authVars
  <2>4. Credited' /\ Followed'
    BY <2>1, <2>3
       DEF AnswerInv, Credited, Followed, Joined, Present, Effective, Asks, WaitsNow
  <2> QED BY <2>2, <2>4 DEF AnswerInv
<1> QED BY <1>1, <1>2, <1>3, <1>4, <1>5, <1>6 DEF Next

LEMMA AnswerBegins == Init => AnswerInv
<1> SUFFICES ASSUME Init PROVE AnswerInv
  OBVIOUS
<1>1. /\ toMirror = <<>> /\ toAuthority = <<>> /\ commands = <<>> /\ deferred = <<>>
      /\ carried = <<>> /\ sentCommands = 0 /\ inflight = NoIntent
  BY DEF Init, LinkInit, AuthInit, FacadeInit
<1>2. carried \in Seq(Nat) /\ Len(carried) = 0
  BY <1>1, EmptySeq
<1>3. AcksTrue(toMirror, carried) /\ NacksTrue(toMirror, 0, carried, deferred)
  BY <1>1, EmptySeq DEF AcksTrue, NacksTrue
<1>4. /\ Orders(commands, 0, sentCommands) /\ Orders(toAuthority, 0, sentCommands)
      /\ Before(commands, toAuthority)
  BY <1>1, EmptySeq DEF Orders, Before
<1>5. BooksAt(0)
  <2>1. content.edit = 0 /\ observed.edit = 0
    BY DEF Init, AuthInit
  <2> QED BY <1>1, <1>2, <1>3, <1>4, <2>1, EmptySeq, NothingTold DEF BooksAt
<1>6. Routed
  BY <1>1, EmptySeq DEF Routed
<1> QED BY <1>1, <1>5, <1>6 DEF AnswerInv, Books, Credited, Followed

-----------------------------------------------------------------------------
(* What the books are good for.                                            *)
LEMMA EffectiveIsCarried ==
  ASSUME NEW id, NEW r, carried \in Seq(Nat), Effective(id, r)
  PROVE  0 < CarriedBy(id) /\ CarriedBy(id) <= r
<1>1. DOMAIN carried = 1..Len(carried)
  BY LenProperties
<1> QED BY <1>1 DEF Effective, CarriedBy

LEMMA NotTaken ==
  ASSUME Typed, toMirror' = toMirror
  PROVE  ~Settles
<1> SUFFICES ASSUME NEW type, Received(type) PROVE FALSE
  BY DEF Settles
<1>1. toMirror \in Seq(MirrorMessage) /\ toMirror # <<>> /\ toMirror = Tail(toMirror)
  BY DEF Typed, PublicationTyped, Received
<1>2. Len(toMirror) \in Nat \ {0} /\ Len(Tail(toMirror)) = Len(toMirror) - 1
  BY <1>1, TailOf
<1> QED BY <1>1, <1>2

LEMMA AcknowledgedEffect ==
  ASSUME Typed, AnswerInv, Received("ack")
  PROVE  Effective(Head(toMirror).id, Head(toMirror).revision)
<1>1. toMirror \in Seq(MirrorMessage) /\ toMirror # <<>> /\ Head(toMirror).type = "ack"
  BY DEF Typed, PublicationTyped, Received
<1>2. Head(toMirror) = toMirror[1] /\ 1 \in 1..Len(toMirror)
  BY <1>1, TailOf
<1>3. PICK b \in Nat : BooksAt(b)
  BY DEF AnswerInv, Books
<1> QED BY <1>1, <1>2, <1>3 DEF BooksAt, AcksTrue, Effective

\* The step gives up what the sender waited for.
Leaves == inflight # NoIntent /\ (inflight' = NoIntent \/ inflight'.id # inflight.id)

LEMMA SettledShows ==
  ASSUME Typed, AnswerInv, [Next]_vars, Settles, Leaves
  PROVE  Effective(inflight.id, revisionSeen')
<1>1. inflight' # inflight
  BY DEF Leaves
<1>2. toMirror' # toMirror
  BY NotTaken
<1>3. ReceiveMessage
  <2>1. CASE LinkStep \/ ReceiverStep \/ UNCHANGED vars
    BY <1>1, <2>1 DEF LinkStep, ReceiverStep, vars, facadeVars
  <2>2. CASE Expire \/ UserStep \/ MirrorTold
    BY <1>2, <2>2 DEF Expire, ExpirePending, UserStep, Submit, MirrorTold
  <2> QED BY <2>1, <2>2 DEF Next, FacadeStep
<1>4. queue \in Seq(QueuedIntent) /\ epochSeen \in Nat \cup {-1} /\ revisionSeen \in Nat
      /\ inflight \in SentIntent(sentCommands)
  BY DEF Typed, PendingTyped, MirrorTyped, Leaves
<1>5. inflight.acked \in Nat \cup {-1}
  BY <1>4 DEF SentIntent
<1> DEFINE m == Head(toMirror)
<1>6. m.revision \in Nat /\ (m.type \in {"snapshot", "delta"} => m.epoch \in Nat)
  <2>1. \E type : Received(type)
    BY DEF Settles
  <2>2. m \in MirrorMessage
    BY <2>1, ReceivedTyped
  <2> QED BY <2>2, MessageFields DEF IsPublication
<1>7. Joined
  BY DEF Settles, Received, Joined
<1>8. ASSUME NEW r \in Nat, inflight.acked >= 0, r >= inflight.acked
      PROVE  Effective(inflight.id, r)
  <2>1. Effective(inflight.id, inflight.acked)
    BY <1>7, <1>8 DEF AnswerInv, Credited, Leaves
  <2>2. carried \in Seq(Nat)
    BY DEF AnswerInv, Books, BooksAt
  <2>3. carried[inflight.id] \in Nat
    BY <2>1, <2>2, ElementOfSeq DEF Effective
  <2> QED BY <1>5, <1>8, <2>1, <2>3 DEF Effective
<1>9. ASSUME Finish(inflight, queue, m.epoch, m.revision), revisionSeen' = m.revision,
             m.type \in {"snapshot", "delta"}
      PROVE  Effective(inflight.id, revisionSeen')
  <2> HIDE DEF m
  <2>1. inflight.acked >= 0 /\ m.revision >= inflight.acked
    BY <1>1, <1>4, <1>6, <1>9, FinishSends
  <2> QED BY <1>6, <1>8, <1>9, <2>1
<1>10. CASE ReceiveSnapshot
  <2>1. m.type = "snapshot"
    BY <1>10 DEF ReceiveSnapshot, Received
  <2>2. ~needsSnapshot' /\ epochSeen' = epochSeen
    BY <2>1 DEF Settles, Received
  <2>3. epochSeen = m.epoch /\ revisionSeen' = m.revision
        /\ Finish(inflight, queue, m.epoch, m.revision)
    BY <1>10, <2>2 DEF ReceiveSnapshot, Resynchronize
  <2> QED BY <1>9, <2>1, <2>3
<1>11. CASE ReceiveDelta
  <2>1. m.type = "delta"
    BY <1>11 DEF ReceiveDelta, Received
  <2>2. ~needsSnapshot'
    BY <2>1 DEF Settles, Received
  <2>3. revisionSeen' = m.revision /\ Finish(inflight, queue, m.epoch, m.revision)
    BY <1>1, <1>11, <2>2 DEF ReceiveDelta, Resynchronize, Untouched
  <2> QED BY <1>9, <2>1, <2>3
<1>12. CASE ReceiveAck
  <2> DEFINE intent == IF IsFor(m) THEN [inflight EXCEPT !.acked = m.revision] ELSE inflight
  <2>1. Received("ack") /\ Finish(intent, queue, epochSeen, revisionSeen) /\ revisionSeen' = revisionSeen
    BY <1>12 DEF ReceiveAck
  <2>2. intent \in [id : Nat, acked : Nat \cup {-1}] /\ intent.id = inflight.id
        /\ intent.acked = IF IsFor(m) THEN m.revision ELSE inflight.acked
    <3>1. inflight.id \in Nat
      BY <1>4 DEF Typed, PendingTyped, SentIntent
    <3> QED BY <1>4, <1>5, <1>6, <3>1 DEF SentIntent
  <2>3. inflight' # intent
    BY <2>2, IntentAssumption DEF Leaves
  <2> HIDE DEF intent, m
  <2>4. intent.acked >= 0 /\ revisionSeen >= intent.acked
    BY <1>4, <2>1, <2>3, FinishSends
  <2>5. CASE IsFor(m)
    <3>1. Effective(m.id, m.revision) /\ m.id = inflight.id
      BY <2>1, <2>5, AcknowledgedEffect DEF IsFor, m
    <3>2. carried \in Seq(Nat)
      BY DEF AnswerInv, Books, BooksAt
    <3>3. carried[m.id] \in Nat
      BY <3>1, <3>2, ElementOfSeq DEF Effective
    <3> QED BY <1>4, <1>6, <2>1, <2>2, <2>4, <2>5, <3>1, <3>3 DEF Effective
  <2>6. CASE ~IsFor(m)
    BY <1>4, <1>8, <2>1, <2>2, <2>4, <2>6
  <2> QED BY <2>5, <2>6
<1>13. CASE ReceiveNack
  BY <1>13 DEF ReceiveNack, Received, Settles
<1> QED BY <1>3, <1>10, <1>11, <1>12, <1>13 DEF ReceiveMessage

LEMMA RemoteInductive ==
  /\ Init => Typed /\ MirrorInv /\ AnswerInv
  /\ Typed /\ MirrorInv /\ AnswerInv /\ [Next]_vars => (Typed /\ MirrorInv /\ AnswerInv)'
BY TypedInit, TypedStep, MirrorBegins, MirrorStep, AnswerBegins, AnswerStep

(* Whatever is lost, repeated or refused, an acknowledgement that reaches  *)
(* the sender names a revision that shows the edit, and what a refusal     *)
(* names is in no flush to come and is not what the receiver has or        *)
(* published, unless its rollback failed (process_command with its         *)
(* rollbacks, _complete_pending_volume_responses of authority.py).         *)
THEOREM AnswersStayTrue == Spec => []AnswersAreTrue
<1>1. Typed /\ AnswerInv => AnswersAreTrue
  <2> SUFFICES ASSUME Typed, AnswerInv PROVE AnswersAreTrue
    OBVIOUS
  <2>1. PICK b \in Nat : BooksAt(b)
    BY DEF AnswerInv, Books
  <2>2. carried \in Seq(Nat) /\ DOMAIN carried = 1..Len(carried)
    BY <2>1, LenProperties DEF BooksAt
  <2>3. ASSUME NEW i \in InTransit("ack")
        PROVE  0 < CarriedBy(toMirror[i].id) /\ CarriedBy(toMirror[i].id) <= toMirror[i].revision
    <3>1. Effective(toMirror[i].id, toMirror[i].revision)
      BY <2>1, <2>3 DEF InTransit, BooksAt, AcksTrue, Effective
    <3> QED BY <2>2, <3>1, EffectiveIsCarried
  <2>4. ASSUME NEW i \in InTransit("nack")
        PROVE  /\ CarriedBy(toMirror[i].id) = 0 /\ ~WaitsForFlush(toMirror[i].id)
               /\ toMirror[i].undone
                    => content.edit # toMirror[i].id /\ observed.edit # toMirror[i].id
    <3>1. i \in 1..Len(toMirror) /\ toMirror[i].type = "nack"
      BY <2>4 DEF InTransit
    <3>2. toMirror[i].id \in 1..Len(carried) =>
            carried[toMirror[i].id] = 0 /\ ~Waits(deferred, toMirror[i].id)
      BY <2>1, <3>1 DEF BooksAt, NacksTrue
    <3>3. toMirror[i].id \notin 1..Len(carried) => ~Waits(deferred, toMirror[i].id)
      BY <2>1 DEF BooksAt, Waits
    <3>4. toMirror[i].undone => content.edit # toMirror[i].id /\ observed.edit # toMirror[i].id
      BY <2>1, <3>1 DEF BooksAt, Undone
    <3> QED BY <2>2, <3>2, <3>3, <3>4 DEF CarriedBy, Waits, WaitsForFlush
  <2> QED BY <2>3, <2>4 DEF AnswersAreTrue
<1> QED BY <1>1, RemoteInductive, PTL DEF Spec

(* A sender never waits for a command that nobody has: it is on its way,   *)
(* with the receiver, waiting for a flush, or answered, as long as the     *)
(* session holds, unless it or its answer found an outbound queue full     *)
(* (_send_next and begin_session of mixer_facade.py,                       *)
(* queue_control_envelope and process_command of authority.py).            *)
THEOREM CommandsAreFollowed == Spec => []InflightIsSomewhere
<1>1. Typed /\ AnswerInv => InflightIsSomewhere
  <2> SUFFICES ASSUME Typed, AnswerInv, inflight # NoIntent, mirrorSession = Present
               PROVE  \/ inflight.acked >= 0
                      \/ inflight.id \in lost.commands
                      \/ \E i \in 1..Len(toAuthority) :
                           toAuthority[i].type = "command" /\ toAuthority[i].id = inflight.id
                      \/ \E i \in 1..Len(commands) : commands[i].id = inflight.id
                      \/ WaitsForFlush(inflight.id)
                      \/ \E i \in InTransit("ack") \cup InTransit("nack") : toMirror[i].id = inflight.id
    BY DEF InflightIsSomewhere
  <2>1. Joined
    BY DEF AnswerInv, Followed, Joined
  <2>2. \/ inflight.acked >= 0
        \/ inflight.id \in lost.commands
        \/ Asks(toAuthority, inflight.id)
        \/ Asks(commands, inflight.id)
        \/ WaitsNow(deferred, inflight.id)
        \/ Tells(toMirror, inflight.id)
    BY <2>1 DEF AnswerInv, Followed
  <2>3. Tells(toMirror, inflight.id) =>
          \E i \in InTransit("ack") \cup InTransit("nack") : toMirror[i].id = inflight.id
    BY DEF Tells, InTransit
  <2>4. WaitsNow(deferred, inflight.id) => WaitsForFlush(inflight.id)
    BY DEF WaitsNow, WaitsForFlush
  <2> QED BY <2>2, <2>3, <2>4 DEF Asks
<1> QED BY <1>1, RemoteInductive, PTL DEF Spec

(* The sender's user never sees a control jump back to what it was before  *)
(* an edit that succeeded: an edit is settled only when the mirror shows   *)
(* a revision that carries it (_finish_acknowledged, _apply_ack).          *)
THEOREM OwnEditsAreSeen == Spec => ReadYourWrites
<1>1. Typed /\ AnswerInv /\ [Next]_vars =>
        [Settles /\ inflight # NoIntent /\ (inflight' = NoIntent \/ inflight'.id # inflight.id)
           => 0 < CarriedBy(inflight.id) /\ CarriedBy(inflight.id) <= revisionSeen']_vars
  <2> SUFFICES ASSUME Typed, AnswerInv, [Next]_vars, Settles, Leaves
               PROVE  0 < CarriedBy(inflight.id) /\ CarriedBy(inflight.id) <= revisionSeen'
    BY DEF Leaves
  <2>1. carried \in Seq(Nat)
    BY DEF AnswerInv, Books, BooksAt
  <2> QED BY <2>1, SettledShows, EffectiveIsCarried
<1> QED BY <1>1, RemoteInductive, PTL DEF Spec, ReadYourWrites
=============================================================================
