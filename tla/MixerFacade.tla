---------------------------- MODULE MixerFacade -----------------------------
(***************************************************************************)
(* RemoteMixerFacade of gui/mixer_facade.py with SubscriberState of        *)
(* remote_sync/state.py: the sender shows a mirror of the receiver's mixer *)
(* and turns the edits of its user into commands, one on the way at a      *)
(* time.  It never changes the mirror itself: that is what publications    *)
(* do.                                                                     *)
(*                                                                         *)
(* All of it runs on the Qt main thread.  requestId stands for             *)
(* _snapshot_request_id and _snapshot_requested_at, which are set and      *)
(* cleared together.                                                       *)
(***************************************************************************)
EXTENDS SyncLink

CONSTANTS
  MaxPending,      \* MAX_PENDING_COMMANDS
  MaxSubmits,      \* bound of the model: edits of the sender's user
  MaxRetries,      \* bound of the model: deadlines that pass while an answer may come
  NoMirror, NoIntent

ASSUME FacadeAssumption ==
  /\ MaxPending \in Nat \ {0} /\ MaxSubmits \in Nat /\ MaxRetries \in Nat

(* An edit on the way is told from none.                                   *)
ASSUME IntentAssumption == NoIntent \notin [id : Nat, acked : Nat \cup {-1}]

VARIABLES
  mirrorSession,   \* _session, 0 for None
  mirror,          \* the content of _snapshot, NoMirror for None
  epochSeen,       \* _subscriber.epoch, -1 for None
  revisionSeen,    \* _subscriber.revision
  needsSnapshot,   \* _subscriber.needs_snapshot
  requestId,       \* _snapshot_request_id, 0 for None
  denied,          \* _editing_denied
  inflight,        \* _inflight
  queue,           \* _queue
  sentRequests, sentCommands, submits, retries

facadeVars == <<mirrorSession, mirror, epochSeen, revisionSeen, needsSnapshot, requestId,
                denied, inflight, queue, sentRequests, sentCommands, submits, retries>>

FacadeInit ==
  /\ mirrorSession = 0
  /\ mirror = NoMirror
  /\ epochSeen = -1
  /\ revisionSeen = 0
  /\ needsSnapshot = TRUE
  /\ requestId = 0
  /\ denied = FALSE
  /\ inflight = NoIntent
  /\ queue = <<>>
  /\ sentRequests = 0 /\ sentCommands = 0 /\ submits = 0 /\ retries = 0

(* An intent remembers which of the receiver's own edits its user saw: the *)
(* program does not.                                                       *)
IntentOf(change) == [change |-> change, seen |-> mirror.local]

CommandOf(intent, id, e, r) ==
  [type |-> "command", session |-> mirrorSession, id |-> id, epoch |-> e, expected |-> r,
   change |-> intent.change, seen |-> intent.seen]

-----------------------------------------------------------------------------
Untouched ==
  UNCHANGED <<mirrorSession, mirror, epochSeen, revisionSeen, needsSnapshot, requestId,
              denied, inflight, queue, sentRequests, sentCommands, toAuthority, lost>>

(* _clear_pending.                                                         *)
ClearPending == inflight' = NoIntent /\ queue' = <<>>

(* A request that takes the identity of the one before it.                 *)
RequestUnderOldName(s, open) ==
  /\ requestId' = IF open = 0 THEN sentRequests + 1 ELSE open
  /\ UNCHANGED sentRequests
  /\ ToAuthority(s, [type |-> "request", id |-> requestId'])

(* _request_snapshot: a request that is open keeps its identity.           *)
RequestSnapshot(s, open) ==
  /\ requestId' = IF open = 0 THEN sentRequests + 1 ELSE open
  /\ sentRequests' = IF open = 0 THEN sentRequests + 1 ELSE sentRequests
  /\ ToAuthority(s, [type |-> "request", id |-> requestId'])

(* Marks the mirror as stale and leaves it at that.                        *)
ResynchronizeLater ==
  /\ ClearPending
  /\ needsSnapshot' = TRUE
  /\ UNCHANGED <<mirrorSession, mirror, epochSeen, revisionSeen, denied, sentCommands,
                 requestId, sentRequests, toAuthority, lost>>

(* _resynchronize.                                                         *)
Resynchronize ==
  /\ ClearPending
  /\ needsSnapshot' = TRUE
  /\ RequestSnapshot(mirrorSession, requestId)
  /\ UNCHANGED <<mirrorSession, mirror, epochSeen, revisionSeen, denied, sentCommands>>

(* _send_next when none is on the way and the mirror is e and r.           *)
SendNext(waiting, e, r) ==
  IF waiting = <<>>
    THEN /\ inflight' = NoIntent
         /\ queue' = <<>>
         /\ UNCHANGED <<sentCommands, toAuthority, lost>>
    ELSE LET id == sentCommands + 1
         IN  /\ inflight' = [id |-> id, acked |-> -1]
             /\ queue' = Tail(waiting)
             /\ sentCommands' = id
             /\ ToAuthority(mirrorSession, CommandOf(Head(waiting), id, e, r))

(* _finish_acknowledged: an intent is done when it is acknowledged and the *)
(* mirror has reached the revision that carries it.                        *)
Finish(intent, waiting, e, r) ==
  IF intent # NoIntent /\ intent.acked >= 0 /\ r >= intent.acked
    THEN SendNext(waiting, e, r)
    ELSE /\ inflight' = intent
         /\ queue' = waiting
         /\ UNCHANGED <<sentCommands, toAuthority, lost>>

-----------------------------------------------------------------------------
(* begin_session, or dispose if there is none.                             *)
MirrorTold ==
  /\ mirrorSession # Present
  /\ mirrorSession' = Present
  /\ mirror' = NoMirror
  /\ epochSeen' = -1
  /\ revisionSeen' = 0
  /\ needsSnapshot' = TRUE
  /\ denied' = FALSE
  /\ ClearPending
  /\ IF up THEN RequestSnapshot(Present, 0)
           ELSE requestId' = 0 /\ UNCHANGED <<sentRequests, toAuthority, lost>>
  /\ UNCHANGED <<sentCommands, submits, retries, session, up, toMirror>>

(* handle_envelope.                                                        *)
Received(type) ==
  /\ mirrorSession # 0
  /\ mirrorSession = Present
  /\ toMirror # <<>>
  /\ Head(toMirror).type = type
  /\ toMirror' = Tail(toMirror)
  /\ UNCHANGED <<session, up, submits, retries>>

(* SubscriberState.apply_snapshot refuses an older snapshot of the epoch,  *)
(* and one of the same revision while it waits for a newer.                *)
Refused(s) ==
  /\ s.epoch = epochSeen
  /\ \/ s.revision < revisionSeen
     \/ s.revision = revisionSeen /\ (needsSnapshot \/ s.content # mirror)

ReceiveSnapshot ==
  LET s == Head(toMirror)
      newEpoch == epochSeen # -1 /\ epochSeen # s.epoch
  IN  /\ Received("snapshot")
      /\ \/ Refused(s) /\ Resynchronize
         \/ /\ ~Refused(s)
            /\ mirror' = s.content
            /\ epochSeen' = s.epoch
            /\ revisionSeen' = s.revision
            /\ needsSnapshot' = FALSE
            /\ denied' = FALSE
            /\ requestId' = 0
            /\ Finish(IF newEpoch THEN NoIntent ELSE inflight,
                      IF newEpoch THEN <<>> ELSE queue, s.epoch, s.revision)
            /\ UNCHANGED <<mirrorSession, sentRequests>>

(* _apply_delta and SubscriberState.apply_delta.                           *)
Repeated(d) == mirror # NoMirror /\ d.revision = revisionSeen /\ d.content = mirror

Follows(d) ==
  /\ mirror # NoMirror
  /\ ~needsSnapshot
  /\ d.epoch = epochSeen
  /\ d.base = revisionSeen
  /\ d.revision = d.base + 1
  /\ d.content = [mirror EXCEPT !.volume = d.volume]

ReceiveDelta ==
  LET d == Head(toMirror)
  IN  /\ Received("delta")
      /\ IF Repeated(d) THEN Untouched ELSE
         \/ ~Follows(d) /\ Resynchronize
         \/ /\ Follows(d)
            /\ mirror' = [mirror EXCEPT !.volume = d.volume]
            /\ revisionSeen' = d.revision
            /\ Finish(inflight, queue, d.epoch, d.revision)
            /\ UNCHANGED <<mirrorSession, epochSeen, needsSnapshot, requestId, denied,
                           sentRequests>>

IsFor(message) == inflight # NoIntent /\ inflight.id = message.id

ReceiveAck ==
  LET a == Head(toMirror)
  IN  /\ Received("ack")
      /\ Finish(IF IsFor(a) THEN [inflight EXCEPT !.acked = a.revision] ELSE inflight,
                queue, epochSeen, revisionSeen)
      /\ UNCHANGED <<mirrorSession, mirror, epochSeen, revisionSeen, needsSnapshot,
                     requestId, denied, sentRequests>>

(* _apply_nack.                                                            *)
Outdated(n) == mirror # NoMirror /\ n.revision < revisionSeen

ReceiveNack ==
  LET n == Head(toMirror)
      denial == n.reason = "permission_disabled"
  IN  /\ Received("nack")
      /\ \/ /\ denial /\ ~Outdated(n)
            /\ ClearPending
            /\ denied' = TRUE
            /\ RequestSnapshot(mirrorSession, requestId)
            /\ UNCHANGED <<mirrorSession, mirror, epochSeen, revisionSeen, needsSnapshot,
                           sentCommands>>
         \/ ~denial /\ IsFor(n) /\ Resynchronize
         \/ (IF denial THEN Outdated(n) ELSE ~IsFor(n)) /\ Untouched

(* Does not repeat a snapshot request that got lost.                       *)
ExpireEditsOnly ==
  /\ mirrorSession # 0 /\ requestId = 0 /\ inflight # NoIntent
  /\ Resynchronize
  /\ UNCHANGED <<submits, session, up, toMirror>>

(* expire_pending, when the deadline of what is awaited has passed.        *)
ExpirePending ==
  /\ mirrorSession # 0
  /\ \/ /\ requestId # 0
        /\ RequestSnapshot(mirrorSession, requestId)
        /\ UNCHANGED <<mirrorSession, mirror, epochSeen, revisionSeen, needsSnapshot, denied,
                       inflight, queue, sentCommands>>
     \/ /\ inflight # NoIntent
        /\ Resynchronize
  /\ UNCHANGED <<submits, session, up, toMirror>>

-----------------------------------------------------------------------------
(* _submit.  A volume replaces the volume that waits already.              *)
Submit(change) ==
  LET sameKey == {i \in 1..Len(queue) : change # Edit /\ queue[i].change # Edit}
      pending == Len(queue) + (IF inflight = NoIntent THEN 0 ELSE 1)
  IN  /\ submits < MaxSubmits
      /\ submits' = submits + 1
      /\ mirrorSession # 0 /\ mirror # NoMirror
      /\ mirror.allowed /\ ~denied
      /\ \/ /\ sameKey # {}
            /\ \E i \in sameKey :
                 /\ \A j \in sameKey : j <= i
                 /\ queue' = [queue EXCEPT ![i] = IntentOf(change)]
            /\ UNCHANGED <<mirrorSession, mirror, epochSeen, revisionSeen, needsSnapshot,
                           requestId, denied, inflight, sentRequests, sentCommands,
                           toAuthority, lost>>
         \/ sameKey = {} /\ pending >= MaxPending /\ Resynchronize
         \/ /\ sameKey = {} /\ pending < MaxPending
            /\ IF inflight = NoIntent
                 THEN SendNext(Append(queue, IntentOf(change)), epochSeen, revisionSeen)
                 ELSE /\ queue' = Append(queue, IntentOf(change))
                      /\ UNCHANGED <<inflight, sentCommands, toAuthority, lost>>
            /\ UNCHANGED <<mirrorSession, mirror, epochSeen, revisionSeen, needsSnapshot,
                           requestId, denied, sentRequests>>
      /\ UNCHANGED <<retries, session, up, toMirror>>

ReceiveMessage == ReceiveSnapshot \/ ReceiveDelta \/ ReceiveAck \/ ReceiveNack
=============================================================================
