--------------------------- MODULE MixerAuthority ---------------------------
(***************************************************************************)
(* ReceiverMixerAuthority of remote_sync/authority.py: the receiver owns   *)
(* the mixer, applies the commands of the sender, and publishes every      *)
(* change, its own user's as well, as a snapshot or a volume delta with    *)
(* the next revision.                                                      *)
(*                                                                         *)
(* All of it runs on the Qt main thread, one slot at a time.  Local        *)
(* changes are captured in a later turn of the event loop (a zero timer),  *)
(* commands wait in a queue of posted events (queue_validated), and        *)
(* snapshot requests are answered at once.                                 *)
(*                                                                         *)
(* The mixer is abstracted to what the protocol tells apart: how many      *)
(* edits its own user made, the last edit a command made, the volume of a  *)
(* channel, and whether remote editing is allowed.                         *)
(***************************************************************************)
EXTENDS SyncLink, FiniteSets

CONSTANTS
  MaxLocal,        \* bound of the model: edits of the receiver's own user
  MaxMoves,        \* bound of the model: volumes its own user moves
  MaxToggles,      \* bound of the model: changes of the permission
  MaxLimited,      \* bound of the model: snapshot requests over the rate limit
  MaxRestarts      \* bound of the model: restarts of the receiver

ASSUME AuthorityAssumption ==
  /\ MaxLocal \in Nat /\ MaxMoves \in Nat /\ MaxToggles \in Nat
  /\ MaxLimited \in Nat /\ MaxRestarts \in Nat

VARIABLES
  content,          \* the mixer as config, profiles and backend have it
  epoch,            \* revision_clock.epoch, as the number of restarts
  revision,         \* revision_clock.revision
  observed,         \* _last_published_snapshot and _last_observed_hash
  volumePending,    \* _pending_volume_changes is not empty
  deferred,         \* _pending_volume_responses
  editCapture,      \* a zero timer will call capture_local_mutation
  volumeCapture,    \* a zero timer will call capture_runtime_volume
  authSession,      \* _active_session, 0 for None
  sessionAllowed,   \* its permission_enabled
  served,           \* the newest entry of _snapshot_request_cache
  commands,         \* the posted _queued_envelope events
  moves, toggles,   \* how often a volume moved, the permission changed
  limited,          \* how often a request was over the rate limit
  carried           \* history: the revision that published a command's effect

authVars == <<content, epoch, revision, observed, volumePending, deferred, editCapture,
              volumeCapture, authSession, sessionAllowed, served, commands, moves, toggles,
              limited, carried>>

Content == [local : Nat, edit : Nat, volume : Volumes, allowed : BOOLEAN]

SnapshotOf(c, r) == [type |-> "snapshot", epoch |-> epoch, revision |-> r, content |-> c]

(* A delta names the volumes only; content stands for its resulting_hash.  *)
DeltaOf(c, r) == [type |-> "delta", epoch |-> epoch, base |-> r - 1, revision |-> r,
                  volume |-> c.volume, content |-> c]

AckOf(id, r) == [type |-> "ack", id |-> id, revision |-> r]

(* undone is for the properties, the message does not tell it: nothing of  *)
(* what was refused is left.                                               *)
NackOf(id, reason) == [type |-> "nack", id |-> id, reason |-> reason, revision |-> revision,
                       undone |-> TRUE]

AuthInit ==
  /\ content \in [local : {0}, edit : {0}, volume : Volumes, allowed : BOOLEAN]
  /\ epoch = 0
  /\ revision = 0
  /\ observed = content
  /\ volumePending = FALSE
  /\ deferred = <<>>
  /\ editCapture = FALSE
  /\ volumeCapture = FALSE
  /\ authSession = 0
  /\ sessionAllowed = FALSE
  /\ served = [request |-> 0, revision |-> 0]
  /\ commands = <<>>
  /\ moves = 0
  /\ toggles = 0
  /\ limited = 0
  /\ carried = <<>>

-----------------------------------------------------------------------------
(* _publish_delta for the content c: only if no more than volumes differs  *)
(* from what was published last is it a delta.                             *)
VolumePublication(c) ==
  IF c = [observed EXCEPT !.volume = c.volume] THEN DeltaOf(c, revision + 1)
                                               ELSE SnapshotOf(c, revision + 1)

(* _complete_pending_volume_responses: what is sent for another session is *)
(* discarded, and the answers for the present one are the last that wait.  *)
Answers(waiting, r) ==
  LET gone == Cardinality({i \in 1..Len(waiting) : waiting[i].session # authSession})
  IN  [i \in 1..(Len(waiting) - gone) |-> AckOf(waiting[gone + i].id, r)]

(* A flush that forgets the commands it answers.                           *)
FlushUnanswered(pending, c, waiting) ==
  IF pending THEN <<VolumePublication(c)>> ELSE <<>>

(* flush_volume_publication: what it sends, the publication before the     *)
(* answers to the volume commands it carries.                              *)
FlushMessages(pending, c, waiting) ==
  IF pending THEN <<VolumePublication(c)>> \o Answers(waiting, revision + 1) ELSE <<>>

FlushCarries(pending, waiting, done) ==
  IF pending
    THEN [id \in DOMAIN done |-> IF \E i \in 1..Len(waiting) : waiting[i].id = id
                                   THEN revision + 1 ELSE done[id]]
    ELSE done

Flush(pending, c, waiting, done) ==
  /\ revision' = IF pending THEN revision + 1 ELSE revision
  /\ observed' = IF pending THEN c ELSE observed
  /\ volumePending' = FALSE
  /\ deferred' = IF pending THEN <<>> ELSE waiting
  /\ carried' = FlushCarries(pending, waiting, done)
  /\ ToMirror(authSession, FlushMessages(pending, c, waiting))

(* publish_snapshot: the volumes that wait go first.                       *)
AfterFlush == IF volumePending THEN revision + 1 ELSE revision

SnapshotMessages(c) ==
  FlushMessages(volumePending, c, deferred) \o <<SnapshotOf(c, AfterFlush + 1)>>

(* The published snapshot is not kept.                                     *)
PublishForgetting(c, answers, done) ==
  /\ revision' = AfterFlush + 1
  /\ UNCHANGED observed
  /\ volumePending' = FALSE
  /\ deferred' = IF volumePending THEN <<>> ELSE deferred
  /\ carried' = FlushCarries(volumePending, deferred, done)
  /\ ToMirror(authSession, SnapshotMessages(c) \o answers)

PublishSnapshot(c, answers, done) ==
  /\ revision' = AfterFlush + 1
  /\ observed' = c
  /\ volumePending' = FALSE
  /\ deferred' = IF volumePending THEN <<>> ELSE deferred
  /\ carried' = FlushCarries(volumePending, deferred, done)
  /\ ToMirror(authSession, SnapshotMessages(c) \o answers)

NothingPublished ==
  /\ UNCHANGED <<revision, observed, volumePending, deferred, carried, toMirror, lost>>

-----------------------------------------------------------------------------
(* begin_transport_session.  That a session is gone and that there is a    *)
(* next one are two calls; the second undoes what the first left.          *)
AuthorityTold ==
  /\ authSession # Present
  /\ authSession' = Present
  /\ sessionAllowed' = (up /\ content.allowed)
  /\ UNCHANGED <<content, epoch, revision, observed, volumePending, deferred, editCapture,
                 volumeCapture, served, commands, moves, toggles, limited, carried, linkVars>>

(* An edit of the receiver's own user: profiles, mappings, targets, mutes. *)
LocalEdit ==
  /\ content.local < MaxLocal
  /\ content' = [content EXCEPT !.local = @ + 1]
  /\ editCapture' = TRUE
  /\ UNCHANGED <<epoch, revision, observed, volumePending, deferred, volumeCapture,
                 authSession, sessionAllowed, served, commands, moves, toggles, limited, carried,
                 linkVars>>

(* A volume moved at the receiver.                                         *)
LocalVolume(v) ==
  /\ moves < MaxMoves
  /\ moves' = moves + 1
  /\ v # content.volume
  /\ content' = [content EXCEPT !.volume = v]
  /\ volumeCapture' = TRUE
  /\ UNCHANGED <<epoch, revision, observed, volumePending, deferred, editCapture,
                 authSession, sessionAllowed, served, commands, toggles, limited, carried,
                 linkVars>>

(* The permission changes and is published if a session asks for it, with  *)
(* no capture for when there is none.                                      *)
ToggleUncaptured ==
  LET c == [content EXCEPT !.allowed = ~@]
  IN  /\ toggles < MaxToggles
      /\ toggles' = toggles + 1
      /\ content' = c
      /\ IF authSession # 0 /\ sessionAllowed # c.allowed
           THEN /\ sessionAllowed' = c.allowed
                /\ PublishSnapshot(c, <<>>, carried)
           ELSE /\ UNCHANGED sessionAllowed
                /\ NothingPublished
      /\ UNCHANGED <<epoch, editCapture, volumeCapture, authSession, served, commands,
                     moves, limited, session, up, toAuthority>>

(* The permission changes and only the capture tells of it.                *)
ToggleUnreconciled ==
  /\ toggles < MaxToggles
  /\ toggles' = toggles + 1
  /\ content' = [content EXCEPT !.allowed = ~@]
  /\ editCapture' = TRUE
  /\ NothingPublished
  /\ UNCHANGED <<epoch, volumeCapture, authSession, sessionAllowed, served, commands,
                 moves, limited, session, up, toAuthority>>

(* The permission is changed in the settings: reconcile_permission at once,*)
(* and a capture later.                                                    *)
TogglePermission ==
  LET c == [content EXCEPT !.allowed = ~@]
  IN  /\ toggles < MaxToggles
      /\ toggles' = toggles + 1
      /\ content' = c
      /\ editCapture' = TRUE
      /\ IF authSession # 0 /\ sessionAllowed # c.allowed
           THEN /\ sessionAllowed' = c.allowed
                /\ PublishSnapshot(c, <<>>, carried)
           ELSE /\ UNCHANGED sessionAllowed
                /\ NothingPublished
      /\ UNCHANGED <<epoch, volumeCapture, authSession, served, commands, moves, limited,
                     session, up, toAuthority>>

CaptureLocalMutation ==
  /\ editCapture
  /\ editCapture' = FALSE
  /\ IF content = observed THEN NothingPublished
                           ELSE PublishSnapshot(content, <<>>, carried)
  /\ UNCHANGED <<content, epoch, volumeCapture, authSession, sessionAllowed, served,
                 commands, moves, toggles, limited, session, up, toAuthority>>

(* A volume too soon after the last is left to the next that moves.        *)
CaptureUnlessThrottled ==
  /\ volumeCapture
  /\ volumeCapture' = FALSE
  /\ \/ NothingPublished
     \/ /\ volumePending \/ content # observed
        /\ Flush(TRUE, content, deferred, carried)
  /\ UNCHANGED <<content, epoch, editCapture, authSession, sessionAllowed, served,
                 commands, moves, toggles, limited, session, up, toAuthority>>

(* publish_local_mutation for volumes: now, or with the next flush if the  *)
(* last one was less than a thirtieth of a second ago.                     *)
CaptureRuntimeVolume ==
  /\ volumeCapture
  /\ volumeCapture' = FALSE
  /\ \/ /\ ~volumePending /\ content = observed
        /\ NothingPublished
     \/ /\ volumePending \/ content # observed
        /\ Flush(TRUE, content, deferred, carried)
     \/ /\ volumePending \/ content # observed
        /\ volumePending' = TRUE
        /\ UNCHANGED <<revision, observed, deferred, carried, toMirror, lost>>
  /\ UNCHANGED <<content, epoch, editCapture, authSession, sessionAllowed, served,
                 commands, moves, toggles, limited, session, up, toAuthority>>

(* The flush timer.                                                        *)
FlushVolumePublication ==
  /\ volumePending
  /\ Flush(TRUE, content, deferred, carried)
  /\ UNCHANGED <<content, epoch, editCapture, volumeCapture, authSession, sessionAllowed,
                 served, commands, moves, toggles, limited, session, up, toAuthority>>

-----------------------------------------------------------------------------
(* queue_control_envelope.                                                 *)
Arrived(type) ==
  /\ authSession = Present
  /\ toAuthority # <<>>
  /\ Head(toAuthority).type = type
  /\ toAuthority' = Tail(toAuthority)
  /\ UNCHANGED <<session, up>>

QueueCommand ==
  /\ Arrived("command")
  /\ commands' = Append(commands, Head(toAuthority))
  /\ UNCHANGED <<content, epoch, revision, observed, volumePending, deferred, editCapture,
                 volumeCapture, authSession, sessionAllowed, served, moves, toggles, limited,
                 carried, toMirror, lost>>

(* _resend_snapshot: what was published last is sent once more.            *)
Resend ==
  IF Live(authSession)
    THEN \/ /\ toMirror' = Append(toMirror, SnapshotOf(observed, revision))
            /\ lost' = [lost EXCEPT !.publication = FALSE]
         \/ /\ lost.messages < MaxLost
            /\ lost' = [lost EXCEPT !.messages = @ + 1]
            /\ UNCHANGED toMirror
    ELSE UNCHANGED <<toMirror, lost>>

(* _handle_snapshot_request: a request that was answered is answered again *)
(* with the same snapshot as long as nothing newer was published.          *)
HandleSnapshotRequest ==
  LET id == Head(toAuthority).id
  IN  /\ Arrived("request")
      /\ sessionAllowed' = content.allowed
      /\ \/ /\ served = [request |-> id, revision |-> revision]
            /\ Resend
            /\ UNCHANGED <<revision, observed, volumePending, deferred, carried, served,
                           limited>>
         \/ /\ served # [request |-> id, revision |-> revision]
            /\ PublishSnapshot(content, <<>>, carried)
            /\ served' = [request |-> id, revision |-> revision']
            /\ UNCHANGED limited
         \/ /\ served # [request |-> id, revision |-> revision]
            /\ limited < MaxLimited
            /\ limited' = limited + 1
            /\ served' = IF served.request = id THEN [request |-> 0, revision |-> 0]
                                                ELSE served
            /\ NothingPublished
      /\ UNCHANGED <<content, epoch, editCapture, volumeCapture, authSession, commands,
                     moves, toggles>>

-----------------------------------------------------------------------------
(* _apply_queued and process_command on the first command that waits.      *)
Permitted == sessionAllowed /\ content.allowed

Current(cmd) == cmd.epoch = epoch /\ cmd.expected = revision

Acceptable(cmd) == authSession # 0 /\ Permitted /\ cmd.session = authSession /\ Current(cmd)

NextCommand ==
  /\ commands # <<>>
  /\ commands' = Tail(commands)
  /\ UNCHANGED <<epoch, authSession, sessionAllowed, served, moves, toggles, limited, session, up,
                 toAuthority>>

(* Any command may be refused: it may be past its deadline, over a rate    *)
(* limit, or name something that is not there.                             *)
RefuseCommand ==
  LET cmd == Head(commands)
  IN  /\ NextCommand
      /\ \/ ToMirror(cmd.session, <<NackOf(cmd.id, "refused")>>)
         \/ /\ authSession # 0 /\ ~Permitted
            /\ ToMirror(cmd.session, <<NackOf(cmd.id, "permission_disabled")>>)
      /\ UNCHANGED <<content, revision, observed, volumePending, deferred, carried,
                     editCapture, volumeCapture>>

(* An edit fails half way, after the volumes that waited were flushed for  *)
(* it.  It is refused whether its rollback succeeds or fails as well, and  *)
(* leaves all of the edit or a part of it.                                 *)
FailEdit ==
  LET cmd == Head(commands)
  IN  /\ NextCommand
      /\ Acceptable(cmd) /\ cmd.change = Edit
      /\ \E undone \in BOOLEAN :
           /\ content' = IF undone THEN content ELSE [content EXCEPT !.edit = cmd.id]
           /\ ToMirror(authSession, FlushMessages(volumePending, content, deferred)
                \o <<[NackOf(cmd.id, "refused") EXCEPT !.revision = AfterFlush,
                                                       !.undone = undone]>>)
      /\ revision' = AfterFlush
      /\ observed' = IF volumePending THEN content ELSE observed
      /\ volumePending' = FALSE
      /\ deferred' = IF volumePending THEN <<>> ELSE deferred
      /\ carried' = FlushCarries(volumePending, deferred, carried)
      /\ editCapture' = TRUE
      /\ UNCHANGED volumeCapture

(* The effect of a command that is applied.                                *)
Applied(id, r) == [i \in 1..id |-> IF i = id THEN r ELSE IF i \in DOMAIN carried
                                                           THEN carried[i] ELSE 0]

(* An edit is acknowledged before it is published.                         *)
AcknowledgeThenApply ==
  LET cmd == Head(commands)
      before == FlushMessages(volumePending, content, deferred)
      c == [content EXCEPT !.edit = cmd.id]
      r == AfterFlush + 1
  IN  /\ NextCommand
      /\ Acceptable(cmd) /\ cmd.change = Edit
      /\ content' = c
      /\ revision' = r
      /\ observed' = c
      /\ volumePending' = FALSE
      /\ deferred' = IF volumePending THEN <<>> ELSE deferred
      /\ carried' = FlushCarries(volumePending, deferred, Applied(cmd.id, r))
      /\ ToMirror(authSession, before \o <<AckOf(cmd.id, r - 1), SnapshotOf(c, r)>>)
      /\ editCapture' = TRUE
      /\ UNCHANGED volumeCapture

(* An edit is applied after the flush and published as a snapshot.         *)
ApplyEdit ==
  LET cmd == Head(commands)
      before == FlushMessages(volumePending, content, deferred)
      c == [content EXCEPT !.edit = cmd.id]
      r == AfterFlush + 1
  IN  /\ NextCommand
      /\ Acceptable(cmd) /\ cmd.change = Edit
      /\ content' = c
      /\ revision' = r
      /\ observed' = c
      /\ volumePending' = FALSE
      /\ deferred' = IF volumePending THEN <<>> ELSE deferred
      /\ carried' = FlushCarries(volumePending, deferred, Applied(cmd.id, r))
      /\ ToMirror(authSession, before \o <<SnapshotOf(c, r), AckOf(cmd.id, r)>>)
      /\ editCapture' = TRUE
      /\ UNCHANGED volumeCapture

(* A volume is acknowledged at once, whether it is published or not.       *)
AcknowledgeUnpublished ==
  LET cmd == Head(commands)
  IN  /\ NextCommand
      /\ Acceptable(cmd) /\ cmd.change # Edit
      /\ content' = [content EXCEPT !.volume = cmd.change]
      /\ volumePending' = TRUE
      /\ carried' = Applied(cmd.id, 0)
      /\ ToMirror(authSession, <<AckOf(cmd.id, revision)>>)
      /\ UNCHANGED <<revision, observed, deferred>>
      /\ volumeCapture' = TRUE
      /\ UNCHANGED editCapture

(* A volume is applied and published at once, or answered by the flush     *)
(* that will publish it.                                                   *)
ApplyVolume ==
  LET cmd == Head(commands)
      c == [content EXCEPT !.volume = cmd.change]
  IN  /\ NextCommand
      /\ Acceptable(cmd) /\ cmd.change # Edit
      /\ content' = c
      /\ \/ /\ revision' = revision + 1
            /\ observed' = c
            /\ volumePending' = FALSE
            /\ deferred' = <<>>
            /\ carried' = FlushCarries(TRUE, deferred, Applied(cmd.id, revision + 1))
            /\ ToMirror(authSession, FlushMessages(TRUE, c, deferred)
                                     \o <<AckOf(cmd.id, revision + 1)>>)
         \/ /\ volumePending' = TRUE
            /\ deferred' = Append(deferred, [id |-> cmd.id, session |-> cmd.session])
            /\ carried' = Applied(cmd.id, 0)
            /\ UNCHANGED <<revision, observed, toMirror, lost>>
      /\ volumeCapture' = TRUE
      /\ UNCHANGED editCapture

(* The receiver quits, or crashes, and starts again: only the mixer is     *)
(* kept.                                                                   *)
RestartReceiver ==
  /\ epoch < MaxRestarts
  /\ epoch' = epoch + 1
  /\ revision' = 0
  /\ observed' = content
  /\ volumePending' = FALSE
  /\ deferred' = <<>>
  /\ editCapture' = FALSE
  /\ volumeCapture' = FALSE
  /\ authSession' = 0
  /\ sessionAllowed' = FALSE
  /\ served' = [request |-> 0, revision |-> 0]
  /\ commands' = <<>>
  /\ Ended
  /\ carried' = [id \in DOMAIN carried |-> 0]
  /\ UNCHANGED <<content, moves, toggles, limited, session>>

-----------------------------------------------------------------------------
LocalStep ==
  \/ LocalEdit
  \/ \E v \in Volumes : LocalVolume(v)
  \/ TogglePermission

(* What the event loop of the receiver does sooner or later.               *)
AuthorityStep ==
  \/ AuthorityTold
  \/ CaptureLocalMutation
  \/ CaptureRuntimeVolume
  \/ FlushVolumePublication
  \/ QueueCommand
  \/ HandleSnapshotRequest
  \/ RefuseCommand
  \/ FailEdit
  \/ ApplyEdit
  \/ ApplyVolume
=============================================================================
