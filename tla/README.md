# NativMix in TLA+

NativMix turns a hardware or software controller into a volume mixer for the
applications, devices and virtual sinks of a computer, and lets a second
computer drive that mixer over the network. This directory models the parts of
it where the order of events decides what is right, checks them with TLC on
small instances, and proves the invariants of its core with TLAPS for any
instance. Paths below are relative to `src/lib/nativmix/`.

## Inventory

Almost everything runs on the Qt main thread, one slot at a time; the difficult
behaviour comes from what is deferred (queued signals, zero timers), from the
worker threads that block in audio servers and drivers, and from the network.

| component | state | interacts with | hard behaviour | modelled |
|---|---|---|---|---|
| Volume write scheduler (`audio/volume_scheduler.py`) | queue of newest writes per target, one write in flight, abandoned workers, stall timer | worker threads, coordinator, audio manager | stalled calls, late completions, retries, resets | yes |
| Volume intent coordinator (same file) | latest intent, requested and confirmed volume per channel | GUI, MIDI, scheduler, config | stale completions, rollback, shared targets, external changes | yes |
| Mixer authority (`remote_sync/authority.py`) | revision, published snapshot, pending volumes and answers, session | config, profiles, backend, MIDI worker | deferred captures, coalescing, permission changes, restarts | mostly |
| Mixer facade (`gui/mixer_facade.py`, `remote_sync/state.py`) | mirror, revision seen, command in flight, queue | GUI, MIDI worker | gaps, late answers, deadlines, new sessions | mostly |
| Mixer control transport (`remote_sync/transport.py`) | TCP connection, queues, deadlines, back-off | MIDI worker, AppleMIDI session | half-open connections, handshake and inactivity limits, leftovers of an old connection, full queues | yes |
| AppleMIDI session (`hardware/remote_midi.py`) | invitation phase, token, sequence window, waiting Control Changes, discovery | MIDI worker, DNS-SD | lost, late and doubled datagrams, restarts, an expired service | mostly |
| MIDI worker (`hardware/midi.py`) | ports, feedback caches | everything remote | echo suppression, deferral | no |
| Arduino worker (`hardware/arduino.py`) | serial port, smoothing | main thread | reconnection | only the strip count it reports |
| Audio manager: V-Sinks (`audio/manager.py`) | module ids that are not registered yet, retries, last output; the modules themselves live in the audio server | Pulse/PipeWire, listener and poll thread, a second instance | orphans of a crash, late registration, vanishing outputs, foreign modules | one channel |
| Audio manager: volume and mute (same file) | volumes, mutes, writers' caches | scheduler, Pulse | two connections, blocking calls | no |
| Profiles and configuration (`utils/profile_manager.py`, `utils/config_manager.py`) | active profile, mode, strip counts, strips in memory, files | GUI, Arduino, authority | several files written one after the other, counts kept three times | strips and counts |
| Sleep inhibitor (`utils/sleep_inhibitor.py`) | inhibitor handle | session bus | acquisition racing release | no |
| Windows backend, media control, GUI, update check, paths | | operating system | mostly I/O and presentation | no |

What makes each correct, for the modelled ones, is the list of properties
below; the others are at the end. `PROJECT.json` lists every component and every
hazard with its line.

## The modules

    VolumeScheduler       the scheduler and its worker threads
      VolumeSchedulerProofs   theorems about it
      VolumeIntents         + the coordinator, the faders and the configuration
        VolumeIntentsProofs     theorems about it
        VolumeRefinement        VolumeIntents implements VolumeRegister
          VolumeRefinementProofs  the proof of it
    VolumeRegister        what the coordinator promises: a register per target
    SyncLink              the control connection as its two ends use it
      MixerAuthority        the receiver
      MixerFacade           the sender
        RemoteMixer           both, with users, network and restarts
          RemoteMixerProofs     theorems about it
    SyncTransport         the two TCP ends of that connection
      SyncControl           + their owner, the AppleMIDI session going up and down
                            implements SyncChannel
    SyncChannel           what the transport promises: sessions, and in each a
                          prefix of what was sent
    AppleMidi             the UDP session and the Control Changes in it
      AppleMidiProofs       theorems about it
    ProfileChannels       what is computed from lists of strips
      ProfileStore          configuration, strips in memory, profile files
        ProfileStoreProofs    theorems about it
    VSinks                the virtual sink of one channel
      VSinksProofs          a theorem about it
    MC*                   constants for TLC, where a cfg alone cannot give them

### Volume writes

A slot is one action: `SubmitWithContext`, `SchedReset`, `DiscardKey`, `Stop`,
`WarnStall`/`KeepWaiting`/`AbandonWorker` (the three outcomes of the stall
timer) and `OnCompleted`/`DropAbandoned` (the two of a completion) are the
methods of `LatestVolumeScheduler`; each includes the dispatch the method ends
with. `WorkerFinish` is the return of the blocking call in a worker thread,
whose `completed` signal is a posted event until the main thread takes it.
The code identifies a write by its object; a worker holds one write at a time,
so the worker is that identity in the model, and a worker name is reused when
its thread has ended.

`VolumeIntents` puts `VolumeIntentCoordinator` on top: `Submit`,
`ObserveExternal`, `Reset`, `OnWriteFinished`. A control key is the set of
channels that share a target; `Regroup` changes the grouping as the audio
manager does when outputs or streams come and go, without telling the
coordinator. The numbers of channels, volumes, writes and resets are bounded
(`MaxSequence`, `MaxGeneration`, `MaxRegroups`).

`VolumeRegister` says what users rely on: a wanted value per target is
committed, given up or replaced; the canonical value changes only by a commit of
the wanted value or by an external change. `VolumeRefinement` maps the detailed
state to it (`Wanted` is the latest intent, `canonical` the configuration).

### The remote mixer

The receiver owns the mixer. `content` abstracts it to the number of edits of
its own user, the last edit a command made, one volume, and whether remote
editing is allowed: the protocol tells nothing else apart, since edits differ
only in what the snapshot contains. Commands carry either a volume, which may be
coalesced and answered later, or `Edit`, which is any other of the some thirty
command types. Content hashes are modelled by the content itself.

`MixerAuthority` has one action per slot: a local change and its later capture,
the permission, a snapshot request answered at once (from its cache, anew, or
not at all over the rate limit), a command that is queued again as a posted event
and then refused, failed and rolled back, or applied. When the rollback of an edit
fails too, the refusal is sent all the same while its effect stays, and a later
capture publishes it (`FailEdit`). A failed volume leaves nothing: its rollback puts
the configuration back before it calls the audio server. A publication is a delta
only when nothing but volumes differs from what was published last.
`MixerFacade` follows `_apply_snapshot`, `_apply_delta`, `_apply_ack`,
`_apply_nack`, `expire_pending`, `_submit` and `begin_session`.
`SyncLink` loses everything on the way when a session breaks, and discards what
is sent for a session that is gone, as `hardware/midi.py` does. It also drops what
it queues while the outbound queue of the session is full (256 messages in the code):
a message from either end may be dropped whenever it is sent, any consecutive ones
of a turn that sends several, up to `MaxLost`. The end of a
session and the start of the next one are told to an end in one step, because
the second of those two calls undoes what the first left. A restart of the
receiver keeps the mixer and loses the revision, the queues and the session.

History, on which no step depends: `carried`, the revision
that published the effect of a command; the `seen` of an intent, how many of
the receiver's own edits the sender's mirror showed when its user acted; the `undone`
of a refusal, whether its rollback succeeded; and `lost`, how many messages
were dropped at a full queue, whether the newest publication of the session is one of
them, and which commands or answers to commands are.

### The control connection

`SyncTransport` has one record per end and one operator per method of
`_BaseTransport`, `TcpServerTransport` and `TcpClientTransport`; since one poll
flushes, reads, decodes, enforces its deadlines and may accept or connect,
`ServerPoll` and `ClientPoll` compose those operators into one step. Frames are
read whole, in portions of any size; a connection may end in an orderly way, in
an error, or silently stop carrying anything. The server has one connection at a
time, and turns away a client that comes before it has noticed the end of the
old one. Time passes in ticks of a heartbeat interval. `SyncControl` adds what
`RemoteMidiTransport` does with the two ends: it starts and closes them with the
AppleMIDI session, follows the advertised service, hands sessions and messages
on after each poll and sends only in the session the caller was told of.
`SyncChannel` says what is left of all this for the facade and the authority,
and the link of the remote mixer (`SyncLink`) is one that keeps its promise.

### The AppleMIDI session

`AppleMidi` follows `RemoteMidiTransport` at both ends. A handler maps a port, an
end and the datagrams it has sent by each socket, to a port; what is sent to the
ports of a receiver that is gone, or while the network is down, is not
`Carried`. `Receive` is one datagram of
`_drain_socket`, `Poll` the rest of `poll`. The network keeps the order of
datagrams unless a fault repeats, loses or overtakes one. DNS-SD is the queue of
changes that the receiver applies: a service is added, expires, and is announced
again when the sender re-advertises or the receiver browses again. Session
tokens and SSRCs, random 32-bit numbers, are small numbers that never repeat
while in use; the sequence number has 4 bits, its window 4 (16 bits and 0x4000
in the code: the same quarter of the range), and starts just before the wrap.
`accepted`, `handled` and `heard` are history.

### Profiles and configuration

`ProfileStore` has an action per operation of a user at either computer and of
the Arduino: switch, create, duplicate, delete, assign, mode switch, add and
remove strips, another number of strips. A handler computes what it writes
before its first write, so its writes are queued in `todo` and done one by one;
a write may fail, in which case the handler ends, goes on or is rolled back as
its `try` says, and the program may be killed between any two. A strip is its id,
its MIDI flag and one assignment. The operators on lists of strips
(normalization, reconciliation, partition by mode, the three kinds of save) are
in `ProfileChannels`, without a fold, so that they can be reasoned about:
normalizing is a recursive function, one strip after the other. `whole` is history:
since the profile was applied the strip counts agreed and no write failed. In USB mode
they agree when memory and file have the same strips and at least as many as are
shown; in the other modes, when they have exactly those shown. When the
Arduino's count makes the program apply a new profile, they must agree with the count
from before and with the one after it, because the profile is applied under the old.

### The virtual sink

`VSinks` is one channel with one application. The audio server keeps modules with
owner, target, source, and whether they are registered yet; a loopback whose
source is gone has none. Every operation runs on the GUI thread, so they do not
overlap, but an operation takes several calls and the server changes between
them: the steps of `reconcile_v_sinks` are `Recover`, `Recheck`, `Plan`, those of
`_enable_v_sink_locked` are `Refuse`, `Deduplicate`, `KeepSink`, `LoadSink`,
`SinkMissing`, `MonitorMissing`, `LinkSink`, `Verified`, `RouteRejected`, and
those of `_disable_v_sink_locked` are `Evacuate` and `UnloadHalves`. Whether a
pending module id is recent (`_SUBPROCESS_TIMEOUT`, five seconds) is a
nondeterministic choice. Around it: the listener thread that moves streams, the
poll of the default sink, the topology and retry timers, outputs that come and
go, a crash, and a second program that loads and unloads its own modules of the
same name, and dies.

## What is checked

| run | question | result |
|---|---|---|
| `volume_intents` | Do the queue's two views agree, is a wakeup ever lost, is every worker and every flight accounted for, and do the faders show what was last asked for? | holds |
| `volume_register` | Is the coordinator a register per target to its users? | holds |
| `volume_liveness` | Does every wanted volume settle although one call hangs for good? | holds |
| `volume_echo` | Does a superseded intent ever start? | it does (finding) |
| `volume_regroup` | Is the newer of two values always written last, across regrouping? | it is not (finding) |
| `remote_sync` | Does the mirror ever take old state for new, do answers tell the truth, is an edit ever lost without an answer, is a mirror in doubt ever without a request, whatever meets of reconnections, a restart, a changed permission, a rate limit, an early deadline, a failed rollback and a dropped message? | holds, but for what was dropped |
| `remote_liveness` | Do mirror and receiver agree in the end, on who may edit as well, after a reconnection, a restart, a changed permission, a local edit, a rate-limited request or a dropped message? | holds, unless the newest publication was dropped |
| `sync_control` | Does a message ever reach another session than its own, does a deadline fire on a working connection, does a dead one keep its place, do both ends meet again? | holds |
| `apple_midi` | Do both ends believe in the same session, is a Control Change lost, repeated or reordered, does the session come back? | holds |
| `profile_store` | Does the active profile exist, are profiles kept apart, is a strip or an assignment lost? | holds, while the counts agree |
| `v_sinks` | Is a loopback left without source, an application unheard, a foreign module taken, does the repair end? | holds |
| `remote_conflict` | Is an edit accepted from someone who had not seen a newer one? | it is (finding) |

The properties that say most:

* `LatestIsCarried`, `PendingIsLatest`: the newest intent of a target is queued
  or in flight, and nothing superseded waits. `FadersShowLatest` ties the three
  per-channel arrays to that.
* `NewestWrittenLastInGroup`: through coalescing, stalls, abandonment and
  retries, an older value never follows a newer one to the audio server.
* `MirrorIsCurrent`: whatever is on its way to a mirror that does not wait for a
  snapshot ends with what the receiver published last, and if nothing is, the
  mirror shows it, unless the newest publication found the outbound queue full.
  An older one that was dropped is noticed by the gap in the revisions.
* `AnswersAreTrue`, `InflightIsSomewhere`: an acknowledged effect was published
  by the named revision; a refused command has no effect, unless its rollback
  failed, and waits for no flush; and no command in flight disappears without a
  trace, unless it or its answer found a queue full.
* `EventuallyInSync`: the mirror shows the receiver's mixer in the end, or its
  newest publication was dropped; and no edit and no denial stays open, whatever
  was dropped, since each deadline asks for a snapshot.
* `ReadYourWrites`: the sender settles an edit only with a mirror that shows it.
* `ImplementsChannel`: whatever is queued, buffered or on the way when a
  connection breaks, no end hears a message of another session than the one it
  is in, and in each a prefix of what was sent. `Relinks`: after any fault both
  ends come to one session, unless the sending program was replaced by one of
  another version.
* `Agreement`, `InOrderOnce`, `NewestArrives`: believed sessions are the same
  one, and Control Changes are passed on in order and once across the wrap, all
  of them when nothing is lost. `Reconnects`: a half session left by a restart
  ends by itself and a missing service is found again.
* `StripsSurvive`, `AssignmentsAreSaved`, `ProfilesAreApart`: a strip leaves its
  file only because a user removed it, every strip in memory is on disk with its
  assignment between two handlers while the counts agree, and no strip gets into
  another profile's file.
* `LoopbacksHaveTheirSource`, `AppsAreHeard`: once the repair has come to rest, no
  loopback plays without its null sink (the server would connect it to some
  other source, perhaps a microphone) and an application in the sink is heard.
  `Settles`: it does come to rest, although its own changes trigger it.

### Findings

1. **A retried write overtakes an external change** (`volume_echo`).
   `observe_external` drops what waits for the key but cannot drop what is in
   flight; when that write stalls, `_recover_stalled_write` queues it again
   because the generation is the same and nothing of its key waits, so the value
   that the external change replaced is written after it. Its docstring promises
   that the external observation is the newest event "without write echo".
2. **Regrouping reorders values** (`volume_regroup`). Keys are computed at
   submission; after a change of the grouping two keys hold the same channel and
   the older value may be written last.
3. **The revision does not see an edit that is not captured yet**
   (`remote_conflict`). Local edits are published from a zero timer; a command
   that was posted before it runs finds its revision current and is applied over
   the newer edit. The same holds for an edit that waited in the facade's queue:
   its expected revision is the one the mirror has when it is sent.

### Bounds

* Volumes: two channels that are apart or share a target and change that once, two
  volumes, two workers of which one may be abandoned, one reset, up to three intents
  (two in the refinement). Coalescing needs two writes of one key beside one in flight;
  the retry races need one abandoned worker, a newer write and a late completion. All of
  these fit.
* Remote mixer, `remote_sync`: two sessions, one restart, one local edit, one
  change of the permission, one limited request, one dropped message, one early
  deadline, and two edits by the sender with `MaxPending` 2, which is one on the way
  and one queued. The two volumes are interchangeable and `remote_sync` uses that
  symmetry; `remote_liveness`, where symmetry is not allowed, begins with one of them
  (`FairFromOneVolume`). It has the same bounds, without the early deadline, with a
  volume moved at the receiver, whose capture is throttled, and with `MaxPending` 1, so
  that the sender's second edit may find its queue full.
  Any of these may happen in either run; `MaxDisturbances` bounds how many of
  them meet in one behaviour, as the CONSTRAINT `FewDisturbances`: three in
  `remote_sync`, two in `remote_liveness`, and two fewer when the sender makes its
  second edit. A constraint could hide a failure to make progress if it cut off the
  only way on. This one does not: what it counts are steps of the users,
  restarts and early deadlines (none in `remote_liveness`), none of which
  is fair, and drops and limited requests, beside which the same step has an outcome
  that is not counted.
* `sync_control`: two connection identities, three sessions, one message, one
  fault of any kind, queues and kernel buffers of two frames. A second
  connection while the first is still held, a frame left over in each of the
  queues, and a queue that overflows need no more. A tick is five seconds: the
  deadlines are one tick (handshake) and three (inactivity) with a heartbeat each
  tick, the code's 5, 15 and 5 seconds.
* `apple_midi`: two bindings, two Control Changes, one fault. Coalescing and
  overtaking need two Control Changes; each repair starts from one fault.
* `profile_store`: two profiles, one or two USB strips, four strips at most,
  six operations, one assignment, one crash or failed write. Every count
  disagreement below appears within four operations.
* `v_sinks`: two outputs, four modules, two events (of the user, the outputs or
  the second program) and one failure. The second program starts with nothing, a
  null sink or a pair. A null sink, a loopback, its replacement and one foreign
  module fit in four; with two failures the repair may give up, see below.
* The capacity of the outbound queue, 256, is not a constant of the remote mixer:
  any message may be the one that does not fit (`MaxLost`). How many are on the way
  is bounded by the bounds above.

TLC does not check deadlock in the remote mixer, whose users may stop, nor in
`profile_store` and `v_sinks`, which stand still when nobody does anything more
(in `profile_store`, when its number of operations is used up). In the volume
runs the end of the main loop is the action `Exited`. `sync_control` and
`apple_midi` check it: their clocks never stop.

### Fairness

* Volumes: the main loop takes posted completions and expired timers
  (`WF` on them), and a blocking call returns unless its worker is one of
  `Hung`. `TimelyNext` adds that a call that does not hang returns within the
  stall timeout: without it the code abandons and retries a slow backend for
  ever, and no intent would settle. That is an assumption on the backend, not on
  the scheduler.
* Remote mixer: weak fairness of the receiver's slots together, of the sender's
  slots together, and of the deadline timer. The deadline of what the facade
  awaits passes when nothing of it is under way (`Quiet`), and at most
  `MaxRetries` times while an answer may still come (in `remote_sync` only: an
  unbounded number of early deadlines would repeat the request for ever). The users,
  `Break`, `Connect` and the restart are not fair.
* Control connection: each end is polled again and again (the MIDI worker's
  loop), the clock runs, discovery delivers the advertised service, and the
  AppleMIDI session comes up again (`Reconnects` of `apple_midi`). A tick waits
  until both ends have done what there is to do; a delay beyond that is a fault.
* AppleMIDI: both ends are polled, datagrams that are not lost arrive, the clock
  runs and an outage of the network ends. Nothing else is fair.
* V-Sinks: the GUI thread goes on with an operation it has begun, and takes
  expired timers and the reports of the poll thread. The server's registration
  of modules, the listener, users, outputs and the second program are not fair.

## What is proved

Every theorem holds for any value of the constants that satisfies the named
assumptions of the module, and rests on an inductive invariant: a property as the
runs state it is seldom one.

| theorem | states | of |
|---|---|---|
| `SchedulerInvariant` | the invariant of the scheduler | `VolumeSchedulerProofs` |
| `QueueStaysConsistent`, `NoWakeupIsLost`, `WorkersAreAccounted`, `FlightIsWatched`, `AbandonedAreBounded` | `QueueConsistent`, `NoLostWakeup`, `WorkersAccounted`, `StallWatched`, `AbandonLimit` | " |
| `NothingStaleStarts` | `NoStaleStart` | " |
| `IntentsTypeCorrect`, `LatestStaysCarried`, `OnlyLatestWaits`, `FadersAreTrue` | `TypeOK`, `LatestIsCarried`, `PendingIsLatest`, `FadersShowLatest` | `VolumeIntentsProofs` |
| `NewestIsWrittenLast` | `NewestWrittenLastInGroup` | " |
| `CoordinatorSchedules`, `SchedulerHoldsItsPromises` | the coordinator is a user of the scheduler, and what is proved of it holds under the coordinator | " |
| `CoordinatorIsRegister` | the coordinator implements `VolumeRegister` | `VolumeRefinementProofs` |
| `RemoteTypeCorrect` | `TypeOK` | `RemoteMixerProofs` |
| `RepairIsRequested`, `NoChangeIsForgotten`, `PermissionIsCurrent` | `RequestIsOpen`, `ChangesAreCaptured`, `PermissionIsTold` | " |
| `MirrorFollows` | `MirrorIsCurrent` | " |
| `AnswersStayTrue`, `CommandsAreFollowed`, `OwnEditsAreSeen` | `AnswersAreTrue`, `InflightIsSomewhere`, `ReadYourWrites` | " |
| `SyncInvariant` | the invariant of the control connection | `SyncControlProofs` |
| `Implements` | `ImplementsChannel`: the connection implements `SyncChannel` | " |
| `NobodyIsStuck` | `NeverStuck` | " |
| `Bounds`, `Alarms` | `TypeOK`, `NoFalseAlarm` | " |
| `MidiInvariant` | the invariant of the AppleMIDI session | `AppleMidiProofs` |
| `MidiTypeCorrect`, `OrderIsKept` | `TypeOK`, `InOrderOnce` | " |
| `NewestDelivered` | `NewestArrives` | " |
| `ProfileAlwaysActive` | `ActiveProfileExists` | `ProfileStoreProofs` |
| `ProfilesStayApart` | `ProfilesAreApart` | " |
| `StoreTypeCorrect` | `TypeOK` | " |
| `AssignmentsReachTheFile`, `NoStripIsLost` | `AssignmentsAreSaved`, `StripsSurvive` | " |
| `ForeignModulesStay` | `ForeignUntouched` | `VSinksProofs` |

### Volume writes

For any set of keys, values and workers and any `max_abandoned_workers`, assuming
only one worker more than may be abandoned (`SchedulerAssumption`). `SchedInv` is
the conjunction of the types, the agreement of the queue's two views, the
accounting of the workers, the link between the write in flight and the job of the
current worker, and the limit. That a completion belongs to the write in flight
needs the job of the current worker; that a fresh worker exists when one is
abandoned needs the count of the abandoned ones. One lemma is about the dispatch
every slot ends with, for an arbitrary intermediate queue; one lemma per action
brings its intermediate queue to it. `NoStaleStart` is a property of steps: the
generation of what a dispatch takes out of the queue is checked there, and no
other step gives a worker its job.

The coordinator is proved for any channels, volumes and groupings, and any number
of intents, resets and changes of the grouping (`IntentAssumption`: keys are sets
of channels, a group is shared by its members). Its steps are steps of the
scheduler or leave it alone, so the scheduler's theorems are inherited, not proved
again. `IntentInv` adds to `SchedInv` where the intents are (`Flow`): an intent
that waits is the latest of its key, the latest waits or is in flight, and what
waits behind a write of its own key is newer. That last part is what makes the
code's comparison of sequence numbers sufficient (`LatestIsKnownByNumber`).
`RollbackKnown` says that a volume to go back to is there and is canonical, without
which a failed write could not keep the types. `Flow` is stated of given queue and
flight, so that each slot brings its intermediate queue to one lemma; a retry is
the one slot whose intermediate queue does not satisfy it, and its lemma shows that
the retried write leaves the queue at once. The refinement follows from the same
invariant, one lemma per kind of step that changes what is wanted.

### The remote mixer

For any volumes, any `MAX_PENDING_COMMANDS` and any number of sessions, edits,
restarts, limited requests and early deadlines, assuming the ranges of the
constants, and that `NoMirror` is no mixer and `NoIntent` no intent
(`RemoteAssumption`, `IntentAssumption`). Of the safety properties the module
states only `NoBlindOverwrite` is not proved: the program does not have it
(finding 3). Three invariants:

* `Typed`. `TypeOK` is not inductive, because a handler stores what a message
  carries: `Typed` also types everything on the way in both directions and the
  commands that wait at the receiver. The parts shared by handlers
  (`PublishSnapshot`, `Flush`, `RequestSnapshot`, `SendNext`, `Finish`) have a lemma
  each. `PermissionKnown` adds to `PermissionIsTold` that the capture is
  due also when there is no session, since the next one would otherwise begin
  with a change nobody publishes.
* `MirrorInv`. `MirrorIsCurrent` says nothing of a mirror that waits for a snapshot, but
  the snapshot will be applied on the strength of its revision alone. So the revisions
  on the way must never fall, belong to the receiver's epoch and end with what was
  published last, unless that was dropped (`Stream`), start where the mirror is, with a
  gap where one was dropped (`Shown`), and a session that ended must leave nothing on
  the way (`Sessions`). What a handler of the receiver sends is described once
  (`Posted`), however many messages it makes of it, and so is what the sender takes from
  the front.
* `AnswerInv`. The receiver keeps no list of the commands it has seen. The proof
  does: one number splits them into those done with, of which the history
  `carried` is right, and those on the way, in order (`Books`). What the sender
  holds for acknowledged is in effect (`Credited`). Answers waiting for a flush
  stand in the order of the sessions they are for, so that a flush drops those of
  lost sessions and no other (`Routed`). What the sender waits for is on the
  way, at the receiver, deferred, answered or among what was dropped (`Followed`).
  And a refused command has left nothing in the mixer or in what was published of it,
  unless its rollback failed, since no later edit has its number.

`ReadYourWrites` follows from `Credited`: an edit is settled only with a mirror of
at least the acknowledged revision.

### The control connection

For any number of connections, sessions, messages and faults, any queue limits,
windows and time limits (`TransportAssumption`, `ControlAssumption`, and
`PowerAssumption`, see below). The channel
speaks of what is handed on only, so the invariant has to say of every message
where it may still be: in the sender's queue, in the kernel's buffers, among the
frames a poll has read, in a connection nobody has accepted, or in one that an end
has left. `SyncInv` has four parts:

* `Types`: each end is consistent in itself; `NeverStuck` is a part of this.
* `Told`: the session an owner was told of is the one its end is in, or was in
  until it closed since the last poll; a session on offer is newer than all before.
* `Log`: what was heard in a session are its first messages, and nothing was
  said in a session to come.
* `Links`: a connection is in one of a few situations (the client greets, the
  server answers, both are in the session, one of them has left), and in a session
  the frames on the way and in the sender's queue carry just the messages that
  come next, once each (`Carries`).

A poll reads as many frames as it finds and answers some of them while it reads.
The proof takes them one at a time: reading is a recursive function on the number of
frames, proved to exist from `WellFoundedInduction`, and it keeps what every
frame keeps. That one is proved without the induction theorems that take an
operator: the set of the numbers for which it fails has a least element.

`Bounds` and `Alarms` are about time, and need a second invariant on top of
`SyncInv`, because a limit fires for what did *not* happen. `Watch` has three parts:

* `Sound`: each end keeps its limits; while the listener is the first one, nobody
  has refused anything or has anything of another listener in its queue; without a
  fault no deadline is running down, and an end in a session last heard of the
  other no longer ago than `HeartbeatInterval`.
* `Introduced`: while there was only one listener, no frame on any connection,
  those long given up included, names another.
* `Pulse`: without a fault, what one end has not heard for a number of ticks the
  other has not said for at least as many, unless something is on the way. A poll
  sends a ping before the heartbeat interval is exceeded, and no tick passes while a
  frame waits to be read, so the silence stays below the inactivity limit.

Time passes without a fault only when both ends are in the session or neither is
in any (`SettledEnds`); this is where `SyncInv` is needed. The delay between attempts is
a power of two. No installed prover knows of `^` that it yields a number, so this
is stated as `PowerAssumption`, a fact of arithmetic that constrains no constant
and that TLC evaluates in every run of the transport.

What the proof showed of the model: that `InactivityTimeout` and `ReconnectMax` are
numbers was not assumed anywhere; that a `CASE` whose guards overlap is only a
`CHOOSE` among its arms in TLA+, of which TLC happens to take the first, so that
the handlers of frames and datagrams are chains of `IF`, like the code; and that
`WrongVersion` has to tell a refused greeting from a refusing answer, whose version
is that of the server that sent it.

### The AppleMIDI session

For any bindings, tokens, restarts and network faults, any window and time limits
(`AppleMidiAssumption`). The receiver keeps nothing of a session but the last
number it heard, and numbers wrap around. `MidiInv` therefore says where numbers
come from: each sender, known by its SSRC, numbers its Control Changes
consecutively from a base of its own, and every Control Change that waits, is on
its way (from a sender that is gone, too) or was heard last carries
`Number(base, n)`, where `n` is its place among all of them (`Ordered`). What
the queue coalesces or drops leaves gaps in the places only: a replaced entry
takes its number with it, a refused one never gets any. That makes the order of
Control Changes the order of their numbers, up to the wrap. The rest of the
invariant, `IsEnd` and `Packet`, is what an end and a datagram are in
themselves; a handler of a datagram takes the datagram as it comes, however
late, so it needs nothing else of the network.

The wrap is where the property can fail: a datagram so late that its number falls
into the window of the next round is taken for a new one. `WindowAssumption`
excludes that: no more than `SequenceModulus - SequenceWindow` Control Changes are
made, 49152 in the code. The session has no other protection against it; the run
makes two, so that the wrap happens and the assumption holds. `PowerAssumption` is
arithmetic, as for the control connection.

`NewestDelivered` needs a second invariant, `Undisturbed`, of the time before the
first fault. It names the stages the ends go through: the sender is not found yet,
is called, has granted the control socket, is called again on the data socket, has
answered, and both have joined (`Stage`). In each the one datagram that is on the way
belongs to the session the receiver asks for, and before the ends have joined no time
passes, because something is always on its way. Once they have, `InTime` shows that
no time limit is reached: what either end has waited plus what the receiver still
waits before it synchronizes is at most `SyncInterval`, unless the datagram that
starts the wait again is on its way, and that arrives before the next tick. `Flowing`
says of the Control Changes that the newest of each binding was passed on, waits at
the sender or is on its way, that what waits is newer than what is on its way and
that newer than what was heard. There is one lemma for each way the row between
the ends can change (`FlowingJoined`, `FlowingTaken`, `FlowingPassed`,
`FlowingFlushed`, `FlowingQueued`).

The theorem has a hypothesis, `MaxCC <= SequenceWindow + 1`, which the run satisfies.
Coalesced entries use up numbers: if more than `SequenceWindow` (16384 in the code) of
them were replaced in the queue between two that are sent in one session, the receiver
would take the second for an old one and refuse it, and `NewestArrives` would not
hold. The queue is flushed at every poll, so a fader does not get there; the model
only counts Control Changes and therefore bounds how many there are.

To be reasoned about, the model applies discovery changes by a recursive function
instead of a fold, and removes a coalesced entry by its position, which is what
the code does.

### Profiles and V-Sinks

`ProfileAlwaysActive`, for any number of profiles, strips, operations, assignments
and failures (`ConstantsAssumption`). `ActiveProfileExists` alone is not inductive,
because a handler computes its writes first and does them one by one. `StoreInv`
says of the writes still to be done that each names a profile that exists, that
what is switched back to after a failed write exists, and that a deletion is the
last write of its handler and spares the profile that is active by then. It holds
across a crash between any two writes because it speaks of the files alone once the
queue is dropped.

`ProfilesStayApart`, from the same assumptions. What is written next may have been
computed several writes ago, and what is in memory may be shorter than the file,
longer, or of a profile applied and left again, so `ApartInv` asks the same of all of
them: of each file, of the list in memory, and of each list a write still carries (for
the profile `active` names by then). A strip there has an id that was drawn at random
and that no other file has, or one derived from its own profile. Each operator on
lists keeps that (`NormalizeFits`, `ReconcileFits`, `RebuildFits`, `RoutineSaveFits`,
`ResizeSaveFits`, `ResizeChannelsFits`, `EnsureFits`). Normalizing is a recursive
function; that it has a value, and what that value is made of, is shown by counting up
to the length of the list (`NormalizingStrips`). A repair slot is always found because
there are more slots for the position i, i + 1, than strips before it (`LegacyIdIsFree`,
by the pigeonhole principle). A new id must be unused in memory too and not only in
the files, or the next edit of an inactive profile could take an id that memory is
about to write.

`StoreTypeCorrect` has one part that is not about types: every strip of a file has an
id of its own. `Sound` asks it of the files and of the lists still to be written, but
not of memory, where a strip stands twice after a removal that did not reach the disk
was followed by a resize. It holds because every way to a file ends in a
normalization: a routine save takes a prefix of memory and normalizes it, a resize
normalizes what it joined, and a file is normalized when it is read (`Loaded`).
A normalization leaves no two strips with one id (`NormalizedIsDistinct`) and changes
nothing of a list without repetitions (`NormalizeKeeps`).

`AssignmentsReachTheFile` and `NoStripIsLost` rest on `HeldInv`, about the times the
counts agree (`whole`). `Held` relates memory to a list in a file: both have the same
strips, in any order, with the same assignments. Either the active file is held and
every write of it still to be done repeats what it contains (`Settled`), or one of the
writes is held, those before it repeat the file, nothing follows it, and it leaves out
only strips the user removed (`Coming`). `Placed` says that there are as many strips as
are shown, in USB mode at least as many, and that in the other modes the MIDI strips
stand behind the others; without it an assignment could pad memory beyond the file, and
removing MIDI strips would change the length memory and file have in common. Each
handler is shown to end in one of the two (`SwitchHolds`, `AssignHeld`, `ModeHeld`,
`AddMidiHeld`, `RemoveMidiHeld`, `CountHeld`, `ReplaceHeld`, `StartHeld`), and each
write to lead from one to the other (`FirstHolds`, `RestHolds`). A write that fails ends
`whole`, except one of config.json, which changes no file of a profile. The steps that
take strips out of a file are then a write of the active profile and the remote deletion
(`OperationLoses`, `WriteLoses`).

`ForeignModulesStay`, for any outputs, any number of modules, events and failures:
no operation takes a module of a connected second program but a loopback that lost
its null sink. Most of the code looks up the owner before it unloads, but it also
unloads the module ids it remembers from loading, without asking. `SinkInv` says
that a remembered id never names a module of the other program: the server gives
no id twice while it is in use or remembered, and a remembered id is only ever one
that was returned to this program.

### Only model-checked

* Liveness (`IntentsSettle`, `EventuallyInSync`, `Relinks`, `Reconnects`, `Settles`):
  fairness and `ENABLED` are out of this prover's reach.
* The AppleMIDI session: `Agreement` depends on the bound of the faults. With more
  of them than the run has, both ends could be led to different sessions, so there
  is nothing to prove for every number.
* `LoopbacksHaveTheirSource` and `AppsAreHeard`: they hold for one failure
  (`MaxFailures`), and not for two.

No module here declares a RECURSIVE operator.

## Where the code disagrees with its documents

Three disagreements are the findings above, each with its run. The models showed
more while they were being written; the properties of `profile_store` and
`v_sinks` hold because they say when they apply (`whole`, `MaxFailures = 1`), and
these are the cases they leave out. Lines are of the file named.

Profiles and configuration (`utils/config_manager.py` unless named):

* In `midi_only` mode, switching to a profile that was last saved in another mode
  gives fewer MIDI channels than strips (512-513); the next Add MIDI Channel cuts
  the list to that count (1149) and loses the rest. The project's README promises
  (line 17) that assignments are kept.
* In `hybrid` mode, with fewer USB strips reported than the profile has, the
  partition (244-255) hides strips, and the next change of mode or number of strips
  loses or doubles them; the comments at 823-827 and in
  `utils/profile_manager.py` 754-760 say that nothing is lost.
* When the hardware reports more strips than were stored, the strips in memory
  grow, but a routine save cuts to the stored count (`main.py` 1323-1345): what is
  assigned to the new ones is gone after a restart.
* The same in USB mode after a switch to a profile with fewer strips than the
  hardware: all the hardware's strips are shown, an assignment to one beyond the
  stored ones pads memory (`_channel`), and the routine save cuts it off.
* In `hybrid` mode with fewer stored USB strips than reported, a removed MIDI
  strip comes back.
* After a failed write of the profile, a shorter list in memory makes every
  routine save refuse until the program is restarted.

Remote mixer:

* When the newest publication is dropped because the outbound queue is full
  (`hardware/midi.py` 985-987), the mirror stays as it is, with no sign that it is
  behind, until the next publication, request or session. The authority is not told
  of the drop.
* When an edit fails and its rollback fails too (`remote_sync/authority.py`
  1011-1015), the sender is told that the edit was refused while all or part of its
  effect stays at the receiver. The next capture publishes it.

V-Sinks (`audio/manager.py`):

* A null sink that registers later than the wait of half a second is removed as an
  orphan by its own retry (5957, 6224). The retry creates another one, so the
  repair ends, unless registration is late three times and an unload fails too.
* `_seamless_move` (4582) unmutes every stream it has moved, also when the channel
  is muted; the module's docstring (48-52) says that muted streams stay muted.
* The listener reads a mute state, the main thread toggles it, the listener writes
  what it has read (771-780 against 5230-5345).
* The reflex mute of a new stream is forgotten when its details cannot be read
  (660-668), and a stream that appears between the first listing and the
  subscription is not muted at all.
* `panic_reset` leaves the remembered module ids; the orphan of a second program
  that died raises no event of its own.
* A recovery that fails twice leaves an orphan with nothing scheduled; a failed
  unload of an obsolete loopback is not repeated; while a second program has
  modules on the channel, our own pair with a vanished output is not repaired
  (6255-6262); with no output at all `Evacuate` gives up without a word.

## Not modelled

Of the components that are modelled in part:

* AppleMIDI session: the choice among several peers, a changed address of a
  discovered peer, the deferral of a poll after a Control Change was dispatched,
  errors of `sendto`.
* Control transport: framing and the parser of the frames (a frame is read whole).
* Mixer authority: what the thirty kinds of commands do to the configuration;
  they are `Edit`. A snapshot that cannot be built, and the rollback of a mute whose
  publication failed.
* Profiles: the id that an Add Channel command may carry (`remote_sync/authority.py`
  1597-1598): this program's own sender, `gui/mixer_facade.py` 1131, never names one, so
  the receiver always draws it. Visual order, cross-fader, volumes in profiles, damaged
  JSON, migrations, removal of one MIDI channel by position, edits not saved yet, reads
  that fail. A failed write at startup is a crash; a failed write in the repair after a
  change of hardware is left out.
* V-Sinks: the protection during a restart of the audio server (2723-2734,
  5693-5717), the master output and the loopbacks it moves (6905-6927), the pause
  of the routing for EasyEffects, the PipeWire-only and Flatpak variants, an id
  that cannot be parsed from the answer to a load, volumes and mutes, a failed
  connection, several channels (the code works on each by itself).

Left out altogether: the PortMIDI/ALSA side of the MIDI worker and its caches
of sent feedback, the audio server's side of a volume write (two connections,
blocking calls, `ScheduledWriter`), the Arduino protocol, the sleep inhibitor, the
Windows backend, the media players on the bus, process lookup and the file system
are mostly calls to other programs; the user interface is presentation; packaging
and update check have no state of interest.

## Plan

* The motor faders: feedback, its suppression while a fader is held, and the echo
  through `hardware/midi.py`, `main.py` and the authority's directive. One defect
  was seen while reading: a feedback message that a full queue of the remote output
  drops is not queued again, so the fader stays stale until the next change.
* The scheduled writer at the audio server, with the late effect of an abandoned
  worker.
* Several channels in `VSinks`, with streams that move between them; the sleep
  inhibitor; conversions between MIDI values and volumes.
