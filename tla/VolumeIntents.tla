---------------------------- MODULE VolumeIntents ----------------------------
(***************************************************************************)
(* VolumeIntentCoordinator of audio/volume_scheduler.py on top of its      *)
(* scheduler: it numbers the volume intents of the faders, remembers the   *)
(* latest of each control key, and makes a volume canonical (config) only  *)
(* when the write of the latest intent completes.                          *)
(*                                                                         *)
(* The control key of a channel is the set of channels that now share its  *)
(* target (get_effective_shared_target_channels of audio/manager.py); it   *)
(* changes whenever the default output or the running streams do.          *)
(***************************************************************************)
EXTENDS VolumeScheduler

CONSTANTS
  Channels, Volumes,
  NoVolume,           \* an entry _requested or _confirmed does not have
  Groupings,          \* ways the channels may be grouped by shared target
  MaxSequence,        \* bound of the model: intents in a run
  MaxRegroups,        \* bound of the model: changes of the grouping in a run
  Hung                \* workers whose blocking call need never return

VARIABLES
  sequence,           \* _sequence
  intentGeneration,   \* the coordinator's _generation
  latest,             \* _latest, NoIntent for a key it does not hold
  requested,          \* _requested
  confirmed,          \* _confirmed
  config,             \* the volumes of ConfigManager
  grouping,           \* the backend's present shared targets
  regroups            \* how often they changed

intentVars == <<sequence, intentGeneration, latest, requested, confirmed, config>>
vars == <<schedVars, intentVars, grouping, regroups>>

NoIntent == [sequence |-> 0]

Intent == [sequence : 1..MaxSequence, generation : 0..MaxGeneration,
           key : Keys, volume : Volumes]

(* The reapply of the crossfader gains is a write with a key of its own    *)
(* and no intent.                                                          *)
GainKey == {}
GainReapply == [sequence |-> -1]

ASSUME IntentAssumption ==
  /\ Keys = SUBSET Channels
  /\ Values = Intent \cup {GainReapply}
  /\ NoVolume \notin Volumes
  /\ MaxSequence \in Nat /\ MaxRegroups \in Nat
  /\ Hung \subseteq Workers
  /\ \A g \in Groupings :
       /\ g \in [Channels -> SUBSET Channels]
       /\ \A c \in Channels : c \in g[c] /\ \A d \in g[c] : g[d] = g[c]

TypeOK ==
  /\ SchedTypeOK
  /\ sequence \in 0..MaxSequence
  /\ intentGeneration \in 0..MaxGeneration
  /\ latest \in [Keys -> Intent \cup {NoIntent}]
  /\ requested \in [Channels -> Volumes \cup {NoVolume}]
  /\ confirmed \in [Channels -> Volumes \cup {NoVolume}]
  /\ config \in [Channels -> Volumes]
  /\ grouping \in Groupings
  /\ regroups \in 0..MaxRegroups

Init ==
  /\ SchedInit
  /\ sequence = 0
  /\ intentGeneration = 0
  /\ latest = [k \in Keys |-> NoIntent]
  /\ requested = [c \in Channels |-> NoVolume]
  /\ confirmed = [c \in Channels |-> NoVolume]
  /\ config \in [Channels -> Volumes]
  /\ grouping \in Groupings
  /\ regroups = 0

-----------------------------------------------------------------------------
Assign(f, k, v) == [c \in Channels |-> IF c \in k THEN v ELSE f[c]]

(* Mutant of Submit: the canonical volume is not remembered for a failure. *)
SubmitWithoutRollback(c, v) ==
  LET key == grouping[c]
      intent == [sequence |-> sequence + 1, generation |-> intentGeneration,
                 key |-> key, volume |-> v]
  IN  /\ sequence < MaxSequence
      /\ sequence' = sequence + 1
      /\ latest' = [latest EXCEPT ![key] = intent]
      /\ requested' = Assign(requested, key, v)
      /\ SubmitWithContext(key, intent)
      /\ UNCHANGED <<intentGeneration, confirmed, config, grouping, regroups>>

(* submit: a fader of channel c asks for volume v.                         *)
Submit(c, v) ==
  LET key == grouping[c]
      intent == [sequence |-> sequence + 1, generation |-> intentGeneration,
                 key |-> key, volume |-> v]
  IN  /\ sequence < MaxSequence
      /\ confirmed' = [d \in Channels |->
                         IF d \in key /\ confirmed[d] = NoVolume
                           THEN config[d] ELSE confirmed[d]]
      /\ sequence' = sequence + 1
      /\ latest' = [latest EXCEPT ![key] = intent]
      /\ requested' = Assign(requested, key, v)
      /\ SubmitWithContext(key, intent)
      /\ UNCHANGED <<intentGeneration, config, grouping, regroups>>

(* reapply_channel_gains: the crossfader moved.                            *)
ReapplyChannelGains ==
  /\ SubmitWithContext(GainKey, GainReapply)
  /\ UNCHANGED <<intentVars, grouping, regroups>>

(* Mutant of ObserveExternal: the superseded write stays in the queue.     *)
ObserveKeepingQueue(c, v) ==
  LET key == grouping[c]
  IN  /\ ~stopped
      /\ latest' = [latest EXCEPT ![key] = NoIntent]
      /\ confirmed' = Assign(confirmed, key, v)
      /\ requested' = Assign(requested, key, v)
      /\ config' = Assign(config, key, v)
      /\ UNCHANGED <<schedVars, sequence, intentGeneration, grouping, regroups>>

(* observe_external: the audio server, another mixer or a remote edit set  *)
(* channel c to v.                                                         *)
ObserveExternal(c, v) ==
  LET key == grouping[c]
  IN  /\ ~stopped
      /\ latest' = [latest EXCEPT ![key] = NoIntent]
      /\ IF latest[key] # NoIntent
           THEN DiscardKey(key)
           ELSE UNCHANGED <<generation, inflight, pending, order, abandoned, current,
                            timer, job>>
      /\ confirmed' = Assign(confirmed, key, v)
      /\ requested' = Assign(requested, key, v)
      /\ config' = Assign(config, key, v)
      /\ UNCHANGED <<stopped, sequence, intentGeneration, grouping, regroups>>

(* reset: settings, session or channel targets changed.                    *)
Reset ==
  /\ SchedReset
  /\ intentGeneration' = intentGeneration + 1
  /\ latest' = [k \in Keys |-> NoIntent]
  /\ requested' = [c \in Channels |-> NoVolume]
  /\ confirmed' = [c \in Channels |-> NoVolume]
  /\ UNCHANGED <<sequence, config, grouping, regroups>>

(* Mutant of IsLatest: the intents of a key are not told apart.            *)
IsAnyOfKey(intent) ==
  /\ intent # GainReapply
  /\ intent.generation = intentGeneration
  /\ latest[intent.key] # NoIntent

(* _on_write_finished: only the latest intent of its key, of the present   *)
(* generation, says anything about the volume.                             *)
IsLatest(intent) ==
  /\ intent # GainReapply
  /\ intent.generation = intentGeneration
  /\ latest[intent.key] # NoIntent
  /\ latest[intent.key].sequence = intent.sequence

(* Mutant of OnWriteFinished: a failed write leaves the fader where it is. *)
FinishWithoutRevert(intent, outcome) ==
  IF ~IsLatest(intent) \/ outcome = "failed"
    THEN /\ latest' = IF IsLatest(intent) THEN [latest EXCEPT ![intent.key] = NoIntent]
                                          ELSE latest
         /\ UNCHANGED <<sequence, intentGeneration, requested, confirmed, config>>
    ELSE /\ latest' = [latest EXCEPT ![intent.key] = NoIntent]
         /\ confirmed' = Assign(confirmed, intent.key, intent.volume)
         /\ requested' = Assign(requested, intent.key, intent.volume)
         /\ config' = Assign(config, intent.key, intent.volume)
         /\ UNCHANGED <<sequence, intentGeneration>>

OnWriteFinished(intent, outcome) ==
  IF ~IsLatest(intent)
    THEN UNCHANGED intentVars
    ELSE /\ latest' = [latest EXCEPT ![intent.key] = NoIntent]
         /\ LET settled == [c \in Channels |-> IF outcome = "ok" THEN intent.volume
                                                                  ELSE confirmed[c]]
            IN  /\ confirmed' = [c \in Channels |-> IF c \in intent.key THEN settled[c]
                                                                        ELSE confirmed[c]]
                /\ requested' = [c \in Channels |-> IF c \in intent.key THEN settled[c]
                                                                        ELSE requested[c]]
                /\ config' = [c \in Channels |-> IF c \in intent.key THEN settled[c]
                                                                     ELSE config[c]]
         /\ UNCHANGED <<sequence, intentGeneration>>

WriteCompleted(w) ==
  /\ OnCompleted(w)
  /\ OnWriteFinished(job[w].write.value, job[w].stage)
  /\ UNCHANGED <<grouping, regroups>>

SchedulerInternal ==
  /\ WorkerStep \/ StallStep
  /\ UNCHANGED <<intentVars, grouping, regroups>>

StopCoordinator ==
  /\ Stop
  /\ UNCHANGED <<intentVars, grouping, regroups>>

(* _replace_effective_output_inventory and the live streams: the targets   *)
(* of the channels change under the coordinator, which is not told.        *)
Regroup ==
  /\ regroups < MaxRegroups
  /\ regroups' = regroups + 1
  /\ grouping' \in Groupings \ {grouping}
  /\ UNCHANGED <<schedVars, intentVars>>

(* The main loop has ended; nothing but the blocked workers goes on.       *)
Exited ==
  /\ stopped
  /\ UNCHANGED vars

Next ==
  \/ \E c \in Channels, v \in Volumes : Submit(c, v)
  \/ ReapplyChannelGains
  \/ \E c \in Channels, v \in Volumes : ObserveExternal(c, v)
  \/ Reset
  \/ \E w \in Workers : WriteCompleted(w)
  \/ SchedulerInternal
  \/ StopCoordinator
  \/ Regroup
  \/ Exited

Spec == Init /\ [][Next]_vars

(* The event loop takes every posted completion and expired timer until it *)
(* is stopped; a blocking call returns unless it hangs for good.           *)
Fairness ==
  /\ \A w \in Workers :
       /\ WF_vars(WriteCompleted(w))
       /\ WF_vars(DropAbandoned(w) /\ UNCHANGED <<intentVars, grouping, regroups>>)
  /\ \A w \in Workers \ Hung :
       WF_vars(/\ \E outcome \in {"ok", "failed"} : WorkerFinish(w, outcome)
               /\ UNCHANGED <<intentVars, grouping, regroups>>)
  /\ WF_vars(StallStep /\ UNCHANGED <<intentVars, grouping, regroups>>)

(* A call that does not hang returns within the stall timeout, so no       *)
(* worker is given up but a hung one.  (A backend that always takes longer *)
(* is retried for ever.)                                                   *)
TimelyNext == Next /\ (current' # current => current \in Hung)

FairSpec == Init /\ [][TimelyNext]_vars /\ Fairness

-----------------------------------------------------------------------------
(* An intent recorded as the latest of its key is on its way: it waits in  *)
(* the scheduler's queue or is in flight with nothing newer behind it, so  *)
(* its completion will be taken.                                           *)
LatestIsCarried ==
  ~stopped => \A k \in Keys : latest[k] # NoIntent =>
    LET carrier == IF pending[k] # NoWrite THEN pending[k] ELSE inflight
    IN  carrier # NoWrite /\ carrier.value = latest[k]

(* Nothing waits that was superseded: an intent in the queue is the latest *)
(* one of its key, after external changes and resets too.                  *)
PendingIsLatest ==
  \A k \in Keys \ {GainKey} : pending[k] # NoWrite => pending[k].value = latest[k]

(* The faders show what was last asked for, and once nothing is asked for, *)
(* what is canonical: no stale completion or failure moves them, as long   *)
(* as the channels keep their groups.                                      *)
FadersShowLatest ==
  regroups = 0 => \A c \in Channels :
    LET intent == latest[grouping[c]]
    IN  IF intent # NoIntent THEN requested[c] = intent.volume
        ELSE requested[c] # NoVolume => /\ requested[c] = config[c]
                                        /\ confirmed[c] = config[c]

IsIntentWrite(write) == write # NoWrite /\ write.value # GainReapply

(* Of two intents for one channel the newer is written last.  The class    *)
(* comment of the scheduler promises it: writes are serialized and only    *)
(* each control's newest value is retained.                                *)
NewestWrittenLast ==
  [][ /\ IsIntentWrite(inflight) /\ IsIntentWrite(inflight')
      /\ inflight'.key \cap inflight.key # {}
      => inflight'.value.sequence >= inflight.value.sequence ]_vars

(* The same while no channel changes its group.                            *)
NewestWrittenLastInGroup ==
  [][ /\ regroups = 0
      /\ IsIntentWrite(inflight) /\ IsIntentWrite(inflight')
      /\ inflight'.key \cap inflight.key # {}
      => inflight'.value.sequence >= inflight.value.sequence ]_vars

(* observe_external promises that an external change is the newest event   *)
(* and is not answered by a write: an intent that starts on a worker is    *)
(* still the latest of its key.                                            *)
SupersededNeverStarts ==
  [][ \A w \in Workers :
        /\ job[w] = Idle /\ job'[w] # Idle
        /\ job'[w].write.value # GainReapply
        => latest'[job'[w].write.key] = job'[w].write.value ]_vars

(* A wanted value ends by being canonical or given up, if no more workers  *)
(* hang for good than may be abandoned.                                    *)
IntentsSettle ==
  \A k \in Keys : latest[k] # NoIntent ~> (latest[k] = NoIntent \/ stopped)
=============================================================================
