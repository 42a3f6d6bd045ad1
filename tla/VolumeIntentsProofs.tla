------------------------- MODULE VolumeIntentsProofs -------------------------
(***************************************************************************)
(* The invariants of the coordinator on top of those of its scheduler, for *)
(* any channels, volumes, groupings and numbers of intents, resets and     *)
(* changes of the grouping.                                                *)
(***************************************************************************)
EXTENDS VolumeIntents, VolumeSchedulerProofs

(* Flow: where the intents are, given the latest ones, the last number,    *)
(* the generation, the write in flight and the waiting ones.               *)
LatestKnown(lat, seq, g) ==
  \A k \in Keys : lat[k] # NoIntent =>
    /\ k # GainKey
    /\ lat[k].key = k /\ lat[k].sequence <= seq /\ lat[k].generation = g

QueuedIsLatest(lat, pend) ==
  \A k \in Keys : pend[k] # NoWrite =>
    IF k = GainKey THEN pend[k].value = GainReapply
    ELSE lat[k] # NoIntent /\ pend[k].value = lat[k]

FlightKnown(seq, infl) ==
  infl # NoWrite =>
    IF infl.key = GainKey THEN infl.value = GainReapply
    ELSE /\ infl.value \in Intent /\ infl.value.key = infl.key
         /\ infl.value.generation = infl.generation /\ infl.value.sequence <= seq

NewerWaits(infl, pend) ==
  infl # NoWrite /\ infl.key # GainKey /\ pend[infl.key] # NoWrite =>
    infl.value.sequence < pend[infl.key].value.sequence

Carried(lat, g, infl, pend) ==
  \A k \in Keys : lat[k] # NoIntent /\ pend[k] = NoWrite =>
    infl # NoWrite /\ infl.value = lat[k] /\ infl.generation = g

Flow(lat, seq, g, infl, pend) ==
  /\ LatestKnown(lat, seq, g)
  /\ QueuedIsLatest(lat, pend)
  /\ FlightKnown(seq, infl)
  /\ NewerWaits(infl, pend)
  /\ Carried(lat, g, infl, pend)

FlowInv == IF stopped THEN \A k \in Keys : pending[k] = NoWrite
           ELSE generation = intentGeneration /\ Flow(latest, sequence, generation, inflight, pending)

(* What a failed write goes back to is there and is canonical.             *)
RollbackKnown(lat, req, conf, conf0) ==
  /\ \A c \in Channels : conf[c] # NoVolume => conf[c] = conf0[c]
  /\ \A c \in Channels : req[c] # NoVolume => conf[c] # NoVolume
  /\ \A k \in Keys : lat[k] # NoIntent => \A c \in k : conf[c] # NoVolume

(* While no channel has changed its group, keys are groups.                *)
Group(k) == \E c \in Channels : grouping[c] = k

KeysAreGroups ==
  ~stopped /\ regroups = 0 =>
    /\ \A k \in Keys : latest[k] # NoIntent => Group(k)
    /\ IsIntentWrite(inflight) => Group(inflight.key)

IntentInv ==
  /\ SchedInv
  /\ TypeOK
  /\ FlowInv
  /\ RollbackKnown(latest, requested, confirmed, config)
  /\ FadersShowLatest
  /\ KeysAreGroups
-----------------------------------------------------------------------------
(* The marks for nothing are no intents.                                   *)
LEMMA MarksAreNoIntents == NoIntent \notin Intent /\ GainReapply \notin Intent
BY IntentAssumption DEF NoIntent, GainReapply, Intent

(* A group is a key, holds its channel, and is the group of each of its    *)
(* channels.                                                               *)
LEMMA GroupsAreKeys ==
  ASSUME grouping \in Groupings, NEW c \in Channels
  PROVE  /\ grouping[c] \in Keys /\ grouping[c] # GainKey /\ c \in grouping[c]
         /\ \A d \in grouping[c] : d \in Channels /\ grouping[d] = grouping[c]
BY IntentAssumption DEF GainKey

(* What _dispatch_next does to flight and queue.                           *)
TakesOff(pend, k) == inflight' = pend[k] /\ pending' = [pend EXCEPT ![k] = NoWrite]

Dispatched(infl, pend) ==
  \/ inflight' = infl /\ pending' = pend /\ (infl = NoWrite => \A k \in Keys : pend[k] = NoWrite)
  \/ infl = NoWrite /\ \E k \in Keys : pend[k] # NoWrite /\ TakesOff(pend, k)

LEMMA DispatchTakesFirst ==
  ASSUME NEW infl, NEW pend \in [Keys -> Write \cup {NoWrite}], NEW ord \in Seq(Keys),
         NEW w, NEW tmr, NEW jobs,
         QueueOK(pend, ord), DispatchNext(infl, pend, ord, w, tmr, jobs)
  PROVE  /\ Dispatched(infl, pend)
         /\ \A k \in Keys : infl = NoWrite /\ Len(ord) >= 1 /\ ord[1] = k =>
              TakesOff(pend, k)
<1>1. \A i \in 1..Len(ord) : ord[i] \in Keys /\ pend[ord[i]] # NoWrite /\ pend[ord[i]].generation = generation
  BY DEF QueueOK
<1>2. Dispatchable(pend, ord) = 1..Len(ord) /\ Len(ord) \in Nat
  BY <1>1 DEF Dispatchable
<1>3. CASE infl # NoWrite
  BY <1>3 DEF DispatchNext, Dispatched
<1>4. CASE infl = NoWrite /\ ord = <<>>
  <2>1. \A k \in Keys : pend[k] = NoWrite
    BY <1>4 DEF QueueOK
  <2>2. Len(ord) = 0 /\ Dispatchable(pend, ord) = {}
    BY <1>2, <1>4
  <2>3. inflight' = NoWrite /\ pending' = pend
    BY <1>4, <2>1, <2>2 DEF DispatchNext
  <2> QED BY <1>4, <2>1, <2>3 DEF Dispatched, TakesOff
<1>5. CASE infl = NoWrite /\ ord # <<>>
  <2>1. Len(ord) >= 1
    BY <1>2, <1>5, EmptySeq
  <2>2. PICK i \in 1..Len(ord) :
          /\ IsFirst(i, Dispatchable(pend, ord))
          /\ inflight' = pend[ord[i]]
          /\ pending' = [k \in Keys |-> IF \E j \in 1..i : ord[j] = k THEN NoWrite ELSE pend[k]]
    BY <1>2, <1>5, <2>1 DEF DispatchNext
  <2>3. i = 1
    BY <1>2, <2>1, <2>2 DEF IsFirst
  <2>4. pending' = [pend EXCEPT ![ord[1]] = NoWrite]
    <3>1. \A k \in Keys : (\E j \in 1..i : ord[j] = k) <=> k = ord[1]
      BY <2>3
    <3>2. pending' = [k \in Keys |-> IF k = ord[1] THEN NoWrite ELSE pend[k]]
      BY <2>2, <3>1
    <3> QED BY <3>2
  <2>5. ord[1] \in Keys /\ pend[ord[1]] # NoWrite
    BY <1>1, <2>1
  <2> QED BY <1>5, <2>2, <2>3, <2>4, <2>5 DEF Dispatched, TakesOff
<1> QED BY <1>3, <1>4, <1>5

(* Dispatching keeps the intents accounted for.                            *)
LEMMA DispatchKeepsFlow ==
  ASSUME NEW lat \in [Keys -> Intent \cup {NoIntent}], NEW seq, NEW g,
         NEW infl, NEW pend \in [Keys -> Write \cup {NoWrite}],
         \A k \in Keys : pend[k] # NoWrite => pend[k].key = k /\ pend[k].generation = g,
         Flow(lat, seq, g, infl, pend), Dispatched(infl, pend)
  PROVE  Flow(lat, seq, g, inflight', pending')
<1>1. CASE inflight' = infl /\ pending' = pend
  BY <1>1
<1>2. ASSUME NEW k \in Keys, infl = NoWrite, pend[k] # NoWrite, inflight' = pend[k],
             pending' = [pend EXCEPT ![k] = NoWrite]
      PROVE  Flow(lat, seq, g, inflight', pending')
  <2>1. /\ inflight' # NoWrite /\ inflight'.key = k /\ inflight'.generation = g
        /\ pending'[k] = NoWrite /\ \A x \in Keys : x # k => pending'[x] = pend[x]
    BY <1>2
  <2>2. LatestKnown(lat, seq, g)
    BY DEF Flow
  <2>3. QueuedIsLatest(lat, pending')
    BY <2>1 DEF Flow, QueuedIsLatest
  <2>4. IF k = GainKey THEN inflight'.value = GainReapply
        ELSE lat[k] # NoIntent /\ inflight'.value = lat[k]
    BY <1>2 DEF Flow, QueuedIsLatest
  <2>5. FlightKnown(seq, inflight')
    BY <2>1, <2>2, <2>4 DEF FlightKnown, LatestKnown
  <2>6. NewerWaits(inflight', pending')
    BY <2>1 DEF NewerWaits
  <2>7. ASSUME NEW x \in Keys, lat[x] # NoIntent, pending'[x] = NoWrite
        PROVE  inflight'.value = lat[x]
    <3>1. CASE x # k
      BY <1>2, <2>1, <2>7, <3>1 DEF Flow, Carried
    <3>2. CASE x = k
      BY <2>2, <2>4, <2>7, <3>2 DEF LatestKnown
    <3> QED BY <3>1, <3>2
  <2>8. Carried(lat, g, inflight', pending')
    BY <2>1, <2>7 DEF Carried
  <2> QED BY <2>2, <2>3, <2>5, <2>6, <2>8 DEF Flow
<1> QED BY <1>1, <1>2 DEF Dispatched, TakesOff

LEMMA SubmissionDispatches ==
  ASSUME SchedTypeOK, QueueConsistent, NEW k \in Keys, NEW v \in Values, SubmitWithContext(k, v)
  PROVE  LET pend == [pending EXCEPT ![k] = NewWrite(k, v)]
         IN  /\ Dispatched(inflight, pend)
             /\ pend \in [Keys -> Write \cup {NoWrite}]
             /\ \A x \in Keys : pend[x] # NoWrite => pend[x].key = x /\ pend[x].generation = generation
<1> DEFINE pend == [pending EXCEPT ![k] = NewWrite(k, v)]
           ord == Enqueued(k)
<1>1. pend \in [Keys -> Write \cup {NoWrite}] /\ ord \in Seq(Keys) /\ QueueOK(pend, ord)
  BY EnqueuedPreserves
<1>2. DispatchNext(inflight, pend, ord, current, timer, job)
  BY DEF SubmitWithContext
<1> HIDE DEF pend, ord
<1>3. Dispatched(inflight, pend)
  BY <1>1, <1>2, DispatchTakesFirst
<1>4. \A x \in Keys : pend[x] # NoWrite => pend[x].key = x /\ pend[x].generation = generation
  BY <1>1 DEF QueueOK
<1> QED BY <1>1, <1>3, <1>4 DEF pend

(* An intent of a fader.                                                   *)
LEMMA SubmitKeeps ==
  ASSUME IntentInv, NEW c \in Channels, NEW v \in Volumes, Submit(c, v)
  PROVE  IntentInv'
<1> DEFINE key == grouping[c]
           intent == [sequence |-> sequence + 1, generation |-> intentGeneration,
                      key |-> key, volume |-> v]
           new == NewWrite(key, intent)
           pend == [pending EXCEPT ![key] = new]
<1>0. TypeOK /\ SchedInv /\ SchedTypeOK /\ QueueConsistent /\ grouping \in Groupings
  BY DEF IntentInv, SchedInv, TypeOK
<1>1. /\ ~stopped /\ sequence < MaxSequence
      /\ sequence' = sequence + 1
      /\ confirmed' = [d \in Channels |-> IF d \in key /\ confirmed[d] = NoVolume
                                            THEN config[d] ELSE confirmed[d]]
      /\ latest' = [latest EXCEPT ![key] = intent]
      /\ requested' = Assign(requested, key, v)
      /\ SubmitWithContext(key, intent)
      /\ UNCHANGED <<intentGeneration, config, grouping, regroups, generation, stopped>>
  BY DEF Submit, SubmitWithContext
<1>2. /\ key \in Keys /\ key # GainKey /\ c \in key
      /\ \A d \in key : d \in Channels /\ grouping[d] = key
  BY <1>0, GroupsAreKeys
<1>3. intent \in Intent /\ intent # NoIntent /\ intent # GainReapply /\ intent \in Values
  <2>1. intent \in Intent
    BY <1>0, <1>1, <1>2, IntentAssumption DEF TypeOK, Intent
  <2> QED BY <2>1, MarksAreNoIntents, IntentAssumption
<1>4. /\ intent.sequence = sequence + 1 /\ intent.generation = intentGeneration
      /\ intent.key = key /\ intent.volume = v
  OBVIOUS
<1>5. new.key = key /\ new.value = intent /\ new.generation = generation /\ new # NoWrite
  <2>1. new \in Write
    BY <1>0, <1>2, <1>3 DEF NewWrite, Write, SchedTypeOK
  <2> QED BY <2>1, NoneIsNone DEF NewWrite
<1>6. /\ Dispatched(inflight, pend)
      /\ pend \in [Keys -> Write \cup {NoWrite}]
      /\ \A x \in Keys : pend[x] # NoWrite => pend[x].key = x /\ pend[x].generation = generation
  BY <1>0, <1>1, <1>2, <1>3, SubmissionDispatches
<1>7. \A x \in Keys : pend[x] = IF x = key THEN new ELSE pending[x]
  BY <1>0, <1>2 DEF SchedTypeOK
<1>8. SchedInv'
  BY <1>0, <1>1, <1>2, <1>3, SubmitInv
<1>9. \A x \in Keys : latest'[x] = IF x = key THEN intent ELSE latest[x]
  BY <1>0, <1>1, <1>2 DEF TypeOK
<1> HIDE DEF intent, new, pend, key
<1>10. TypeOK'
  <2>1. SchedTypeOK'
    BY <1>8 DEF SchedInv
  <2>2. sequence' \in 0..MaxSequence
    BY <1>0, <1>1, IntentAssumption DEF TypeOK
  <2>3. latest' \in [Keys -> Intent \cup {NoIntent}]
    BY <1>0, <1>1, <1>3 DEF TypeOK
  <2>4. requested' \in [Channels -> Volumes \cup {NoVolume}]
    BY <1>0, <1>1 DEF TypeOK, Assign
  <2>5. confirmed' \in [Channels -> Volumes \cup {NoVolume}]
    BY <1>0, <1>1 DEF TypeOK
  <2> QED BY <1>0, <1>1, <2>1, <2>2, <2>3, <2>4, <2>5 DEF TypeOK
<1>11. FlowInv'
  <2>1. generation = intentGeneration /\ Flow(latest, sequence, generation, inflight, pending)
    BY <1>1 DEF IntentInv, FlowInv
  <2>2. sequence \in Nat
    BY <1>0, IntentAssumption DEF TypeOK
  <2>3. LatestKnown(latest', sequence', generation)
    BY <1>1, <1>2, <1>4, <1>9, <2>1, <2>2, <1>0, MarksAreNoIntents DEF Flow, LatestKnown, TypeOK, Intent
  <2>4. QueuedIsLatest(latest', pend)
    BY <1>2, <1>3, <1>5, <1>7, <1>9, <2>1 DEF Flow, QueuedIsLatest
  <2>5. FlightKnown(sequence', inflight)
    <3>1. \A i \in Intent : i.sequence <= sequence => i.sequence <= sequence + 1
      BY <2>2 DEF Intent
    <3> QED BY <1>1, <2>1, <3>1 DEF Flow, FlightKnown
  <2>6. NewerWaits(inflight, pend)
    <3>1. CASE inflight # NoWrite /\ inflight.key = key
      <4>1. inflight.value \in Intent /\ inflight.value.sequence <= sequence
        BY <1>2, <2>1, <3>1 DEF Flow, FlightKnown
      <4>2. inflight.value.sequence < sequence + 1
        BY <4>1, <2>2 DEF Intent
      <4> QED BY <1>2, <1>4, <1>5, <1>7, <3>1, <4>2 DEF NewerWaits
    <3>2. CASE inflight # NoWrite /\ inflight.key # key
      <4>1. inflight.key \in Keys
        BY <1>0, <3>2 DEF SchedTypeOK, Write
      <4> QED BY <1>7, <2>1, <3>2, <4>1 DEF Flow, NewerWaits
    <3> QED BY <3>1, <3>2 DEF NewerWaits
  <2>7. Carried(latest', generation, inflight, pend)
    BY <1>5, <1>7, <1>9, <2>1 DEF Flow, Carried
  <2>8. Flow(latest', sequence', generation, inflight, pend)
    BY <2>3, <2>4, <2>5, <2>6, <2>7 DEF Flow
  <2>9. latest' \in [Keys -> Intent \cup {NoIntent}]
    BY <1>10 DEF TypeOK
  <2>10. Flow(latest', sequence', generation, inflight', pending')
    BY <1>6, <2>8, <2>9, DispatchKeepsFlow
  <2> QED BY <1>1, <2>1, <2>10 DEF FlowInv
<1>12. RollbackKnown(latest', requested', confirmed', config')
  <2>1. RollbackKnown(latest, requested, confirmed, config)
    BY DEF IntentInv
  <2>2. \A d \in Channels : config[d] \in Volumes /\ config[d] # NoVolume
    BY <1>0, IntentAssumption DEF TypeOK
  <2>3. \A d \in Channels : confirmed'[d] # NoVolume => confirmed'[d] = config'[d]
    BY <1>1, <2>1, <2>2 DEF RollbackKnown
  <2>4. \A d \in Channels : requested'[d] # NoVolume => confirmed'[d] # NoVolume
    BY <1>1, <2>1, <2>2 DEF RollbackKnown, Assign
  <2>5. ASSUME NEW k \in Keys, latest'[k] # NoIntent, NEW d \in k PROVE confirmed'[d] # NoVolume
    <3>1. d \in Channels
      BY IntentAssumption
    <3>2. k # key => confirmed[d] # NoVolume
      BY <1>9, <2>1, <2>5 DEF RollbackKnown
    <3> QED BY <1>1, <2>2, <3>1, <3>2
  <2> QED BY <2>3, <2>4, <2>5 DEF RollbackKnown
<1>13. FadersShowLatest'
  <2>1. SUFFICES ASSUME regroups = 0, NEW d \in Channels
                 PROVE  IF latest'[grouping[d]] # NoIntent
                          THEN requested'[d] = latest'[grouping[d]].volume
                          ELSE requested'[d] # NoVolume => requested'[d] = config'[d] /\ confirmed'[d] = config'[d]
    BY <1>1 DEF FadersShowLatest
  <2>2. CASE d \in key
    BY <1>1, <1>2, <1>3, <1>4, <1>9, <2>2 DEF Assign
  <2>3. CASE d \notin key
    <3>1. grouping[d] \in Keys /\ d \in grouping[d] /\ grouping[d] # key
      BY <1>0, <2>3, GroupsAreKeys
    <3>2. /\ latest'[grouping[d]] = latest[grouping[d]] /\ requested'[d] = requested[d]
          /\ confirmed'[d] = confirmed[d] /\ config'[d] = config[d]
      BY <1>1, <1>9, <2>3, <3>1 DEF Assign
    <3> QED BY <2>1, <3>2 DEF IntentInv, FadersShowLatest
  <2> QED BY <2>2, <2>3
<1>14. KeysAreGroups'
  <2>1. SUFFICES ASSUME regroups = 0
                 PROVE  /\ \A k \in Keys : latest'[k] # NoIntent => Group(k)
                        /\ IsIntentWrite(inflight') => Group(inflight'.key)
    BY <1>1 DEF KeysAreGroups, Group
  <2>2. Group(key)
    BY DEF Group, key
  <2>3. /\ \A k \in Keys : latest[k] # NoIntent => Group(k)
        /\ IsIntentWrite(inflight) => Group(inflight.key)
    BY <1>1, <2>1 DEF IntentInv, KeysAreGroups
  <2>4. \A k \in Keys : latest'[k] # NoIntent => Group(k)
    BY <1>9, <2>2, <2>3
  <2>5. ASSUME NEW k \in Keys, pend[k] # NoWrite, inflight' = pend[k], IsIntentWrite(inflight')
        PROVE  Group(inflight'.key)
    <3>1. k # GainKey => latest[k] # NoIntent \/ k = key
      BY <1>1, <1>7, <2>5 DEF IntentInv, FlowInv, Flow, QueuedIsLatest
    <3>2. k # GainKey
      BY <1>1, <1>2, <1>7, <2>5 DEF IntentInv, FlowInv, Flow, QueuedIsLatest, IsIntentWrite
    <3> QED BY <1>6, <2>2, <2>3, <2>5, <3>1, <3>2
  <2> QED BY <1>6, <2>3, <2>4, <2>5 DEF Dispatched, TakesOff
<1> QED BY <1>8, <1>10, <1>11, <1>12, <1>13, <1>14 DEF IntentInv

(* A step of the scheduler alone keeps what is about the faders.           *)
LEMMA SchedulerStepKeeps ==
  ASSUME IntentInv, SchedInv', FlowInv', UNCHANGED <<intentVars, grouping, regroups>>,
         stopped => stopped',
         ~stopped' /\ regroups = 0 /\ IsIntentWrite(inflight') => Group(inflight'.key)
  PROVE  IntentInv'
<1>1. TypeOK'
  BY DEF IntentInv, TypeOK, SchedInv, intentVars
<1>2. RollbackKnown(latest', requested', confirmed', config') /\ FadersShowLatest'
  BY DEF IntentInv, RollbackKnown, FadersShowLatest, intentVars
<1>3. KeysAreGroups'
  BY DEF IntentInv, KeysAreGroups, Group, intentVars, TypeOK, SchedTypeOK
<1> QED BY <1>1, <1>2, <1>3 DEF IntentInv

(* What may be dispatched has the key of a group.                          *)
LEMMA DispatchedIsGroup ==
  ASSUME NEW infl, NEW pend,
         \A k \in Keys : pend[k] # NoWrite => pend[k].key = k,
         QueuedIsLatest(latest, pend), Dispatched(infl, pend),
         \A k \in Keys : latest[k] # NoIntent => Group(k),
         IsIntentWrite(infl) => Group(infl.key),
         IsIntentWrite(inflight')
  PROVE  Group(inflight'.key)
<1>1. CASE inflight' = infl
  BY <1>1
<1>2. ASSUME NEW k \in Keys, pend[k] # NoWrite, inflight' = pend[k] PROVE Group(inflight'.key)
  BY <1>2 DEF QueuedIsLatest, IsIntentWrite
<1> QED BY <1>1, <1>2 DEF Dispatched, TakesOff

(* The gains of the crossfader.                                            *)
LEMMA ReapplyKeeps ==
  ASSUME IntentInv, ReapplyChannelGains
  PROVE  IntentInv'
<1> DEFINE new == NewWrite(GainKey, GainReapply)
           pend == [pending EXCEPT ![GainKey] = new]
<1>0. TypeOK /\ SchedInv /\ SchedTypeOK /\ QueueConsistent
  BY DEF IntentInv, SchedInv
<1>1. GainKey \in Keys /\ GainReapply \in Values
  BY IntentAssumption DEF GainKey
<1>2. /\ SubmitWithContext(GainKey, GainReapply) /\ UNCHANGED <<intentVars, grouping, regroups>>
      /\ ~stopped /\ UNCHANGED <<generation, stopped>>
  BY DEF ReapplyChannelGains, SubmitWithContext
<1>3. SchedInv'
  BY <1>0, <1>1, <1>2, SubmitInv
<1>4. /\ Dispatched(inflight, pend)
      /\ pend \in [Keys -> Write \cup {NoWrite}]
      /\ \A x \in Keys : pend[x] # NoWrite => pend[x].key = x /\ pend[x].generation = generation
  BY <1>0, <1>1, <1>2, SubmissionDispatches
<1>5. \A x \in Keys : pend[x] = IF x = GainKey THEN new ELSE pending[x]
  BY <1>0, <1>1 DEF SchedTypeOK
<1>6. new.value = GainReapply /\ new # NoWrite
  <2>1. new \in Write
    BY <1>0, <1>1 DEF NewWrite, Write, SchedTypeOK
  <2> QED BY <2>1, NoneIsNone DEF NewWrite
<1> HIDE DEF new, pend
<1>7. generation = intentGeneration /\ Flow(latest, sequence, generation, inflight, pending)
  BY <1>2 DEF IntentInv, FlowInv
<1>8. QueuedIsLatest(latest, pend)
  BY <1>5, <1>6, <1>7 DEF Flow, QueuedIsLatest
<1>9. NewerWaits(inflight, pend)
  <2>1. inflight # NoWrite => inflight.key \in Keys
    BY <1>0 DEF SchedTypeOK, Write
  <2> QED BY <1>5, <1>7, <2>1 DEF Flow, NewerWaits
<1>10. Carried(latest, generation, inflight, pend)
  BY <1>5, <1>6, <1>7 DEF Flow, Carried
<1>11. Flow(latest, sequence, generation, inflight', pending')
  <2>1. Flow(latest, sequence, generation, inflight, pend)
    BY <1>7, <1>8, <1>9, <1>10 DEF Flow
  <2>2. latest \in [Keys -> Intent \cup {NoIntent}]
    BY <1>0 DEF TypeOK
  <2> QED BY <1>4, <2>1, <2>2, DispatchKeepsFlow
<1>12. FlowInv'
  BY <1>2, <1>7, <1>11 DEF FlowInv, intentVars
<1>13. regroups = 0 /\ IsIntentWrite(inflight') => Group(inflight'.key)
  BY <1>2, <1>4, <1>8, DispatchedIsGroup DEF IntentInv, KeysAreGroups
<1> QED BY <1>2, <1>3, <1>12, <1>13, SchedulerStepKeeps

(* An outside change: it drops what waits and leaves what is in flight.    *)
LEMMA ObserveKeeps ==
  ASSUME IntentInv, NEW c \in Channels, NEW v \in Volumes, ObserveExternal(c, v)
  PROVE  IntentInv'
<1> DEFINE key == grouping[c]
<1>0. TypeOK /\ SchedInv /\ SchedTypeOK /\ grouping \in Groupings
  BY DEF IntentInv, SchedInv, TypeOK
<1>1. /\ ~stopped
      /\ latest' = [latest EXCEPT ![key] = NoIntent]
      /\ IF latest[key] # NoIntent THEN DiscardKey(key)
         ELSE UNCHANGED <<generation, inflight, pending, order, abandoned, current, timer, job>>
      /\ confirmed' = Assign(confirmed, key, v)
      /\ requested' = Assign(requested, key, v)
      /\ config' = Assign(config, key, v)
      /\ UNCHANGED <<stopped, sequence, intentGeneration, grouping, regroups>>
  BY DEF ObserveExternal
<1>2. /\ key \in Keys /\ key # GainKey /\ c \in key
      /\ \A d \in key : d \in Channels /\ grouping[d] = key
  BY <1>0, GroupsAreKeys
<1> HIDE DEF key
<1>3. generation = intentGeneration /\ Flow(latest, sequence, generation, inflight, pending)
  BY <1>1 DEF IntentInv, FlowInv
<1>4. /\ UNCHANGED <<generation, inflight>>
      /\ pending' = [pending EXCEPT ![key] = NoWrite]
  <2>1. CASE latest[key] # NoIntent
    BY <1>1, <2>1 DEF DiscardKey
  <2>2. CASE latest[key] = NoIntent
    <3>1. pending[key] = NoWrite
      BY <1>2, <1>3, <2>2 DEF Flow, QueuedIsLatest
    <3> QED BY <1>0, <1>1, <1>2, <2>2, <3>1 DEF SchedTypeOK
  <2> QED BY <2>1, <2>2
<1>5. SchedInv'
  <2>1. CASE latest[key] # NoIntent
    BY <1>0, <1>1, <1>2, <2>1, DiscardInv
  <2>2. CASE latest[key] = NoIntent
    <3>1. UNCHANGED schedVars
      BY <1>1, <2>2 DEF schedVars
    <3> QED BY <1>0, <3>1, NextInv
  <2> QED BY <2>1, <2>2
<1>6. \A x \in Keys : /\ latest'[x] = IF x = key THEN NoIntent ELSE latest[x]
                      /\ pending'[x] = IF x = key THEN NoWrite ELSE pending[x]
  BY <1>0, <1>1, <1>4 DEF TypeOK, SchedTypeOK
<1>7. TypeOK'
  BY <1>0, <1>1, <1>5 DEF TypeOK, SchedInv, Assign
<1>8. FlowInv'
  <2>1. LatestKnown(latest', sequence', generation')
    BY <1>1, <1>3, <1>4, <1>6 DEF Flow, LatestKnown
  <2>2. QueuedIsLatest(latest', pending')
    BY <1>3, <1>6 DEF Flow, QueuedIsLatest
  <2>3. FlightKnown(sequence', inflight')
    BY <1>1, <1>3, <1>4 DEF Flow, FlightKnown
  <2>4. NewerWaits(inflight', pending')
    <3>1. inflight # NoWrite => inflight.key \in Keys
      BY <1>0 DEF SchedTypeOK, Write
    <3> QED BY <1>3, <1>4, <1>6, <3>1 DEF Flow, NewerWaits
  <2>5. Carried(latest', generation', inflight', pending')
    BY <1>3, <1>4, <1>6 DEF Flow, Carried
  <2> QED BY <1>1, <1>3, <1>4, <2>1, <2>2, <2>3, <2>4, <2>5 DEF FlowInv, Flow
<1>9. RollbackKnown(latest', requested', confirmed', config')
  <2>1. RollbackKnown(latest, requested, confirmed, config)
    BY DEF IntentInv
  <2>2. v # NoVolume
    BY IntentAssumption
  <2>3. ASSUME NEW k \in Keys, latest'[k] # NoIntent, NEW d \in k PROVE confirmed'[d] # NoVolume
    <3>1. d \in Channels
      BY IntentAssumption
    <3>2. confirmed[d] # NoVolume
      BY <1>6, <2>1, <2>3 DEF RollbackKnown
    <3> QED BY <1>1, <2>2, <3>1, <3>2 DEF Assign
  <2>4. \A d \in Channels : confirmed'[d] # NoVolume => confirmed'[d] = config'[d]
    BY <1>1, <2>1 DEF RollbackKnown, Assign
  <2>5. \A d \in Channels : requested'[d] # NoVolume => confirmed'[d] # NoVolume
    BY <1>1, <2>1, <2>2 DEF RollbackKnown, Assign
  <2> QED BY <2>3, <2>4, <2>5 DEF RollbackKnown
<1>10. FadersShowLatest'
  <2>1. SUFFICES ASSUME regroups = 0, NEW d \in Channels
                 PROVE  IF latest'[grouping[d]] # NoIntent
                          THEN requested'[d] = latest'[grouping[d]].volume
                          ELSE requested'[d] # NoVolume => requested'[d] = config'[d] /\ confirmed'[d] = config'[d]
    BY <1>1 DEF FadersShowLatest
  <2>2. CASE d \in key
    BY <1>1, <1>2, <1>6, <2>2 DEF Assign
  <2>3. CASE d \notin key
    <3>1. grouping[d] \in Keys /\ grouping[d] # key
      BY <1>0, <2>3, GroupsAreKeys
    <3>2. /\ latest'[grouping[d]] = latest[grouping[d]] /\ requested'[d] = requested[d]
          /\ confirmed'[d] = confirmed[d] /\ config'[d] = config[d]
      BY <1>1, <1>6, <2>3, <3>1 DEF Assign
    <3> QED BY <2>1, <3>2 DEF IntentInv, FadersShowLatest
  <2> QED BY <2>2, <2>3
<1>11. KeysAreGroups'
  BY <1>1, <1>4, <1>6 DEF IntentInv, KeysAreGroups, Group
<1> QED BY <1>5, <1>7, <1>8, <1>9, <1>10, <1>11 DEF IntentInv

(* A reset forgets what is wanted; what is in flight is then of an older   *)
(* generation.  After a stop nothing waits and nothing is dispatched.      *)
LEMMA ResetKeeps ==
  ASSUME IntentInv, Reset
  PROVE  IntentInv'
<1>0. TypeOK /\ SchedInv /\ SchedTypeOK
  BY DEF IntentInv, SchedInv
<1>1. /\ ~stopped /\ ~stopped' /\ generation < MaxGeneration
      /\ generation' = generation + 1 /\ intentGeneration' = intentGeneration + 1
      /\ pending' = [k \in Keys |-> NoWrite]
      /\ latest' = [k \in Keys |-> NoIntent]
      /\ requested' = [c \in Channels |-> NoVolume]
      /\ confirmed' = [c \in Channels |-> NoVolume]
      /\ UNCHANGED <<inflight, sequence, config, grouping, regroups>>
  BY DEF Reset, SchedReset, ClearQueue
<1>2. SchedInv'
  BY <1>0, ClearInv DEF Reset
<1>3. generation = intentGeneration /\ Flow(latest, sequence, generation, inflight, pending)
  BY <1>1 DEF IntentInv, FlowInv
<1>4. TypeOK'
  <2>1. intentGeneration' \in 0..MaxGeneration
    BY <1>0, <1>1, <1>3, SchedulerAssumption DEF TypeOK
  <2> QED BY <1>0, <1>1, <1>2, <2>1 DEF TypeOK, SchedInv
<1>5. FlowInv'
  <2>1. LatestKnown(latest', sequence', generation') /\ Carried(latest', generation', inflight', pending')
    BY <1>1 DEF LatestKnown, Carried
  <2>2. QueuedIsLatest(latest', pending')
    BY <1>1 DEF QueuedIsLatest
  <2>3. FlightKnown(sequence', inflight')
    BY <1>1, <1>3 DEF Flow, FlightKnown
  <2>4. NewerWaits(inflight', pending')
    <3>1. inflight # NoWrite => inflight.key \in Keys
      BY <1>0 DEF SchedTypeOK, Write
    <3> QED BY <1>1, <3>1 DEF NewerWaits
  <2> QED BY <1>1, <1>3, <2>1, <2>2, <2>3, <2>4 DEF FlowInv, Flow
<1>6. RollbackKnown(latest', requested', confirmed', config')
  BY <1>1 DEF RollbackKnown
<1>7. FadersShowLatest'
  <2>1. SUFFICES ASSUME NEW c \in Channels
                 PROVE  latest'[grouping'[c]] = NoIntent /\ requested'[c] = NoVolume
    BY DEF FadersShowLatest
  <2> QED BY <1>0, <1>1, GroupsAreKeys DEF TypeOK
<1>8. KeysAreGroups'
  BY <1>1 DEF IntentInv, KeysAreGroups, Group
<1> QED BY <1>2, <1>4, <1>5, <1>6, <1>7, <1>8 DEF IntentInv

LEMMA StopKeeps ==
  ASSUME IntentInv, StopCoordinator
  PROVE  IntentInv'
<1>1. stopped' /\ pending' = [k \in Keys |-> NoWrite] /\ UNCHANGED <<intentVars, grouping, regroups>>
  BY DEF StopCoordinator, Stop, ClearQueue
<1>2. SchedInv'
  BY ClearInv DEF IntentInv, StopCoordinator
<1>3. FlowInv'
  BY <1>1 DEF FlowInv
<1> QED BY <1>1, <1>2, <1>3, SchedulerStepKeeps

LEMMA RegroupKeeps ==
  ASSUME IntentInv, Regroup
  PROVE  IntentInv'
<1>1. /\ UNCHANGED <<schedVars, intentVars>> /\ regroups' = regroups + 1
      /\ regroups < MaxRegroups /\ grouping' \in Groupings
  BY DEF Regroup
<1>2. regroups \in Nat /\ regroups' # 0 /\ regroups' \in 0..MaxRegroups
  BY <1>1, IntentAssumption DEF IntentInv, TypeOK
<1>3. SchedInv'
  BY <1>1, NextInv DEF IntentInv
<1>4. TypeOK'
  BY <1>1, <1>2, <1>3 DEF IntentInv, TypeOK, SchedInv, intentVars
<1>5. FlowInv'
  BY <1>1 DEF IntentInv, FlowInv, schedVars, intentVars
<1>6. RollbackKnown(latest', requested', confirmed', config')
  BY <1>1 DEF IntentInv, intentVars
<1>7. FadersShowLatest' /\ KeysAreGroups'
  BY <1>2 DEF FadersShowLatest, KeysAreGroups
<1> QED BY <1>3, <1>4, <1>5, <1>6, <1>7 DEF IntentInv

(* Giving a worker up: its write goes on at the head of the queue, or a    *)
(* newer one of its key waits, or it is of an older generation.            *)
LEMMA AbandonKeeps ==
  ASSUME IntentInv, AbandonWorker, UNCHANGED <<intentVars, grouping, regroups>>
  PROVE  IntentInv' /\ (RetryWanted => UNCHANGED <<inflight, pending>>)
                    /\ (~RetryWanted => Dispatched(NoWrite, pending))
<1> DEFINE key == inflight.key
           pend == IF RetryWanted THEN [pending EXCEPT ![key] = inflight] ELSE pending
           ord == IF RetryWanted THEN <<key>> \o order ELSE order
<1>0. TypeOK /\ SchedInv /\ SchedTypeOK /\ QueueConsistent
  BY DEF IntentInv, SchedInv
<1>1. /\ inflight # NoWrite /\ ~stopped /\ UNCHANGED <<generation, stopped>>
      /\ \E w \in Workers : DispatchNext(NoWrite, pend, ord, w, "off", job)
  BY DEF AbandonWorker, StallElapsed
<1>2. inflight \in Write /\ key \in Keys
  BY <1>0, <1>1 DEF SchedTypeOK, Write
<1>3. pend \in [Keys -> Write \cup {NoWrite}] /\ ord \in Seq(Keys) /\ QueueOK(pend, ord)
  BY <1>0, <1>1, <1>2, RetryPreserves DEF SchedTypeOK, QueueConsistent
<1>4. SchedInv'
  BY <1>0, AbandonInv
<1>5. generation = intentGeneration /\ Flow(latest, sequence, generation, inflight, pending)
  BY <1>1 DEF IntentInv, FlowInv
<1>6. CASE RetryWanted
  <2>1. ord = <<key>> \o order /\ pend = [pending EXCEPT ![key] = inflight]
    BY <1>6
  <2>2. Len(ord) >= 1 /\ ord[1] = key
    <3>1. order \in Seq(Keys) /\ <<key>> \in Seq(Keys) /\ Len(<<key>>) = 1 /\ <<key>>[1] = key
      BY <1>0, <1>2 DEF SchedTypeOK
    <3>2. Len(order) \in Nat
      BY <3>1
    <3>3. /\ Len(<<key>> \o order) = 1 + Len(order)
          /\ \A i \in 1..1 + Len(order) : (<<key>> \o order)[i] = IF i <= 1 THEN <<key>>[i] ELSE order[i - 1]
      BY <3>1, ConcatProperties
    <3>4. 1 \in 1..1 + Len(order) /\ 1 + Len(order) >= 1
      BY <3>2
    <3> QED BY <2>1, <3>1, <3>3, <3>4
  <2>3. TakesOff(pend, key)
    <3> HIDE DEF pend, ord, key
    <3>1. PICK w \in Workers : DispatchNext(NoWrite, pend, ord, w, "off", job)
      BY <1>1
    <3> QED BY <1>2, <1>3, <2>2, <3>1, DispatchTakesFirst
  <2>4. pending[key] = NoWrite
    BY <1>6 DEF RetryWanted
  <2>5. inflight' = inflight /\ pending' = pending
    BY <1>0, <1>2, <2>1, <2>3, <2>4 DEF SchedTypeOK, TakesOff
  <2>6. FlowInv'
    BY <1>1, <1>5, <2>5 DEF FlowInv, intentVars
  <2>7. ~stopped' /\ regroups = 0 /\ IsIntentWrite(inflight') => Group(inflight'.key)
    BY <2>5, <1>1 DEF IntentInv, KeysAreGroups
  <2> QED BY <1>1, <1>4, <1>6, <2>5, <2>6, <2>7, SchedulerStepKeeps
<1>7. CASE ~RetryWanted
  <2>1. pend = pending /\ ord = order
    BY <1>7
  <2> HIDE DEF pend, ord, key
  <2>2. Dispatched(NoWrite, pending)
    BY <1>1, <1>3, <2>1, DispatchTakesFirst
  <2>3. Carried(latest, generation, NoWrite, pending)
    <3>1. SUFFICES ASSUME NEW k \in Keys, latest[k] # NoIntent, pending[k] = NoWrite PROVE FALSE
      BY DEF Carried
    <3>2. inflight.value = latest[k] /\ inflight.generation = generation
      BY <1>5, <3>1 DEF Flow, Carried
    <3>3. latest[k] \in Intent /\ latest[k].key = k
      BY <1>0, <1>5, <3>1 DEF Flow, LatestKnown, TypeOK
    <3>4. inflight.key = k
      BY <1>1, <1>5, <3>2, <3>3, MarksAreNoIntents DEF Flow, FlightKnown
    <3> QED BY <1>7, <3>1, <3>2, <3>4 DEF RetryWanted
  <2>4. Flow(latest, sequence, generation, NoWrite, pending)
    BY <1>5, <2>3 DEF Flow, FlightKnown, NewerWaits
  <2>5. /\ pending \in [Keys -> Write \cup {NoWrite}] /\ latest \in [Keys -> Intent \cup {NoIntent}]
        /\ \A k \in Keys : pending[k] # NoWrite => pending[k].key = k /\ pending[k].generation = generation
    BY <1>0 DEF SchedTypeOK, TypeOK, QueueConsistent, QueueOK
  <2>6. Flow(latest, sequence, generation, inflight', pending')
    BY <2>2, <2>4, <2>5, DispatchKeepsFlow
  <2>7. FlowInv'
    BY <1>1, <1>5, <2>6 DEF FlowInv, intentVars
  <2>8. ~stopped' /\ regroups = 0 /\ IsIntentWrite(inflight') => Group(inflight'.key)
    <3>1. QueuedIsLatest(latest, pending) /\ ~IsIntentWrite(NoWrite)
      BY <1>5 DEF Flow, IsIntentWrite
    <3> QED BY <1>1, <2>2, <2>5, <3>1, DispatchedIsGroup DEF IntentInv, KeysAreGroups
  <2> QED BY <1>1, <1>4, <1>7, <2>2, <2>7, <2>8, SchedulerStepKeeps
<1> QED BY <1>6, <1>7

LEMMA InternalKeeps ==
  ASSUME IntentInv, SchedulerInternal
  PROVE  IntentInv'
<1>1. UNCHANGED <<intentVars, grouping, regroups>> /\ SchedInv
  BY DEF SchedulerInternal, IntentInv
<1>2. CASE AbandonWorker
  BY <1>1, <1>2, AbandonKeeps
<1>3. CASE WorkerStep \/ WarnStall \/ KeepWaiting
  <2>1. UNCHANGED <<generation, inflight, pending, stopped>>
    BY <1>3 DEF WorkerStep, WorkerFinish, DropAbandoned, WarnStall, KeepWaiting
  <2>2. SchedInv'
    BY <1>1, <1>3, WorkerFinishInv, DropAbandonedInv, WaitInv DEF WorkerStep
  <2>3. FlowInv'
    BY <1>1, <2>1 DEF IntentInv, FlowInv, intentVars
  <2>4. ~stopped' /\ regroups = 0 /\ IsIntentWrite(inflight') => Group(inflight'.key)
    BY <2>1 DEF IntentInv, KeysAreGroups
  <2> QED BY <1>1, <2>1, <2>2, <2>3, <2>4, SchedulerStepKeeps
<1> QED BY <1>2, <1>3 DEF SchedulerInternal, StallStep

(* Sequence numbers suffice to recognize the latest intent, and then       *)
(* nothing newer of its key waits.                                         *)
LEMMA LatestIsKnownByNumber ==
  ASSUME IntentInv, ~stopped, inflight # NoWrite, IsLatest(inflight.value)
  PROVE  LET k == inflight.value.key
         IN  /\ k \in Keys /\ inflight.value = latest[k] /\ latest[k] # NoIntent
             /\ latest[k] \in Intent /\ pending[k] = NoWrite
<1> DEFINE k == inflight.value.key
<1>0. TypeOK /\ SchedTypeOK
  BY DEF IntentInv, SchedInv
<1>1. generation = intentGeneration /\ Flow(latest, sequence, generation, inflight, pending)
  BY DEF IntentInv, FlowInv
<1>2. /\ inflight.value # GainReapply /\ latest[k] # NoIntent
      /\ latest[k].sequence = inflight.value.sequence
  BY DEF IsLatest
<1>3. inflight.key \in Keys /\ inflight.key # GainKey /\ inflight.value.key = inflight.key
  BY <1>0, <1>1, <1>2 DEF Flow, FlightKnown, SchedTypeOK, Write
<1>4. latest[k] \in Intent /\ k \in Keys
  BY <1>0, <1>2, <1>3 DEF TypeOK
<1>5. pending[k] = NoWrite
  <2>1. SUFFICES ASSUME pending[k] # NoWrite PROVE FALSE
    OBVIOUS
  <2>2. inflight.value.sequence < pending[k].value.sequence
    BY <1>1, <1>3, <2>1 DEF Flow, NewerWaits
  <2>3. pending[k].value = latest[k]
    BY <1>1, <1>3, <1>4, <2>1 DEF Flow, QueuedIsLatest
  <2>4. latest[k].sequence \in Int
    BY <1>4, IntentAssumption DEF Intent
  <2> QED BY <1>2, <2>2, <2>3, <2>4
<1>6. inflight.value = latest[k]
  BY <1>1, <1>2, <1>4, <1>5 DEF Flow, Carried
<1> QED BY <1>2, <1>4, <1>5, <1>6

(* The completion of the write in flight frees the worker for the queue.   *)
LEMMA CompletionDispatches ==
  ASSUME IntentInv, NEW w \in Workers, WriteCompleted(w)
  PROVE  /\ ~stopped /\ UNCHANGED <<generation, stopped, grouping, regroups, sequence, intentGeneration>>
         /\ inflight # NoWrite /\ OnWriteFinished(inflight.value, job[w].stage)
         /\ job[w].stage \in {"ok", "failed"}
         /\ Dispatched(NoWrite, pending)
<1>0. SchedInv /\ SchedTypeOK
  BY DEF IntentInv, SchedInv
<1>1. OnCompleted(w) /\ OnWriteFinished(job[w].write.value, job[w].stage) /\ UNCHANGED <<grouping, regroups>>
  BY DEF WriteCompleted
<1>2. w = current /\ inflight # NoWrite /\ job[w].write = inflight
  BY <1>0, <1>1, CompletionIsLive DEF OnCompleted
<1>3. /\ DispatchNext(NoWrite, pending, order, current, "off", [job EXCEPT ![w] = Idle])
      /\ ~stopped /\ UNCHANGED <<generation, stopped>> /\ Finished(w)
  BY <1>1, <1>2 DEF OnCompleted
<1>4. /\ pending \in [Keys -> Write \cup {NoWrite}] /\ order \in Seq(Keys) /\ QueueOK(pending, order)
  BY <1>0 DEF SchedInv, SchedTypeOK, QueueConsistent
<1>5. Dispatched(NoWrite, pending)
  BY <1>3, <1>4, DispatchTakesFirst
<1>6. job[w].stage \in {"ok", "failed"}
  BY <1>0, <1>3 DEF Finished, SchedTypeOK, Job
<1>7. UNCHANGED <<sequence, intentGeneration>>
  BY <1>1 DEF OnWriteFinished, intentVars
<1> QED BY <1>1, <1>2, <1>3, <1>5, <1>6, <1>7

LEMMA CompletionKeeps ==
  ASSUME IntentInv, NEW w \in Workers, WriteCompleted(w)
  PROVE  IntentInv'
<1> DEFINE intent == inflight.value
           key == intent.key
<1>0. TypeOK /\ SchedInv /\ SchedTypeOK /\ QueueConsistent /\ grouping \in Groupings
  BY DEF IntentInv, SchedInv, TypeOK
<1>1. /\ ~stopped /\ UNCHANGED <<generation, stopped, grouping, regroups, sequence, intentGeneration>>
      /\ inflight # NoWrite /\ OnWriteFinished(intent, job[w].stage)
      /\ job[w].stage \in {"ok", "failed"}
      /\ Dispatched(NoWrite, pending)
  BY CompletionDispatches
<1>2. generation = intentGeneration /\ Flow(latest, sequence, generation, inflight, pending)
  BY <1>1 DEF IntentInv, FlowInv
<1>3. SchedInv'
  BY <1>0, CompletedInv DEF WriteCompleted
<1>4. /\ pending \in [Keys -> Write \cup {NoWrite}]
      /\ \A k \in Keys : pending[k] # NoWrite => pending[k].key = k /\ pending[k].generation = generation
  BY <1>0 DEF SchedTypeOK, QueueConsistent, QueueOK
<1>5. ~IsIntentWrite(NoWrite)
  BY DEF IsIntentWrite
<1> HIDE DEF intent, key
<1>6. CASE ~IsLatest(intent)
  <2>1. UNCHANGED intentVars
    BY <1>1, <1>6 DEF OnWriteFinished
  <2>2. Carried(latest, generation, NoWrite, pending)
    <3>1. SUFFICES ASSUME NEW k \in Keys, latest[k] # NoIntent, pending[k] = NoWrite PROVE FALSE
      BY DEF Carried
    <3>2. intent = latest[k]
      BY <1>2, <3>1 DEF Flow, Carried, intent
    <3>3. latest[k] \in Intent /\ latest[k].key = k /\ latest[k].generation = generation
      BY <1>0, <1>2, <3>1 DEF Flow, LatestKnown, TypeOK
    <3> QED BY <1>2, <1>6, <3>1, <3>2, <3>3, MarksAreNoIntents DEF IsLatest
  <2>3. Flow(latest, sequence, generation, NoWrite, pending)
    BY <1>2, <2>2 DEF Flow, FlightKnown, NewerWaits
  <2>4. latest \in [Keys -> Intent \cup {NoIntent}]
    BY <1>0 DEF TypeOK
  <2>5. Flow(latest, sequence, generation, inflight', pending')
    BY <1>1, <1>4, <2>3, <2>4, DispatchKeepsFlow
  <2>6. FlowInv'
    BY <1>1, <1>2, <2>1, <2>5 DEF FlowInv, intentVars
  <2>7. ~stopped' /\ regroups = 0 /\ IsIntentWrite(inflight') => Group(inflight'.key)
    <3>1. QueuedIsLatest(latest, pending)
      BY <1>2 DEF Flow
    <3> QED BY <1>1, <1>4, <1>5, <3>1, DispatchedIsGroup DEF IntentInv, KeysAreGroups
  <2> QED BY <1>1, <1>3, <2>1, <2>6, <2>7, SchedulerStepKeeps
<1>7. CASE IsLatest(intent)
  <2> DEFINE settled == [c \in Channels |-> IF job[w].stage = "ok" THEN intent.volume ELSE confirmed[c]]
  <2>1. /\ key \in Keys /\ intent = latest[key] /\ latest[key] # NoIntent
        /\ latest[key] \in Intent /\ pending[key] = NoWrite
    BY <1>1, <1>7, LatestIsKnownByNumber DEF intent, key
  <2>2. /\ latest' = [latest EXCEPT ![key] = NoIntent]
        /\ confirmed' = [c \in Channels |-> IF c \in key THEN settled[c] ELSE confirmed[c]]
        /\ requested' = [c \in Channels |-> IF c \in key THEN settled[c] ELSE requested[c]]
        /\ config' = [c \in Channels |-> IF c \in key THEN settled[c] ELSE config[c]]
    BY <1>1, <1>7 DEF OnWriteFinished, key
  <2>3. RollbackKnown(latest, requested, confirmed, config)
    BY DEF IntentInv
  <2>4. intent.volume \in Volumes /\ intent.volume # NoVolume
    BY <2>1, IntentAssumption DEF Intent
  <2>5. \A c \in Channels : c \in key => settled[c] \in Volumes /\ settled[c] # NoVolume
    <3>1. \A c \in key : confirmed[c] # NoVolume
      BY <2>1, <2>3 DEF RollbackKnown
    <3> QED BY <1>0, <2>4, <3>1 DEF TypeOK
  <2> HIDE DEF settled
  <2>6. \A x \in Keys : latest'[x] = IF x = key THEN NoIntent ELSE latest[x]
    BY <1>0, <2>2 DEF TypeOK
  <2>7. TypeOK'
    <3>1. latest' \in [Keys -> Intent \cup {NoIntent}]
      BY <1>0, <2>2 DEF TypeOK
    <3>2. confirmed' \in [Channels -> Volumes \cup {NoVolume}]
      BY <1>0, <2>2, <2>5 DEF TypeOK
    <3>3. requested' \in [Channels -> Volumes \cup {NoVolume}]
      BY <1>0, <2>2, <2>5 DEF TypeOK
    <3>4. config' \in [Channels -> Volumes]
      BY <1>0, <2>2, <2>5 DEF TypeOK
    <3> QED BY <1>0, <1>1, <1>3, <3>1, <3>2, <3>3, <3>4 DEF TypeOK, SchedInv
  <2>8. Flow(latest', sequence, generation, NoWrite, pending)
    <3>1. LatestKnown(latest', sequence, generation)
      BY <1>2, <2>6 DEF Flow, LatestKnown
    <3>2. QueuedIsLatest(latest', pending)
      BY <1>2, <2>1, <2>6 DEF Flow, QueuedIsLatest
    <3>3. Carried(latest', generation, NoWrite, pending)
      <4>1. SUFFICES ASSUME NEW k \in Keys, latest'[k] # NoIntent, pending[k] = NoWrite PROVE FALSE
        BY DEF Carried
      <4>2. k # key /\ latest[k] # NoIntent
        BY <2>6, <4>1
      <4>3. intent = latest[k] /\ latest[k].key = k
        BY <1>2, <4>1, <4>2 DEF Flow, Carried, LatestKnown, intent
      <4> QED BY <4>2, <4>3 DEF key
    <3> QED BY <3>1, <3>2, <3>3 DEF Flow, FlightKnown, NewerWaits
  <2>9. FlowInv'
    <3>1. latest' \in [Keys -> Intent \cup {NoIntent}]
      BY <2>7 DEF TypeOK
    <3>2. Flow(latest', sequence, generation, inflight', pending')
      BY <1>1, <1>4, <2>8, <3>1, DispatchKeepsFlow
    <3> QED BY <1>1, <1>2, <3>2 DEF FlowInv
  <2>10. RollbackKnown(latest', requested', confirmed', config')
    <3>1. \A c \in Channels : confirmed'[c] # NoVolume => confirmed'[c] = config'[c]
      BY <2>2, <2>3 DEF RollbackKnown
    <3>2. \A c \in Channels : requested'[c] # NoVolume => confirmed'[c] # NoVolume
      BY <2>2, <2>3, <2>5 DEF RollbackKnown
    <3>3. ASSUME NEW k \in Keys, latest'[k] # NoIntent, NEW c \in k PROVE confirmed'[c] # NoVolume
      <4>1. c \in Channels
        BY IntentAssumption
      <4>2. confirmed[c] # NoVolume
        BY <2>3, <2>6, <3>3 DEF RollbackKnown
      <4> QED BY <2>2, <2>5, <4>1, <4>2
    <3> QED BY <3>1, <3>2, <3>3 DEF RollbackKnown
  <2>11. FadersShowLatest'
    <3>1. SUFFICES ASSUME regroups = 0, NEW c \in Channels
                   PROVE  IF latest'[grouping[c]] # NoIntent
                            THEN requested'[c] = latest'[grouping[c]].volume
                            ELSE requested'[c] # NoVolume => requested'[c] = config'[c] /\ confirmed'[c] = config'[c]
      BY <1>1 DEF FadersShowLatest
    <3>2. PICK d \in Channels : grouping[d] = key
      BY <1>1, <2>1, <3>1 DEF IntentInv, KeysAreGroups, Group
    <3>3. \A x \in key : grouping[x] = key
      BY <1>0, <3>2, GroupsAreKeys
    <3>4. CASE c \in key
      BY <2>1, <2>2, <2>6, <3>3, <3>4
    <3>5. CASE c \notin key
      <4>1. grouping[c] \in Keys /\ grouping[c] # key
        BY <1>0, <3>5, GroupsAreKeys
      <4>2. /\ latest'[grouping[c]] = latest[grouping[c]] /\ requested'[c] = requested[c]
            /\ confirmed'[c] = confirmed[c] /\ config'[c] = config[c]
        BY <2>2, <2>6, <3>5, <4>1
      <4> QED BY <3>1, <4>2 DEF IntentInv, FadersShowLatest
    <3> QED BY <3>4, <3>5
  <2>12. KeysAreGroups'
    <3>1. SUFFICES ASSUME regroups = 0
                   PROVE  /\ \A k \in Keys : latest'[k] # NoIntent => Group(k)
                          /\ IsIntentWrite(inflight') => Group(inflight'.key)
      BY <1>1 DEF KeysAreGroups, Group
    <3>2. \A k \in Keys : latest[k] # NoIntent => Group(k)
      BY <1>1, <3>1 DEF IntentInv, KeysAreGroups
    <3>3. QueuedIsLatest(latest, pending)
      BY <1>2 DEF Flow
    <3>4. IsIntentWrite(inflight') => Group(inflight'.key)
      BY <1>1, <1>4, <1>5, <3>2, <3>3, DispatchedIsGroup
    <3> QED BY <2>6, <3>2, <3>4
  <2> QED BY <1>3, <2>7, <2>9, <2>10, <2>11, <2>12 DEF IntentInv
<1> QED BY <1>6, <1>7
-----------------------------------------------------------------------------
LEMMA IntentInitInv == Init => IntentInv
<1> SUFFICES ASSUME Init PROVE IntentInv
  OBVIOUS
<1>1. SchedInv
  BY InitInv DEF Init
<1>2. TypeOK
  BY <1>1, IntentAssumption, SchedulerAssumption DEF Init, TypeOK, SchedInv
<1>3. FlowInv
  BY DEF Init, SchedInit, FlowInv, Flow, LatestKnown, QueuedIsLatest, FlightKnown, NewerWaits, Carried
<1>4. RollbackKnown(latest, requested, confirmed, config) /\ KeysAreGroups
  BY DEF Init, SchedInit, RollbackKnown, KeysAreGroups, IsIntentWrite
<1>5. FadersShowLatest
  <2>1. \A c \in Channels : latest[grouping[c]] = NoIntent /\ requested[c] = NoVolume
    BY <1>2, GroupsAreKeys DEF Init, TypeOK
  <2> QED BY <2>1 DEF FadersShowLatest
<1> QED BY <1>1, <1>2, <1>3, <1>4, <1>5 DEF IntentInv

LEMMA IntentNextInv == IntentInv /\ [Next]_vars => IntentInv'
<1> SUFFICES ASSUME IntentInv, [Next]_vars PROVE IntentInv'
  OBVIOUS
<1>1. ASSUME NEW c \in Channels, NEW v \in Volumes, Submit(c, v) PROVE IntentInv'
  BY <1>1, SubmitKeeps
<1>2. ASSUME NEW c \in Channels, NEW v \in Volumes, ObserveExternal(c, v) PROVE IntentInv'
  BY <1>2, ObserveKeeps
<1>3. ASSUME NEW w \in Workers, WriteCompleted(w) PROVE IntentInv'
  BY <1>3, CompletionKeeps
<1>4. CASE UNCHANGED vars
  <2>1. SchedInv'
    BY <1>4, NextInv DEF vars, IntentInv
  <2>2. FlowInv' /\ (~stopped' /\ regroups = 0 /\ IsIntentWrite(inflight') => Group(inflight'.key))
    BY <1>4 DEF vars, schedVars, intentVars, IntentInv, FlowInv, KeysAreGroups
  <2> QED BY <1>4, <2>1, <2>2, SchedulerStepKeeps DEF vars, schedVars
<1> QED BY <1>1, <1>2, <1>3, <1>4, ReapplyKeeps, ResetKeeps, InternalKeeps, StopKeeps, RegroupKeeps
        DEF Next, Exited

(* The inductive invariant holds in every behaviour of the coordinator.    *)
THEOREM IntentInvariant == Spec => []IntentInv
<1> QED BY IntentInitInv, IntentNextInv, PTL DEF Spec

(* TypeOK: the coordinator and its scheduler keep to their types.          *)
THEOREM IntentsTypeCorrect == Spec => []TypeOK
<1>1. IntentInv => TypeOK
  BY DEF IntentInv
<1> QED BY <1>1, IntentInvariant, PTL

(* LatestIsCarried: the newest intent of a key waits or is in flight.      *)
THEOREM LatestStaysCarried == Spec => []LatestIsCarried
<1>1. IntentInv => LatestIsCarried
  <2>1. SUFFICES ASSUME IntentInv, ~stopped, NEW k \in Keys, latest[k] # NoIntent
                 PROVE  IF pending[k] # NoWrite THEN pending[k].value = latest[k]
                        ELSE inflight # NoWrite /\ inflight.value = latest[k]
    BY DEF LatestIsCarried
  <2>2. Flow(latest, sequence, generation, inflight, pending)
    BY <2>1 DEF IntentInv, FlowInv
  <2> QED BY <2>1, <2>2 DEF Flow, LatestKnown, QueuedIsLatest, Carried
<1> QED BY <1>1, IntentInvariant, PTL

(* PendingIsLatest: nothing waits that was superseded.                     *)
THEOREM OnlyLatestWaits == Spec => []PendingIsLatest
<1>1. IntentInv => PendingIsLatest
  BY DEF IntentInv, FlowInv, Flow, QueuedIsLatest, PendingIsLatest
<1> QED BY <1>1, IntentInvariant, PTL

(* FadersShowLatest: while the groups stay, a fader shows what was last    *)
(* asked for, and otherwise what is canonical.                             *)
THEOREM FadersAreTrue == Spec => []FadersShowLatest
<1>1. IntentInv => FadersShowLatest
  BY DEF IntentInv
<1> QED BY <1>1, IntentInvariant, PTL

(* With the same groups, what leaves the queue is newer than what it       *)
(* shares a channel with.                                                  *)
LEMMA QueueIsNewer ==
  ASSUME IntentInv, ~stopped, regroups = 0, Dispatched(NoWrite, pending),
         IsIntentWrite(inflight), IsIntentWrite(inflight'), inflight'.key \cap inflight.key # {}
  PROVE  inflight'.value.sequence >= inflight.value.sequence
<1>0. TypeOK /\ SchedTypeOK /\ QueueConsistent /\ grouping \in Groupings
  BY DEF IntentInv, SchedInv, TypeOK
<1>1. Flow(latest, sequence, generation, inflight, pending)
  BY DEF IntentInv, FlowInv
<1>2. PICK k \in Keys : pending[k] # NoWrite /\ inflight' = pending[k]
  BY DEF Dispatched, TakesOff, IsIntentWrite
<1>3. /\ inflight'.key = k /\ k # GainKey /\ latest[k] # NoIntent /\ inflight'.value = latest[k]
      /\ latest[k] \in Intent
  BY <1>0, <1>1, <1>2 DEF QueueConsistent, QueueOK, Flow, QueuedIsLatest, IsIntentWrite, TypeOK
<1>4. inflight.key # GainKey /\ inflight.value \in Intent
  BY <1>1 DEF Flow, FlightKnown, IsIntentWrite
<1>5. inflight.key = k
  <2>1. PICK c \in Channels : grouping[c] = k
    BY <1>3 DEF IntentInv, KeysAreGroups, Group
  <2>2. PICK d \in Channels : grouping[d] = inflight.key
    BY DEF IntentInv, KeysAreGroups, Group
  <2>3. PICK e : e \in k /\ e \in inflight.key
    BY <1>3
  <2> QED BY <1>0, <2>1, <2>2, <2>3, GroupsAreKeys
<1>6. inflight.value.sequence < inflight'.value.sequence
  BY <1>1, <1>2, <1>3, <1>4, <1>5 DEF Flow, NewerWaits, IsIntentWrite
<1> QED BY <1>3, <1>4, <1>6, IntentAssumption DEF Intent

(* NewestWrittenLastInGroup: through coalescing, stalls and retries no     *)
(* older value follows a newer one, while no channel changes its group.    *)
THEOREM NewestIsWrittenLast == Spec => NewestWrittenLastInGroup
<1> DEFINE Ordered ==
      /\ regroups = 0
      /\ IsIntentWrite(inflight) /\ IsIntentWrite(inflight')
      /\ inflight'.key \cap inflight.key # {}
      => inflight'.value.sequence >= inflight.value.sequence
<1>1. IntentInv /\ [Next]_vars => Ordered
  <2>1. SUFFICES ASSUME IntentInv, [Next]_vars, regroups = 0,
                        IsIntentWrite(inflight), IsIntentWrite(inflight'),
                        inflight'.key \cap inflight.key # {}
                 PROVE  inflight'.value.sequence >= inflight.value.sequence
    OBVIOUS
  <2>2. inflight # NoWrite /\ SchedTypeOK /\ QueueConsistent /\ TypeOK
    BY <2>1 DEF IsIntentWrite, IntentInv, SchedInv
  <2>3. CASE inflight' = inflight
    <3>1. ~stopped => inflight.value \in Intent
      BY <2>1 DEF IntentInv, FlowInv, Flow, FlightKnown, IsIntentWrite
    <3>2. inflight.value \in Values
      BY <2>2 DEF SchedTypeOK, Write
    <3>3. inflight.value \in Intent
      BY <2>1, <3>2, IntentAssumption DEF IsIntentWrite
    <3> QED BY <2>3, <3>3, IntentAssumption DEF Intent
  <2>5. ASSUME NEW c \in Channels, NEW v \in Volumes, Submit(c, v) PROVE inflight' = inflight
    <3>1. ~stopped /\ \E k, x : DispatchNext(inflight, [pending EXCEPT ![k] = NewWrite(k, x)], Enqueued(k),
                                             current, timer, job)
      BY <2>5 DEF Submit, SubmitWithContext
    <3> QED BY <2>2, <3>1 DEF DispatchNext
  <2>6. CASE ReapplyChannelGains
    BY <2>2, <2>3, <2>6 DEF ReapplyChannelGains, SubmitWithContext, DispatchNext
  <2>7. ASSUME NEW c \in Channels, NEW v \in Volumes, ObserveExternal(c, v) PROVE inflight' = inflight
    BY <2>7 DEF ObserveExternal, DiscardKey
  <2>8. ASSUME NEW w \in Workers, WriteCompleted(w) PROVE inflight'.value.sequence >= inflight.value.sequence
    BY <2>1, <2>8, CompletionDispatches, QueueIsNewer
  <2>9. CASE SchedulerInternal
    <3>1. CASE AbandonWorker
      <4>1. UNCHANGED <<intentVars, grouping, regroups>> /\ ~stopped
        BY <2>9, <3>1 DEF SchedulerInternal, AbandonWorker, StallElapsed
      <4> QED BY <2>1, <2>3, <3>1, <4>1, AbandonKeeps, QueueIsNewer
    <3>2. CASE WorkerStep \/ WarnStall \/ KeepWaiting
      BY <2>3, <3>2 DEF WorkerStep, WorkerFinish, DropAbandoned, WarnStall, KeepWaiting
    <3> QED BY <2>9, <3>1, <3>2 DEF SchedulerInternal, StallStep
  <2>10. CASE Reset \/ StopCoordinator \/ Regroup \/ UNCHANGED vars
    BY <2>3, <2>10 DEF Reset, SchedReset, StopCoordinator, Stop, Regroup, vars, schedVars
  <2> QED BY <2>1, <2>3, <2>5, <2>6, <2>7, <2>8, <2>9, <2>10 DEF Next, Exited
<1>2. IntentInv /\ [Next]_vars => [Ordered]_vars
  BY <1>1
<1> QED BY <1>2, IntentInvariant, PTL DEF Spec, NewestWrittenLastInGroup

-----------------------------------------------------------------------------
(* The coordinator uses the scheduler as the scheduler allows: what is     *)
(* proved of the scheduler alone holds under the coordinator.              *)
LEMMA CoordinatorStepSchedules ==
  ASSUME IntentInv, [Next]_vars
  PROVE  [SchedNext]_schedVars
<1>1. TypeOK /\ grouping \in Groupings
  BY DEF IntentInv, TypeOK
<1>2. ASSUME NEW c \in Channels, NEW v \in Volumes, Submit(c, v) PROVE SchedNext
  <2> DEFINE key == grouping[c]
             intent == [sequence |-> sequence + 1, generation |-> intentGeneration,
                        key |-> key, volume |-> v]
  <2>1. key \in Keys
    BY <1>1, GroupsAreKeys
  <2>2. sequence < MaxSequence /\ SubmitWithContext(key, intent)
    BY <1>2 DEF Submit
  <2>3. intent \in Intent
    BY <1>1, <2>1, <2>2, IntentAssumption DEF TypeOK, Intent
  <2>4. intent \in Values
    BY <2>3, IntentAssumption
  <2> HIDE DEF intent, key
  <2> QED BY <2>1, <2>2, <2>4 DEF SchedNext
<1>3. CASE ReapplyChannelGains
  <2>1. GainKey \in Keys /\ GainReapply \in Values
    BY IntentAssumption DEF GainKey
  <2> QED BY <1>3, <2>1 DEF ReapplyChannelGains, SchedNext
<1>4. ASSUME NEW c \in Channels, NEW v \in Volumes, ObserveExternal(c, v)
      PROVE  SchedNext \/ UNCHANGED schedVars
  <2>1. grouping[c] \in Keys
    BY <1>1, GroupsAreKeys
  <2>2. CASE latest[grouping[c]] # NoIntent
    BY <1>4, <2>1, <2>2 DEF ObserveExternal, SchedNext
  <2>3. CASE latest[grouping[c]] = NoIntent
    BY <1>4, <2>3 DEF ObserveExternal, schedVars
  <2> QED BY <2>2, <2>3
<1>5. ASSUME NEW w \in Workers, WriteCompleted(w) PROVE SchedNext
  BY <1>5 DEF WriteCompleted, SchedNext
<1>6. CASE Reset \/ SchedulerInternal \/ StopCoordinator
  BY <1>6 DEF Reset, SchedulerInternal, StopCoordinator, SchedNext
<1>7. CASE Regroup \/ Exited \/ UNCHANGED vars
  BY <1>7 DEF Regroup, Exited, vars
<1> QED BY <1>2, <1>3, <1>4, <1>5, <1>6, <1>7 DEF Next

(* Submissions, external changes, resets and completions reach the         *)
(* scheduler only by its own operations (submit_with_context, discard_key, *)
(* reset, stop), one of them in a step.                                    *)
THEOREM CoordinatorSchedules == Spec => SchedSpec
<1>1. Init => SchedInit
  BY DEF Init
<1>2. IntentInv /\ [Next]_vars => [SchedNext]_schedVars
  BY CoordinatorStepSchedules
<1> QED BY <1>1, <1>2, IntentInvariant, PTL DEF Spec, SchedSpec

(* Under the coordinator too: the queue's views agree, no wake-up is lost, *)
(* workers are accounted for, the flight is watched, and nothing that was  *)
(* queued before a reset starts after it.                                  *)
THEOREM SchedulerHoldsItsPromises ==
  Spec => [](QueueConsistent /\ NoLostWakeup /\ WorkersAccounted /\ StallWatched) /\ NoStaleStart
BY CoordinatorSchedules, QueueStaysConsistent, NoWakeupIsLost, WorkersAreAccounted,
   FlightIsWatched, NothingStaleStarts, PTL
=============================================================================
