----------------------- MODULE VolumeRefinementProofs -----------------------
(***************************************************************************)
(* The coordinator on its scheduler implements the register, for any       *)
(* constants: every step is a step of the register or leaves it alone.     *)
(***************************************************************************)
EXTENDS VolumeRefinement, VolumeIntentsProofs

LEMMA WantedKept ==
  ASSUME UNCHANGED <<latest, stopped>>
  PROVE  Wanted' = Wanted
BY DEF Wanted

(* A fader asks.                                                           *)
LEMMA SubmitWants ==
  ASSUME IntentInv, NEW c \in Channels, NEW v \in Volumes, Submit(c, v)
  PROVE  /\ grouping[c] \in Keys /\ config' = config
         /\ Wanted' = [Wanted EXCEPT ![grouping[c]] = v]
<1> DEFINE key == grouping[c]
           intent == [sequence |-> sequence + 1, generation |-> intentGeneration,
                      key |-> key, volume |-> v]
<1>1. /\ ~stopped /\ ~stopped' /\ config' = config /\ latest' = [latest EXCEPT ![key] = intent]
  BY DEF Submit, SubmitWithContext
<1>2. key \in Keys
  BY GroupsAreKeys DEF IntentInv, TypeOK
<1>3. latest \in [Keys -> Intent \cup {NoIntent}]
  BY DEF IntentInv, TypeOK
<1>4. intent \in Intent /\ intent.volume = v
  BY <1>2, IntentAssumption DEF Submit, Intent, IntentInv, TypeOK
<1>5. intent # NoIntent
  BY <1>4, MarksAreNoIntents
<1> HIDE DEF intent, key
<1>6. Wanted' = [Wanted EXCEPT ![key] = v]
  BY <1>1, <1>2, <1>3, <1>4, <1>5 DEF Wanted
<1> QED BY <1>1, <1>2, <1>6 DEF key

(* An outside change.                                                      *)
LEMMA ObserveOverrides ==
  ASSUME IntentInv, NEW c \in Channels, NEW v \in Volumes, ObserveExternal(c, v)
  PROVE  /\ grouping[c] \in Keys
         /\ Wanted' = [Wanted EXCEPT ![grouping[c]] = NoVolume]
         /\ config' = [d \in Channels |-> IF d \in grouping[c] THEN v ELSE config[d]]
<1> DEFINE key == grouping[c]
<1>1. ~stopped /\ ~stopped' /\ latest' = [latest EXCEPT ![key] = NoIntent] /\ config' = Assign(config, key, v)
  BY DEF ObserveExternal
<1>2. key \in Keys
  BY GroupsAreKeys DEF IntentInv, TypeOK
<1>3. latest \in [Keys -> Intent \cup {NoIntent}]
  BY DEF IntentInv, TypeOK
<1> HIDE DEF key
<1>4. Wanted' = [Wanted EXCEPT ![key] = NoVolume]
  BY <1>1, <1>2, <1>3 DEF Wanted
<1> QED BY <1>1, <1>2, <1>4 DEF key, Assign

(* A completion commits the wanted value, gives it up or says nothing.     *)
LEMMA CompletionSettles ==
  ASSUME IntentInv, NEW w \in Workers, WriteCompleted(w)
  PROVE  \/ UNCHANGED <<Wanted, config>>
         \/ \E k \in Keys :
              /\ Wanted[k] # NoVolume /\ Wanted' = [Wanted EXCEPT ![k] = NoVolume]
              /\ \/ config' = config
                 \/ config' = [c \in Channels |-> IF c \in k THEN Wanted[k] ELSE config[c]]
<1> DEFINE intent == inflight.value
           key == intent.key
<1>1. /\ ~stopped /\ stopped' = stopped /\ inflight # NoWrite
      /\ OnWriteFinished(intent, job[w].stage) /\ job[w].stage \in {"ok", "failed"}
  BY CompletionDispatches
<1>2. CASE ~IsLatest(intent)
  BY <1>1, <1>2, WantedKept DEF OnWriteFinished, intentVars
<1>3. CASE IsLatest(intent)
  <2>1. key \in Keys /\ intent = latest[key] /\ latest[key] # NoIntent /\ latest[key] \in Intent
    BY <1>1, <1>3, LatestIsKnownByNumber
  <2>2. /\ latest' = [latest EXCEPT ![key] = NoIntent]
        /\ config' = [c \in Channels |->
                        IF c \in key THEN [d \in Channels |-> IF job[w].stage = "ok" THEN intent.volume
                                                              ELSE confirmed[d]][c]
                        ELSE config[c]]
    BY <1>1, <1>3 DEF OnWriteFinished
  <2>3. latest \in [Keys -> Intent \cup {NoIntent}] /\ config \in [Channels -> Volumes]
    BY DEF IntentInv, TypeOK
  <2>4. \A c \in key : confirmed[c] = config[c] /\ c \in Channels
    BY <2>1, IntentAssumption DEF IntentInv, RollbackKnown
  <2> HIDE DEF intent, key
  <2>5. intent.volume \in Volumes /\ intent.volume # NoVolume
    BY <2>1, IntentAssumption DEF Intent
  <2>6. Wanted[key] = intent.volume /\ Wanted' = [Wanted EXCEPT ![key] = NoVolume]
    BY <1>1, <2>1, <2>2, <2>3 DEF Wanted
  <2>7. CASE job[w].stage = "ok"
    <3>1. config' = [c \in Channels |-> IF c \in key THEN Wanted[key] ELSE config[c]]
      BY <2>2, <2>6, <2>7
    <3> QED BY <2>1, <2>5, <2>6, <3>1
  <2>8. CASE job[w].stage = "failed"
    <3>1. config' = config
      BY <2>2, <2>3, <2>4, <2>8
    <3> QED BY <2>1, <2>5, <2>6, <3>1
  <2> QED BY <1>1, <2>7, <2>8
<1> QED BY <1>2, <1>3

Observed == \E c \in Channels, v \in Volumes : ObserveExternal(c, v)

LEMMA StepRefines ==
  ASSUME IntentInv, heard \in BOOLEAN, [Next /\ heard' = IF Observed THEN ~heard ELSE heard]_<<vars, heard>>
  PROVE  [Register!Next]_Register!registerVars
<1>1. CASE UNCHANGED <<vars, heard>>
  BY <1>1, WantedKept DEF vars, schedVars, intentVars, Register!registerVars
<1>2. CASE Next /\ Observed /\ heard' = ~heard
  <2>1. PICK c \in Channels, v \in Volumes : ObserveExternal(c, v)
    BY <1>2 DEF Observed
  <2>2. Register!Observe(grouping[c], v)
    BY <1>2, <2>1, ObserveOverrides DEF Register!Observe, Register!SetCanonical
  <2> QED BY <2>1, <2>2, ObserveOverrides DEF Register!Next
<1>3. CASE Next /\ ~Observed /\ heard' = heard
  <2>1. ASSUME NEW c \in Channels, NEW v \in Volumes, Submit(c, v) PROVE Register!Next
    <3>1. Register!Want(grouping[c], v)
      BY <1>3, <2>1, SubmitWants DEF Register!Want
    <3> QED BY <2>1, <3>1, SubmitWants DEF Register!Next
  <2>2. ASSUME NEW w \in Workers, WriteCompleted(w) PROVE [Register!Next]_Register!registerVars
    <3>1. CASE UNCHANGED <<Wanted, config>>
      BY <1>3, <3>1 DEF Register!registerVars
    <3>2. ASSUME NEW k \in Keys, Wanted[k] # NoVolume, Wanted' = [Wanted EXCEPT ![k] = NoVolume],
                 \/ config' = config
                 \/ config' = [c \in Channels |-> IF c \in k THEN Wanted[k] ELSE config[c]]
          PROVE  Register!Next
      <4>1. Register!Commit(k) \/ Register!GiveUp(k)
        BY <1>3, <3>2 DEF Register!Commit, Register!GiveUp, Register!SetCanonical
      <4> QED BY <4>1 DEF Register!Next
    <3> QED BY <2>2, <3>1, <3>2, CompletionSettles
  <2>3. CASE Reset \/ StopCoordinator
    <3>1. config' = config /\ \A k \in Keys : stopped' \/ latest'[k] = NoIntent
      BY <2>3 DEF Reset, StopCoordinator, Stop, intentVars
    <3>2. Register!Forget
      BY <1>3, <3>1 DEF Register!Forget, Wanted
    <3> QED BY <3>2 DEF Register!Next
  <2>4. CASE ReapplyChannelGains \/ SchedulerInternal \/ Regroup \/ Exited
    <3>1. UNCHANGED <<latest, config, stopped>>
      BY <2>4 DEF ReapplyChannelGains, SubmitWithContext, SchedulerInternal, Regroup, Exited, vars,
                  schedVars, intentVars, WorkerStep, WorkerFinish, DropAbandoned, StallStep,
                  WarnStall, KeepWaiting, AbandonWorker
    <3> QED BY <1>3, <3>1, WantedKept DEF Register!registerVars
  <2> QED BY <1>3, <2>1, <2>2, <2>3, <2>4 DEF Next, Observed
<1> QED BY <1>1, <1>2, <1>3

(* ImplementsRegister: only the latest wanted value of a target, or one    *)
(* observed outside, ever becomes the volume of its channels.              *)
THEOREM CoordinatorIsRegister == ObservedSpec => ImplementsRegister
<1> DEFINE Step == Next /\ heard' = IF Observed THEN ~heard ELSE heard
           Inv == IntentInv /\ heard \in BOOLEAN
<1>1. Init /\ heard = FALSE => Inv /\ Register!Init
  <2>1. Init => Wanted = [k \in Keys |-> NoVolume] /\ config \in [Channels -> Volumes]
    BY DEF Init, Wanted
  <2> QED BY <2>1, IntentInitInv DEF Register!Init
<1>2. Inv /\ [Step]_<<vars, heard>> => Inv' /\ [Register!Next]_Register!registerVars
  <2>1. SUFFICES ASSUME Inv, [Step]_<<vars, heard>> PROVE Inv' /\ [Register!Next]_Register!registerVars
    OBVIOUS
  <2>2. [Next]_vars /\ heard' \in BOOLEAN
    BY <2>1
  <2> QED BY <2>1, <2>2, IntentNextInv, StepRefines
<1>3. ObservedSpec => Init /\ heard = FALSE /\ [][Step]_<<vars, heard>>
  BY PTL DEF ObservedSpec, Observed
<1> QED BY <1>1, <1>2, <1>3, PTL DEF ImplementsRegister, Register!Spec
=============================================================================
