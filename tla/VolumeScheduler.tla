--------------------------- MODULE VolumeScheduler ---------------------------
(***************************************************************************)
(* LatestVolumeScheduler of audio/volume_scheduler.py: one write at a time *)
(* is handed to a worker thread that may block in the audio server, and    *)
(* while it runs only the newest value of each control key is kept.  A     *)
(* worker that stays blocked is abandoned, with its thread, and its write  *)
(* retried on a fresh one; a late answer of an abandoned worker is         *)
(* dropped.                                                                *)
(*                                                                         *)
(* Every slot of the scheduler runs to completion on the Qt main thread,   *)
(* so each is one action.  A worker thread's blocking call ends at any     *)
(* time (WorkerFinish) and its `completed` signal is queued to the main    *)
(* thread, which takes such events in any order (OnCompleted).             *)
(*                                                                         *)
(* The code tells an abandoned write from a live one by the identity of    *)
(* the write object.  Each dispatch creates a new object and gives it to   *)
(* a worker that has no other, so the worker is that identity here.        *)
(***************************************************************************)
EXTENDS Integers, Sequences, FiniteSets

CONSTANTS
  Keys,           \* control keys: the channels that share one target
  Values,         \* what a write carries besides its key: channel, volume, context
  Workers,        \* names of worker threads; one is reused once its thread ended
  MaxAbandoned,   \* max_abandoned_workers
  MaxGeneration   \* bound of the model: resets in a run

ASSUME SchedulerAssumption ==
  /\ MaxAbandoned \in Nat
  /\ MaxGeneration \in Nat
  /\ IsFiniteSet(Workers)
  /\ Cardinality(Workers) = MaxAbandoned + 1

VARIABLES
  generation,     \* _generation
  inflight,       \* _inflight, NoWrite for None
  pending,        \* _pending, NoWrite for a key it does not hold
  order,          \* _order
  abandoned,      \* _abandoned, as the workers that were given up
  current,        \* _worker and _thread
  timer,          \* _stall_timer: what an expiry would now find
  job,            \* what each worker thread holds
  stopped         \* stop() was called: the main loop runs no more slots

schedVars == <<generation, inflight, pending, order, abandoned, current, timer,
               job, stopped>>

NoWrite == [key |-> "none"]
Idle == [stage |-> "idle"]

Write == [generation : Nat, key : Keys, value : Values]

Job == {Idle} \cup [stage : {"blocked", "ok", "failed"}, write : Write]

(* A timer armed for the warning is re-armed once for the rest of the      *)
(* timeout; "stall" is an expiry after which the write counts as hung.     *)
TimerPhases == {"off", "warning", "stall"}

PendingKeys == {k \in Keys : pending[k] # NoWrite}

Positions(k) == {i \in 1..Len(order) : order[i] = k}

SchedTypeOK ==
  /\ generation \in Nat
  /\ inflight \in Write \cup {NoWrite}
  /\ pending \in [Keys -> Write \cup {NoWrite}]
  /\ order \in Seq(Keys)
  /\ abandoned \in SUBSET Workers
  /\ current \in Workers
  /\ timer \in TimerPhases
  /\ job \in [Workers -> Job]
  /\ stopped \in BOOLEAN

SchedInit ==
  /\ generation = 0
  /\ inflight = NoWrite
  /\ pending = [k \in Keys |-> NoWrite]
  /\ order = <<>>
  /\ abandoned = {}
  /\ current \in Workers
  /\ timer = "off"
  /\ job = [w \in Workers |-> Idle]
  /\ stopped = FALSE

-----------------------------------------------------------------------------
(* _dispatch_next on given _inflight, _pending, _order and worker: the     *)
(* first key whose write is of the current generation leaves the queue,    *)
(* with every key before it, and its write goes to the worker.             *)
Dispatchable(pend, ord) ==
  {i \in 1..Len(ord) : /\ pend[ord[i]] # NoWrite
                       /\ pend[ord[i]].generation = generation}

IsFirst(i, S) == i \in S /\ \A j \in S : i <= j

DispatchNext(infl, pend, ord, w, tmr, jobs) ==
  \/ /\ infl # NoWrite
     /\ inflight' = infl
     /\ pending' = pend
     /\ order' = ord
     /\ timer' = tmr
     /\ job' = jobs
  \/ /\ infl = NoWrite
     /\ Dispatchable(pend, ord) = {}
     /\ inflight' = NoWrite
     /\ pending' = [k \in Keys |-> IF \E i \in 1..Len(ord) : ord[i] = k
                                     THEN NoWrite ELSE pend[k]]
     /\ order' = <<>>
     /\ timer' = tmr
     /\ job' = jobs
  \/ /\ infl = NoWrite
     /\ \E i \in 1..Len(ord) :
          /\ IsFirst(i, Dispatchable(pend, ord))
          /\ inflight' = pend[ord[i]]
          /\ pending' = [k \in Keys |-> IF \E j \in 1..i : ord[j] = k
                                          THEN NoWrite ELSE pend[k]]
          /\ order' = SubSeq(ord, i + 1, Len(ord))
          /\ timer' = "warning"
          /\ job' = [jobs EXCEPT ![w] = [stage |-> "blocked",
                                         write |-> pend[ord[i]]]]

(* Mutant of Enqueued: a key that already waits queues up once more.       *)
EnqueuedAgain(k) == Append(order, k)

(* The queue after a write is put in it: a key that already waits keeps    *)
(* its place and takes the newer write.                                    *)
Enqueued(k) == IF pending[k] = NoWrite THEN Append(order, k) ELSE order

NewWrite(k, v) == [generation |-> generation, key |-> k, value |-> v]

SubmitWithContext(k, v) ==
  /\ ~stopped
  /\ DispatchNext(inflight, [pending EXCEPT ![k] = NewWrite(k, v)], Enqueued(k),
                  current, timer, job)
  /\ UNCHANGED <<generation, abandoned, current, stopped>>

(* discard_key.  A key stands in the queue at most once, so removing its   *)
(* place is what the code's filter does.                                   *)
WithoutKey(k) ==
  IF Positions(k) = {} THEN order
  ELSE LET i == CHOOSE i \in Positions(k) : TRUE
       IN  SubSeq(order, 1, i - 1) \o SubSeq(order, i + 1, Len(order))

DiscardKey(k) ==
  /\ pending' = [pending EXCEPT ![k] = NoWrite]
  /\ order' = WithoutKey(k)
  /\ UNCHANGED <<generation, inflight, abandoned, current, timer, job>>

ClearQueue ==
  /\ generation' = generation + 1
  /\ pending' = [k \in Keys |-> NoWrite]
  /\ order' = <<>>

(* reset: the write on the worker is left alone.                           *)
SchedReset ==
  /\ ~stopped
  /\ generation < MaxGeneration
  /\ ClearQueue
  /\ UNCHANGED <<inflight, abandoned, current, timer, job, stopped>>

Stop ==
  /\ ~stopped
  /\ ClearQueue
  /\ timer' = "off"
  /\ stopped' = TRUE
  /\ UNCHANGED <<inflight, abandoned, current, job>>

-----------------------------------------------------------------------------
(* The worker's slot: the blocking backend call returns or raises.         *)
WorkerFinish(w, outcome) ==
  /\ job[w] # Idle
  /\ job[w].stage = "blocked"
  /\ job' = [job EXCEPT ![w].stage = outcome]
  /\ UNCHANGED <<generation, inflight, pending, order, abandoned, current, timer,
                 stopped>>

Finished(w) == job[w] # Idle /\ job[w].stage # "blocked"

(* Mutant of DropAbandoned: the write of a worker that was given up is     *)
(* queued again when its call ends in failure.                             *)
DropAbandonedRequeueing(w) ==
  /\ ~stopped
  /\ Finished(w)
  /\ w \in abandoned
  /\ abandoned' = abandoned \ {w}
  /\ job' = [job EXCEPT ![w] = Idle]
  /\ IF job[w].stage = "failed" /\ pending[job[w].write.key] = NoWrite
       THEN /\ pending' = [pending EXCEPT ![job[w].write.key] = job[w].write]
            /\ order' = Append(order, job[w].write.key)
       ELSE UNCHANGED <<pending, order>>
  /\ UNCHANGED <<generation, inflight, current, timer, stopped>>

(* _on_completed for the write of an abandoned worker: its thread is told  *)
(* to quit, and nothing else happens.                                      *)
DropAbandoned(w) ==
  /\ ~stopped
  /\ Finished(w)
  /\ w \in abandoned
  /\ abandoned' = abandoned \ {w}
  /\ job' = [job EXCEPT ![w] = Idle]
  /\ UNCHANGED <<generation, inflight, pending, order, current, timer, stopped>>

(* Mutants of OnCompleted: the queue is not looked at again; the stall     *)
(* timer of the completed write runs on.                                   *)
CompletedWithoutDispatch(w) ==
  /\ ~stopped
  /\ Finished(w)
  /\ w \notin abandoned
  /\ inflight' = IF inflight = job[w].write THEN NoWrite ELSE inflight
  /\ timer' = "off"
  /\ job' = [job EXCEPT ![w] = Idle]
  /\ UNCHANGED <<generation, pending, order, abandoned, current, stopped>>

CompletedLeavingTimer(w) ==
  /\ ~stopped
  /\ Finished(w)
  /\ w \notin abandoned
  /\ DispatchNext(IF inflight = job[w].write THEN NoWrite ELSE inflight, pending, order,
                  current, timer, [job EXCEPT ![w] = Idle])
  /\ UNCHANGED <<generation, abandoned, current, stopped>>

(* _on_completed for the live worker.  The comparison with _inflight is by *)
(* value.                                                                  *)
OnCompleted(w) ==
  LET own == inflight = job[w].write
  IN  /\ ~stopped
      /\ Finished(w)
      /\ w \notin abandoned
      /\ DispatchNext(IF own THEN NoWrite ELSE inflight, pending, order, current,
                      IF own THEN "off" ELSE timer,
                      [job EXCEPT ![w] = Idle])
      /\ UNCHANGED <<generation, abandoned, current, stopped>>

(* Mutant of WarnStall: the timer is not started for the rest.             *)
WarnOnce ==
  /\ ~stopped
  /\ inflight # NoWrite
  /\ timer = "warning"
  /\ timer' = "off"
  /\ UNCHANGED <<generation, inflight, pending, order, abandoned, current, job,
                 stopped>>

(* _on_stall_timer before the stall timeout: warn and wait for the rest.   *)
WarnStall ==
  /\ ~stopped
  /\ inflight # NoWrite
  /\ timer = "warning"
  /\ timer' = "stall"
  /\ UNCHANGED <<generation, inflight, pending, order, abandoned, current, job,
                 stopped>>

StallElapsed ==
  /\ ~stopped
  /\ inflight # NoWrite
  /\ timer # "off"

(* _recover_stalled_write at the limit: wait another timeout.              *)
KeepWaiting ==
  /\ StallElapsed
  /\ Cardinality(abandoned) >= MaxAbandoned
  /\ timer' = "stall"
  /\ UNCHANGED <<generation, inflight, pending, order, abandoned, current, job,
                 stopped>>

(* Mutant of RetryWanted: a newer write of the key that waits is           *)
(* overwritten by the retry.                                               *)
RetryOverNewer == inflight.generation = generation

(* _recover_stalled_write below the limit: give the worker up, start       *)
(* another, retry the write in front of the others unless a newer one of   *)
(* its key waits or a reset has overtaken it.                              *)
RetryWanted == inflight.generation = generation /\ pending[inflight.key] = NoWrite

(* Mutants of AbandonWorker: the write goes straight to the new worker,    *)
(* whatever has been reset meanwhile; no new worker is started.            *)
AbandonAndResend ==
  /\ StallElapsed
  /\ Cardinality(abandoned) < MaxAbandoned
  /\ abandoned' = abandoned \cup {current}
  /\ \E w \in Workers \ abandoned' :
       /\ current' = w
       /\ job' = [job EXCEPT ![w] = [stage |-> "blocked", write |-> inflight]]
  /\ timer' = "warning"
  /\ UNCHANGED <<generation, inflight, pending, order, stopped>>

AbandonWithoutSpare ==
  /\ StallElapsed
  /\ Cardinality(abandoned) < MaxAbandoned
  /\ abandoned' = abandoned \cup {current}
  /\ DispatchNext(NoWrite, pending, order, current, "off", job)
  /\ UNCHANGED <<generation, current, stopped>>

AbandonWorker ==
  /\ StallElapsed
  /\ Cardinality(abandoned) < MaxAbandoned
  /\ abandoned' = abandoned \cup {current}
  /\ \E w \in Workers \ abandoned' :
       /\ current' = w
       /\ DispatchNext(NoWrite,
                       IF RetryWanted
                         THEN [pending EXCEPT ![inflight.key] = inflight] ELSE pending,
                       IF RetryWanted THEN <<inflight.key>> \o order ELSE order,
                       w, "off", job)
  /\ UNCHANGED <<generation, stopped>>

-----------------------------------------------------------------------------
WorkerStep ==
  \E w \in Workers :
    \/ \E outcome \in {"ok", "failed"} : WorkerFinish(w, outcome)
    \/ DropAbandoned(w)

StallStep == WarnStall \/ KeepWaiting \/ AbandonWorker

SchedNext ==
  \/ \E k \in Keys, v \in Values : SubmitWithContext(k, v)
  \/ \E k \in Keys : ~stopped /\ DiscardKey(k) /\ UNCHANGED stopped
  \/ SchedReset
  \/ Stop
  \/ WorkerStep
  \/ \E w \in Workers : OnCompleted(w)
  \/ StallStep

SchedSpec == SchedInit /\ [][SchedNext]_schedVars

-----------------------------------------------------------------------------
(* The two views of the queue agree: `_order` holds each waiting key once  *)
(* and no other, through coalescing, discards, retries in front and        *)
(* resets, and a waiting write is of the present generation.               *)
QueueOK(pend, ord) ==
  /\ \A i, j \in 1..Len(ord) : ord[i] = ord[j] => i = j
  /\ \A k \in Keys : pend[k] # NoWrite <=> \E i \in 1..Len(ord) : ord[i] = k
  /\ \A k \in Keys : pend[k] # NoWrite => /\ pend[k].key = k
                                          /\ pend[k].generation = generation

QueueConsistent == QueueOK(pending, order)

(* No lost wake-up: a write never waits while nothing is in flight, since  *)
(* only a completion or a stall looks at the queue again.                  *)
NoLostWakeup == PendingKeys # {} => inflight # NoWrite

(* What the scheduler believes in flight is exactly what its present       *)
(* worker holds, and the workers it gave up are exactly the others that    *)
(* hold something: no completion is taken for another's.                   *)
WorkersAccounted ==
  /\ (inflight = NoWrite) <=> (job[current] = Idle)
  /\ inflight # NoWrite => job[current].write = inflight
  /\ abandoned = {w \in Workers : w # current /\ job[w] # Idle}

(* A write in flight is always watched by the stall timer, and an idle     *)
(* scheduler has no timer running.                                         *)
StallWatched == ~stopped => (timer = "off" <=> inflight = NoWrite)

(* Blocked threads pile up no further than the limit.                      *)
AbandonLimit == Cardinality(abandoned) <= MaxAbandoned

(* A write that starts on a worker is of the generation of the scheduler:  *)
(* nothing queued before a reset starts after it, retries included.        *)
NoStaleStart ==
  [][\A w \in Workers : job'[w] # Idle /\ (job[w] = Idle \/ job[w].write # job'[w].write)
       => job'[w].write.generation = generation']_schedVars
=============================================================================
