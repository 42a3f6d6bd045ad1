------------------------ MODULE VolumeSchedulerProofs ------------------------
(***************************************************************************)
(* Type correctness and the safety invariants of VolumeScheduler, for any  *)
(* keys, values, number of abandoned workers and number of resets.         *)
(***************************************************************************)
EXTENDS VolumeScheduler, SequenceTheorems, FiniteSetTheorems, TLAPS

(* The inductive invariant: none of the parts is inductive alone, since    *)
(* dispatching reads the queue, the flight and the worker together.        *)
SchedInv ==
  /\ SchedTypeOK
  /\ QueueConsistent
  /\ NoLostWakeup
  /\ WorkersAccounted
  /\ StallWatched
  /\ AbandonLimit

(* A missing write or an idle worker is never mistaken for a real one.     *)
LEMMA NoneIsNone == NoWrite \notin Write /\ \A j \in Job : j # Idle => j.write \in Write
<1>1. NoWrite \notin Write
  BY DEF NoWrite, Write
<1>2. \A j \in Job : j # Idle => j.write \in Write
  BY DEF Job, Idle
<1> QED BY <1>1, <1>2

LEMMA BlockedIsJob ==
  ASSUME NEW x \in Write
  PROVE  [stage |-> "blocked", write |-> x] \in Job /\ [stage |-> "blocked", write |-> x] # Idle
<1>1. [stage |-> "blocked", write |-> x] \in Job
  BY DEF Job
<1>2. DOMAIN [stage |-> "blocked", write |-> x] # DOMAIN Idle
  BY DEF Idle
<1> QED BY <1>1, <1>2

LEMMA InitInv == SchedInit => SchedInv
<1> SUFFICES ASSUME SchedInit PROVE SchedInv
  OBVIOUS
<1> USE DEF SchedInit
<1>1. SchedTypeOK
  <2>1. order \in Seq(Keys)
    BY EmptySeq
  <2> QED BY <2>1 DEF SchedTypeOK, TimerPhases, Job
<1>2. QueueConsistent
  BY DEF QueueConsistent, QueueOK
<1>3. NoLostWakeup
  BY DEF NoLostWakeup, PendingKeys
<1>4. WorkersAccounted
  BY DEF WorkersAccounted
<1>5. StallWatched
  BY DEF StallWatched
<1>6. AbandonLimit
  BY FS_EmptySet, SchedulerAssumption DEF AbandonLimit
<1> QED BY <1>1, <1>2, <1>3, <1>4, <1>5, <1>6 DEF SchedInv

(* What _dispatch_next does to the queue, the flight and the workers.      *)
LEMMA DispatchPreserves ==
  ASSUME SchedTypeOK,
         NEW infl \in Write \cup {NoWrite},
         NEW pend \in [Keys -> Write \cup {NoWrite}],
         NEW ord \in Seq(Keys),
         NEW w \in Workers,
         NEW tmr \in TimerPhases,
         NEW jobs \in [Workers -> Job],
         generation' = generation,
         QueueOK(pend, ord),
         infl = NoWrite => jobs[w] = Idle /\ tmr = "off",
         infl # NoWrite => jobs[w] # Idle /\ jobs[w].write = infl,
         DispatchNext(infl, pend, ord, w, tmr, jobs)
  PROVE  /\ inflight' \in Write \cup {NoWrite}
         /\ pending' \in [Keys -> Write \cup {NoWrite}]
         /\ order' \in Seq(Keys)
         /\ timer' \in TimerPhases
         /\ job' \in [Workers -> Job]
         /\ QueueConsistent'
         /\ NoLostWakeup'
         /\ inflight' = NoWrite <=> job'[w] = Idle
         /\ inflight' # NoWrite => job'[w].write = inflight'
         /\ \A x \in Workers \ {w} : job'[x] = jobs[x]
         /\ IF inflight' = NoWrite THEN timer' = "off"
            ELSE timer' = tmr \/ timer' = "warning"
         /\ inflight' # NoWrite /\ infl # NoWrite => timer' = tmr
         /\ inflight' # NoWrite /\ infl = NoWrite => timer' = "warning"
<1>1. CASE infl # NoWrite
  BY <1>1, NoneIsNone DEF DispatchNext, QueueConsistent, QueueOK, NoLostWakeup, PendingKeys
<1>2. CASE infl = NoWrite /\ Dispatchable(pend, ord) = {}
  <2>1. \A i \in 1..Len(ord) : pend[ord[i]] # NoWrite /\ pend[ord[i]].generation = generation
    BY DEF QueueOK
  <2>2. ord = <<>>
    BY <1>2, <2>1 DEF Dispatchable
  <2>3. \A k \in Keys : pend[k] = NoWrite
    BY <2>2 DEF QueueOK
  <2>4. /\ inflight' = NoWrite /\ order' = <<>> /\ timer' = tmr /\ job' = jobs
        /\ pending' = pend
    BY <1>2, <2>2, <2>3 DEF DispatchNext
  <2> QED BY <1>2, <2>2, <2>3, <2>4 DEF QueueConsistent, QueueOK, NoLostWakeup, PendingKeys
<1>3. CASE infl = NoWrite /\ Dispatchable(pend, ord) # {}
  <2>1. \A i \in 1..Len(ord) : pend[ord[i]] # NoWrite /\ pend[ord[i]].generation = generation
    BY DEF QueueOK
  <2>2. Dispatchable(pend, ord) = 1..Len(ord) /\ Len(ord) \in Nat /\ Len(ord) >= 1
    BY <1>3, <2>1 DEF Dispatchable
  <2>3. PICK i \in 1..Len(ord) :
          /\ IsFirst(i, Dispatchable(pend, ord))
          /\ inflight' = pend[ord[i]]
          /\ pending' = [k \in Keys |-> IF \E j \in 1..i : ord[j] = k
                                          THEN NoWrite ELSE pend[k]]
          /\ order' = SubSeq(ord, i + 1, Len(ord))
          /\ timer' = "warning"
          /\ job' = [jobs EXCEPT ![w] = [stage |-> "blocked", write |-> pend[ord[i]]]]
    BY <1>3 DEF DispatchNext
  <2>4. i = 1
    BY <2>2, <2>3 DEF IsFirst
  <2>5. pend[ord[1]] \in Write
    BY <2>1, <2>2
  <2>6. /\ order' \in Seq(Keys)
        /\ Len(order') = Len(ord) - 1
        /\ \A j \in 1..Len(ord) - 1 : order'[j] = ord[j + 1]
    <3>1. \A j \in 2..Len(ord) : ord[j] \in Keys
      OBVIOUS
    <3>2. 2 \in Int /\ Len(ord) \in Int /\ order' = SubSeq(ord, 2, Len(ord))
      BY <2>3, <2>4
    <3>3. /\ SubSeq(ord, 2, Len(ord)) \in Seq(Keys)
          /\ Len(SubSeq(ord, 2, Len(ord))) = IF 2 <= Len(ord) THEN Len(ord) - 2 + 1 ELSE 0
          /\ \A j \in 1..Len(ord) - 2 + 1 : SubSeq(ord, 2, Len(ord))[j] = ord[2 + j - 1]
      BY <3>1, <3>2, SubSeqProperties
    <3>4. Len(order') = Len(ord) - 1
      <4>1. \A n \in Nat : n >= 1 => (IF 2 <= n THEN n - 2 + 1 ELSE 0) = n - 1
        OBVIOUS
      <4>2. Len(SubSeq(ord, 2, Len(ord))) = Len(ord) - 1
        BY <3>3, <4>1, <2>2
      <4> QED BY <4>2, <3>2
    <3>5. \A j \in 1..Len(ord) - 1 : order'[j] = ord[j + 1]
      <4> TAKE j \in 1..Len(ord) - 1
      <4>1. j \in 1..Len(ord) - 2 + 1 /\ 2 + j - 1 = j + 1
        BY <2>2
      <4> QED BY <3>2, <3>3, <4>1
    <3> QED BY <3>2, <3>3, <3>4, <3>5
  <2>7. pending' = [k \in Keys |-> IF ord[1] = k THEN NoWrite ELSE pend[k]]
    BY <2>2, <2>3, <2>4
  <2>8. /\ job' \in [Workers -> Job] /\ job'[w] # Idle /\ job'[w].write = pend[ord[1]]
        /\ \A x \in Workers \ {w} : job'[x] = jobs[x]
    BY <2>3, <2>4, <2>5, BlockedIsJob
  <2>9. QueueConsistent'
    <3>1. \A i1, j1 \in 1..Len(order') : order'[i1] = order'[j1] => i1 = j1
      BY <2>2, <2>6 DEF QueueOK
    <3>2. ASSUME NEW k \in Keys
          PROVE  pending'[k] # NoWrite <=> \E j \in 1..Len(order') : order'[j] = k
      <4>1. CASE k = ord[1]
        <5>1. ASSUME NEW j \in 1..Len(order') PROVE order'[j] # k
          <6>1. j + 1 \in 1..Len(ord) /\ 1 \in 1..Len(ord) /\ j + 1 # 1 /\ order'[j] = ord[j + 1]
            BY <2>2, <2>6
          <6> QED BY <6>1, <4>1 DEF QueueOK
        <5> QED BY <4>1, <5>1, <2>7
      <4>2. CASE k # ord[1]
        <5>1. pending'[k] = pend[k]
          BY <4>2, <2>7
        <5>2. ASSUME NEW j \in 1..Len(ord), ord[j] = k
              PROVE  \E m \in 1..Len(order') : order'[m] = k
          <6>1. j - 1 \in 1..Len(order') /\ order'[j - 1] = k
            BY <4>2, <5>2, <2>2, <2>6
          <6> QED BY <6>1
        <5>3. ASSUME NEW m \in 1..Len(order'), order'[m] = k
              PROVE  \E j \in 1..Len(ord) : ord[j] = k
          <6>1. m + 1 \in 1..Len(ord) /\ ord[m + 1] = k
            BY <5>3, <2>2, <2>6
          <6> QED BY <6>1
        <5> QED BY <5>1, <5>2, <5>3 DEF QueueOK
      <4> QED BY <4>1, <4>2
    <3>3. \A k \in Keys : pending'[k] # NoWrite =>
             pending'[k].key = k /\ pending'[k].generation = generation'
      BY <2>7 DEF QueueOK
    <3> QED BY <3>1, <3>2, <3>3 DEF QueueConsistent, QueueOK
  <2>10. inflight' \in Write /\ inflight' # NoWrite /\ timer' = "warning"
    BY <2>3, <2>4, <2>5, NoneIsNone
  <2>11. pending' \in [Keys -> Write \cup {NoWrite}]
    BY <2>7
  <2>12. NoLostWakeup'
    BY <2>10 DEF NoLostWakeup
  <2> QED BY <1>3, <2>3, <2>4, <2>6, <2>8, <2>9, <2>10, <2>11, <2>12 DEF TimerPhases
<1> QED BY <1>1, <1>2, <1>3

(* discard_key takes out the one place of the key.                         *)
LEMMA WithoutKeyPreserves ==
  ASSUME SchedTypeOK, QueueConsistent, NEW k \in Keys
  PROVE  /\ WithoutKey(k) \in Seq(Keys)
         /\ QueueOK([pending EXCEPT ![k] = NoWrite], WithoutKey(k))
<1> DEFINE pend == [pending EXCEPT ![k] = NoWrite]
<1>0. order \in Seq(Keys) /\ Len(order) \in Nat
  BY DEF SchedTypeOK
<1>1. pend \in [Keys -> Write \cup {NoWrite}] /\ \A x \in Keys : pend[x] = IF x = k THEN NoWrite ELSE pending[x]
  BY DEF SchedTypeOK
<1>2. CASE Positions(k) = {}
  <2>1. WithoutKey(k) = order /\ \A i \in 1..Len(order) : order[i] # k
    BY <1>2 DEF WithoutKey, Positions
  <2>2. pending[k] = NoWrite
    BY <2>1 DEF QueueConsistent, QueueOK
  <2> QED BY <1>0, <1>1, <2>1, <2>2 DEF QueueConsistent, QueueOK
<1>3. CASE Positions(k) # {}
  <2> DEFINE i == CHOOSE i \in Positions(k) : TRUE
             front == SubSeq(order, 1, i - 1)
             back == SubSeq(order, i + 1, Len(order))
  <2>1. i \in 1..Len(order) /\ order[i] = k
    BY <1>3 DEF Positions
  <2>2. WithoutKey(k) = front \o back
    BY <1>3 DEF WithoutKey
  <2> HIDE DEF i
  <2>3. /\ front \in Seq(Keys) /\ Len(front) = i - 1
        /\ \A j \in 1..i - 1 : front[j] = order[j]
    <3>1. \A j \in 1..i - 1 : order[j] \in Keys
      BY <1>0, <2>1
    <3>2. /\ front \in Seq(Keys)
          /\ Len(front) = IF 1 <= i - 1 THEN i - 1 - 1 + 1 ELSE 0
          /\ \A j \in 1..i - 1 - 1 + 1 : front[j] = order[1 + j - 1]
      BY <3>1, <2>1, SubSeqProperties
    <3>3. (IF 1 <= i - 1 THEN i - 1 - 1 + 1 ELSE 0) = i - 1 /\ i - 1 - 1 + 1 = i - 1
      BY <2>1
    <3>4. \A j \in 1..i - 1 : 1 + j - 1 = j
      OBVIOUS
    <3> QED BY <3>2, <3>3, <3>4
  <2>4. /\ back \in Seq(Keys) /\ Len(back) = Len(order) - i
        /\ \A j \in 1..Len(order) - i : back[j] = order[i + j]
    <3>1. \A j \in i + 1..Len(order) : order[j] \in Keys
      BY <1>0, <2>1
    <3>2. /\ back \in Seq(Keys)
          /\ Len(back) = IF i + 1 <= Len(order) THEN Len(order) - (i + 1) + 1 ELSE 0
          /\ \A j \in 1..Len(order) - (i + 1) + 1 : back[j] = order[i + 1 + j - 1]
      BY <3>1, <2>1, <1>0, SubSeqProperties
    <3>3. /\ (IF i + 1 <= Len(order) THEN Len(order) - (i + 1) + 1 ELSE 0) = Len(order) - i
          /\ Len(order) - (i + 1) + 1 = Len(order) - i
      BY <2>1, <1>0
    <3>4. \A j \in 1..Len(order) - i : i + 1 + j - 1 = i + j
      BY <2>1
    <3> QED BY <3>2, <3>3, <3>4
  <2> HIDE DEF front, back
  <2> DEFINE ord == front \o back
  <2>5. /\ ord \in Seq(Keys)
        /\ Len(ord) = Len(order) - 1
        /\ \A j \in 1..Len(ord) : ord[j] = order[IF j < i THEN j ELSE j + 1]
    <3>1. /\ ord \in Seq(Keys)
          /\ Len(ord) = Len(front) + Len(back)
          /\ \A j \in 1..Len(front) + Len(back) :
               ord[j] = IF j <= Len(front) THEN front[j] ELSE back[j - Len(front)]
      BY <2>3, <2>4, ConcatProperties
    <3> HIDE DEF ord
    <3>2. Len(ord) = Len(order) - 1
      BY <3>1, <2>3, <2>4, <2>1, <1>0
    <3>3. ASSUME NEW j \in 1..Len(ord)
          PROVE  ord[j] = order[IF j < i THEN j ELSE j + 1]
      <4>1. CASE j < i
        BY <4>1, <3>1, <3>2, <2>1, <2>3, <2>4, <1>0
      <4>2. CASE j >= i
        <5>1. ~(j <= Len(front)) /\ j - Len(front) = j - i + 1 /\ j - i + 1 \in 1..Len(order) - i
          BY <4>2, <3>2, <2>1, <2>3, <1>0
        <5>2. ord[j] = back[j - i + 1]
          BY <3>1, <5>1, <3>2
        <5>3. back[j - i + 1] = order[i + (j - i + 1)] /\ i + (j - i + 1) = j + 1
          BY <5>1, <2>1, <2>4
        <5> QED BY <4>2, <5>2, <5>3, <2>1
      <4> QED BY <4>1, <4>2, <2>1
    <3> QED BY <3>1, <3>2, <3>3
  <2> HIDE DEF ord
  <2>6. \A j \in 1..Len(ord) : (IF j < i THEN j ELSE j + 1) \in 1..Len(order) \ {i}
    BY <2>1, <2>5, <1>0
  <2>7. \A a, b \in 1..Len(ord) : ord[a] = ord[b] => a = b
    <3> SUFFICES ASSUME NEW a \in 1..Len(ord), NEW b \in 1..Len(ord), ord[a] = ord[b]
                 PROVE  a = b
      OBVIOUS
    <3>1. (IF a < i THEN a ELSE a + 1) = (IF b < i THEN b ELSE b + 1)
      BY <2>5, <2>6 DEF QueueConsistent, QueueOK
    <3> QED BY <3>1, <2>1
  <2>8. ASSUME NEW x \in Keys
        PROVE  pend[x] # NoWrite <=> \E j \in 1..Len(ord) : ord[j] = x
    <3>1. CASE x = k
      <4>1. \A j \in 1..Len(ord) : ord[j] # k
        BY <2>1, <2>5, <2>6 DEF QueueConsistent, QueueOK
      <4> QED BY <3>1, <4>1, <1>1
    <3>2. CASE x # k
      <4>1. pend[x] # NoWrite <=> \E j \in 1..Len(order) : order[j] = x
        BY <3>2, <1>1 DEF QueueConsistent, QueueOK
      <4>2. ASSUME NEW j \in 1..Len(order), order[j] = x
            PROVE  \E m \in 1..Len(ord) : ord[m] = x
        <5>1. j # i
          BY <4>2, <3>2, <2>1
        <5>2. CASE j < i
          BY <5>2, <4>2, <2>1, <2>5, <1>0
        <5>3. CASE j > i
          <6>1. j - 1 \in 1..Len(ord) /\ ~(j - 1 < i) /\ j - 1 + 1 = j
            BY <5>3, <2>1, <2>5, <1>0
          <6> QED BY <6>1, <2>5, <4>2
        <5> QED BY <5>1, <5>2, <5>3, <2>1
      <4>3. ASSUME NEW m \in 1..Len(ord), ord[m] = x
            PROVE  \E j \in 1..Len(order) : order[j] = x
        BY <4>3, <2>5, <2>6
      <4> QED BY <4>1, <4>2, <4>3
    <3> QED BY <3>1, <3>2
  <2>9. \A x \in Keys : pend[x] # NoWrite => pend[x].key = x /\ pend[x].generation = generation
    BY <1>1 DEF QueueConsistent, QueueOK
  <2> QED BY <2>2, <2>5, <2>7, <2>8, <2>9 DEF QueueOK, ord
<1> QED BY <1>2, <1>3

(* A new write waits once, in its key's place or behind the others.        *)
LEMMA EnqueuedPreserves ==
  ASSUME SchedTypeOK, QueueConsistent, NEW k \in Keys, NEW v \in Values
  PROVE  /\ Enqueued(k) \in Seq(Keys)
         /\ [pending EXCEPT ![k] = NewWrite(k, v)] \in [Keys -> Write \cup {NoWrite}]
         /\ QueueOK([pending EXCEPT ![k] = NewWrite(k, v)], Enqueued(k))
<1> DEFINE new == NewWrite(k, v)
           pend == [pending EXCEPT ![k] = new]
<1>0. order \in Seq(Keys) /\ Len(order) \in Nat
  BY DEF SchedTypeOK
<1>1. new \in Write /\ new # NoWrite /\ new.key = k /\ new.generation = generation
  <2>1. new \in Write
    BY DEF SchedTypeOK, NewWrite, Write
  <2> QED BY <2>1, NoneIsNone DEF NewWrite
<1> HIDE DEF new
<1>2. pend \in [Keys -> Write \cup {NoWrite}] /\ \A x \in Keys : pend[x] = IF x = k THEN new ELSE pending[x]
  BY <1>1 DEF SchedTypeOK
<1> HIDE DEF pend
<1>3. CASE pending[k] # NoWrite
  <2>1. Enqueued(k) = order
    BY <1>3 DEF Enqueued
  <2>2. QueueOK(pend, order)
    BY <1>1, <1>2, <1>3 DEF QueueConsistent, QueueOK
  <2> QED BY <1>0, <1>2, <2>1, <2>2 DEF pend, new
<1>4. CASE pending[k] = NoWrite
  <2> DEFINE ord == Append(order, k)
  <2>1. Enqueued(k) = ord
    BY <1>4 DEF Enqueued
  <2>2. /\ ord \in Seq(Keys) /\ Len(ord) = Len(order) + 1
        /\ \A i \in 1..Len(order) : ord[i] = order[i]
        /\ ord[Len(order) + 1] = k
    BY <1>0, AppendProperties
  <2>3. \A i \in 1..Len(order) : order[i] # k
    BY <1>4 DEF QueueConsistent, QueueOK
  <2> HIDE DEF ord
  <2>4. \A i, j \in 1..Len(ord) : ord[i] = ord[j] => i = j
    <3> SUFFICES ASSUME NEW i \in 1..Len(ord), NEW j \in 1..Len(ord), ord[i] = ord[j]
                 PROVE  i = j
      OBVIOUS
    <3>1. CASE i \in 1..Len(order) /\ j \in 1..Len(order)
      BY <3>1, <2>2 DEF QueueConsistent, QueueOK
    <3>2. CASE i = Len(order) + 1 /\ j \in 1..Len(order)
      BY <3>2, <2>2, <2>3
    <3>3. CASE j = Len(order) + 1 /\ i \in 1..Len(order)
      BY <3>3, <2>2, <2>3
    <3>4. (i \in 1..Len(order) \/ i = Len(order) + 1) /\ (j \in 1..Len(order) \/ j = Len(order) + 1)
      BY <1>0, <2>2
    <3> QED BY <3>1, <3>2, <3>3, <3>4
  <2>5. ASSUME NEW x \in Keys
        PROVE  pend[x] # NoWrite <=> \E j \in 1..Len(ord) : ord[j] = x
    <3>1. CASE x = k
      <4>1. Len(order) + 1 \in 1..Len(ord)
        BY <1>0, <2>2
      <4> QED BY <3>1, <4>1, <1>1, <1>2, <2>2
    <3>2. CASE x # k
      <4>1. pend[x] # NoWrite <=> \E j \in 1..Len(order) : order[j] = x
        BY <3>2, <1>2 DEF QueueConsistent, QueueOK
      <4>2. \A j \in 1..Len(order) : j \in 1..Len(ord)
        BY <1>0, <2>2
      <4>3. \A j \in 1..Len(ord) : ord[j] = x => j \in 1..Len(order)
        BY <3>2, <1>0, <2>2
      <4> QED BY <4>1, <4>2, <4>3, <2>2
    <3> QED BY <3>1, <3>2
  <2>6. \A x \in Keys : pend[x] # NoWrite => pend[x].key = x /\ pend[x].generation = generation
    BY <1>1, <1>2 DEF QueueConsistent, QueueOK
  <2>7. QueueOK(pend, ord)
    BY <2>4, <2>5, <2>6 DEF QueueOK
  <2> QED BY <1>2, <2>1, <2>2, <2>7 DEF pend, new
<1> QED BY <1>3, <1>4

(* A retried write waits in front of the others, if its key did not wait.  *)
LEMMA RetryPreserves ==
  ASSUME SchedTypeOK, QueueConsistent, inflight # NoWrite, RetryWanted
  PROVE  /\ <<inflight.key>> \o order \in Seq(Keys)
         /\ [pending EXCEPT ![inflight.key] = inflight] \in [Keys -> Write \cup {NoWrite}]
         /\ QueueOK([pending EXCEPT ![inflight.key] = inflight], <<inflight.key>> \o order)
<1> DEFINE k == inflight.key
           pend == [pending EXCEPT ![k] = inflight]
           ord == <<k>> \o order
<1>0. order \in Seq(Keys) /\ Len(order) \in Nat
  BY DEF SchedTypeOK
<1>1. inflight \in Write /\ k \in Keys /\ inflight.generation = generation
  BY DEF SchedTypeOK, Write, RetryWanted
<1>2. pend \in [Keys -> Write \cup {NoWrite}] /\ \A x \in Keys : pend[x] = IF x = k THEN inflight ELSE pending[x]
  BY <1>1 DEF SchedTypeOK
<1>3. pending[k] = NoWrite
  BY DEF RetryWanted
<1>4. \A i \in 1..Len(order) : order[i] # k
  BY <1>1, <1>3 DEF QueueConsistent, QueueOK
<1>5. /\ ord \in Seq(Keys) /\ Len(ord) = Len(order) + 1
      /\ ord[1] = k
      /\ \A i \in 1..Len(order) : ord[i + 1] = order[i]
  <2>1. <<k>> \in Seq(Keys) /\ Len(<<k>>) = 1 /\ <<k>>[1] = k
    BY <1>1
  <2>2. /\ ord \in Seq(Keys)
        /\ Len(ord) = Len(<<k>>) + Len(order)
        /\ \A i \in 1..Len(<<k>>) + Len(order) :
             ord[i] = IF i <= Len(<<k>>) THEN <<k>>[i] ELSE order[i - Len(<<k>>)]
    BY <1>0, <2>1, ConcatProperties
  <2> HIDE DEF ord
  <2>3. \A i \in 1..1 + Len(order) : ord[i] = IF i <= 1 THEN <<k>>[i] ELSE order[i - 1]
    BY <2>1, <2>2
  <2>4. ord[1] = k
    <3>1. 1 \in 1..1 + Len(order)
      BY <1>0
    <3> QED BY <2>1, <2>3, <3>1
  <2>5. ASSUME NEW i \in 1..Len(order) PROVE ord[i + 1] = order[i]
    <3>1. i + 1 \in 1..1 + Len(order) /\ ~(i + 1 <= 1) /\ i + 1 - 1 = i
      BY <1>0
    <3> QED BY <2>3, <3>1
  <2> QED BY <1>0, <2>1, <2>2, <2>4, <2>5
<1> HIDE DEF pend, ord, k
<1>6. \A i \in 1..Len(ord) : i = 1 \/ (i - 1 \in 1..Len(order) /\ ord[i] = order[i - 1])
  <2> TAKE i \in 1..Len(ord)
  <2>1. CASE i # 1
    <3>1. i - 1 \in 1..Len(order) /\ i - 1 + 1 = i
      BY <2>1, <1>0, <1>5
    <3> QED BY <3>1, <1>5
  <2> QED BY <2>1
<1>7. \A i, j \in 1..Len(ord) : ord[i] = ord[j] => i = j
  <2> SUFFICES ASSUME NEW i \in 1..Len(ord), NEW j \in 1..Len(ord), ord[i] = ord[j]
               PROVE  i = j
    OBVIOUS
  <2>1. CASE i = 1 \/ j = 1
    BY <2>1, <1>4, <1>5, <1>6
  <2>2. CASE i # 1 /\ j # 1
    <3>1. i - 1 = j - 1
      BY <2>2, <1>6 DEF QueueConsistent, QueueOK
    <3> QED BY <3>1, <1>5
  <2> QED BY <2>1, <2>2
<1>8. ASSUME NEW x \in Keys
      PROVE  pend[x] # NoWrite <=> \E j \in 1..Len(ord) : ord[j] = x
  <2>1. CASE x = k
    <3>1. 1 \in 1..Len(ord)
      BY <1>0, <1>5
    <3> QED BY <2>1, <3>1, <1>2, <1>5
  <2>2. CASE x # k
    <3>1. pend[x] # NoWrite <=> \E j \in 1..Len(order) : order[j] = x
      BY <2>2, <1>2 DEF QueueConsistent, QueueOK
    <3>2. \A j \in 1..Len(order) : j + 1 \in 1..Len(ord)
      BY <1>0, <1>5
    <3> QED BY <2>2, <3>1, <3>2, <1>5, <1>6
  <2> QED BY <2>1, <2>2
<1>9. \A x \in Keys : pend[x] # NoWrite => pend[x].key = x /\ pend[x].generation = generation
  BY <1>1, <1>2 DEF QueueConsistent, QueueOK, k
<1>10. QueueOK(pend, ord)
  BY <1>7, <1>8, <1>9 DEF QueueOK
<1> QED BY <1>2, <1>5, <1>10 DEF pend, ord, k

(* Every slot of the main thread and every end of a blocking call keeps    *)
(* the inductive invariant.                                                *)
LEMMA SubmitInv ==
  ASSUME SchedInv, NEW k \in Keys, NEW v \in Values, SubmitWithContext(k, v)
  PROVE  SchedInv'
<1> USE DEF SchedInv
<1> DEFINE pend == [pending EXCEPT ![k] = NewWrite(k, v)]
           ord == Enqueued(k)
<1>1. DispatchNext(inflight, pend, ord, current, timer, job)
      /\ UNCHANGED <<generation, abandoned, current, stopped>> /\ ~stopped
  BY DEF SubmitWithContext
<1>2. pend \in [Keys -> Write \cup {NoWrite}] /\ ord \in Seq(Keys) /\ QueueOK(pend, ord)
  BY EnqueuedPreserves
<1>3. /\ inflight = NoWrite => job[current] = Idle /\ timer = "off"
      /\ inflight # NoWrite => job[current] # Idle /\ job[current].write = inflight
  BY <1>1 DEF WorkersAccounted, StallWatched
<1>4. /\ inflight \in Write \cup {NoWrite} /\ current \in Workers /\ timer \in TimerPhases
      /\ job \in [Workers -> Job]
  BY DEF SchedTypeOK
<1> HIDE DEF pend, ord
<1>5. /\ inflight' \in Write \cup {NoWrite}
      /\ pending' \in [Keys -> Write \cup {NoWrite}]
      /\ order' \in Seq(Keys)
      /\ timer' \in TimerPhases
      /\ job' \in [Workers -> Job]
      /\ QueueConsistent' /\ NoLostWakeup'
      /\ inflight' = NoWrite <=> job'[current] = Idle
      /\ inflight' # NoWrite => job'[current].write = inflight'
      /\ \A x \in Workers \ {current} : job'[x] = job[x]
      /\ IF inflight' = NoWrite THEN timer' = "off" ELSE timer' = timer \/ timer' = "warning"
      /\ inflight' # NoWrite /\ inflight # NoWrite => timer' = timer
      /\ inflight' # NoWrite /\ inflight = NoWrite => timer' = "warning"
  BY <1>1, <1>2, <1>3, <1>4, DispatchPreserves
<1>6. SchedTypeOK'
  BY <1>1, <1>5 DEF SchedTypeOK
<1>7. WorkersAccounted'
  BY <1>1, <1>5 DEF WorkersAccounted
<1>8. StallWatched'
  BY <1>1, <1>5 DEF StallWatched
<1>9. AbandonLimit'
  BY <1>1 DEF AbandonLimit
<1> QED BY <1>5, <1>6, <1>7, <1>8, <1>9

LEMMA DiscardInv ==
  ASSUME SchedInv, NEW k \in Keys, DiscardKey(k), UNCHANGED stopped
  PROVE  SchedInv'
<1> USE DEF SchedInv, DiscardKey
<1>1. WithoutKey(k) \in Seq(Keys) /\ QueueOK([pending EXCEPT ![k] = NoWrite], WithoutKey(k))
  BY WithoutKeyPreserves
<1>2. SchedTypeOK'
  BY <1>1 DEF SchedTypeOK
<1>3. QueueConsistent'
  BY <1>1 DEF QueueConsistent, QueueOK
<1>4. NoLostWakeup'
  <2>1. \A x \in Keys : pending'[x] # NoWrite => pending[x] # NoWrite
    BY DEF SchedTypeOK
  <2> QED BY <2>1 DEF NoLostWakeup, PendingKeys
<1> QED BY <1>2, <1>3, <1>4 DEF WorkersAccounted, StallWatched, AbandonLimit

LEMMA ClearInv ==
  ASSUME SchedInv, SchedReset \/ Stop
  PROVE  SchedInv'
<1> USE DEF SchedInv
<1>1. /\ generation' = generation + 1 /\ pending' = [k \in Keys |-> NoWrite] /\ order' = <<>>
      /\ UNCHANGED <<inflight, abandoned, current, job>>
      /\ (timer' = timer /\ stopped' = stopped) \/ (timer' = "off" /\ stopped' = TRUE)
  BY DEF SchedReset, Stop, ClearQueue
<1>2. order' \in Seq(Keys)
  BY <1>1, EmptySeq
<1>3. SchedTypeOK'
  <2>1. generation' \in Nat
    BY <1>1 DEF SchedTypeOK
  <2>2. timer' \in TimerPhases
    BY <1>1 DEF SchedTypeOK, TimerPhases
  <2>3. stopped' \in BOOLEAN
    <3>1. CASE SchedReset
      BY <3>1 DEF SchedTypeOK, SchedReset
    <3>2. CASE Stop
      BY <3>2 DEF Stop
    <3> QED BY <3>1, <3>2
  <2>4. pending' \in [Keys -> Write \cup {NoWrite}]
    BY <1>1
  <2> QED BY <1>1, <1>2, <2>1, <2>2, <2>3, <2>4 DEF SchedTypeOK
<1>4. QueueConsistent' /\ NoLostWakeup'
  BY <1>1 DEF QueueConsistent, QueueOK, NoLostWakeup, PendingKeys
<1>5. WorkersAccounted' /\ StallWatched' /\ AbandonLimit'
  BY <1>1 DEF WorkersAccounted, StallWatched, AbandonLimit, SchedTypeOK
<1> QED BY <1>3, <1>4, <1>5

LEMMA WorkerFinishInv ==
  ASSUME SchedInv, NEW w \in Workers, NEW outcome \in {"ok", "failed"}, WorkerFinish(w, outcome)
  PROVE  SchedInv'
<1> USE DEF SchedInv
<1>1. /\ UNCHANGED <<generation, inflight, pending, order, abandoned, current, timer, stopped>>
      /\ job' = [job EXCEPT ![w].stage = outcome] /\ job[w] # Idle
  BY DEF WorkerFinish
<1>2. job[w] \in [stage : {"blocked", "ok", "failed"}, write : Write]
  BY <1>1 DEF SchedTypeOK, Job
<1>3. /\ job'[w] = [job[w] EXCEPT !.stage = outcome]
      /\ job'[w] \in [stage : {"blocked", "ok", "failed"}, write : Write]
      /\ job'[w].write = job[w].write
      /\ \A x \in Workers \ {w} : job'[x] = job[x]
      /\ job' \in [Workers -> Job]
  BY <1>1, <1>2 DEF SchedTypeOK, Job
<1>4. job'[w] # Idle
  <2>1. DOMAIN job'[w] # DOMAIN Idle
    BY <1>3 DEF Idle
  <2> QED BY <2>1
<1>5. SchedTypeOK'
  BY <1>1, <1>3 DEF SchedTypeOK
<1>6. QueueConsistent' /\ NoLostWakeup' /\ StallWatched' /\ AbandonLimit'
  BY <1>1 DEF QueueConsistent, QueueOK, NoLostWakeup, PendingKeys, StallWatched, AbandonLimit
<1>7. \A x \in Workers : job'[x] = Idle <=> job[x] = Idle
  BY <1>1, <1>3, <1>4
<1>8. WorkersAccounted'
  <2>1. \A x \in Workers : job[x] # Idle => job'[x].write = job[x].write
    BY <1>3
  <2> QED BY <1>1, <1>7, <2>1 DEF WorkersAccounted, SchedTypeOK
<1> QED BY <1>5, <1>6, <1>8

LEMMA DropAbandonedInv ==
  ASSUME SchedInv, NEW w \in Workers, DropAbandoned(w)
  PROVE  SchedInv'
<1> USE DEF SchedInv
<1>1. /\ UNCHANGED <<generation, inflight, pending, order, current, timer, stopped>>
      /\ job' = [job EXCEPT ![w] = Idle] /\ w \in abandoned /\ abandoned' = abandoned \ {w}
  BY DEF DropAbandoned
<1>2. w # current
  BY <1>1 DEF WorkersAccounted
<1>3. SchedTypeOK'
  BY <1>1 DEF SchedTypeOK, Job
<1>4. QueueConsistent' /\ NoLostWakeup' /\ StallWatched'
  BY <1>1 DEF QueueConsistent, QueueOK, NoLostWakeup, PendingKeys, StallWatched
<1>5. WorkersAccounted'
  BY <1>1, <1>2 DEF WorkersAccounted, SchedTypeOK
<1>6. AbandonLimit'
  <2>1. IsFiniteSet(abandoned)
    BY FS_Subset, SchedulerAssumption DEF SchedTypeOK
  <2>2. Cardinality(abandoned \ {w}) = Cardinality(abandoned) - 1 /\ Cardinality(abandoned) \in Nat
    BY <1>1, <2>1, FS_RemoveElement, FS_CardinalityType
  <2> QED BY <1>1, <2>2, SchedulerAssumption DEF AbandonLimit
<1> QED BY <1>3, <1>4, <1>5, <1>6

(* Only the live worker's completion gets past DropAbandoned, and it is    *)
(* always the one of the write in flight.                                  *)
LEMMA CompletionIsLive ==
  ASSUME SchedInv, NEW w \in Workers, Finished(w), w \notin abandoned
  PROVE  w = current /\ inflight # NoWrite /\ job[w].write = inflight
BY DEF SchedInv, WorkersAccounted, Finished

LEMMA CompletedInv ==
  ASSUME SchedInv, NEW w \in Workers, OnCompleted(w)
  PROVE  SchedInv'
<1> USE DEF SchedInv
<1> DEFINE jobs == [job EXCEPT ![current] = Idle]
<1>1. w = current /\ inflight = job[w].write /\ inflight # NoWrite
  BY CompletionIsLive DEF OnCompleted
<1>2. DispatchNext(NoWrite, pending, order, current, "off", jobs)
      /\ UNCHANGED <<generation, abandoned, current, stopped>> /\ ~stopped
  BY <1>1 DEF OnCompleted
<1>3. /\ pending \in [Keys -> Write \cup {NoWrite}] /\ order \in Seq(Keys)
      /\ QueueOK(pending, order) /\ current \in Workers
      /\ "off" \in TimerPhases /\ NoWrite \in Write \cup {NoWrite}
  BY DEF SchedTypeOK, QueueConsistent, TimerPhases
<1>4. /\ jobs \in [Workers -> Job] /\ jobs[current] = Idle
      /\ \A x \in Workers \ {current} : jobs[x] = job[x]
  BY DEF SchedTypeOK, Job
<1> HIDE DEF jobs
<1>5. /\ inflight' \in Write \cup {NoWrite}
      /\ pending' \in [Keys -> Write \cup {NoWrite}]
      /\ order' \in Seq(Keys)
      /\ timer' \in TimerPhases
      /\ job' \in [Workers -> Job]
      /\ QueueConsistent' /\ NoLostWakeup'
      /\ inflight' = NoWrite <=> job'[current] = Idle
      /\ inflight' # NoWrite => job'[current].write = inflight'
      /\ \A x \in Workers \ {current} : job'[x] = jobs[x]
      /\ IF inflight' = NoWrite THEN timer' = "off" ELSE timer' = "off" \/ timer' = "warning"
      /\ inflight' # NoWrite => timer' = "warning"
  BY <1>2, <1>3, <1>4, DispatchPreserves
<1>6. SchedTypeOK'
  BY <1>2, <1>5 DEF SchedTypeOK
<1>7. WorkersAccounted'
  BY <1>2, <1>4, <1>5 DEF WorkersAccounted
<1>8. StallWatched'
  BY <1>2, <1>5 DEF StallWatched
<1>9. AbandonLimit'
  BY <1>2 DEF AbandonLimit
<1> QED BY <1>5, <1>6, <1>7, <1>8, <1>9

LEMMA WaitInv ==
  ASSUME SchedInv, WarnStall \/ KeepWaiting
  PROVE  SchedInv'
<1> USE DEF SchedInv
<1>1. /\ timer' = "stall" /\ inflight # NoWrite
      /\ UNCHANGED <<generation, inflight, pending, order, abandoned, current, job, stopped>>
  BY DEF WarnStall, KeepWaiting, StallElapsed
<1>2. SchedTypeOK'
  BY <1>1 DEF SchedTypeOK, TimerPhases
<1> QED BY <1>1, <1>2 DEF QueueConsistent, QueueOK, NoLostWakeup, PendingKeys,
                          WorkersAccounted, StallWatched, AbandonLimit

LEMMA AbandonInv ==
  ASSUME SchedInv, AbandonWorker
  PROVE  SchedInv'
<1> USE DEF SchedInv
<1> DEFINE pend == IF RetryWanted THEN [pending EXCEPT ![inflight.key] = inflight] ELSE pending
           ord == IF RetryWanted THEN <<inflight.key>> \o order ELSE order
<1>1. PICK w \in Workers \ abandoned' :
        current' = w /\ DispatchNext(NoWrite, pend, ord, w, "off", job)
  BY DEF AbandonWorker
<1>2. /\ abandoned' = abandoned \cup {current} /\ inflight # NoWrite /\ ~stopped
      /\ Cardinality(abandoned) < MaxAbandoned
      /\ UNCHANGED <<generation, stopped>>
  BY DEF AbandonWorker, StallElapsed
<1>3. pend \in [Keys -> Write \cup {NoWrite}] /\ ord \in Seq(Keys) /\ QueueOK(pend, ord)
  BY <1>2, RetryPreserves DEF SchedTypeOK, QueueConsistent
<1>4. /\ job[w] = Idle /\ w # current /\ job \in [Workers -> Job]
      /\ "off" \in TimerPhases /\ NoWrite \in Write \cup {NoWrite}
  BY <1>1, <1>2 DEF WorkersAccounted, SchedTypeOK, TimerPhases
<1> HIDE DEF pend, ord
<1>5. /\ inflight' \in Write \cup {NoWrite}
      /\ pending' \in [Keys -> Write \cup {NoWrite}]
      /\ order' \in Seq(Keys)
      /\ timer' \in TimerPhases
      /\ job' \in [Workers -> Job]
      /\ QueueConsistent' /\ NoLostWakeup'
      /\ inflight' = NoWrite <=> job'[w] = Idle
      /\ inflight' # NoWrite => job'[w].write = inflight'
      /\ \A x \in Workers \ {w} : job'[x] = job[x]
      /\ IF inflight' = NoWrite THEN timer' = "off" ELSE timer' = "off" \/ timer' = "warning"
      /\ inflight' # NoWrite => timer' = "warning"
  BY <1>1, <1>2, <1>3, <1>4, DispatchPreserves
<1>6. SchedTypeOK'
  BY <1>1, <1>2, <1>5 DEF SchedTypeOK
<1>7. WorkersAccounted'
  <2>1. abandoned' = {x \in Workers : x # w /\ job'[x] # Idle}
    <3>1. ASSUME NEW x \in Workers
          PROVE  x \in abandoned' <=> x # w /\ job'[x] # Idle
      BY <1>1, <1>2, <1>4, <1>5 DEF WorkersAccounted, SchedTypeOK
    <3> QED BY <3>1, <1>6 DEF SchedTypeOK
  <2> QED BY <1>1, <1>5, <2>1 DEF WorkersAccounted
<1>8. StallWatched'
  BY <1>2, <1>5 DEF StallWatched
<1>9. AbandonLimit'
  <2>1. IsFiniteSet(abandoned) /\ current \notin abandoned
    BY FS_Subset, SchedulerAssumption DEF SchedTypeOK, WorkersAccounted
  <2>2. Cardinality(abandoned') = Cardinality(abandoned) + 1 /\ Cardinality(abandoned) \in Nat
    BY <1>2, <2>1, FS_AddElement, FS_CardinalityType
  <2> QED BY <1>2, <2>2, SchedulerAssumption DEF AbandonLimit
<1> QED BY <1>5, <1>6, <1>7, <1>8, <1>9

-----------------------------------------------------------------------------
LEMMA NextInv == SchedInv /\ [SchedNext]_schedVars => SchedInv'
<1> SUFFICES ASSUME SchedInv, [SchedNext]_schedVars PROVE SchedInv'
  OBVIOUS
<1>1. ASSUME NEW k \in Keys, NEW v \in Values, SubmitWithContext(k, v) PROVE SchedInv'
  BY <1>1, SubmitInv
<1>2. ASSUME NEW k \in Keys, DiscardKey(k), UNCHANGED stopped PROVE SchedInv'
  BY <1>2, DiscardInv
<1>3. CASE SchedReset \/ Stop
  BY <1>3, ClearInv
<1>4. CASE WorkerStep
  BY <1>4, WorkerFinishInv, DropAbandonedInv DEF WorkerStep
<1>5. ASSUME NEW w \in Workers, OnCompleted(w) PROVE SchedInv'
  BY <1>5, CompletedInv
<1>6. CASE StallStep
  BY <1>6, WaitInv, AbandonInv DEF StallStep
<1>7. CASE UNCHANGED schedVars
  BY <1>7 DEF schedVars, SchedInv, SchedTypeOK, QueueConsistent, QueueOK, NoLostWakeup,
              PendingKeys, WorkersAccounted, StallWatched, AbandonLimit
<1> QED BY <1>1, <1>2, <1>3, <1>4, <1>5, <1>6, <1>7 DEF SchedNext

(* The inductive invariant holds of the scheduler in every behaviour.      *)
THEOREM SchedulerInvariant == SchedSpec => []SchedInv
<1>1. SchedInit => SchedInv
  BY InitInv
<1>2. SchedInv /\ [SchedNext]_schedVars => SchedInv'
  BY NextInv
<1> QED BY <1>1, <1>2, PTL DEF SchedSpec

(* _order and _pending always agree.                                       *)
THEOREM QueueStaysConsistent == SchedSpec => []QueueConsistent
<1>1. SchedInv => QueueConsistent
  BY DEF SchedInv
<1> QED BY <1>1, SchedulerInvariant, PTL

(* No write waits while nothing is in flight.                              *)
THEOREM NoWakeupIsLost == SchedSpec => []NoLostWakeup
<1>1. SchedInv => NoLostWakeup
  BY DEF SchedInv
<1> QED BY <1>1, SchedulerInvariant, PTL

(* In whatever order late completions, stalls, retries and resets come,    *)
(* what the scheduler believes in flight is what its present worker holds, *)
(* and the workers it gave up are the others that hold something, so that  *)
(* no completion is taken for another's (_on_completed,                    *)
(* _recover_stalled_write, _prune_abandoned, reset).                       *)
THEOREM WorkersAreAccounted == SchedSpec => []WorkersAccounted
<1>1. SchedInv => WorkersAccounted
  BY DEF SchedInv
<1> QED BY <1>1, SchedulerInvariant, PTL

(* A write in flight is always watched by the stall timer.                 *)
THEOREM FlightIsWatched == SchedSpec => []StallWatched
<1>1. SchedInv => StallWatched
  BY DEF SchedInv
<1> QED BY <1>1, SchedulerInvariant, PTL

(* No more workers are blocked in the background than allowed.             *)
THEOREM AbandonedAreBounded == SchedSpec => []AbandonLimit
<1>1. SchedInv => AbandonLimit
  BY DEF SchedInv
<1> QED BY <1>1, SchedulerInvariant, PTL

(* What _dispatch_next starts is of the present generation; what the other *)
(* workers hold is left to them.                                           *)
LEMMA DispatchStartsFresh ==
  ASSUME NEW infl, NEW pend, NEW ord, NEW x \in Workers, NEW tmr, NEW jobs \in [Workers -> Job],
         DispatchNext(infl, pend, ord, x, tmr, jobs), generation' = generation
  PROVE  \A w \in Workers : job'[w] = jobs[w] \/ job'[w].write.generation = generation'
<1>1. CASE job' = jobs
  BY <1>1
<1>2. CASE \E i \in 1..Len(ord) :
             /\ IsFirst(i, Dispatchable(pend, ord))
             /\ job' = [jobs EXCEPT ![x] = [stage |-> "blocked", write |-> pend[ord[i]]]]
  <2>1. PICK i \in 1..Len(ord) :
          /\ IsFirst(i, Dispatchable(pend, ord))
          /\ job' = [jobs EXCEPT ![x] = [stage |-> "blocked", write |-> pend[ord[i]]]]
    BY <1>2
  <2>2. pend[ord[i]].generation = generation
    BY <2>1 DEF IsFirst, Dispatchable
  <2>3. job'[x].write = pend[ord[i]] /\ \A w \in Workers \ {x} : job'[w] = jobs[w]
    BY <2>1
  <2> QED BY <2>2, <2>3
<1> QED BY <1>1, <1>2 DEF DispatchNext

LEMMA StartsAreFresh ==
  ASSUME SchedTypeOK, [SchedNext]_schedVars,
         NEW w \in Workers, job'[w] # Idle, job[w] = Idle \/ job[w].write # job'[w].write
  PROVE  job'[w].write.generation = generation'
<1>1. job \in [Workers -> Job] /\ current \in Workers /\ Idle \in Job
  BY DEF SchedTypeOK, Job
<1>2. job'[w] # job[w]
  OBVIOUS
<1>3. ASSUME NEW k \in Keys, NEW v \in Values, SubmitWithContext(k, v)
      PROVE  job'[w].write.generation = generation'
  <2>1. generation' = generation
    BY <1>3 DEF SubmitWithContext
  <2> QED BY <1>1, <1>2, <1>3, <2>1, DispatchStartsFresh DEF SubmitWithContext
<1>4. CASE UNCHANGED job
  BY <1>2, <1>4
<1>5. ASSUME NEW x \in Workers, NEW outcome \in {"ok", "failed"}, WorkerFinish(x, outcome) PROVE FALSE
  <2>1. job[x] # Idle /\ job' = [job EXCEPT ![x].stage = outcome]
    BY <1>5 DEF WorkerFinish
  <2>2. job[x] \in [stage : {"blocked", "ok", "failed"}, write : Write]
    BY <1>1, <2>1 DEF Job
  <2>3. job'[x].write = job[x].write /\ \A y \in Workers \ {x} : job'[y] = job[y]
    BY <1>1, <2>1, <2>2
  <2> QED BY <1>2, <2>1, <2>3
<1>6. ASSUME NEW x \in Workers, DropAbandoned(x) PROVE FALSE
  BY <1>1, <1>2, <1>6 DEF DropAbandoned
<1>7. ASSUME NEW x \in Workers, OnCompleted(x) PROVE job'[w].write.generation = generation'
  <2> DEFINE jobs == [job EXCEPT ![x] = Idle]
  <2>1. jobs \in [Workers -> Job] /\ \A y \in Workers : jobs[y] = job[y] \/ jobs[y] = Idle
    BY <1>1
  <2>2. generation' = generation
    BY <1>7 DEF OnCompleted
  <2>3. \E infl, tmr : DispatchNext(infl, pending, order, current, tmr, jobs)
    BY <1>7 DEF OnCompleted
  <2> HIDE DEF jobs
  <2>4. job'[w] = jobs[w] \/ job'[w].write.generation = generation'
    BY <1>1, <2>1, <2>2, <2>3, DispatchStartsFresh
  <2> QED BY <1>2, <2>1, <2>4
<1>8. CASE AbandonWorker
  <2>1. PICK x \in Workers : \E pend, ord : DispatchNext(NoWrite, pend, ord, x, "off", job)
    BY <1>8 DEF AbandonWorker
  <2>2. generation' = generation
    BY <1>8 DEF AbandonWorker
  <2> QED BY <1>1, <1>2, <2>1, <2>2, DispatchStartsFresh
<1>9. ASSUME NEW k \in Keys, DiscardKey(k) PROVE UNCHANGED job
  BY <1>9 DEF DiscardKey
<1>10. SchedReset \/ Stop \/ WarnStall \/ KeepWaiting \/ UNCHANGED schedVars => UNCHANGED job
  BY DEF SchedReset, Stop, WarnStall, KeepWaiting, schedVars
<1> QED BY <1>3, <1>4, <1>5, <1>6, <1>7, <1>8, <1>9, <1>10 DEF SchedNext, WorkerStep, StallStep

(* Nothing that was queued before a reset starts after it, neither the     *)
(* retry of a write that hung nor one that overtakes it in the queue       *)
(* (_dispatch_next, _recover_stalled_write, reset).                        *)
THEOREM NothingStaleStarts == SchedSpec => NoStaleStart
<1>1. SchedInv /\ [SchedNext]_schedVars =>
        [\A w \in Workers : job'[w] # Idle /\ (job[w] = Idle \/ job[w].write # job'[w].write)
           => job'[w].write.generation = generation']_schedVars
  BY StartsAreFresh DEF SchedInv
<1> QED BY <1>1, SchedulerInvariant, PTL DEF SchedSpec, NoStaleStart
=============================================================================
