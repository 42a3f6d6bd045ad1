---------------------------- MODULE VSinksProofs ----------------------------
(***************************************************************************)
(* Two programs that give a channel the same name can run side by side:    *)
(* this one takes no module of the other while that is connected.  The     *)
(* inductive invariant is that the module ids it remembers from loading,   *)
(* which it unloads without looking up their owner, are never those of a   *)
(* module of the other program.                                            *)
(***************************************************************************)
EXTENDS VSinks, WellFoundedInduction, TLAPS

IsModule(r) ==
  /\ r = [kind |-> r.kind, owner |-> r.owner, target |-> r.target, src |-> r.src, seen |-> r.seen]
  /\ r.owner \in {"own", "peer"}

AreModules(mods) == \A m \in DOMAIN mods : IsModule(mods[m])

\* Nothing remembered is the other program's.
Ours(pending) == pending # None /\ pending \in DOMAIN modules => modules[pending].owner = "own"

SinkInv == AreModules(modules) /\ Ours(pendNull) /\ Ours(pendLoop)

\* What may be taken from the other program while it is connected.
Orphan(m) == modules[m].kind = "loop" /\ \A n \in Named(modules, "null") : modules[n].owner = "own"
Spared(ids) == \A m \in ids \cap DOMAIN modules :
                 peer = "live" /\ modules[m].owner = "peer" => Orphan(m)
TakesNothing == \A m \in DOMAIN modules \ DOMAIN modules' :
                  (op' # op /\ peer = "live" /\ modules[m].owner = "peer") => Orphan(m)
-----------------------------------------------------------------------------
(***************************************************************************)
(* The server's modules.                                                   *)
(***************************************************************************)
LEMMA Least == ASSUME NEW S \in SUBSET Nat, S # {} PROVE \E m \in S : \A n \in S : m <= n
<1>1. PICK m \in S : \A n \in S : ~(<<n, m>> \in OpToRel(<, Nat))
  BY NatLessThanWellFounded, WFMin, Zenon
<1>2. \A n \in S : ~(n < m)
  BY <1>1 DEF OpToRel
<1> QED BY <1>2

LEMMA FreshIsUnused == ASSUME CanLoad
                       PROVE  FreshId \notin DOMAIN modules \cup {pendNull, pendLoop}
<1>1. FreshIds \in SUBSET Nat /\ FreshIds # {}
  BY ConstantsAssumption DEF FreshIds, CanLoad
<1>2. FreshId \in FreshIds
  BY <1>1, Least, Zenon DEF FreshId
<1> QED BY <1>2 DEF FreshIds

LEMMA OneModule == ASSUME NEW kind, NEW owner \in {"own", "peer"}, NEW target, NEW src, NEW seen
                   PROVE  /\ IsModule(Module(kind, owner, target, src, seen))
                          /\ Module(kind, owner, target, src, seen).owner = owner
BY DEF IsModule, Module

LEMMA ModuleChanged ==
  ASSUME NEW r, IsModule(r), NEW v
  PROVE  /\ IsModule([r EXCEPT !.src = v]) /\ IsModule([r EXCEPT !.seen = v])
         /\ [r EXCEPT !.src = v].owner = r.owner /\ [r EXCEPT !.seen = v].owner = r.owner
<1> DEFINE R(k, o, t, s, n) == [kind |-> k, owner |-> o, target |-> t, src |-> s, seen |-> n]
<1>1. \A k, o, t, s, n : /\ [R(k, o, t, s, n) EXCEPT !.src = v] = R(k, o, t, v, n)
                         /\ [R(k, o, t, s, n) EXCEPT !.seen = v] = R(k, o, t, s, v)
  OBVIOUS
<1>2. PICK k, o, t, s, n : r = R(k, o, t, s, n) /\ o \in {"own", "peer"} /\ o = r.owner
  BY DEF IsModule
<1>3. [r EXCEPT !.src = v] = R(k, o, t, v, n) /\ [r EXCEPT !.seen = v] = R(k, o, t, s, v)
  BY <1>1, <1>2
<1>4. \A a, b, c, d, e : R(a, b, c, d, e).owner = b /\ (b \in {"own", "peer"} => IsModule(R(a, b, c, d, e)))
  BY DEF IsModule
<1> HIDE DEF R
<1> QED BY <1>2, <1>3, <1>4

LEMMA Removing ==
  ASSUME NEW mods, AreModules(mods), NEW ids
  PROVE  /\ AreModules(Without(mods, ids))
         /\ DOMAIN Without(mods, ids) = DOMAIN mods \ ids
         /\ \A n \in DOMAIN mods \ ids : Without(mods, ids)[n].owner = mods[n].owner
<1>1. DOMAIN Without(mods, ids) = DOMAIN mods \ ids
  BY DEF Without
<1>2. \A n \in DOMAIN mods \ ids : Without(mods, ids)[n] \in {mods[n], [mods[n] EXCEPT !.src = None]}
  BY DEF Without
<1>3. ASSUME NEW n \in DOMAIN mods \ ids
      PROVE  IsModule(Without(mods, ids)[n]) /\ Without(mods, ids)[n].owner = mods[n].owner
  <2>1. IsModule(mods[n])
    BY DEF AreModules
  <2>2. /\ IsModule([mods[n] EXCEPT !.src = None])
        /\ [mods[n] EXCEPT !.src = None].owner = mods[n].owner
    BY <2>1, ModuleChanged
  <2> QED BY <1>2, <2>1, <2>2, Zenon
<1> QED BY <1>1, <1>3 DEF AreModules

LEMMA AddingModule ==
  ASSUME NEW mods, AreModules(mods), NEW id, NEW new, IsModule(new)
  PROVE  AreModules(With(mods, id, new))
BY DEF AreModules, With
-----------------------------------------------------------------------------
(***************************************************************************)
(* What a step has to do with the modules.                                 *)
(***************************************************************************)
\* left is the modules without those of gone.
Remaining(left, gone) ==
  /\ AreModules(left) /\ DOMAIN left = DOMAIN modules \ gone
  /\ \A n \in DOMAIN left : left[n].owner = modules[n].owner

LEMMA WithoutRemains == ASSUME SinkInv, NEW gone PROVE Remaining(Without(modules, gone), gone)
<1> DEFINE left == Without(modules, gone)
<1>1. /\ AreModules(left) /\ DOMAIN left = DOMAIN modules \ gone
      /\ \A n \in DOMAIN modules \ gone : left[n].owner = modules[n].owner
  BY Removing DEF SinkInv
<1>2. Remaining(left, gone)
  <2> HIDE DEF left
  <2> QED BY <1>1 DEF Remaining
<1> QED BY <1>2

LEMMA AllRemain == ASSUME SinkInv PROVE Remaining(modules, {})
BY DEF SinkInv, Remaining

\* Modules are removed, and what is remembered forgotten or kept.
LEMMA RemovalStep ==
  ASSUME SinkInv, NEW gone, Spared(gone) \/ UNCHANGED op, Remaining(modules', gone),
         pendNull' \in {None, pendNull}, pendLoop' \in {None, pendLoop}
  PROVE  SinkInv' /\ TakesNothing
<1>1. TakesNothing
  BY DEF TakesNothing, Spared, Orphan, Remaining
<1> QED BY <1>1 DEF SinkInv, Ours, Remaining

\* The modules stay.
LEMMA StillStep ==
  ASSUME SinkInv, modules' = modules, pendNull' \in {None, pendNull}, pendLoop' \in {None, pendLoop}
  PROVE  SinkInv' /\ TakesNothing
BY DEF SinkInv, Ours, TakesNothing

\* Modules are removed and one is loaded, under an id that was free.
LEMMA LoadStep ==
  ASSUME SinkInv, CanLoad, NEW gone, Spared(gone) \/ UNCHANGED op, NEW left, Remaining(left, gone),
         NEW new, IsModule(new), modules' = With(left, FreshId, new),
         pendNull' \in {None, pendNull, FreshId}, pendLoop' \in {None, pendLoop, FreshId},
         FreshId \in {pendNull', pendLoop'} => new.owner = "own"
  PROVE  SinkInv' /\ TakesNothing
<1>1. FreshId \notin DOMAIN modules \cup {pendNull, pendLoop}
  BY FreshIsUnused
<1>2. /\ AreModules(modules') /\ DOMAIN modules' = (DOMAIN modules \ gone) \cup {FreshId}
      /\ modules'[FreshId] = new
      /\ \A n \in DOMAIN modules \ gone : modules'[n].owner = modules[n].owner
  <2>1. AreModules(modules')
    BY AddingModule DEF Remaining
  <2>2. /\ DOMAIN modules' = DOMAIN left \cup {FreshId} /\ modules'[FreshId] = new
        /\ \A n \in DOMAIN left \ {FreshId} : modules'[n] = left[n]
    BY DEF With
  <2> QED BY <1>1, <2>1, <2>2 DEF Remaining
<1>3. TakesNothing
  BY <1>2 DEF TakesNothing, Spared, Orphan
<1>4. Ours(pendNull)' /\ Ours(pendLoop)'
  BY <1>1, <1>2 DEF SinkInv, Ours
<1> QED BY <1>2, <1>3, <1>4 DEF SinkInv
-----------------------------------------------------------------------------
(***************************************************************************)
(* What the program unloads.                                               *)
(***************************************************************************)
LEMMA SparedPart == ASSUME NEW ids, Spared(ids), NEW part, part \subseteq ids PROVE Spared(part)
BY DEF Spared

LEMMA ManagedSpared == Spared(Owned(modules))
BY DEF Spared, Owned, Managed, Protected

\* The half that is only remembered is this program's own.
LEMMA HalvesSpared == ASSUME SinkInv PROVE Spared(Halves.loops \cup Halves.nulls)
<1>1. Halves.loops \cup Halves.nulls =
        Owned(modules) \cup PendingId(pendLoop) \cup PendingId(pendNull)
  BY DEF Halves, Owned
<1>2. \A m \in (PendingId(pendLoop) \cup PendingId(pendNull)) \cap DOMAIN modules :
        modules[m].owner = "own"
  BY DEF SinkInv, Ours, PendingId
<1> QED BY <1>1, <1>2, ManagedSpared DEF Spared

LEMMA PairInHalves == ASSUME NEW loops, NEW nulls, NEW lost
                      PROVE  UnloadedPair(loops, nulls, lost) \subseteq loops \cup nulls
<1> DEFINE first == (loops \cap DOMAIN modules) \ lost
           last  == (nulls \cap DOMAIN modules) \ lost
<1>1. UnloadedPair(loops, nulls, lost) \in {first, first \cup last}
  BY DEF UnloadedPair
<1> QED BY <1>1

LEMMA DangerousSpared == ASSUME SinkInv PROVE Spared(Dangerous)
<1>1. \A n \in DOMAIN modules : modules[n].owner \in {"own", "peer"}
  BY DEF SinkInv, AreModules, IsModule
<1>2. \A m \in Dangerous : /\ modules[m].kind = "loop" /\ modules[m].owner = "peer"
                            /\ \A n \in Named(modules, "null") : modules[n].owner # "peer"
  BY DEF Dangerous, Named, Protected
<1>3. \A n \in Named(modules, "null") : n \in DOMAIN modules
  BY DEF Named
<1> QED BY <1>1, <1>2, <1>3 DEF Spared, Orphan

LEMMA OrphansSpared == ASSUME SinkInv PROVE Spared(Owned(Without(modules, Dangerous)))
<1> DEFINE left == Without(modules, Dangerous)
<1>1. Remaining(left, Dangerous)
  BY WithoutRemains
<1> HIDE DEF left
<1>2. \A m \in Owned(left) : m \in DOMAIN left /\ ~(left[m].owner = "peer" /\ peer = "live")
  BY DEF Owned, Managed, Named, Protected
<1>3. \A m \in Owned(left) : ~(modules[m].owner = "peer" /\ peer = "live")
  BY <1>1, <1>2 DEF Remaining
<1>4. Spared(Owned(left))
  BY <1>3 DEF Spared
<1> QED BY <1>4 DEF left
-----------------------------------------------------------------------------
(***************************************************************************)
(* The steps.                                                              *)
(***************************************************************************)
LEMMA RecoverStep == ASSUME SinkInv, Recover PROVE SinkInv' /\ TakesNothing
<1> DEFINE left    == Without(modules, Dangerous)
           orphans == IF Paired(left) THEN {} ELSE Owned(left)
<1>1. PICK lost : modules' = Without(modules, (Dangerous \cup orphans) \ lost)
  BY DEF Recover, Unload
<1>2. Spared((Dangerous \cup orphans) \ lost)
  <2>1. Spared(Dangerous) /\ Spared(Owned(left))
    BY DangerousSpared, OrphansSpared
  <2> HIDE DEF left
  <2> QED BY <2>1 DEF Spared
<1>3. pendNull' \in {None, pendNull} /\ pendLoop' \in {None, pendLoop}
  BY DEF Recover
<1>4. Remaining(modules', (Dangerous \cup orphans) \ lost)
  <2> HIDE DEF orphans
  <2> QED BY <1>1, WithoutRemains
<1> HIDE DEF orphans
<1> QED BY <1>2, <1>3, <1>4, RemovalStep

LEMMA DeduplicateStep == ASSUME SinkInv, Deduplicate PROVE SinkInv' /\ TakesNothing
<1> DEFINE extra == Managed(modules, "null") \ {First(Managed(modules, "null"))}
<1>1. PICK lost : modules' = Without(modules, extra \ lost)
  BY DEF Deduplicate
<1>2. Spared(extra \ lost)
  BY ManagedSpared DEF Spared, Owned
<1>3. UNCHANGED <<pendNull, pendLoop>>
  BY DEF Deduplicate, memory
<1>4. Remaining(modules', extra \ lost)
  <2> HIDE DEF extra
  <2> QED BY <1>1, WithoutRemains
<1> HIDE DEF extra
<1> QED BY <1>2, <1>3, <1>4, RemovalStep

LEMMA UnloadStep == ASSUME SinkInv, UnloadHalves \/ Cleanup PROVE SinkInv' /\ TakesNothing
<1>1. PICK lost : modules' = Without(modules, UnloadedPair(Halves.loops, Halves.nulls, lost))
  BY DEF UnloadHalves, Cleanup, Unload
<1> DEFINE gone == UnloadedPair(Halves.loops, Halves.nulls, lost)
<1>2. Spared(gone)
  BY PairInHalves, HalvesSpared, SparedPart
<1>3. pendNull' \in {None, pendNull} /\ pendLoop' \in {None, pendLoop}
  BY DEF UnloadHalves, Cleanup, Forget, memory
<1>4. Remaining(modules', gone)
  <2> HIDE DEF gone
  <2> QED BY <1>1, WithoutRemains DEF gone
<1> HIDE DEF gone
<1> QED BY <1>2, <1>3, <1>4, RemovalStep

LEMMA LoadSinkStep == ASSUME SinkInv, LoadSink PROVE SinkInv' /\ TakesNothing
<1> DEFINE sink(seen) == Module("null", "own", None, None, seen)
<1>1. UNCHANGED pendLoop /\ pendNull' \in {pendNull, FreshId}
  BY DEF LoadSink
<1>2. \A seen : IsModule(sink(seen)) /\ sink(seen).owner = "own"
  BY OneModule
<1>3. \/ modules' = modules /\ UNCHANGED pendNull
      \/ CanLoad /\ \E seen : modules' = With(modules, FreshId, sink(seen))
  <2>1. CASE CanLoad /\ \E seen \in Registered : modules' = With(modules, FreshId, sink(seen))
    BY <2>1
  <2>2. CASE /\ UNCHANGED pendNull
             /\ modules' \in {modules} \cup
                  (IF CanLoad THEN {With(modules, FreshId, sink(FALSE))} ELSE {})
    <3> HIDE DEF sink
    <3> QED BY <2>2
  <2> QED BY <2>1, <2>2, Zenon DEF LoadSink
<1>4. CASE modules' = modules /\ UNCHANGED pendNull
  BY <1>1, <1>4, StillStep
<1>5. CASE CanLoad /\ \E seen : modules' = With(modules, FreshId, sink(seen))
  <2>1. PICK seen : modules' = With(modules, FreshId, sink(seen))
    BY <1>5
  <2>2. Spared({}) /\ Remaining(modules, {})
    BY AllRemain DEF Spared
  <2> HIDE DEF sink
  <2> QED BY <1>1, <1>2, <1>5, <2>1, <2>2, LoadStep
<1> QED BY <1>3, <1>4, <1>5

LEMMA LinkSinkStep == ASSUME SinkInv, LinkSink PROVE SinkInv' /\ TakesNothing
<1> DEFINE sink     == First(Managed(modules, "null"))
           loops    == Managed(modules, "loop")
           targeted == {m \in loops : modules[m].target = op.target}
           kept     == IF targeted = {} THEN {} ELSE {First(targeted)}
           loaded   == Module("loop", "own", op.target, sink, TRUE)
           late     == [loaded EXCEPT !.seen = FALSE]
<1>1. PICK lost : \/ modules' = Without(modules, (loops \ kept) \ lost)
                     /\ pendLoop' \in {None, pendLoop}
                  \/ modules' = modules /\ pendLoop' = pendLoop
                  \/ /\ CanLoad /\ pendLoop' \in {None, pendLoop, FreshId}
                     /\ \E new \in {loaded, late} :
                          modules' = With(Without(modules, (loops \ kept) \ lost), FreshId, new)
  BY DEF LinkSink
<1>2. pendNull' = None
  BY DEF LinkSink
<1> DEFINE gone == (loops \ kept) \ lost
<1>3. Spared(gone)
  BY ManagedSpared DEF Spared, Owned
<1>4. \A new \in {loaded, late} : IsModule(new) /\ new.owner = "own"
  <2>1. IsModule(loaded) /\ loaded.owner = "own"
    BY OneModule
  <2> HIDE DEF loaded
  <2>2. IsModule(late) /\ late.owner = loaded.owner
    BY <2>1, ModuleChanged
  <2> QED BY <2>1, <2>2
<1>5. Remaining(Without(modules, gone), gone)
  BY WithoutRemains
<1> HIDE DEF loaded, late, loops, kept, gone
<1>6. CASE modules' = Without(modules, gone) /\ pendLoop' \in {None, pendLoop}
  BY <1>2, <1>3, <1>5, <1>6, RemovalStep
<1>7. CASE modules' = modules /\ pendLoop' = pendLoop
  BY <1>2, <1>7, StillStep
<1>8. CASE /\ CanLoad /\ pendLoop' \in {None, pendLoop, FreshId}
           /\ \E new \in {loaded, late} : modules' = With(Without(modules, gone), FreshId, new)
  BY <1>2, <1>3, <1>4, <1>5, <1>8, LoadStep
<1> QED BY <1>1, <1>6, <1>7, <1>8 DEF gone

\* The handlers that load and unload nothing.
LEMMA OtherStep ==
  ASSUME SinkInv,
         \/ RetryTimer \/ TopologyTimer \/ PollDefault \/ Toggle \/ ChangeConfig \/ Stop
         \/ Recheck \/ Plan \/ Refuse \/ KeepSink \/ SinkMissing \/ MonitorMissing \/ Verified
         \/ RouteRejected \/ Evacuate \/ Crash \/ Start \/ Plug \/ ListenerMoves
  PROVE  SinkInv' /\ TakesNothing
<1>1. CASE RetryTimer \/ TopologyTimer \/ PollDefault \/ Toggle \/ ChangeConfig \/ Stop
  BY <1>1, StillStep DEF RetryTimer, TopologyTimer, PollDefault, Toggle, ChangeConfig, Stop,
                         server, memory
<1>2. CASE Recheck \/ Plan \/ Refuse \/ KeepSink \/ SinkMissing \/ MonitorMissing
  BY <1>2, StillStep DEF Recheck, Plan, Refuse, KeepSink, SinkMissing, MonitorMissing,
                         server, memory
<1>3. CASE Verified \/ RouteRejected \/ Evacuate
  BY <1>3, StillStep DEF Verified, RouteRejected, Evacuate, server, memory
<1>4. CASE Crash \/ Start \/ Plug \/ ListenerMoves
  BY <1>4, StillStep DEF Crash, Start, Plug, ListenerMoves, Forget, server, memory
<1> QED BY <1>1, <1>2, <1>3, <1>4

\* Panic takes everything, and it is no operation on the V-Sinks.
LEMMA PanicStep == ASSUME SinkInv, Panic PROVE SinkInv' /\ TakesNothing
<1> DEFINE gone == Named(modules, "null") \cup Named(modules, "loop")
<1>1. UNCHANGED <<op, pendNull, pendLoop>> /\ modules' = Without(modules, gone)
  BY DEF Panic, memory
<1>2. Remaining(modules', gone)
  <2> HIDE DEF gone
  <2> QED BY <1>1, WithoutRemains
<1> HIDE DEF gone
<1> QED BY <1>1, <1>2, RemovalStep

LEMMA PeerStep == ASSUME SinkInv, Peer PROVE SinkInv' /\ TakesNothing
<1>1. UNCHANGED <<op, pendNull, pendLoop>>
  BY DEF Peer, memory
<1>2. \/ UNCHANGED modules
      \/ CanLoad /\ \E kind, target, src :
           modules' = With(modules, FreshId, Module(kind, "peer", target, src, TRUE))
      \/ \E m : modules' = Without(modules, {m})
  BY DEF Peer
<1>3. CASE UNCHANGED modules
  BY <1>1, <1>3, StillStep
<1>4. CASE CanLoad /\ \E kind, target, src :
             modules' = With(modules, FreshId, Module(kind, "peer", target, src, TRUE))
  <2>1. PICK kind, target, src :
          modules' = With(modules, FreshId, Module(kind, "peer", target, src, TRUE))
    BY <1>4
  <2>2. IsModule(Module(kind, "peer", target, src, TRUE))
    BY OneModule
  <2>3. FreshId \notin {pendNull', pendLoop'}
    BY <1>1, <1>4, FreshIsUnused
  <2> QED BY <1>1, <1>4, <2>1, <2>2, <2>3, AllRemain, LoadStep
<1>5. CASE \E m : modules' = Without(modules, {m})
  BY <1>1, <1>5, WithoutRemains, RemovalStep
<1> QED BY <1>2, <1>3, <1>4, <1>5

LEMMA RegisterStep == ASSUME SinkInv, Register PROVE SinkInv' /\ TakesNothing
<1>1. PICK m \in DOMAIN modules : modules' = [modules EXCEPT ![m] = [modules[m] EXCEPT !.seen = TRUE]]
  BY DEF Register
<1>2. DOMAIN modules' = DOMAIN modules
  BY <1>1
<1>3. \A n \in DOMAIN modules : modules'[n] \in {modules[n], [modules[n] EXCEPT !.seen = TRUE]}
  BY <1>1
<1>4. ASSUME NEW n \in DOMAIN modules
      PROVE  IsModule(modules'[n]) /\ modules'[n].owner = modules[n].owner
  <2>1. IsModule(modules[n])
    BY DEF SinkInv, AreModules
  <2>2. /\ IsModule([modules[n] EXCEPT !.seen = TRUE])
        /\ [modules[n] EXCEPT !.seen = TRUE].owner = modules[n].owner
    BY <2>1, ModuleChanged
  <2> QED BY <1>3, <2>1, <2>2, Zenon
<1>5. Remaining(modules', {})
  BY <1>2, <1>4 DEF Remaining, AreModules
<1>6. UNCHANGED <<op, pendNull, pendLoop>>
  BY DEF Register, memory
<1> QED BY <1>5, <1>6, RemovalStep

LEMMA SinkInit == Init => SinkInv
<1> SUFFICES ASSUME Init PROVE SinkInv
  OBVIOUS
<1> DEFINE null == Module("null", "peer", None, None, TRUE)
           loop == Module("loop", "peer", default, 1, TRUE)
<1>1. modules \in {<<>>, <<null>>, <<null, loop>>}
  BY DEF Init, PeerNull
<1>2. IsModule(null) /\ IsModule(loop)
  BY OneModule
<1>3. AreModules(modules)
  <2> HIDE DEF null, loop
  <2>1. CASE modules = <<>>
    BY <2>1 DEF AreModules
  <2>2. CASE modules = <<null>>
    BY <1>2, <2>2 DEF AreModules
  <2>3. CASE modules = <<null, loop>>
    BY <1>2, <2>3 DEF AreModules
  <2> QED BY <1>1, <2>1, <2>2, <2>3
<1>4. pendNull = None /\ pendLoop = None
  BY DEF Init
<1> QED BY <1>3, <1>4 DEF SinkInv, Ours

LEMMA SinkStep == ASSUME SinkInv, [Next]_vars PROVE SinkInv' /\ TakesNothing
<1>1. CASE UNCHANGED vars
  BY <1>1, StillStep DEF vars, server, memory
<1>2. CASE Next
  BY <1>2, RecoverStep, DeduplicateStep, UnloadStep, LoadSinkStep, LinkSinkStep, OtherStep,
     PanicStep, PeerStep, RegisterStep DEF Next, Step, Timers
<1> QED BY <1>1, <1>2

(* No reconciliation, switch of a V-Sink or shutdown takes a module of a   *)
(* connected second program, but its loopback that lost its null sink      *)
(* (_recover_orphaned_v_sink_modules, _unload_v_sink_pair and what they    *)
(* are given): also not by an id remembered from a load of its own.        *)
THEOREM ForeignModulesStay == Spec => ForeignUntouched
<1>1. TakesNothing => [\A m \in DOMAIN modules \ DOMAIN modules' :
         (op' # op /\ peer = "live" /\ modules[m].owner = "peer") =>
           (modules[m].kind = "loop"
             /\ \A n \in Named(modules, "null") : modules[n].owner = "own")]_vars
  BY DEF TakesNothing, Orphan
<1> QED BY <1>1, SinkInit, SinkStep, PTL DEF Spec, ForeignUntouched
=============================================================================
