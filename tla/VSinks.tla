------------------------------- MODULE VSinks -------------------------------
(***************************************************************************)
(* The virtual sink of one channel (audio/manager.py): a null sink the     *)
(* channel's application plays into, and a loopback that plays the null    *)
(* sink's monitor on a hardware output.  Both are modules the audio server *)
(* keeps when the program dies.  The server registers a loaded module      *)
(* later, outputs come and go, the program crashes, and a second program   *)
(* on the same server owns modules of the same name.  Every operation here *)
(* runs on the GUI thread, so operations never overlap, but each takes     *)
(* several calls to the server, which changes in between.                  *)
(***************************************************************************)
EXTENDS Naturals, FiniteSets

CONSTANTS Hardware,     \* hardware outputs
          ModuleIds,    \* bound: modules there are at once
          MaxEvents,    \* bound: changes of the user, stops, changes of the outputs, operations of
                        \* the second program, all together
          MaxFailures   \* bound: crashes, failed calls and late registrations

ASSUME ConstantsAssumption ==
  /\ Hardware \subseteq Nat \ {0} /\ ModuleIds \subseteq Nat \ {0}
  /\ {MaxEvents, MaxFailures} \subseteq Nat

None == 0
MaxRetries == 3

VARIABLES
  modules,     \* the server's modules: id -> kind, owner, target, src, seen
  hw,          \* the hardware outputs there are
  default,     \* the default sink: one of them, or None (another sink, or none)
  stream,      \* where the application plays: a null sink's id, or None (elsewhere)
  peer,        \* the second program: live, gone
  enabled,     \* the configuration: the channel has a V-Sink
  running,
  op,          \* the operation on the GUI thread: its step and local values
  pendNull, pendLoop,   \* _vsink_pending_null, _vsink_pending_loopback: ids, or None
  retries, scheduled,   \* _vsink_reconcile_retries, _vsink_reconcile_scheduled
  topo,        \* the topology timer is set
  lastHw,      \* _last_hardware_sink
  told,        \* the default the poll thread reported last
  events, failures

server == <<modules, hw, default, stream, peer>>
memory == <<pendNull, pendLoop, retries, scheduled, lastHw>>
bounds == <<events, failures>>
vars == <<server, enabled, running, op, memory, topo, told, bounds>>

Idle == [step |-> "idle", create |-> FALSE, attempt |-> 1, made |-> FALSE, sink |-> None,
         loop |-> None, target |-> None, clear |-> FALSE, retry |-> FALSE, restore |-> FALSE]
At(step) == [op EXCEPT !.step = step]

(***************************************************************************)
(* The server                                                              *)
(***************************************************************************)
\* A module id is not given again while the program remembers it.
FreshIds == ModuleIds \ (DOMAIN modules \cup {pendNull, pendLoop})
FreshId == CHOOSE m \in FreshIds : \A n \in FreshIds : m <= n
CanLoad == FreshIds # {}

Module(kind, owner, target, src, seen) ==
  [kind |-> kind, owner |-> owner, target |-> target, src |-> src, seen |-> seen]

With(mods, m, module) == [n \in DOMAIN mods \cup {m} |-> IF n = m THEN module ELSE mods[n]]

\* Without their source the loopbacks stay.
Without(mods, ids) ==
  [n \in DOMAIN mods \ ids |->
     IF mods[n].src \in ids THEN [mods[n] EXCEPT !.src = None] ELSE mods[n]]

StreamWithout(ids) == IF stream \in ids THEN None ELSE stream

\* The listener thread sees modules and sinks come and go.
Notes(mods) ==
  \/ topo
  \/ \E m \in DOMAIN mods \cup DOMAIN modules :
       (m \in DOMAIN mods /\ mods[m].seen) # (m \in DOMAIN modules /\ modules[m].seen)

\* The sinks, and the loopbacks, of the channel's name in mods.
Named(mods, kind) == {m \in DOMAIN mods : mods[m].kind = kind /\ mods[m].seen}

\* Mutant: the owners are not compared.
ProtectedByNobody(module) == FALSE

\* _is_protected_foreign_module: of another owner that is connected.
Protected(module) == module.owner = "peer" /\ peer = "live"

\* _inventory_v_sink_modules
Managed(mods, kind) == {m \in Named(mods, kind) : ~Protected(mods[m])}
Owned(mods) == Managed(mods, "null") \cup Managed(mods, "loop")
ForeignHere == \E kind \in {"null", "loop"} : Named(modules, kind) # Managed(modules, kind)

\* Mutant: a null sink alone is no orphan.
LoopbackPaired(mods) == Managed(mods, "null") = {} => Managed(mods, "loop") = {}

\* Two halves of a pair, both there or both missing.
Paired(mods) == (Managed(mods, "null") = {}) = (Managed(mods, "loop") = {})

\* _dangerous_foreign_orphan_loopbacks: loopbacks of a live owner without a null sink.
Dangerous ==
  {m \in Named(modules, "loop") :
     /\ Protected(modules[m])
     /\ \A n \in Named(modules, "null") : modules[n].owner # modules[m].owner}

\* _unload_v_sink_modules: at most one of the calls fails.
Losses(ids) ==
  {{}} \cup (IF failures < MaxFailures THEN {{m} : m \in ids \cap DOMAIN modules} ELSE {})
CountFailures(lost) == failures' = failures + Cardinality(lost)

\* _unload_v_sink_pair: the ids unloaded.  A null sink goes only when no loopback is left.
UnloadedPair(loops, nulls, lost) ==
  LET first == (loops \cap DOMAIN modules) \ lost
  IN  IF loops \subseteq first /\ Managed(Without(modules, first), "loop") = {}
      THEN first \cup ((nulls \cap DOMAIN modules) \ lost)
      ELSE first

\* _get_master_hardware_sink
Master ==
  IF default \in hw THEN default
  ELSE IF lastHw \in hw THEN lastHw
  ELSE IF Cardinality(hw) = 1 THEN CHOOSE h \in hw : TRUE ELSE None

\* A loaded module is registered at once, or late.
Registered == {TRUE} \cup (IF failures < MaxFailures THEN {FALSE} ELSE {})
CountLate(seen) == failures' = IF seen THEN failures ELSE failures + 1

(***************************************************************************)
(* Operations start on the idle GUI thread of the running program.         *)
(***************************************************************************)
Ready == running /\ op.step = "idle"

\* Mutant: the retries are not bounded.
ScheduleForever ==
  IF ~scheduled THEN scheduled' = TRUE /\ UNCHANGED retries ELSE UNCHANGED <<retries, scheduled>>

\* _schedule_v_sink_reconcile
Schedule ==
  IF retries < MaxRetries /\ ~scheduled
  THEN retries' = retries + 1 /\ scheduled' = TRUE
  ELSE UNCHANGED <<retries, scheduled>>

\* _restore_hardware_default_sink
RestoreDefault == default' = IF Master # None THEN Master ELSE default

\* The operation returns; a reconciliation restores the default sink.
End(restore) == op' = Idle /\ IF restore THEN RestoreDefault ELSE UNCHANGED default

Reconcile(create) == op' = [Idle EXCEPT !.step = "recover", !.create = create]

\* set_v_sink_enabled of the mixer facade: enable_v_sink, disable_v_sink.
Toggle ==
  /\ Ready /\ events < MaxEvents
  /\ enabled' = ~enabled /\ events' = events + 1
  /\ op' = IF enabled' THEN [Idle EXCEPT !.step = "enable"]
           ELSE [Idle EXCEPT !.step = "evacuate", !.clear = TRUE]
  /\ UNCHANGED <<server, running, memory, topo, told, failures>>

\* A profile switch, a new strip count: the configuration first, then reconcile_v_sinks.
ChangeConfig ==
  /\ Ready /\ events < MaxEvents
  /\ enabled' \in BOOLEAN /\ events' = events + 1
  /\ Reconcile(TRUE)
  /\ UNCHANGED <<server, running, memory, topo, told, failures>>

\* _retry
RetryTimer ==
  /\ Ready /\ scheduled
  /\ scheduled' = FALSE
  /\ Reconcile(TRUE)
  /\ UNCHANGED <<server, enabled, running, pendNull, pendLoop, retries, lastHw, topo, told, bounds>>

\* _on_audio_topology_changed
TopologyTimer ==
  /\ Ready /\ topo
  /\ topo' = FALSE
  /\ Reconcile(FALSE)
  /\ UNCHANGED <<server, enabled, running, memory, told, bounds>>

\* _on_default_sink_changed; a report in the first two seconds, or of a NativMix sink, is
\* not acted on.
PollDefault ==
  /\ Ready /\ told # default
  /\ told' = default
  /\ \/ /\ Master # lastHw
        /\ lastHw' = Master
        /\ Reconcile(TRUE)
     \/ UNCHANGED <<lastHw, op>>
  /\ UNCHANGED <<server, enabled, running, pendNull, pendLoop, retries, scheduled, topo, bounds>>

(***************************************************************************)
(* reconcile_v_sinks                                                       *)
(***************************************************************************)
Unload(gone) ==
  /\ modules' = Without(modules, gone)
  /\ stream' = StreamWithout(gone)
  /\ topo' = Notes(modules')

\* _recover_orphaned_v_sink_modules: one attempt.
Recover ==
  /\ op.step = "recover"
  /\ LET left    == Without(modules, Dangerous)
         orphans == IF Paired(left) THEN {} ELSE Owned(left)
     IN  \E lost \in Losses(Dangerous \cup orphans) :
           /\ Unload((Dangerous \cup orphans) \ lost)
           /\ CountFailures(lost)
           /\ IF orphans = {} THEN op' = At("plan") /\ UNCHANGED <<pendNull, pendLoop>>
              ELSE /\ pendNull' = None /\ pendLoop' = None
                   /\ op' = [op EXCEPT !.step = IF op.attempt = 2 THEN "recheck" ELSE "recover",
                                       !.attempt = 2]
  /\ UNCHANGED <<hw, default, peer, enabled, running, retries, scheduled, lastHw, told, events>>

\* Its verification after the second attempt; failing, the reconciliation is given up.
Recheck ==
  /\ op.step = "recheck"
  /\ op' = IF Paired(modules) THEN At("plan") ELSE Idle
  /\ UNCHANGED <<server, enabled, running, memory, topo, told, bounds>>

Plan ==
  /\ op.step = "plan"
  /\ lastHw' = IF enabled THEN Master ELSE lastHw
  /\ LET existing == Owned(modules) # {} \/ pendNull # None \/ pendLoop # None
     IN  \/ /\ ~enabled /\ existing
            /\ op' = [Idle EXCEPT !.step = "evacuate", !.clear = TRUE, !.restore = TRUE]
            /\ UNCHANGED default
         \/ /\ enabled /\ ~ForeignHere /\ (op.create \/ existing)
            /\ op' = [Idle EXCEPT !.step = "enable", !.restore = TRUE]
            /\ UNCHANGED default
         \/ /\ ~(~enabled /\ existing) /\ ~(enabled /\ ~ForeignHere /\ (op.create \/ existing))
            /\ End(TRUE)
  /\ UNCHANGED <<modules, hw, stream, peer, enabled, running, pendNull, pendLoop, retries,
                 scheduled, topo, told, bounds>>

(***************************************************************************)
(* _enable_v_sink_locked                                                   *)
(***************************************************************************)
First(ids) == CHOOSE m \in ids : \A n \in ids : m <= n

Disabling == [op EXCEPT !.step = "evacuate", !.retry = TRUE]

\* Nothing is done in the presence of the other program, or without an output.
Refuse ==
  /\ op.step = "enable" /\ (ForeignHere \/ Master = None)
  /\ IF ~ForeignHere /\ Owned(modules) # {}
     THEN op' = Disabling /\ UNCHANGED default
     ELSE End(op.restore)
  /\ UNCHANGED <<modules, hw, stream, peer, enabled, running, memory, topo, told, bounds>>

\* Keeps one null sink: the application moves there from the others.
Deduplicate ==
  /\ op.step = "enable" /\ ~ForeignHere /\ Master # None
  /\ LET nulls == Managed(modules, "null")
         extra == nulls \ {First(nulls)}
     IN  /\ Cardinality(nulls) > 1
         /\ \E lost \in Losses(extra) :
              /\ modules' = Without(modules, extra \ lost)
              /\ topo' = Notes(modules')
              /\ CountFailures(lost)
         /\ stream' = IF stream \in extra THEN First(nulls) ELSE stream
  /\ op' = [op EXCEPT !.step = "sink", !.target = Master]
  /\ UNCHANGED <<hw, default, peer, enabled, running, memory, told, events>>

\* The null sink is there, or was loaded less than five seconds ago.
KeepSink ==
  /\ op.step = "enable" /\ ~ForeignHere /\ Master # None
  /\ Cardinality(Managed(modules, "null")) <= 1
  /\ Managed(modules, "null") # {} \/ pendNull # None
  /\ op' = [op EXCEPT !.step = "sink", !.target = Master]
  /\ UNCHANGED <<server, enabled, running, memory, topo, told, bounds>>

\* pactl load-module: it answers with the id, fails, or is given up while it loads.
LoadSink ==
  /\ op.step = "enable" /\ ~ForeignHere /\ Master # None
  /\ Managed(modules, "null") = {}
  /\ \/ /\ CanLoad
        /\ \E seen \in Registered :
             /\ modules' = With(modules, FreshId, Module("null", "own", None, None, seen))
             /\ CountLate(seen)
        /\ pendNull' = FreshId
        /\ op' = [op EXCEPT !.step = "sink", !.target = Master, !.made = TRUE]
        /\ UNCHANGED default
     \/ /\ failures < MaxFailures /\ failures' = failures + 1
        /\ modules' \in {modules} \cup
             (IF CanLoad THEN {With(modules, FreshId, Module("null", "own", None, None, FALSE))} ELSE {})
        /\ End(op.restore)
        /\ UNCHANGED pendNull
  /\ topo' = Notes(modules')
  /\ UNCHANGED <<hw, stream, peer, enabled, running, pendLoop, retries, scheduled, lastHw, told, events>>

\* _wait_for_single_v_sink gives up.
SinkMissing ==
  /\ op.step = "sink" /\ Cardinality(Named(modules, "null")) # 1
  /\ pendNull' = IF Managed(modules, "null") # {} THEN None ELSE pendNull
  /\ Schedule
  /\ End(op.restore)
  /\ UNCHANGED <<modules, hw, stream, peer, enabled, running, pendLoop, lastHw, topo, told, bounds>>

\* The one sink of the name is the other program's: no exact monitor.
MonitorMissing ==
  /\ op.step = "sink"
  /\ Cardinality(Named(modules, "null")) = 1 /\ Managed(modules, "null") = {}
  /\ op' = Disabling
  /\ UNCHANGED <<server, enabled, running, memory, topo, told, bounds>>

\* One loopback to the right output is kept, the others go; without one it is loaded.
LinkSink ==
  /\ op.step = "sink"
  /\ Cardinality(Named(modules, "null")) = 1 /\ Managed(modules, "null") # {}
  /\ LET sink     == First(Managed(modules, "null"))
         loops    == Managed(modules, "loop")
         targeted == {m \in loops : modules[m].target = op.target}
         kept     == IF targeted = {} THEN {} ELSE {First(targeted)}
         loaded   == Module("loop", "own", op.target, sink, TRUE)
         goOn(loop) == op' = [op EXCEPT !.step = "verify", !.sink = sink, !.loop = loop]
     IN  \E lost \in Losses(loops \ kept) :
           LET left == Without(modules, (loops \ kept) \ lost)
           IN  /\ \/ /\ kept # {}
                     /\ pendLoop' = None
                     /\ goOn(First(kept))
                     /\ modules' = left
                     /\ CountFailures(lost) /\ UNCHANGED default
                  \/ /\ kept = {} /\ loops = {} /\ pendLoop # None
                     /\ goOn(pendLoop)
                     /\ UNCHANGED <<modules, default, pendLoop>> /\ CountFailures(lost)
                  \/ /\ kept = {} /\ CanLoad
                     /\ pendLoop' = FreshId
                     /\ goOn(FreshId)
                     /\ UNCHANGED default
                     /\ \/ /\ modules' = With(left, FreshId, loaded)
                           /\ CountFailures(lost)
                        \/ /\ lost = {} /\ FALSE \in Registered
                           /\ modules' = With(left, FreshId, [loaded EXCEPT !.seen = FALSE])
                           /\ CountLate(FALSE)
                  \/ /\ kept = {}
                     /\ lost = {} /\ failures < MaxFailures /\ failures' = failures + 1
                     /\ modules' \in {left} \cup
                          (IF CanLoad THEN {With(left, FreshId, [loaded EXCEPT !.seen = FALSE])} ELSE {})
                     /\ pendLoop' = IF loops = {} THEN pendLoop ELSE None
                     /\ End(op.restore)
  /\ pendNull' = None
  /\ topo' = Notes(modules')
  /\ UNCHANGED <<hw, stream, peer, enabled, running, retries, scheduled, lastHw, told, events>>

\* Mutant: where the loopback records is not compared.
RouteEndsRight ==
  /\ op.loop \in DOMAIN modules /\ modules[op.loop].seen
  /\ modules[op.loop].target = op.target /\ op.target \in hw

\* _wait_for_exact_loopback_route: from this null sink's monitor to the output.
RouteIsExact ==
  /\ op.loop \in DOMAIN modules /\ modules[op.loop].seen
  /\ modules[op.loop].src = op.sink /\ op.sink \in DOMAIN modules
  /\ modules[op.loop].target = op.target /\ op.target \in hw

\* The loopback plays where it should: the application moves in when the null sink is new.
Verified ==
  /\ op.step = "verify" /\ RouteIsExact
  /\ stream' = IF op.made /\ Named(modules, "null") # {} THEN First(Named(modules, "null")) ELSE stream
  /\ retries' = 0
  /\ End(TRUE)
  /\ UNCHANGED <<modules, hw, peer, enabled, running, pendNull, pendLoop, scheduled, lastHw, topo,
                 told, bounds>>

\* Half a second later it does not.
RouteRejected ==
  /\ op.step = "verify" /\ ~RouteIsExact
  /\ op' = Disabling
  /\ UNCHANGED <<server, enabled, running, memory, topo, told, bounds>>

(***************************************************************************)
(* _disable_v_sink_locked                                                  *)
(***************************************************************************)
\* Moves the application out; with nowhere to move it nothing is removed.
Evacuate ==
  /\ op.step = "evacuate"
  /\ IF stream # None /\ hw = {}
     THEN /\ IF op.retry THEN Schedule ELSE UNCHANGED <<retries, scheduled>>
          /\ End(op.restore) /\ UNCHANGED stream
     ELSE /\ stream' = None /\ op' = At("unload")
          /\ UNCHANGED <<default, retries, scheduled>>
  /\ UNCHANGED <<modules, hw, peer, enabled, running, pendNull, pendLoop, lastHw, topo, told, bounds>>

PendingId(pending) == {pending} \ (Owned(modules) \cup {None})

\* The modules to unload: the registered ones, and the loaded ones that are not yet.
Halves == [loops |-> Managed(modules, "loop") \cup PendingId(pendLoop),
           nulls |-> Managed(modules, "null") \cup PendingId(pendNull)]

UnloadHalves ==
  /\ op.step = "unload"
  /\ \E lost \in Losses(Halves.loops \cup Halves.nulls) :
       LET gone == UnloadedPair(Halves.loops, Halves.nulls, lost)
       IN  /\ Unload(gone)
           /\ CountFailures(lost)
           /\ IF gone = Halves.loops \cup Halves.nulls /\ Owned(modules') = {}
              THEN /\ pendNull' = None /\ pendLoop' = None
                   /\ LET kept == IF op.clear THEN 0 ELSE retries
                          more == op.retry /\ kept < MaxRetries /\ ~scheduled
                      IN  /\ retries' = IF more THEN kept + 1 ELSE kept
                          /\ scheduled' = (scheduled \/ more)
              ELSE Schedule /\ UNCHANGED <<pendNull, pendLoop>>
  /\ End(op.restore)
  /\ UNCHANGED <<hw, peer, enabled, running, lastHw, told, events>>

(***************************************************************************)
(* The program stops, panics, crashes and starts                           *)
(***************************************************************************)
Forget ==
  /\ pendNull' = None /\ pendLoop' = None
  /\ retries' = 0 /\ scheduled' = FALSE /\ topo' = FALSE /\ lastHw' = None

\* stop
Stop ==
  /\ Ready /\ events < MaxEvents
  /\ events' = events + 1
  /\ op' = At("cleanup") /\ topo' = FALSE
  /\ UNCHANGED <<server, enabled, running, memory, told, failures>>

\* _cleanup_all_owned_v_sink_modules: a second attempt when something remains.
Cleanup ==
  /\ op.step = "cleanup"
  /\ \E lost \in Losses(Halves.loops \cup Halves.nulls) :
       LET gone == UnloadedPair(Halves.loops, Halves.nulls, lost)
       IN  /\ modules' = Without(modules, gone) /\ stream' = StreamWithout(gone)
           /\ CountFailures(lost)
  /\ IF Owned(modules') = {} \/ op.attempt = 2
     THEN /\ op' = Idle /\ running' = FALSE
          /\ Forget
     ELSE /\ op' = [op EXCEPT !.attempt = 2]
          /\ UNCHANGED <<running, memory, topo>>
  /\ UNCHANGED <<hw, default, peer, enabled, told, events>>

\* panic_reset: everyone's modules; the channel's V-Sink is switched off.
Panic ==
  /\ Ready /\ events < MaxEvents
  /\ events' = events + 1
  /\ modules' = Without(modules, Named(modules, "null") \cup Named(modules, "loop"))
  /\ stream' = None /\ enabled' = FALSE
  /\ topo' = Notes(modules')
  /\ UNCHANGED <<hw, default, peer, running, op, memory, told, failures>>

\* The modules stay.
Crash ==
  /\ running /\ failures < MaxFailures
  /\ failures' = failures + 1
  /\ running' = FALSE /\ op' = Idle
  /\ Forget
  /\ UNCHANGED <<server, enabled, told, events>>

\* start: recovers the orphans, then reconciles (perform_initial_audio_audit), which
\* recovers them again.
Start ==
  /\ ~running
  /\ running' = TRUE /\ told' = default
  /\ Reconcile(TRUE)
  /\ UNCHANGED <<server, enabled, memory, topo, bounds>>

(***************************************************************************)
(* Around the program                                                      *)
(***************************************************************************)
\* A loaded module appears in the server's lists.
Register ==
  /\ \E m \in DOMAIN modules :
       ~modules[m].seen /\ modules' = [modules EXCEPT ![m].seen = TRUE]
  /\ topo' = (topo \/ running)
  /\ UNCHANGED <<hw, default, stream, peer, enabled, running, op, memory, told, bounds>>

\* An output or the default changes; the server chooses the default.
Plug ==
  /\ events < MaxEvents /\ events' = events + 1
  /\ hw' \in SUBSET Hardware /\ default' \in hw' \cup {None}
  /\ <<hw', default'>> # <<hw, default>>
  /\ topo' = (topo \/ (running /\ hw' # hw))
  /\ UNCHANGED <<modules, stream, peer, enabled, running, op, memory, told, failures>>

\* _apply_auto_reconnect of the listener thread: a stream of the application goes to the
\* sink of the channel's name.
ListenerMoves ==
  /\ running /\ op.step # "cleanup" /\ enabled
  /\ \E sink \in Named(modules, "null") \ {stream} : stream' = sink
  /\ UNCHANGED <<modules, hw, default, peer, enabled, running, op, memory, topo, told, bounds>>

\* The second program: loads its pair, takes it down in some order, removes an
\* orphan loopback of ours, and dies with its modules loaded.
Peer ==
  /\ events < MaxEvents /\ events' = events + 1
  /\ \/ peer = "live" /\ peer' = "gone" /\ UNCHANGED <<modules, stream>>
     \/ /\ peer = "live" /\ CanLoad
        /\ modules' = With(modules, FreshId, Module("null", "peer", None, None, TRUE))
        /\ UNCHANGED <<peer, stream>>
     \/ /\ peer = "live" /\ CanLoad
        /\ \E sink \in Named(modules, "null"), target \in hw :
             /\ modules[sink].owner = "peer"
             /\ modules' = With(modules, FreshId, Module("loop", "peer", target, sink, TRUE))
        /\ UNCHANGED <<peer, stream>>
     \/ /\ peer = "live"
        /\ \E m \in DOMAIN modules :
             /\ \/ modules[m].owner = "peer"
                \/ /\ modules[m].kind = "loop" /\ modules[m].seen
                   /\ \A n \in Named(modules, "null") : modules[n].owner = "peer"
             /\ modules' = Without(modules, {m}) /\ stream' = StreamWithout({m})
        /\ UNCHANGED peer
  /\ topo' = (running /\ Notes(modules'))
  /\ UNCHANGED <<hw, default, enabled, running, op, memory, told, failures>>

PeerNull == Module("null", "peer", None, None, TRUE)

Init ==
  /\ hw = Hardware /\ default = (CHOOSE h \in Hardware : \A g \in Hardware : h <= g)
  /\ stream = None
  /\ \/ modules = <<>> /\ peer = "gone"
     \/ /\ modules \in {<<>>, <<PeerNull>>, <<PeerNull, Module("loop", "peer", default, 1, TRUE)>>}
        /\ peer = "live"
  /\ enabled \in BOOLEAN /\ running = FALSE /\ op = Idle
  /\ pendNull = None /\ pendLoop = None /\ retries = 0 /\ scheduled = FALSE
  /\ topo = FALSE /\ lastHw = None /\ told = default
  /\ events = 0 /\ failures = 0

\* The steps of an operation that has begun, and what begins one by itself.
Step == Recover \/ Recheck \/ Plan \/ Refuse \/ Deduplicate \/ KeepSink \/ LoadSink \/ SinkMissing
        \/ MonitorMissing \/ LinkSink \/ Verified \/ RouteRejected \/ Evacuate \/ UnloadHalves \/ Cleanup
Timers == RetryTimer \/ TopologyTimer \/ PollDefault

Next == Step \/ Timers \/ Toggle \/ ChangeConfig \/ Stop \/ Panic \/ Crash \/ Start
        \/ Register \/ Plug \/ ListenerMoves \/ Peer

\* The GUI thread runs, its timers fire, the poll thread polls.
Fairness == WF_vars(Step) /\ WF_vars(Timers)

Spec == Init /\ [][Next]_vars /\ Fairness

(***************************************************************************)
(* Properties                                                              *)
(***************************************************************************)
OnlyOurs == \A m \in DOMAIN modules : modules[m].owner = "own"
AtRest == Ready /\ ~topo /\ ~scheduled /\ told = default

\* With nothing left to do, no loopback of this channel (of this run or one that crashed)
\* plays without its null sink: it could play a microphone on the loudspeaker.
LoopbacksHaveTheirSource ==
  AtRest /\ OnlyOurs /\ hw # {} => \A m \in Named(modules, "loop") : modules[m].src # None

\* With nothing left to do and an output there, an application in the channel's null sink
\* is heard: a loopback plays that null sink on an output there is.
AppsAreHeard ==
  AtRest /\ OnlyOurs /\ hw # {} /\ stream # None =>
    \E m \in Named(modules, "loop") : modules[m].src = stream /\ modules[m].target \in hw

\* The reconciliation, the switch of a V-Sink and the shutdown take no module of a
\* connected second program, but its loopback that lost its null sink.  (Panic takes
\* everything on purpose.)
ForeignUntouched ==
  [][\A m \in DOMAIN modules \ DOMAIN modules' :
       (op' # op /\ peer = "live" /\ modules[m].owner = "peer") =>
         (modules[m].kind = "loop" /\ \A n \in Named(modules, "null") : modules[n].owner = "own")]_vars

\* The repair ends: retries, topology events and its own changes do not keep it busy.
Settles == []<>(AtRest \/ ~running)
=============================================================================
