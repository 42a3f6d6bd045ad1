---------------------------- MODULE RemoteMixer -----------------------------
(***************************************************************************)
(* Remote mixer control: the receiver's authority and the sender's facade  *)
(* over the control connection, as main.py wires them.                     *)
(***************************************************************************)
EXTENDS MixerAuthority, MixerFacade

(* A mirror that is missing is told from any content.                      *)
ASSUME RemoteAssumption == NoMirror \notin Content

vars == <<linkVars, authVars, facadeVars>>

(* What the facade waits for is neither under way nor being worked on.     *)
Quiet == toMirror = <<>> /\ toAuthority = <<>> /\ commands = <<>> /\ deferred = <<>>

(* A deadline of the facade passes when no answer will come, or, at most   *)
(* MaxRetries times, before the answer does.                               *)
Expire ==
  /\ ExpirePending
  /\ \/ Quiet /\ UNCHANGED retries
     \/ ~Quiet /\ retries < MaxRetries /\ retries' = retries + 1
  /\ UNCHANGED authVars

FacadeStep == (MirrorTold \/ ReceiveMessage) /\ UNCHANGED authVars

UserStep == (\E change \in Volumes \cup {Edit} : Submit(change)) /\ UNCHANGED authVars

LinkStep == (Connect \/ Break) /\ UNCHANGED <<authVars, facadeVars>>

ReceiverStep == (LocalStep \/ AuthorityStep \/ RestartReceiver) /\ UNCHANGED facadeVars

Init == LinkInit /\ AuthInit /\ FacadeInit

Next == LinkStep \/ ReceiverStep \/ FacadeStep \/ Expire \/ UserStep

Spec == Init /\ [][Next]_vars

(* The event loops of the two programs take what is posted, the flush and  *)
(* deadline timers are due, and the transport connects again.  Users, and  *)
(* the network that breaks, are not fair.                                  *)
Fairness ==
  /\ WF_vars(AuthorityStep /\ UNCHANGED facadeVars)
  /\ WF_vars(FacadeStep)
  /\ WF_vars(Expire)

FairSpec == Spec /\ Fairness
-----------------------------------------------------------------------------
TypeOK ==
  /\ session \in 0..MaxSessions
  /\ up \in BOOLEAN
  /\ lost \in [messages : 0..MaxLost, publication : BOOLEAN, commands : SUBSET Nat]
  /\ content \in Content
  /\ observed \in Content
  /\ epoch \in Nat
  /\ revision \in Nat
  /\ volumePending \in BOOLEAN
  /\ \A i \in 1..Len(deferred) : deferred[i] \in [id : Nat, session : Nat]
  /\ editCapture \in BOOLEAN
  /\ volumeCapture \in BOOLEAN
  /\ authSession \in Nat
  /\ sessionAllowed \in BOOLEAN
  /\ served \in [request : Nat, revision : Nat]
  /\ mirrorSession \in Nat
  /\ mirror \in Content \cup {NoMirror}
  /\ epochSeen \in Nat \cup {-1}
  /\ revisionSeen \in Nat
  /\ needsSnapshot \in BOOLEAN
  /\ requestId \in 0..sentRequests
  /\ denied \in BOOLEAN
  /\ inflight \in [id : 1..sentCommands, acked : Nat \cup {-1}] \cup {NoIntent}
  /\ \A i \in 1..Len(queue) : queue[i] \in [change : Volumes \cup {Edit}, seen : Nat]
  /\ Len(queue) + (IF inflight = NoIntent THEN 0 ELSE 1) <= MaxPending

Synchronized == mirrorSession # 0 /\ mirrorSession = Present /\ mirror # NoMirror /\ ~needsSnapshot

Published == {i \in 1..Len(toMirror) : IsPublication(toMirror[i])}

(* A publication that is lost is noticed with the next one: unless the     *)
(* newest found the outbound queue full, what is on its way to a mirror    *)
(* that does not wait for a snapshot ends with what the receiver published *)
(* last, and if nothing is, the mirror shows it already                    *)
(* (apply_snapshot and apply_delta of state.py).                           *)
MirrorIsCurrent ==
  Synchronized /\ ~lost.publication =>
    IF Published = {}
      THEN epochSeen = epoch /\ revisionSeen = revision /\ mirror = observed
      ELSE \E i \in Published :
             /\ \A j \in Published : j <= i
             /\ toMirror[i].revision = revision
             /\ toMirror[i].content = observed

(* The receiver is never at rest with a mixer that differs from what it    *)
(* published: every change still has a capture, or a flush, to come.       *)
ChangesAreCaptured ==
  content # observed => editCapture \/ volumeCapture \/ volumePending

InTransit(type) == {i \in 1..Len(toMirror) : toMirror[i].type = type}

CarriedBy(id) == IF id \in DOMAIN carried THEN carried[id] ELSE 0

WaitsForFlush(id) == \E i \in 1..Len(deferred) : deferred[i].id = id

(* Answers are true: what is acknowledged was published by then, in the    *)
(* revision the acknowledgement names or before; what is refused is in no  *)
(* flush to come, and has no effect in the mixer or in what was published  *)
(* of it unless its rollback failed (process_command).                     *)
AnswersAreTrue ==
  /\ \A i \in InTransit("ack") :
       LET a == toMirror[i] IN 0 < CarriedBy(a.id) /\ CarriedBy(a.id) <= a.revision
  /\ \A i \in InTransit("nack") :
       LET n == toMirror[i]
       IN  /\ CarriedBy(n.id) = 0 /\ ~WaitsForFlush(n.id)
           /\ n.undone => content.edit # n.id /\ observed.edit # n.id

(* A command that the sender waits for is somewhere: on its way, with the  *)
(* receiver, or answered, unless it or its answer found an outbound queue  *)
(* full.                                                                   *)
InflightIsSomewhere ==
  inflight # NoIntent /\ mirrorSession = Present =>
    \/ inflight.acked >= 0
    \/ inflight.id \in lost.commands
    \/ \E i \in 1..Len(toAuthority) :
         toAuthority[i].type = "command" /\ toAuthority[i].id = inflight.id
    \/ \E i \in 1..Len(commands) : commands[i].id = inflight.id
    \/ WaitsForFlush(inflight.id)
    \/ \E i \in InTransit("ack") \cup InTransit("nack") : toMirror[i].id = inflight.id

(* A mirror that is missing, doubted or denied has a request for a         *)
(* snapshot open: nothing else would bring it back.                        *)
RequestIsOpen ==
  mirrorSession # 0 /\ (mirror = NoMirror \/ needsSnapshot \/ denied) => requestId # 0

(* What the receiver decides by is the permission its user set, and the    *)
(* sender is told of it without a capture in between, if it was changed    *)
(* while it was connected (reconcile_permission).                          *)
PermissionIsTold ==
  authSession # 0 =>
    /\ sessionAllowed = content.allowed
    /\ observed.allowed # content.allowed => editCapture

(* An edit is settled by its answer, or by the state it waits for.         *)
Settles ==
  \/ Received("ack")
  \/ (Received("snapshot") \/ Received("delta")) /\ ~needsSnapshot' /\ epochSeen' = epochSeen

(* The sender settles an edit only with a mirror that shows its effect     *)
(* (_finish_acknowledged): otherwise the control would jump back to what   *)
(* it showed before the edit.                                              *)
ReadYourWrites ==
  [][Settles /\ inflight # NoIntent /\ (inflight' = NoIntent \/ inflight'.id # inflight.id)
       => 0 < CarriedBy(inflight.id) /\ CarriedBy(inflight.id) <= revisionSeen']_vars

(* An edit that the receiver accepts was made by someone who saw every     *)
(* edit the receiver's own user had made.                                  *)
NoBlindOverwrite ==
  [][\A i \in DOMAIN commands :
       i = 1 /\ commands' = Tail(commands) /\ content'.edit = commands[i].id
         /\ content.edit # commands[i].id
       => commands[i].seen = content.local]_vars

(* When the users rest and the connection holds, the mirror and the        *)
(* receiver come to agree, on who may edit as well, unless the newest      *)
(* publication was lost; and no edit and no denial stays, whatever was.    *)
EventuallyInSync ==
  <>[](up => /\ mirror = content \/ lost.publication
             /\ ~denied /\ inflight = NoIntent /\ queue = <<>>)
=============================================================================
