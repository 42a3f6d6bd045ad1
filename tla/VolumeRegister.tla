--------------------------- MODULE VolumeRegister ---------------------------
(***************************************************************************)
(* What the volume pipeline promises its callers, whatever its threads do: *)
(* each control key has at most one wanted value, the newest asked for; it *)
(* ends by becoming the canonical volume of the key's channels or by being *)
(* given up, and no other value ever becomes canonical, except one that    *)
(* was observed outside.                                                   *)
(***************************************************************************)
CONSTANTS Channels, Keys, Volumes, NoVolume

VARIABLES
  wanted,      \* the wanted value of each key, or NoVolume
  canonical,   \* the volume of each channel
  heard        \* flips with each change from outside, to tell it from a commit

registerVars == <<wanted, canonical, heard>>

Init ==
  /\ wanted = [k \in Keys |-> NoVolume]
  /\ canonical \in [Channels -> Volumes]
  /\ heard = FALSE

Want(k, v) ==
  /\ wanted' = [wanted EXCEPT ![k] = v]
  /\ UNCHANGED <<canonical, heard>>

SetCanonical(k, v) == canonical' = [c \in Channels |-> IF c \in k THEN v ELSE canonical[c]]

(* The wanted value was written.                                           *)
Commit(k) ==
  /\ wanted[k] # NoVolume
  /\ wanted' = [wanted EXCEPT ![k] = NoVolume]
  /\ SetCanonical(k, wanted[k])
  /\ UNCHANGED heard

(* The wanted value could not be written: the canonical volumes stay.      *)
GiveUp(k) ==
  /\ wanted[k] # NoVolume
  /\ wanted' = [wanted EXCEPT ![k] = NoVolume]
  /\ UNCHANGED <<canonical, heard>>

(* Someone else moved the volume; it overrides what was wanted.            *)
Observe(k, v) ==
  /\ wanted' = [wanted EXCEPT ![k] = NoVolume]
  /\ SetCanonical(k, v)
  /\ heard' = ~heard

(* The controls are set up anew: nothing asked before counts.              *)
Forget ==
  /\ wanted' = [k \in Keys |-> NoVolume]
  /\ UNCHANGED <<canonical, heard>>

Next ==
  \/ \E k \in Keys, v \in Volumes : Want(k, v) \/ Observe(k, v)
  \/ \E k \in Keys : Commit(k) \/ GiveUp(k)
  \/ Forget

Spec == Init /\ [][Next]_registerVars
=============================================================================
