-------------------------- MODULE VolumeRefinement --------------------------
(***************************************************************************)
(* The coordinator, its scheduler and its workers implement the register   *)
(* of VolumeRegister.  A history variable tells the steps in which an      *)
(* outside change was observed from those that commit an intent.           *)
(***************************************************************************)
EXTENDS VolumeIntents

VARIABLE heard

ObservedSpec ==
  /\ Init /\ heard = FALSE
  /\ [][ /\ Next
         /\ heard' = IF \E c \in Channels, v \in Volumes : ObserveExternal(c, v)
                       THEN ~heard ELSE heard ]_<<vars, heard>>

(* The wanted value of a key as its callers see it.                        *)
Wanted == [k \in Keys |-> IF stopped \/ latest[k] = NoIntent THEN NoVolume
                                                             ELSE latest[k].volume]

Register == INSTANCE VolumeRegister WITH wanted <- Wanted, canonical <- config

(* Whatever is coalesced, superseded, late, failed, stalled or retried,    *)
(* only the latest wanted value of a key, or one observed outside, ever    *)
(* becomes the canonical volume of its channels.                           *)
ImplementsRegister == Register!Spec
=============================================================================
