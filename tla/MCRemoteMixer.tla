--------------------------- MODULE MCRemoteMixer ----------------------------
(***************************************************************************)
(* Remote mixer control for TLC.                                           *)
(***************************************************************************)
EXTENDS RemoteMixer, TLC

CONSTANT MaxDisturbances

(* What the receiver's users and faults have done.  Each has a bound of    *)
(* its own; this one is on how many of them meet in one behaviour, fewer   *)
(* by two when the sender made a second edit.  None of these steps has to  *)
(* happen, so cutting them leaves no fair step without a successor.        *)
Disturbances ==
  content.local + moves + toggles + limited + epoch + retries + lost.messages
FewDisturbances ==
  Disturbances + (IF submits > 1 THEN 2 ELSE 0) <= MaxDisturbances

(* No volume is special.                                                   *)
VolumeSymmetry == Permutations(Volumes)

(* Symmetry is not for liveness; that behaviours begin with one and the    *)
(* same volume is sound there too.                                         *)
InitOneVolume == Init /\ content.volume = (CHOOSE v \in Volumes : TRUE)
FairFromOneVolume == InitOneVolume /\ [][Next]_vars /\ Fairness
=============================================================================
