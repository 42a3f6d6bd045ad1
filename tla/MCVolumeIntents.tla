--------------------------- MODULE MCVolumeIntents ---------------------------
(* Two channels, alone or sharing one target, for TLC.                      *)
EXTENDS VolumeIntents, TLC

MCKeys == SUBSET Channels
MCValues == Intent \cup {GainReapply}

Apart == [c \in Channels |-> {c}]
Together == [c \in Channels |-> Channels]
MCGroupings == {Apart, Together}

(* Nothing tells one channel, worker or volume from another.               *)
Symmetric == Permutations(Channels) \cup Permutations(Workers) \cup Permutations(Volumes)
=============================================================================
