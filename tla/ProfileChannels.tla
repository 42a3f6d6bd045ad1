-------------------------- MODULE ProfileChannels --------------------------
(***************************************************************************)
(* What the configuration store and the profile manager compute from lists *)
(* of channel strips (utils/profile_manager.py, utils/config_manager.py).  *)
(*                                                                         *)
(* A strip is [id, midi, target]: its stable channel_id, its is_midi flag  *)
(* and the assignment the user made on it (0: none; label, binding, colour *)
(* and applications are one value).  Its index is its position.  A profile *)
(* file is the sequence of its strips: every write leaves channel_count    *)
(* equal to their number.  An id is <<0, n, 0>> when it was drawn at random*)
(* (uuid4) and <<p, i, slot>> when it was derived from profile p and       *)
(* position i (uuid5 in _legacy_channel_id).                               *)
(***************************************************************************)
EXTENDS Naturals, FiniteSets, Sequences

Ids(strips) == {strips[i].id : i \in DOMAIN strips}

\* _blank_channel, default_channels: a strip nobody has assigned anything to.
Blank(id, midi) == [id |-> id, midi |-> midi, target |-> 0]

\* Mutant: no repair slot is tried.
LegacyWithoutSlot(p, i, used) == <<p, i, 0>>

\* _legacy_channel_id, tried with growing repair slots until it is unused.
LegacyId(p, i, used) ==
  LET slot == CHOOSE s \in 0..i : /\ <<p, i, s>> \notin used
                                  /\ \A t \in 0..(s - 1) : <<p, i, t>> \in used
  IN  <<p, i, slot>>

\* normalize_profile_channels: the second strip of an id gets an id of its own.
Normalizing(p, strips) ==
  LET done[n \in 0..Len(strips)] ==
        IF n = 0 THEN <<>>
        ELSE LET before == done[n - 1]
                 s      == strips[n]
             IN  Append(before, IF s.id \in Ids(before)
                                  THEN [s EXCEPT !.id = LegacyId(p, n, Ids(before))]
                                  ELSE s)
  IN  done
NormalizeProfileChannels(p, strips) == Normalizing(p, strips)[Len(strips)]

\* reconcile_profile_channels: cut or padded to the expected count.
ReconcileProfileChannels(p, strips, count) ==
  NormalizeProfileChannels(p,
    [i \in 1..count |-> IF i <= Len(strips) THEN strips[i]
                                            ELSE Blank(LegacyId(p, i, Ids(strips)), FALSE)])

\* The flags that follow from the position: the first hw strips are USB.
ByPosition(strips, hw) == [i \in DOMAIN strips |-> [strips[i] EXCEPT !.midi = i > hw]]

\* The n-th element of a set of numbers, and the strips that are not at the
\* positions gone.
Nth(S, n) == CHOOSE k \in S : Cardinality({j \in S : j <= k}) = n
Keep(strips, gone) ==
  LET kept == {i \in DOMAIN strips : i \notin gone}
  IN  [n \in 1..Cardinality(kept) |-> strips[Nth(kept, n)]]

Midi(strips) == {i \in DOMAIN strips : strips[i].midi}

\* _rebuild_profile_partition
RebuildPartition(mode, hw, strips) ==
  LET usb  == Keep(strips, Midi(strips))
      midi == Keep(strips, DOMAIN strips \ Midi(strips))
      kept == SubSeq(usb, 1, IF Len(usb) < hw THEN Len(usb) ELSE hw)
  IN  CASE mode = "midi_only" -> ByPosition(strips, 0)
        [] mode = "usb"       -> ByPosition(strips, hw)
        [] mode = "hybrid"    -> ByPosition(kept \o midi, hw)

\* _midi_count_for_mode: the MIDI strips among total strips of this mode.
MidiCountForMode(mode, hw, total) ==
  IF mode = "midi_only" THEN total ELSE IF total > hw THEN total - hw ELSE 0

\* The midi_channel_count that apply_profile derives: MIDI-only mode counts the
\* flags stored in the profile, the other modes the strips past the USB ones.
AppliedMidiCount(mode, hw, stored) ==
  IF mode = "midi_only"
    THEN Cardinality(Midi(stored))
    ELSE MidiCountForMode(mode, hw, Len(RebuildPartition(mode, hw, stored)))

\* save_current without allow_resize: refused when the runtime has fewer
\* strips than the file, cut to the length of the file otherwise.
RoutineSave(p, stored, strips) ==
  IF Len(strips) < Len(stored) THEN stored
  ELSE ReconcileProfileChannels(p, SubSeq(strips, 1, Len(stored)), Len(stored))

\* ProfileManager.load: a file is what its reader makes of it.
Loaded(p, strips) == NormalizeProfileChannels(p, strips)

\* save_current(allow_resize=True, target_channel_count=target): the common
\* prefix comes from the runtime, the rest of the file stays up to the target;
\* past the end of the file a strip comes whole from a runtime of that very
\* length, and from a runtime of another length only its flag and its id.
ResizeSave(p, stored, strips, target) ==
  LET now    == NormalizeProfileChannels(p, strips)
      prefix == {i \in 1..target : i <= Len(strips) /\ i <= Len(stored)}
      padded == ReconcileProfileChannels(p, stored, target)
      joined == ReconcileProfileChannels(p,
                  [i \in 1..target |-> IF i \in prefix THEN now[i] ELSE padded[i]], target)
  IN  Loaded(p, [i \in 1..target |->
         IF i <= Len(stored) \/ i > Len(strips) THEN joined[i]
         ELSE IF Len(strips) = target THEN now[i]
         ELSE [joined[i] EXCEPT !.midi = now[i].midi, !.id = now[i].id]])

\* _build_active_profile_resize_channels: the stored strips with the runtime's
\* prefix, padded with the new strips and cut to the target.
ResizeChannels(stored, strips, new, target) ==
  SubSeq([i \in DOMAIN stored |-> IF i <= Len(strips) THEN strips[i] ELSE stored[i]] \o new, 1, target)
=============================================================================
