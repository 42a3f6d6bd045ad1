---------------------------- MODULE ProfileStore ----------------------------
(***************************************************************************)
(* The configuration, the channel strips in memory and the profile files   *)
(* (utils/config_manager.py, utils/profile_manager.py and the handlers of  *)
(* main.py, gui/ and remote_sync/authority.py that change them).           *)
(*                                                                         *)
(* config.json (mode, strip counts, active profile) and each profile-N.json*)
(* are written atomically, but one after the other.  A handler computes all*)
(* it writes before its first write, so its writes are queued in todo and  *)
(* done one by one; a write may fail, and the program may end between two. *)
(***************************************************************************)
EXTENDS ProfileChannels

CONSTANTS HwCounts,     \* strip counts an Arduino reports; the largest is the first
          MaxProfiles,  \* bound: profile files
          MaxIds,       \* bound: strips there are at once
          MaxHandlers,  \* bound: operations of the users and the Arduino
          MaxStrips,    \* bound: strips of a profile
          MaxAssigned,  \* bound: strips of the mixer with an assignment
          MaxFaults     \* bound: crashes and failed writes

ASSUME ConstantsAssumption ==
  /\ HwCounts \subseteq Nat \ {0} /\ \E n \in HwCounts : \A m \in HwCounts : n >= m
  /\ MaxProfiles \in Nat \ {0} /\ MaxIds \in Nat /\ MaxHandlers \in Nat /\ MaxStrips \in Nat
  /\ MaxAssigned \in Nat /\ MaxFaults \in Nat

Modes == {"usb", "hybrid", "midi_only"}
None == 0
Config == 0                     \* the file a write goes to when not a profile

VARIABLES
  inputMode, hwCount, midiCount, active,   \* hardware section, active_profile
  channels,     \* the strips in memory
  saved,        \* config.json
  profiles,     \* profile files: id -> strips
  todo,         \* the writes the current handler still has to do
  running,
  handled,      \* counts the operations
  whole,        \* history: the counts agreed since the profile was applied, and
                \* no write of it failed
  faults

config == <<inputMode, hwCount, midiCount, active>>
vars == <<config, channels, saved, profiles, todo, running, handled, whole, faults>>

(***************************************************************************)
(* Writes.  removed: the strips the user asked to remove.                  *)
(* fatal: its failure ends the handler; back: the profile a remote command *)
(* then returns to.                                                        *)
(***************************************************************************)
NumChannels(mode, hw, midi) ==
  CASE mode = "hybrid" -> hw + midi [] mode = "midi_only" -> midi [] OTHER -> hw

Shown == NumChannels(inputMode, hwCount, midiCount)    \* the strips the GUI has

\* Memory, file and configuration agree on the number of strips, so that a routine
\* save neither refuses nor cuts the list.  USB mode shows the hardware's strips: a
\* file may hold more than those, but a strip shown beyond the stored ones is one
\* that the next routine save cuts.
CountsAgree(mode, hw, midi, strips, stored) ==
  /\ Len(strips) = Len(stored)
  /\ IF mode = "usb" THEN hw <= Len(stored) ELSE NumChannels(mode, hw, midi) = Len(stored)

ConfigData(mode, hw, midi, p) == [mode |-> mode, hw |-> hw, midi |-> midi, active |-> p]
ConfigWrite(data) == [to |-> Config, data |-> data, why |-> "config", removed |-> {},
                      fatal |-> FALSE, back |-> None]
ProfileWrite(p, strips, why) ==
  [to |-> p, data |-> strips, why |-> why, removed |-> {}, fatal |-> TRUE, back |-> None]
Resize(p, strips, removed) ==
  [ProfileWrite(p, strips, "resize") EXCEPT !.removed = removed, !.fatal = FALSE]
Reorder(p) == ProfileWrite(p, profiles[p], "order")
Unlink(p) == [ProfileWrite(p, <<>>, "delete") EXCEPT !.back = p]

\* A routine save is a write only when it is not refused.
RoutineWrites(p, stored, strips, back) ==
  IF Len(strips) < Len(stored) THEN <<>>
  ELSE <<[ProfileWrite(p, RoutineSave(p, stored, strips), "routine") EXCEPT !.back = back]>>

\* n new strips under random ids.
\* A random id is one that is nowhere else: here the smallest of them, in order,
\* the first `drawn' being taken already.
UnusedIds == {k \in 1..MaxIds : LET id == <<0, k, 0>>
                               IN  /\ id \notin Ids(channels)
                                   /\ \A p \in DOMAIN profiles : id \notin Ids(profiles[p])}
NewId(n) == <<0, Nth(UnusedIds, n), 0>>
CanDraw(n) == n <= Cardinality(UnusedIds)
NewStrips(drawn, n, midi) == [i \in 1..n |-> Blank(NewId(drawn + i), midi)]

Missing(n, strips) == IF n > Len(strips) THEN n - Len(strips) ELSE 0

\* _ensure_channels: pads to n strips and sets the flags by position.
Ensure(drawn, strips, n, mode, hw) ==
  ByPosition(strips \o NewStrips(drawn, Missing(n, strips), FALSE),
             IF mode = "midi_only" THEN 0 ELSE hw)

\* ConfigManager.__init__ and load, then the profile of main.py.
Init ==
  /\ inputMode = "usb" /\ hwCount = (CHOOSE n \in HwCounts : \A m \in HwCounts : n >= m)
  /\ midiCount = 0 /\ active = 1
  /\ channels = [i \in 1..hwCount |-> Blank(<<0, i, 0>>, FALSE)]
  /\ saved = ConfigData(inputMode, hwCount, midiCount, active)
  /\ profiles = [p \in {1} |-> channels]
  /\ todo = <<>> /\ running = TRUE /\ whole = TRUE /\ faults = 0 /\ handled = 0

Ready == running /\ todo = <<>>

(***************************************************************************)
(* Applying and switching profiles                                         *)
(***************************************************************************)
\* apply_profile: the strips and the MIDI count follow from the file.
ApplyProfile(strips) ==
  /\ channels' = RebuildPartition(inputMode, hwCount, strips)
  /\ midiCount' = AppliedMidiCount(inputMode, hwCount, strips)
  /\ whole' = CountsAgree(inputMode, hwCount, midiCount', channels', strips)

\* Mutant: the switch saves before the new profile is applied.
SwitchSavingFirst(p, strips, then, back) ==
  /\ active' = p
  /\ ApplyProfile(strips)
  /\ todo' = <<ConfigWrite(ConfigData(inputMode, hwCount, midiCount', p))>>
             \o (IF channels' # strips THEN RoutineWrites(p, strips, channels, back) ELSE <<>>)
             \o then

\* _switch_profile from profile_manager.switch on: config.json, and the profile
\* again when applying it had to repair it; then the caller's own writes.  (The
\* outgoing profile is rewritten with its own strips; a failure is caught.)
SwitchTo(p, strips, then, back) ==
  /\ active' = p
  /\ ApplyProfile(strips)
  /\ todo' = <<ConfigWrite(ConfigData(inputMode, hwCount, midiCount', p))>>
             \o (IF channels' # strips THEN RoutineWrites(p, strips, channels', back) ELSE <<>>)
             \o then

\* A switch from the GUI, a MIDI CC or the command line, or a remote one: the
\* remote command is rolled back to the old profile when the switch fails.
SwitchProfile(p) ==
  /\ Ready /\ p \in DOMAIN profiles \ {active}
  /\ \E back \in {None, active} : SwitchTo(p, profiles[p], <<>>, back)
  /\ UNCHANGED <<inputMode, hwCount, saved, profiles, running, faults>>

\* _next_profile_id: the smallest unused one.
NextProfileId == CHOOSE p \in 1..MaxProfiles : /\ p \notin DOMAIN profiles
                                               /\ \A q \in 1..(p - 1) : q \in DOMAIN profiles
Room == Cardinality(DOMAIN profiles) < MaxProfiles

\* ProfileManager.create: blank strips, or the given ones under new ids.
\* The profile files and one more.
With(p, strips) ==
  [q \in DOMAIN profiles \cup {p} |-> IF q = p THEN strips ELSE profiles[q]]
Renewed(strips) == [i \in DOMAIN strips |-> [strips[i] EXCEPT !.id = NewId(i)]]
NewProfiles(counts, sources) ==
  {NewStrips(0, n, FALSE) : n \in {c \in counts : CanDraw(c)}}
  \cup {Renewed(profiles[p]) : p \in {q \in sources : CanDraw(Len(profiles[q]))}}

\* _on_add_profile_clicked, _on_duplicate_profile_clicked: created, then switched to.
CreateProfile ==
  /\ Ready /\ Room
  /\ \E strips \in NewProfiles({hwCount}, {active}) :
       /\ profiles' = With(NextProfileId, strips)
       /\ SwitchTo(NextProfileId, strips, <<>>, None)
  /\ UNCHANGED <<inputMode, hwCount, saved, running, faults>>

\* The create_profile and duplicate_profile commands of a remote controller.
CreateProfileRemotely ==
  /\ Ready /\ Room
  /\ \E strips \in NewProfiles(HwCounts, DOMAIN profiles) :
       profiles' = With(NextProfileId, strips)
  /\ UNCHANGED <<config, channels, saved, todo, running, whole, faults>>

First(ids) == CHOOSE p \in ids : \A q \in ids : p <= q
Without(p) == [q \in DOMAIN profiles \ {p} |-> profiles[q]]

\* ProfileManager.delete refuses the last profile.
Deletable(p) == p \in DOMAIN profiles /\ Cardinality(DOMAIN profiles) > 1

\* Mutant: the runtime stays on the profile that was deleted.
DeleteOnly ==
  /\ Ready /\ Deletable(active)
  /\ profiles' = Without(active)
  /\ UNCHANGED <<config, channels, saved, todo, running, whole, faults>>

\* _on_delete_profile_requested: the GUI deletes the active profile, then
\* switches to the first that remains.
DeleteProfile ==
  /\ Ready /\ Deletable(active)
  /\ profiles' = Without(active)
  /\ LET next == First(DOMAIN profiles \ {active}) IN SwitchTo(next, profiles[next], <<>>, None)
  /\ UNCHANGED <<inputMode, hwCount, saved, running, faults>>

\* The delete_profile command: switches to another profile first, and back to
\* it when the switch or the deletion fails.
DeleteProfileRemotely(p) ==
  /\ Ready /\ Deletable(p)
  /\ IF p = active
       THEN LET next == First(DOMAIN profiles \ {p})
            IN  SwitchTo(next, profiles[next], <<Unlink(p)>>, p) /\ UNCHANGED profiles
       ELSE /\ profiles' = Without(p)
            /\ UNCHANGED <<midiCount, active, channels, todo, whole>>
  /\ UNCHANGED <<inputMode, hwCount, saved, running, faults>>

(***************************************************************************)
(* Changes of the strips                                                   *)
(***************************************************************************)
Assigned == Cardinality({i \in DOMAIN channels : channels[i].target = 1})

\* Mutant: the profile is saved before the assignment changes.
AssignSavedBefore(i) ==
  /\ Ready /\ i \in 1..Shown /\ Assigned < MaxAssigned
  /\ LET padded == [j \in 1..(IF i > Len(channels) THEN i ELSE Len(channels)) |->
                      IF j <= Len(channels) THEN channels[j]
                      ELSE Blank(LegacyId(active, j, Ids(channels)),
                                 inputMode = "midi_only" \/ (inputMode = "hybrid" /\ j > hwCount))]
     IN  channels' = [padded EXCEPT ![i].target = 1]
  /\ todo' = RoutineWrites(active, profiles[active], channels, None)
  /\ UNCHANGED <<config, saved, profiles, running, whole, faults>>

\* The assignment of strip i changes, and _on_channel_changed saves the profile.
\* _channel(i) creates the strips that are shown but not in memory.
AssignTarget(i) ==
  /\ Ready /\ i \in 1..Shown /\ Assigned < MaxAssigned
  /\ LET padded == [j \in 1..(IF i > Len(channels) THEN i ELSE Len(channels)) |->
                      IF j <= Len(channels) THEN channels[j]
                      ELSE Blank(LegacyId(active, j, Ids(channels)),
                                 inputMode = "midi_only" \/ (inputMode = "hybrid" /\ j > hwCount))]
     IN  channels' = [padded EXCEPT ![i].target = 1]
  /\ todo' = RoutineWrites(active, profiles[active], channels', None)
  /\ UNCHANGED <<config, saved, profiles, running, whole, faults>>

\* Mutant: the strips of the new mode are cut to the count of the old one.
ModeCut(mode) ==
  /\ Ready /\ mode \in Modes \ {inputMode}
  /\ inputMode' = mode
  /\ UNCHANGED midiCount
  /\ CanDraw(Missing(NumChannels(mode, hwCount, midiCount), channels))
  /\ channels' = Ensure(0, channels, NumChannels(mode, hwCount, midiCount), mode, hwCount)
  /\ LET written == ConfigWrite(ConfigData(mode, hwCount, midiCount, active))
         target  == NumChannels(mode, hwCount, midiCount)
     IN  /\ target <= MaxStrips /\ Len(channels') <= MaxStrips
         /\ todo' = <<written,
                      Resize(active, ResizeSave(active, profiles[active], channels', target), {}),
                      written>>
  /\ UNCHANGED <<hwCount, active, saved, profiles, running, whole, faults>>

\* The input_mode setter, from _on_input_mode_changed, which saves once more.
ChangeInputMode(mode) ==
  /\ Ready /\ mode \in Modes \ {inputMode}
  /\ inputMode' = mode
  /\ midiCount' = MidiCountForMode(mode, hwCount, Len(channels))
  /\ CanDraw(Missing(NumChannels(mode, hwCount, midiCount'), channels))
  /\ channels' = Ensure(0, channels, NumChannels(mode, hwCount, midiCount'), mode, hwCount)
  /\ LET written == ConfigWrite(ConfigData(mode, hwCount, midiCount', active))
     IN  /\ Len(channels') <= MaxStrips
         /\ todo' = <<written,
                      Resize(active,
                             ResizeSave(active, profiles[active], channels', Len(channels')), {}),
                      written>>
  /\ UNCHANGED <<hwCount, active, saved, profiles, running, whole, faults>>

\* add_midi_channel; the GUI disables it in USB mode.
AddMidiChannel ==
  /\ Ready /\ inputMode # "usb"
  /\ midiCount' = midiCount + 1
  /\ LET target == NumChannels(inputMode, hwCount, midiCount')
         stored == profiles[active]
     IN  /\ target <= MaxStrips /\ CanDraw(Missing(target, stored))
         /\ channels' = ResizeChannels(stored, channels,
                                       NewStrips(0, Missing(target, stored), TRUE), target)
         /\ todo' = <<ConfigWrite(ConfigData(inputMode, hwCount, midiCount', active)),
                      Resize(active, ResizeSave(active, stored, channels', target), {})>>
  /\ UNCHANGED <<inputMode, hwCount, active, saved, profiles, running, whole, faults>>

\* remove_midi_channels, from _on_bulk_delete: shown MIDI strips only.  The visual
\* order is written to the profile first, and its failure is not caught.
RemoveMidiChannels(gone) ==
  /\ Ready /\ inputMode # "usb" /\ gone # {}
  /\ gone \subseteq {i \in DOMAIN channels : i <= Shown /\ channels[i].midi}
  /\ channels' = Keep(channels, gone)
  /\ midiCount' = Cardinality({i \in DOMAIN channels' : channels'[i].midi})
  /\ LET target == NumChannels(inputMode, hwCount, midiCount')
     IN  /\ target <= MaxStrips
         /\ todo' = <<Reorder(active),
                      ConfigWrite(ConfigData(inputMode, hwCount, midiCount', active)),
                      Resize(active, ResizeSave(active, profiles[active], channels', target),
                             {channels[i].id : i \in gone})>>
  /\ UNCHANGED <<inputMode, hwCount, active, saved, profiles, running, whole, faults>>

Usb(strips) == Cardinality({i \in DOMAIN strips : ~strips[i].midi})

\* _on_channel_count_changed: ensure_profile_for_hw makes a profile for an Arduino
\* with too few strips for the active one, and on_channel_count_changed of the
\* window sets the hardware count.
ChannelCountChanged(n) ==
  /\ Ready /\ inputMode # "midi_only"
  /\ hwCount' = n
  /\ \E small \in {n < Usb(profiles[active])} :
     \E strips \in IF ~small THEN {channels} ELSE IF Room THEN NewProfiles({n}, {}) ELSE {} :
       LET p     == IF small THEN NextProfileId ELSE active
           count == IF small THEN AppliedMidiCount(inputMode, hwCount, strips) ELSE midiCount
           shown == IF small THEN RebuildPartition(inputMode, hwCount, strips) ELSE channels
           drawn == IF small THEN n ELSE 0
           total == NumChannels(inputMode, n, count)
           next  == IF n = hwCount THEN shown
                    ELSE Ensure(drawn, shown, total, inputMode, n)
       IN  /\ CanDraw(drawn + IF n = hwCount THEN 0 ELSE Missing(total, shown))
           /\ Len(next) <= MaxStrips
           /\ active' = p /\ midiCount' = count /\ channels' = next
           /\ whole' = /\ IF small THEN CountsAgree(inputMode, hwCount, count, shown, strips) ELSE whole
                       /\ CountsAgree(inputMode, n, count, next,
                                      IF small THEN strips ELSE profiles[active])
           /\ profiles' = IF small THEN With(p, strips) ELSE profiles
           /\ todo' = (IF small
                         THEN <<ConfigWrite(ConfigData(inputMode, hwCount, count, p))>>
                              \o (IF shown # strips
                                    THEN <<ProfileWrite(p, RoutineSave(p, strips, shown), "hardware")>>
                                    ELSE <<>>)
                         ELSE <<>>)
                      \o (IF n # hwCount THEN <<ConfigWrite(ConfigData(inputMode, n, count, p))>>
                          ELSE <<>>)
  /\ UNCHANGED <<inputMode, saved, running, faults>>

(***************************************************************************)
(* The strips as a remote controller edits them (_profile_replacement)     *)
(***************************************************************************)
Targets(strips, i) == IF i \in DOMAIN strips THEN strips[i].target ELSE 0

\* The file is saved, and when it is the active one applied; an index with other
\* applications makes _on_channel_changed save it again.  config.json is not saved.
ReplaceProfile(p, after) ==
  /\ profiles' = [profiles EXCEPT ![p] = after]
  /\ IF p = active
       THEN /\ ApplyProfile(after)
            /\ todo' = IF \E i \in 1..MaxStrips : Targets(channels, i) # Targets(channels', i)
                         THEN RoutineWrites(p, after, channels', None) ELSE <<>>
       ELSE UNCHANGED <<midiCount, channels, todo, whole>>
  /\ UNCHANGED <<inputMode, hwCount, active, saved, running, faults>>

\* _prepare_add_channel.  The command may name the id of the strip, but the sender
\* (RemoteMixerFacade.add_midi_channel) names the profile alone: the id is drawn.
AddChannelRemotely(p) ==
  /\ Ready /\ p \in DOMAIN profiles /\ Len(profiles[p]) < MaxStrips /\ CanDraw(1)
  /\ ReplaceProfile(p, profiles[p] \o NewStrips(0, 1, TRUE))

\* _prepare_delete_channels: MIDI strips of the file, by their ids.
DeleteChannelsRemotely(p, ids) ==
  /\ Ready /\ p \in DOMAIN profiles /\ ids # {}
  /\ LET gone == {i \in DOMAIN profiles[p] : profiles[p][i].id \in ids}
     IN  /\ ids \subseteq Ids(profiles[p]) /\ \A i \in gone : profiles[p][i].midi
         /\ ReplaceProfile(p, Keep(profiles[p], gone))

(***************************************************************************)
(* Writes, failures, the end and the start of the program                  *)
(***************************************************************************)
\* ConfigManager.save and ProfileManager._save_profile: a temporary file that
\* replaces the old one; delete removes the file.
Write ==
  /\ running /\ todo # <<>>
  /\ LET w == Head(todo)
     IN  /\ saved' = IF w.to = Config THEN w.data ELSE saved
         /\ profiles' = IF w.to = Config THEN profiles
                        ELSE IF w.why = "delete" THEN Without(w.to)
                        ELSE [profiles EXCEPT ![w.to] = w.data]
  /\ todo' = Tail(todo)
  /\ UNCHANGED <<config, channels, whole, running, faults>>

\* An OSError: logged for config.json and resizes; elsewhere it ends the handler,
\* and a remote command that switched profiles switches back.
WriteFails ==
  /\ running /\ todo # <<>> /\ faults < MaxFaults
  /\ LET w == Head(todo)
     IN  /\ w.why \notin {"startup", "hardware"}
         /\ IF w.back # None
              THEN SwitchTo(w.back, profiles[w.back], <<>>, None)
              ELSE /\ todo' = IF w.fatal THEN <<>> ELSE Tail(todo)
                   /\ whole' = (whole /\ w.to = Config)
                   /\ UNCHANGED <<midiCount, active, channels>>
  /\ faults' = faults + 1
  /\ UNCHANGED <<inputMode, hwCount, saved, profiles, running>>

\* The program is killed; or main() fails on the profile it repaired at startup.
Crash ==
  /\ running /\ faults < MaxFaults
  /\ running' = FALSE /\ todo' = <<>> /\ channels' = <<>> /\ whole' = TRUE
  /\ faults' = faults + 1
  /\ UNCHANGED <<config, saved, profiles>>

\* ConfigManager.load and main(): the profile of config.json, or the first one.
Start ==
  /\ ~running
  /\ running' = TRUE
  /\ inputMode' = saved.mode /\ hwCount' = saved.hw
  /\ active' = IF saved.active \in DOMAIN profiles THEN saved.active ELSE First(DOMAIN profiles)
  /\ LET strips == profiles[active']
     IN  /\ channels' = RebuildPartition(saved.mode, saved.hw, strips)
         /\ midiCount' = AppliedMidiCount(saved.mode, saved.hw, strips)
         /\ todo' = IF channels' # strips /\ Len(channels') >= Len(strips)
                      THEN <<ProfileWrite(active', RoutineSave(active', strips, channels'), "startup")>>
                      ELSE <<>>
         /\ whole' = CountsAgree(saved.mode, saved.hw, midiCount', channels', strips)
  /\ UNCHANGED <<saved, profiles, faults>>

Operation ==
  \/ \E p \in DOMAIN profiles : \/ SwitchProfile(p) \/ DeleteProfileRemotely(p)
                                \/ AddChannelRemotely(p)
                                \/ \E ids \in SUBSET Ids(profiles[p]) : DeleteChannelsRemotely(p, ids)
  \/ CreateProfile \/ CreateProfileRemotely \/ DeleteProfile
  \/ \E i \in 1..MaxStrips : AssignTarget(i)
  \/ \E mode \in Modes : ChangeInputMode(mode)
  \/ AddMidiChannel
  \/ \E gone \in SUBSET (1..MaxStrips) : RemoveMidiChannels(gone)
  \/ \E n \in HwCounts : ChannelCountChanged(n)

Next ==
  \/ handled < MaxHandlers /\ handled' = handled + 1 /\ Operation
  \/ (Write \/ WriteFails \/ Crash \/ Start) /\ UNCHANGED handled

Spec == Init /\ [][Next]_vars
-----------------------------------------------------------------------------
StripId == Nat \X Nat \X Nat
Strip == [id : StripId, midi : BOOLEAN, target : 0..1]

\* Every strip of a profile file has an id of its own, and the files, the
\* configuration and the runtime hold what their readers take for granted.
TypeOK ==
  /\ inputMode \in Modes /\ hwCount \in HwCounts /\ midiCount \in Nat
  /\ active \in 1..MaxProfiles /\ DOMAIN profiles \subseteq 1..MaxProfiles
  /\ saved \in [mode : Modes, hw : HwCounts, midi : Nat, active : 1..MaxProfiles]
  /\ channels \in Seq(Strip)
  /\ \A p \in DOMAIN profiles : /\ profiles[p] \in Seq(Strip)
                                /\ Cardinality(Ids(profiles[p])) = Len(profiles[p])
  /\ running \in BOOLEAN /\ whole \in BOOLEAN
  /\ faults \in 0..MaxFaults /\ handled \in 0..MaxHandlers

\* There is always a profile, and the one the runtime works on exists: through
\* deletions by the user and by a remote controller, failed switches that are
\* rolled back, and a crash between the deletion and config.json.
ActiveProfileExists == DOMAIN profiles # {} /\ (running => active \in DOMAIN profiles)

\* A profile keeps its strips to itself: no id is in two files, and between two
\* handlers no strip of another profile is in memory, where the next routine
\* save of the active profile would pick it up.
ProfilesAreApart ==
  /\ \A p, q \in DOMAIN profiles : p # q => Ids(profiles[p]) \cap Ids(profiles[q]) = {}
  /\ Ready => \A p \in DOMAIN profiles \ {active} : Ids(profiles[p]) \cap Ids(channels) = {}

\* As long as the strip counts agree, every strip in memory is between two
\* handlers in the active file, wherever it stands there, and with the assignment
\* it has in memory: what the user assigned reached the disk.
AssignmentsAreSaved ==
  Ready /\ whole =>
    \A j \in DOMAIN channels : \E i \in DOMAIN profiles[active] :
      profiles[active][i].id = channels[j].id /\ profiles[active][i].target = channels[j].target

\* A stored strip leaves its file only because the user removed it, locally or
\* remotely, as long as the strip counts agree: no mode switch, resize,
\* routine save, repair or crash loses a strip.  Of the files that the runtime
\* does not work on, none ever loses one.
StripsSurvive ==
  [][\A p \in DOMAIN profiles \cap DOMAIN profiles' :
       LET lost == Ids(profiles[p]) \ Ids(profiles'[p])
       IN  lost # {} => \/ p = active /\ ~whole
                        \/ DeleteChannelsRemotely(p, lost)
                        \/ /\ todo # <<>> /\ Head(todo).to = p
                           /\ lost \subseteq Head(todo).removed]_vars
=============================================================================
