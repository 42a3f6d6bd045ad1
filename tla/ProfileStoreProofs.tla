------------------------- MODULE ProfileStoreProofs -------------------------
(***************************************************************************)
(* There is always a profile and the runtime works on one that exists: the *)
(* invariant says where the writes still to be done can lead, a rollback to*)
(* a profile that exists, a deletion that is the last write of its handler *)
(* and spares the active profile.                                          *)
(*                                                                         *)
(* Profiles keep their strips to themselves: in a file, in memory and in a *)
(* write still to be done, a strip has an id drawn at random that no other *)
(* file has, or one derived from its own profile.                          *)
(*                                                                         *)
(* Every list of strips, in a file or in a write, has distinct ids; and as *)
(* long as the counts agree, the active file or the last write of it holds *)
(* the strips in memory, so that no assignment and no strip is lost.       *)
(***************************************************************************)
EXTENDS ProfileStore, FiniteSetTheorems, SequenceTheorems, WellFoundedInduction, TLAPS

IsList(s) == s \in Seq({s[i] : i \in DOMAIN s})

RollsBackTo(s, ids) == \A i \in DOMAIN s : s[i].back # None => s[i].back \in ids

\* Writes without a deletion among them.
Plain(s, ids) == IsList(s) /\ RollsBackTo(s, ids) /\ \A i \in DOMAIN s : s[i].why # "delete"

\* Writes that a handler working on profile a may leave to be done.
Safe(s, ids, a) ==
  /\ IsList(s) /\ RollsBackTo(s, ids)
  /\ \A i \in DOMAIN s : s[i].why = "delete" => i = Len(s) /\ s[i].to # a

ProfilesKnown == DOMAIN profiles # {} /\ DOMAIN profiles \subseteq 1..MaxProfiles
ActiveKnown == running => active \in DOMAIN profiles
WritesSafe == Safe(todo, DOMAIN profiles, active)
StoreInv == ProfilesKnown /\ ActiveKnown /\ WritesSafe
-----------------------------------------------------------------------------
(***************************************************************************)
(* Choices among the profile numbers.                                      *)
(***************************************************************************)
LEMMA Least == ASSUME NEW S \in SUBSET Nat, S # {} PROVE \E m \in S : \A n \in S : m <= n
<1>1. PICK m \in S : \A n \in S : ~(<<n, m>> \in OpToRel(<, Nat))
  BY NatLessThanWellFounded, WFMin, Zenon
<1>2. \A n \in S : ~(n < m)
  BY <1>1 DEF OpToRel
<1> QED BY <1>2

LEMMA FirstIsThere == ASSUME NEW S \in SUBSET Nat, S # {} PROVE First(S) \in S
BY Least, Zenon DEF First

LEMMA FreeProfileId == ASSUME ProfilesKnown, Room
                       PROVE  NextProfileId \in (1..MaxProfiles) \ DOMAIN profiles
<1>1. MaxProfiles \in Nat
  BY ConstantsAssumption
<1> DEFINE Free == (1..MaxProfiles) \ DOMAIN profiles
<1>0. Cardinality(DOMAIN profiles) # MaxProfiles /\ DOMAIN profiles \subseteq 1..MaxProfiles
  <2>1. IsFiniteSet(1..MaxProfiles) /\ DOMAIN profiles \in SUBSET (1..MaxProfiles)
    BY <1>1, FS_Interval DEF ProfilesKnown
  <2>2. Cardinality(DOMAIN profiles) \in Nat
    BY <2>1, FS_Subset, FS_CardinalityType
  <2> QED BY <1>1, <2>1, <2>2 DEF Room
<1>2. Cardinality(1..MaxProfiles) = MaxProfiles
  BY <1>1, FS_Interval
<1>3. Free # {}
  <2>1. SUFFICES ASSUME Free = {} PROVE FALSE
    OBVIOUS
  <2>2. DOMAIN profiles = 1..MaxProfiles
    BY <1>0, <2>1, Zenon
  <2> QED BY <1>0, <1>2, <2>2
<1>4. PICK m \in Free : \A n \in Free : m <= n
  <2>1. Free \in SUBSET Nat
    BY <1>1
  <2> HIDE DEF Free
  <2> QED BY <2>1, <1>3, Least
<1>5. \A q \in 1..(m - 1) : q \in DOMAIN profiles
  BY <1>1, <1>4
<1> QED BY <1>4, <1>5, Zenon DEF NextProfileId

LEMMA OthersRemain == ASSUME ProfilesKnown, NEW p, Deletable(p)
                      PROVE  /\ DOMAIN profiles \ {p} # {}
                             /\ First(DOMAIN profiles \ {p}) \in DOMAIN profiles \ {p}
                             /\ DOMAIN Without(p) = DOMAIN profiles \ {p}
<1>1. DOMAIN profiles # {p}
  BY FS_Singleton DEF Deletable
<1>2. DOMAIN profiles \ {p} # {}
  BY <1>1 DEF Deletable
<1>3. DOMAIN profiles \ {p} \subseteq Nat
  BY ConstantsAssumption DEF ProfilesKnown
<1>4. DOMAIN Without(p) = DOMAIN profiles \ {p}
  BY DEF Without
<1> QED BY <1>2, <1>3, <1>4, FirstIsThere

LEMMA Added == ASSUME NEW p, NEW strips
               PROVE  DOMAIN With(p, strips) = DOMAIN profiles \cup {p}
BY DEF With
-----------------------------------------------------------------------------
(***************************************************************************)
(* Lists of writes.                                                        *)
(***************************************************************************)
LEMMA ListOf == ASSUME NEW S, NEW s \in Seq(S) PROVE IsList(s)
BY DEF IsList

LEMMA NoWrites == ASSUME NEW ids PROVE Plain(<<>>, ids)
BY DEF Plain, IsList, RollsBackTo

LEMMA OneWrite == ASSUME NEW w, NEW ids, w.why # "delete", w.back # None => w.back \in ids
                  PROVE  Plain(<<w>>, ids)
<1>1. <<w>> \in Seq({w}) /\ DOMAIN <<w>> = {1} /\ <<w>>[1] = w
  OBVIOUS
<1> QED BY <1>1, ListOf DEF Plain, RollsBackTo

LEMMA MoreWrites == ASSUME NEW ids, NEW s, NEW t, Plain(s, ids), Plain(t, ids)
                    PROVE  Plain(s \o t, ids)
<1> DEFINE S == {s[i] : i \in DOMAIN s} \cup {t[i] : i \in DOMAIN t}
<1>1. s \in Seq(S) /\ t \in Seq(S)
  BY DEF Plain, IsList
<1>2. s \o t \in Seq(S) /\ Len(s \o t) = Len(s) + Len(t)
  BY <1>1
<1>3. \A i \in DOMAIN (s \o t) : \/ i \in DOMAIN s /\ (s \o t)[i] = s[i]
                                 \/ i - Len(s) \in DOMAIN t /\ (s \o t)[i] = t[i - Len(s)]
  BY <1>1, <1>2
<1> QED BY <1>2, <1>3, ListOf DEF Plain, RollsBackTo

LEMMA PlainIsSafe == ASSUME NEW ids, NEW s, Plain(s, ids), NEW a PROVE Safe(s, ids, a)
BY DEF Plain, Safe

LEMMA MoreProfiles == ASSUME NEW ids, NEW s, Plain(s, ids), NEW more, ids \subseteq more
                      PROVE  Plain(s, more)
BY DEF Plain, RollsBackTo

LEMMA ConfigPlain == ASSUME NEW data, NEW ids PROVE Plain(<<ConfigWrite(data)>>, ids)
<1>1. ConfigWrite(data).why # "delete" /\ ConfigWrite(data).back = None
  BY DEF ConfigWrite
<1> QED BY <1>1, OneWrite

LEMMA ProfilePlain == ASSUME NEW p, NEW strips, NEW why, why # "delete", NEW ids
                      PROVE  Plain(<<ProfileWrite(p, strips, why)>>, ids)
<1>1. ProfileWrite(p, strips, why).why # "delete" /\ ProfileWrite(p, strips, why).back = None
  BY DEF ProfileWrite
<1> QED BY <1>1, OneWrite

LEMMA ResizePlain == ASSUME NEW p, NEW strips, NEW removed, NEW ids
                     PROVE  Plain(<<Resize(p, strips, removed)>>, ids)
<1>1. Resize(p, strips, removed).why # "delete" /\ Resize(p, strips, removed).back = None
  BY DEF Resize, ProfileWrite
<1> QED BY <1>1, OneWrite

LEMMA InOneWrite == ASSUME NEW w, NEW ids, Plain(<<w>>, ids)
                    PROVE  w.why # "delete" /\ (w.back # None => w.back \in ids)
<1>1. 1 \in DOMAIN <<w>> /\ <<w>>[1] = w
  OBVIOUS
<1> QED BY <1>1 DEF Plain, RollsBackTo

LEMMA TwoWrites == ASSUME NEW v, NEW w, NEW ids, Plain(<<v>>, ids), Plain(<<w>>, ids)
                   PROVE  Plain(<<v, w>>, ids)
<1>1. <<v, w>> \in Seq({v, w}) /\ DOMAIN <<v, w>> = 1..2
  OBVIOUS
<1>2. IsList(<<v, w>>)
  BY <1>1, ListOf
<1>3. \A i \in 1..2 : <<v, w>>[i] \in {v, w}
  OBVIOUS
<1>4. \A x \in {v, w} : x.why # "delete" /\ (x.back # None => x.back \in ids)
  BY InOneWrite
<1> QED BY <1>1, <1>2, <1>3, <1>4, Zenon DEF Plain, RollsBackTo

LEMMA ThreeWrites == ASSUME NEW u, NEW v, NEW w, NEW ids,
                            Plain(<<u>>, ids), Plain(<<v>>, ids), Plain(<<w>>, ids)
                     PROVE  Plain(<<u, v, w>>, ids)
<1>1. <<u, v, w>> \in Seq({u, v, w}) /\ DOMAIN <<u, v, w>> = 1..3
  OBVIOUS
<1>2. IsList(<<u, v, w>>)
  BY <1>1, ListOf
<1>3. \A i \in 1..3 : <<u, v, w>>[i] \in {u, v, w}
  OBVIOUS
<1>4. \A x \in {u, v, w} : x.why # "delete" /\ (x.back # None => x.back \in ids)
  BY InOneWrite
<1> QED BY <1>1, <1>2, <1>3, <1>4, Zenon DEF Plain, RollsBackTo

LEMMA RoutinePlain ==
  ASSUME NEW p, NEW stored, NEW strips, NEW back, NEW ids, back # None => back \in ids
  PROVE  Plain(RoutineWrites(p, stored, strips, back), ids)
<1> DEFINE w == [ProfileWrite(p, RoutineSave(p, stored, strips), "routine") EXCEPT !.back = back]
<1>1. w.why # "delete" /\ w.back = back
  BY DEF ProfileWrite
<1>2. Plain(<<w>>, ids)
  BY <1>1, OneWrite
<1> QED BY <1>2, NoWrites DEF RoutineWrites
-----------------------------------------------------------------------------
(***************************************************************************)
(* The steps.                                                              *)
(***************************************************************************)
\* What _switch_profile leaves to be done, before the writes of its caller.
LEMMA Switched ==
  ASSUME NEW p, NEW strips, NEW then, NEW back, NEW ids, back # None => back \in ids,
         SwitchTo(p, strips, then, back)
  PROVE  active' = p /\ \E s : Plain(s, ids) /\ todo' = s \o then
<1> DEFINE first  == <<ConfigWrite(ConfigData(inputMode, hwCount, midiCount', p))>>
           second == IF channels' # strips THEN RoutineWrites(p, strips, channels', back) ELSE <<>>
<1>1. active' = p /\ todo' = first \o second \o then
  BY DEF SwitchTo
<1>2. Plain(first, ids)
  BY ConfigPlain
<1>3. Plain(second, ids)
  BY RoutinePlain, NoWrites
<1>4. Plain(first \o second, ids)
  <2> HIDE DEF first, second
  <2> QED BY <1>2, <1>3, MoreWrites
<1> QED BY <1>1, <1>4

LEMMA SwitchedOnly ==
  ASSUME NEW p, NEW strips, NEW back, NEW ids, back # None => back \in ids,
         SwitchTo(p, strips, <<>>, back)
  PROVE  active' = p /\ Plain(todo', ids)
<1>1. PICK s : Plain(s, ids) /\ todo' = s \o <<>>
  BY Switched
<1>2. active' = p
  BY Switched
<1> QED BY <1>1, <1>2, NoWrites, MoreWrites

\* A handler that keeps the profiles, works on one of them and deletes none.
LEMMA PlainStep == ASSUME StoreInv, DOMAIN profiles \subseteq DOMAIN profiles',
                          DOMAIN profiles' \subseteq 1..MaxProfiles,
                          active' \in DOMAIN profiles', Plain(todo', DOMAIN profiles')
                   PROVE  StoreInv'
BY PlainIsSafe DEF StoreInv, ProfilesKnown, ActiveKnown, WritesSafe

LEMMA SwitchStep == ASSUME StoreInv, NEW p \in DOMAIN profiles, SwitchProfile(p) PROVE StoreInv'
<1>1. running /\ UNCHANGED profiles
  BY DEF SwitchProfile, Ready
<1>2. active \in DOMAIN profiles
  BY <1>1 DEF StoreInv, ActiveKnown
<1>3. PICK back \in {None, active} : SwitchTo(p, profiles[p], <<>>, back)
  BY DEF SwitchProfile
<1>4. active' = p /\ Plain(todo', DOMAIN profiles)
  BY <1>2, <1>3, SwitchedOnly
<1> QED BY <1>1, <1>4, PlainStep DEF StoreInv, ProfilesKnown

LEMMA CreateStep == ASSUME StoreInv, CreateProfile PROVE StoreInv'
<1>1. PICK strips : /\ profiles' = With(NextProfileId, strips)
                    /\ SwitchTo(NextProfileId, strips, <<>>, None)
  BY DEF CreateProfile
<1>2. DOMAIN profiles' = DOMAIN profiles \cup {NextProfileId}
  BY <1>1, Added
<1>3. NextProfileId \in 1..MaxProfiles
  BY FreeProfileId DEF CreateProfile, StoreInv
<1>4. active' = NextProfileId /\ Plain(todo', DOMAIN profiles')
  BY <1>1, SwitchedOnly
<1> QED BY <1>2, <1>3, <1>4, PlainStep DEF StoreInv, ProfilesKnown

\* Nothing is to be done when a handler starts.
LEMMA Idle == ASSUME StoreInv, Ready
              PROVE  active \in DOMAIN profiles /\ \A ids : Plain(todo, ids)
BY NoWrites DEF StoreInv, ActiveKnown, Ready

LEMMA CreateRemotelyStep == ASSUME StoreInv, CreateProfileRemotely PROVE StoreInv'
<1>1. PICK strips : profiles' = With(NextProfileId, strips)
  BY DEF CreateProfileRemotely
<1>2. DOMAIN profiles' = DOMAIN profiles \cup {NextProfileId}
  BY <1>1, Added
<1>3. NextProfileId \in 1..MaxProfiles
  BY FreeProfileId DEF CreateProfileRemotely, StoreInv
<1>4. UNCHANGED <<active, todo>> /\ Ready
  BY DEF CreateProfileRemotely, config
<1> QED BY <1>2, <1>3, <1>4, Idle, PlainStep DEF StoreInv, ProfilesKnown

LEMMA DeleteStep == ASSUME StoreInv, DeleteProfile PROVE StoreInv'
<1> DEFINE next == First(DOMAIN profiles \ {active})
<1>1. Deletable(active) /\ profiles' = Without(active) /\ SwitchTo(next, profiles[next], <<>>, None)
  BY DEF DeleteProfile
<1>2. DOMAIN profiles' = DOMAIN profiles \ {active} /\ next \in DOMAIN profiles'
  BY <1>1, OthersRemain DEF StoreInv
<1>3. active' = next /\ Plain(todo', DOMAIN profiles')
  BY <1>1, SwitchedOnly
<1> QED BY <1>2, <1>3, PlainIsSafe DEF StoreInv, ProfilesKnown, ActiveKnown, WritesSafe

\* A deletion after the writes of a switch.
LEMMA DeletionLast ==
  ASSUME NEW ids, NEW s, Plain(s, ids), NEW w, w.back # None => w.back \in ids,
         NEW a, w.to # a
  PROVE  Safe(s \o <<w>>, ids, a)
<1> DEFINE S == {s[i] : i \in DOMAIN s} \cup {w}
<1>1. s \in Seq(S) /\ <<w>> \in Seq(S)
  BY DEF Plain, IsList
<1>2. s \o <<w>> \in Seq(S) /\ Len(s \o <<w>>) = Len(s) + 1
  BY <1>1
<1>3. \A i \in DOMAIN (s \o <<w>>) : \/ i \in DOMAIN s /\ (s \o <<w>>)[i] = s[i]
                                     \/ i = Len(s) + 1 /\ (s \o <<w>>)[i] = w
  BY <1>1, <1>2
<1>4. IsList(s \o <<w>>)
  BY <1>2, ListOf
<1> QED BY <1>2, <1>3, <1>4 DEF Plain, Safe, RollsBackTo

LEMMA DeleteRemotelyStep ==
  ASSUME StoreInv, NEW p \in DOMAIN profiles, DeleteProfileRemotely(p) PROVE StoreInv'
<1> DEFINE next == First(DOMAIN profiles \ {p})
<1>1. Ready /\ Deletable(p) /\ active \in DOMAIN profiles /\ UNCHANGED running
  BY Idle DEF DeleteProfileRemotely
<1>2. DOMAIN Without(p) = DOMAIN profiles \ {p} /\ next \in DOMAIN profiles \ {p}
  BY <1>1, OthersRemain DEF StoreInv
<1>3. CASE p = active
  <2>1. SwitchTo(next, profiles[next], <<Unlink(p)>>, p) /\ UNCHANGED profiles
    BY <1>3 DEF DeleteProfileRemotely
  <2>2. active' = next /\ \E s : Plain(s, DOMAIN profiles) /\ todo' = s \o <<Unlink(p)>>
    <3> HIDE DEF next
    <3> QED BY <2>1, Switched
  <2>3. Unlink(p).to = p /\ Unlink(p).back = p
    BY DEF Unlink, ProfileWrite
  <2>4. Safe(todo', DOMAIN profiles, next)
    <3> HIDE DEF next
    <3> QED BY <1>2, <2>2, <2>3, DeletionLast
  <2> QED BY <1>2, <2>1, <2>2, <2>4 DEF StoreInv, ProfilesKnown, ActiveKnown, WritesSafe
<1>4. CASE p # active
  <2>1. profiles' = Without(p) /\ UNCHANGED <<active, todo>>
    BY <1>4 DEF DeleteProfileRemotely
  <2> QED BY <1>1, <1>2, <1>4, <2>1, Idle, PlainIsSafe
          DEF StoreInv, ProfilesKnown, ActiveKnown, WritesSafe
<1> QED BY <1>3, <1>4

LEMMA AssignStep == ASSUME StoreInv, NEW i, AssignTarget(i) PROVE StoreInv'
<1>1. Ready /\ UNCHANGED <<active, profiles>>
  BY DEF AssignTarget, config
<1>2. Plain(todo', DOMAIN profiles)
  BY RoutinePlain DEF AssignTarget
<1> QED BY <1>1, <1>2, Idle, PlainStep DEF StoreInv, ProfilesKnown

\* config.json, a resize and config.json again.
LEMMA ModeStep == ASSUME StoreInv, NEW mode, ChangeInputMode(mode) PROVE StoreInv'
<1> DEFINE written == ConfigWrite(ConfigData(mode, hwCount, midiCount', active))
           resize  == Resize(active,
                             ResizeSave(active, profiles[active], channels', Len(channels')), {})
<1>1. Ready /\ UNCHANGED <<active, profiles>> /\ todo' = <<written, resize, written>>
  BY DEF ChangeInputMode
<1>2. Plain(<<written>>, DOMAIN profiles) /\ Plain(<<resize>>, DOMAIN profiles)
  BY ConfigPlain, ResizePlain
<1>3. Plain(todo', DOMAIN profiles)
  <2> HIDE DEF written, resize
  <2> QED BY <1>1, <1>2, TwoWrites, ThreeWrites
<1> QED BY <1>1, <1>3, Idle, PlainStep DEF StoreInv, ProfilesKnown

LEMMA AddMidiStep == ASSUME StoreInv, AddMidiChannel PROVE StoreInv'
<1> DEFINE target  == NumChannels(inputMode, hwCount, midiCount')
           written == ConfigWrite(ConfigData(inputMode, hwCount, midiCount', active))
           resize  == Resize(active, ResizeSave(active, profiles[active], channels', target), {})
<1>1. Ready /\ UNCHANGED <<active, profiles>> /\ todo' = <<written, resize>>
  BY DEF AddMidiChannel
<1>2. Plain(<<written>>, DOMAIN profiles) /\ Plain(<<resize>>, DOMAIN profiles)
  BY ConfigPlain, ResizePlain
<1>3. Plain(todo', DOMAIN profiles)
  <2> HIDE DEF written, resize
  <2> QED BY <1>1, <1>2, TwoWrites, ThreeWrites
<1> QED BY <1>1, <1>3, Idle, PlainStep DEF StoreInv, ProfilesKnown

LEMMA RemoveMidiStep == ASSUME StoreInv, NEW gone, RemoveMidiChannels(gone) PROVE StoreInv'
<1> DEFINE target  == NumChannels(inputMode, hwCount, midiCount')
           order   == ProfileWrite(active, profiles[active], "order")
           written == ConfigWrite(ConfigData(inputMode, hwCount, midiCount', active))
           resize  == Resize(active, ResizeSave(active, profiles[active], channels', target),
                             {channels[i].id : i \in gone})
<1>1. Ready /\ UNCHANGED <<active, profiles>> /\ todo' = <<order, written, resize>>
  BY DEF RemoveMidiChannels, Reorder
<1>2. /\ Plain(<<order>>, DOMAIN profiles) /\ Plain(<<written>>, DOMAIN profiles)
      /\ Plain(<<resize>>, DOMAIN profiles)
  BY ConfigPlain, ResizePlain, ProfilePlain
<1>3. Plain(todo', DOMAIN profiles)
  <2> HIDE DEF order, written, resize
  <2> QED BY <1>1, <1>2, TwoWrites, ThreeWrites
<1> QED BY <1>1, <1>3, Idle, PlainStep DEF StoreInv, ProfilesKnown

LEMMA CountStep == ASSUME StoreInv, NEW n, ChannelCountChanged(n) PROVE StoreInv'
<1> DEFINE Repair(p, strips, shown) ==
             IF shown # strips
               THEN <<ProfileWrite(p, RoutineSave(p, strips, shown), "hardware")>> ELSE <<>>
           NewOne(p, strips, shown, count) ==
             <<ConfigWrite(ConfigData(inputMode, hwCount, count, p))>> \o Repair(p, strips, shown)
           Counted(p, count) ==
             IF n # hwCount THEN <<ConfigWrite(ConfigData(inputMode, n, count, p))>> ELSE <<>>
           At(small) == IF small THEN NextProfileId ELSE active
           Count(small, strips) ==
             IF small THEN AppliedMidiCount(inputMode, hwCount, strips) ELSE midiCount
           Shows(small, strips) ==
             IF small THEN RebuildPartition(inputMode, hwCount, strips) ELSE channels
           ids == DOMAIN profiles'
<1>1. Ready
  BY DEF ChannelCountChanged
<1>2. PICK small \in {n < Usb(profiles[active])} :
      \E strips \in IF ~small THEN {channels} ELSE IF Room THEN NewProfiles({n}, {}) ELSE {} :
        /\ active' = At(small)
        /\ profiles' = IF small THEN With(At(small), strips) ELSE profiles
        /\ todo' = (IF small
                      THEN NewOne(At(small), strips, Shows(small, strips), Count(small, strips))
                      ELSE <<>>)
                   \o Counted(At(small), Count(small, strips))
  BY DEF ChannelCountChanged
<1>3. \A p, strips, shown, count : Plain(NewOne(p, strips, shown, count), ids)
  <2>1. \A p, strips, shown : Plain(Repair(p, strips, shown), ids)
    BY ProfilePlain, NoWrites
  <2>2. \A p, count : Plain(<<ConfigWrite(ConfigData(inputMode, hwCount, count, p))>>, ids)
    BY ConfigPlain
  <2> HIDE DEF Repair, ids
  <2> QED BY <2>1, <2>2, MoreWrites
<1>4. \A p, count : Plain(Counted(p, count), ids)
  BY ConfigPlain, NoWrites
<1>5. Plain(todo', ids)
  <2> HIDE DEF NewOne, Counted, At, Count, Shows, ids
  <2> QED BY <1>2, <1>3, <1>4, NoWrites, MoreWrites
<1>6. \/ active' = active /\ UNCHANGED profiles
      \/ Room /\ active' = NextProfileId /\ \E strips : profiles' = With(NextProfileId, strips)
  <2> HIDE DEF NewOne, Counted, Count, Shows
  <2>1. CASE small
    BY <1>2, <2>1, Zenon
  <2>2. CASE ~small
    BY <1>2, <2>2, Zenon
  <2> QED BY <2>1, <2>2
<1>7. CASE active' = active /\ UNCHANGED profiles
  BY <1>1, <1>5, <1>7, Idle, PlainStep DEF StoreInv, ProfilesKnown
<1>8. CASE Room /\ active' = NextProfileId /\ \E strips : profiles' = With(NextProfileId, strips)
  <2>1. DOMAIN profiles' = DOMAIN profiles \cup {NextProfileId}
    BY <1>8, Added
  <2>2. NextProfileId \in 1..MaxProfiles
    BY <1>8, FreeProfileId DEF StoreInv
  <2> QED BY <1>5, <1>8, <2>1, <2>2, PlainStep DEF StoreInv, ProfilesKnown
<1> QED BY <1>6, <1>7, <1>8

(***************************************************************************)
(* Writes, failures, the end and the start of the program.                 *)
(***************************************************************************)
LEMMA ReplaceStep == ASSUME StoreInv, Ready, NEW p, NEW after, ReplaceProfile(p, after)
                     PROVE  StoreInv'
<1>1. UNCHANGED active /\ DOMAIN profiles' = DOMAIN profiles
  BY DEF ReplaceProfile
<1>2. Plain(todo', DOMAIN profiles)
  <2>1. CASE p = active
    BY <2>1, RoutinePlain, NoWrites DEF ReplaceProfile
  <2>2. CASE p # active
    BY <2>2, Idle DEF ReplaceProfile
  <2> QED BY <2>1, <2>2
<1> QED BY <1>1, <1>2, Idle, PlainStep DEF StoreInv, ProfilesKnown

LEMMA RemoteEditStep ==
  ASSUME StoreInv, NEW p,
         AddChannelRemotely(p) \/ \E ids \in SUBSET Ids(profiles[p]) : DeleteChannelsRemotely(p, ids)
  PROVE  StoreInv'
<1>1. Ready /\ \E after : ReplaceProfile(p, after)
  BY DEF AddChannelRemotely, DeleteChannelsRemotely
<1> QED BY <1>1, ReplaceStep

\* What is left when the first write is done or given up.
LEMMA RestIsSafe == ASSUME NEW s, s # <<>>, NEW ids, NEW a, Safe(s, ids, a)
                    PROVE  Safe(Tail(s), ids, a)
<1> DEFINE S == {s[i] : i \in DOMAIN s}
<1>1. s \in Seq(S)
  BY DEF Safe, IsList
<1>2. Tail(s) \in Seq(S) /\ Len(Tail(s)) = Len(s) - 1
  BY <1>1
<1>3. \A i \in DOMAIN Tail(s) : i + 1 \in DOMAIN s /\ Tail(s)[i] = s[i + 1]
  BY <1>1, <1>2
<1>4. IsList(Tail(s))
  BY <1>2, ListOf
<1> QED BY <1>1, <1>2, <1>3, <1>4 DEF Safe, RollsBackTo

LEMMA FirstWrite == ASSUME StoreInv, todo # <<>>
                    PROVE  /\ Head(todo).back # None => Head(todo).back \in DOMAIN profiles
                           /\ Head(todo).why = "delete" => /\ Head(todo).to # active
                                                           /\ Tail(todo) = <<>>
<1> DEFINE S == {todo[i] : i \in DOMAIN todo}
<1>1. todo \in Seq(S)
  BY DEF StoreInv, WritesSafe, Safe, IsList
<1>2. 1 \in DOMAIN todo /\ Head(todo) = todo[1]
  BY <1>1
<1>3. Len(todo) = 1 => Tail(todo) = <<>>
  <2>1. Tail(todo) \in Seq(S) /\ (Len(todo) = 1 => Len(Tail(todo)) = 0)
    BY <1>1
  <2>2. \A s \in Seq(S) : Len(s) = 0 => s = <<>>
    BY EmptySeq
  <2> HIDE DEF S
  <2> QED BY <2>1, <2>2
<1> QED BY <1>2, <1>3 DEF StoreInv, WritesSafe, Safe, RollsBackTo

LEMMA WriteStep == ASSUME StoreInv, Write PROVE StoreInv'
<1> DEFINE w == Head(todo)
<1>1. running /\ todo # <<>> /\ todo' = Tail(todo) /\ UNCHANGED <<active, running>>
  BY DEF Write, config
<1>2. active \in DOMAIN profiles
  BY <1>1 DEF StoreInv, ActiveKnown
<1>3. CASE w.to # Config /\ w.why = "delete"
  <2>1. profiles' = Without(w.to)
    BY <1>3 DEF Write
  <2>2. DOMAIN profiles' = DOMAIN profiles \ {w.to}
    BY <2>1 DEF Without
  <2>3. active \in DOMAIN profiles' /\ todo' = <<>>
    BY <1>1, <1>2, <1>3, <2>2, FirstWrite
  <2> QED BY <1>1, <2>2, <2>3, NoWrites, PlainIsSafe
          DEF StoreInv, ProfilesKnown, ActiveKnown, WritesSafe
<1>4. CASE ~(w.to # Config /\ w.why = "delete")
  <2>1. DOMAIN profiles' = DOMAIN profiles
    BY <1>4 DEF Write
  <2>2. Safe(todo', DOMAIN profiles, active)
    BY <1>1, RestIsSafe DEF StoreInv, WritesSafe
  <2> QED BY <1>1, <1>2, <2>1, <2>2 DEF StoreInv, ProfilesKnown, ActiveKnown, WritesSafe
<1> QED BY <1>3, <1>4

LEMMA FailedStep == ASSUME StoreInv, WriteFails PROVE StoreInv'
<1> DEFINE w == Head(todo)
<1>1. running /\ todo # <<>> /\ UNCHANGED <<profiles, running>>
  BY DEF WriteFails
<1>2. active \in DOMAIN profiles
  BY <1>1 DEF StoreInv, ActiveKnown
<1>3. CASE w.back # None
  <2>1. SwitchTo(w.back, profiles[w.back], <<>>, None)
    BY <1>3 DEF WriteFails
  <2>2. active' = w.back /\ Plain(todo', DOMAIN profiles)
    <3> HIDE DEF w
    <3> QED BY <2>1, SwitchedOnly
  <2>3. w.back \in DOMAIN profiles
    BY <1>1, <1>3, FirstWrite
  <2> QED BY <1>1, <2>2, <2>3, PlainStep DEF StoreInv, ProfilesKnown
<1>4. CASE w.back = None
  <2>1. UNCHANGED active /\ todo' \in {<<>>, Tail(todo)}
    BY <1>4 DEF WriteFails
  <2>2. Safe(todo', DOMAIN profiles, active)
    BY <1>1, <2>1, RestIsSafe, NoWrites, PlainIsSafe DEF StoreInv, WritesSafe
  <2> QED BY <1>1, <1>2, <2>1, <2>2 DEF StoreInv, ProfilesKnown, ActiveKnown, WritesSafe
<1> QED BY <1>3, <1>4

LEMMA CrashStep == ASSUME StoreInv, Crash PROVE StoreInv'
<1>1. ~running' /\ todo' = <<>> /\ UNCHANGED profiles
  BY DEF Crash
<1> QED BY <1>1, NoWrites, PlainIsSafe DEF StoreInv, ProfilesKnown, ActiveKnown, WritesSafe

LEMMA StartStep == ASSUME StoreInv, Start PROVE StoreInv'
<1>1. UNCHANGED profiles
  BY DEF Start
<1>2. active' \in DOMAIN profiles
  <2>1. DOMAIN profiles \in SUBSET Nat /\ DOMAIN profiles # {}
    BY ConstantsAssumption DEF StoreInv, ProfilesKnown
  <2>2. First(DOMAIN profiles) \in DOMAIN profiles
    BY <2>1, FirstIsThere
  <2> QED BY <2>2 DEF Start
<1>3. Plain(todo', DOMAIN profiles)
  BY ProfilePlain, NoWrites DEF Start
<1> QED BY <1>1, <1>2, <1>3, PlainStep DEF StoreInv, ProfilesKnown

LEMMA StoreInit == Init => StoreInv
<1> SUFFICES ASSUME Init PROVE StoreInv
  OBVIOUS
<1>1. DOMAIN profiles = {1} /\ active = 1 /\ todo = <<>>
  BY DEF Init
<1>2. ProfilesKnown /\ ActiveKnown
  BY <1>1, ConstantsAssumption DEF ProfilesKnown, ActiveKnown
<1>3. WritesSafe
  BY <1>1, NoWrites, PlainIsSafe DEF WritesSafe
<1> QED BY <1>2, <1>3 DEF StoreInv

LEMMA OperationStep == ASSUME StoreInv, Operation PROVE StoreInv'
BY SwitchStep, DeleteRemotelyStep, RemoteEditStep, CreateStep, CreateRemotelyStep, DeleteStep,
   AssignStep, ModeStep, AddMidiStep, RemoveMidiStep, CountStep DEF Operation

LEMMA StoreStep == ASSUME StoreInv, [Next]_vars PROVE StoreInv'
<1>1. CASE UNCHANGED vars
  <2>1. UNCHANGED <<active, profiles, todo, running>>
    BY <1>1 DEF vars, config
  <2> QED BY <2>1 DEF StoreInv, ProfilesKnown, ActiveKnown, WritesSafe
<1>2. CASE Next
  BY <1>2, OperationStep, WriteStep, FailedStep, CrashStep, StartStep DEF Next
<1> QED BY <1>1, <1>2

(* There is always a profile, and the one the runtime works on exists:     *)
(* through deletions, switches that fail and are rolled back, and crashes  *)
(* (ProfileManager.delete, _switch_profile, the remote delete_profile).    *)
THEOREM ProfileAlwaysActive == Spec => []ActiveProfileExists
<1>1. StoreInv => ActiveProfileExists
  BY DEF StoreInv, ProfilesKnown, ActiveKnown, ActiveProfileExists
<1> QED BY <1>1, StoreInit, StoreStep, PTL DEF Spec
-----------------------------------------------------------------------------
(***************************************************************************)
(* Counting: the n-th element of a set, the first free repair slot, and    *)
(* the normalization of a list strip by strip.                             *)
(***************************************************************************)
LEMMA NthIsThere ==
  ASSUME NEW N \in Nat, NEW S \in SUBSET (1..N), NEW n \in 1..Cardinality(S)
  PROVE  Nth(S, n) \in S /\ Cardinality({j \in S : j <= Nth(S, n)}) = n
<1> DEFINE Upto(k) == {j \in S : j <= k}
           T == {k \in 0..N : Cardinality(Upto(k)) >= n}
<1>0. \A j \in S : j \in Int /\ 1 <= j /\ j <= N
  OBVIOUS
<1>1. \A k \in Int : IsFiniteSet(Upto(k)) /\ Cardinality(Upto(k)) \in Nat
  <2> TAKE k \in Int
  <2>1. IsFiniteSet(1..N)
    BY FS_Interval
  <2>2. Upto(k) \in SUBSET (1..N)
    BY <1>0
  <2> HIDE DEF Upto
  <2> QED BY <2>1, <2>2, FS_Subset, FS_CardinalityType
<1>2. N \in T
  <2>1. Upto(N) = S
    BY <1>0
  <2>2. Cardinality(S) >= n
    <3>1. Cardinality(S) \in Nat
      BY <1>1, <2>1
    <3> QED BY <3>1
  <2> QED BY <2>1, <2>2
<1>3. PICK m \in T : \A k \in T : m <= k
  <2>1. T \in SUBSET Nat
    OBVIOUS
  <2> HIDE DEF T
  <2> QED BY <1>2, <2>1, Least
<1>4. m \in 1..N /\ n <= Cardinality(Upto(m))
  <2>1. \A j \in S : ~(j <= 0)
    BY <1>0
  <2>2. Upto(0) = {}
    BY <2>1
  <2>3. Cardinality(Upto(0)) = 0
    BY <2>2, FS_EmptySet
  <2>4. m # 0
    BY <1>3, <2>3
  <2> QED BY <1>3, <2>4
<1>5. Cardinality(Upto(m - 1)) < n
  <2>1. m - 1 \in 0..N /\ m - 1 \in Int /\ ~(m <= m - 1)
    BY <1>4
  <2>2. m - 1 \notin T
    BY <1>3, <2>1
  <2>3. Cardinality(Upto(m - 1)) \in Nat
    BY <1>1, <2>1
  <2> HIDE DEF Upto
  <2> QED BY <2>1, <2>2, <2>3
<1>6. m \in S
  <2> SUFFICES ASSUME m \notin S PROVE FALSE
    OBVIOUS
  <2>1. \A j \in S : j <= m <=> j <= m - 1
    BY <1>0, <1>4
  <2>2. Upto(m) = Upto(m - 1)
    BY <2>1, Zenon
  <2> DEFINE a == Cardinality(Upto(m))
             b == Cardinality(Upto(m - 1))
  <2>3. a = b
    BY <2>2, Zenon
  <2>4. a \in Nat /\ n <= a
    <3>1. m \in Int
      BY <1>4
    <3> QED BY <1>1, <1>4, <3>1, Zenon
  <2>5. b < n
    BY <1>5, Zenon
  <2>6. n \in Int
    OBVIOUS
  <2> HIDE DEF a, b
  <2> QED BY <2>3, <2>4, <2>5, <2>6
<1>7. Upto(m) = Upto(m - 1) \cup {m} /\ m \notin Upto(m - 1)
  <2>1. \A j \in S : j <= m <=> j <= m - 1 \/ j = m
    BY <1>0, <1>4
  <2>2. ~(m <= m - 1) /\ m <= m
    BY <1>4
  <2> QED BY <1>6, <2>1, <2>2, Zenon
<1>8. Cardinality(Upto(m)) = Cardinality(Upto(m - 1)) + 1
  <2>1. m - 1 \in Int
    BY <1>4
  <2> HIDE DEF Upto
  <2> QED BY <1>1, <1>7, <2>1, FS_AddElement
<1>9. Cardinality(Upto(m)) = n
  <2>0. m \in Int /\ m - 1 \in Int
    BY <1>4
  <2>1. Cardinality(Upto(m)) \in Nat /\ Cardinality(Upto(m - 1)) \in Nat
    BY <1>1, <2>0, Zenon
  <2> HIDE DEF Upto
  <2> QED BY <1>4, <1>5, <1>8, <2>1
<1> QED BY <1>6, <1>9, Zenon DEF Nth

LEMMA CountTo == ASSUME NEW n \in Nat PROVE IsFiniteSet(1..n) /\ Cardinality(1..n) = n
BY FS_Interval

\* Not more ids than strips.
LEMMA IdsAreFew ==
  ASSUME NEW S, NEW x \in Seq(S)
  PROVE  IsFiniteSet(Ids(x)) /\ Cardinality(Ids(x)) <= Len(x)
<1> DEFINE f == [i \in 1..Len(x) |-> x[i].id]
<1>1. Len(x) \in Nat /\ DOMAIN x = 1..Len(x)
  OBVIOUS
<1>2. f \in Surjection(1..Len(x), Ids(x))
  BY <1>1 DEF Surjection, Ids
<1>3. IsFiniteSet(1..Len(x)) /\ Cardinality(1..Len(x)) = Len(x)
  BY <1>1, CountTo, Zenon
<1> HIDE DEF f
<1> QED BY <1>2, <1>3, FS_Surjection

\* There is a slot no strip has yet, so that the id is one of position i.
LEMMA LegacyIdIsFree ==
  ASSUME NEW p, NEW i \in Nat, NEW used, IsFiniteSet(used), Cardinality(used) <= i
  PROVE  \E slot \in 0..i : LegacyId(p, i, used) = <<p, i, slot>> /\ <<p, i, slot>> \notin used
<1> DEFINE Free == {s \in 0..i : <<p, i, s>> \notin used}
<1>1. Free # {}
  <2> SUFFICES ASSUME Free = {} PROVE FALSE
    OBVIOUS
  <2> DEFINE f == [s \in 0..i |-> <<p, i, s>>]
  <2>1. f \in Injection(0..i, used)
    BY DEF Injection, IsInjective
  <2>2. IsFiniteSet(0..i) /\ Cardinality(0..i) = i + 1
    BY FS_Interval
  <2> HIDE DEF f
  <2>3. Cardinality(0..i) <= Cardinality(used)
    BY <2>1, FS_Injection
  <2>4. Cardinality(used) \in Nat
    BY FS_CardinalityType
  <2> QED BY <2>2, <2>3, <2>4
<1>2. PICK m \in Free : \A s \in Free : m <= s
  <2>1. Free \in SUBSET Nat
    OBVIOUS
  <2> HIDE DEF Free
  <2> QED BY <1>1, <2>1, Least
<1>3. \A t \in 0..(m - 1) : <<p, i, t>> \in used
  BY <1>2
<1> DEFINE Slot(s) == <<p, i, s>> \notin used /\ \A t \in 0..(s - 1) : <<p, i, t>> \in used
           slot == CHOOSE s \in 0..i : Slot(s)
<1>4. m \in 0..i /\ Slot(m)
  BY <1>2, <1>3
<1>5. slot \in 0..i /\ Slot(slot)
  <2> HIDE DEF Slot
  <2> QED BY <1>4
<1>6. LegacyId(p, i, used) = <<p, i, slot>>
  BY DEF LegacyId
<1> HIDE DEF slot
<1> QED BY <1>5, <1>6

LEMMA Counting ==
  ASSUME NEW n \in Nat, NEW T, 0 \in T, \A i \in 1..n : i - 1 \in T => i \in T
  PROVE  \A i \in 0..n : i \in T
<1> DEFINE S == {i \in 0..n : i \notin T}
<1> SUFFICES ASSUME S # {} PROVE FALSE
  OBVIOUS
<1>1. S \in SUBSET Nat
  OBVIOUS
<1>2. PICK m \in S : \A i \in S : m <= i
  BY <1>1, Least
<1>3. m \in 1..n /\ m \notin T
  BY <1>2
<1>4. m - 1 \in 0..n /\ ~(m <= m - 1)
  BY <1>3
<1>5. m - 1 \in T
  BY <1>2, <1>4
<1> QED BY <1>3, <1>5

\* What normalizing adds for the n-th strip.
Normalized(p, n, s, before) ==
  Append(before, IF s.id \in Ids(before) THEN [s EXCEPT !.id = LegacyId(p, n, Ids(before))] ELSE s)

\* The recursion of Normalizing has a solution: one step more, one strip more.
LEMMA NormalizingStrips ==
  ASSUME NEW p, NEW S, NEW x \in Seq(S)
  PROVE  LET done == Normalizing(p, x) IN
         /\ done[0] = <<>>
         /\ \A i \in 1..Len(x) : done[i] = Normalized(p, i, x[i], done[i - 1])
<1> DEFINE N == Len(x)
           Upto(n, f) == f = [i \in 0..n |-> IF i = 0 THEN <<>>
                                             ELSE Normalized(p, i, x[i], f[i - 1])]
           T == {n \in 0..N : \E f : Upto(n, f)}
<1>1. N \in Nat
  BY LenProperties
<1>2. 0 \in T
  <2> DEFINE f == [i \in 0..0 |-> <<>>]
  <2>1. Upto(0, f)
    OBVIOUS
  <2>2. 0 \in 0..N
    BY <1>1
  <2> HIDE DEF Upto, f, N
  <2>3. \E g : Upto(0, g)
    BY <2>1
  <2> QED BY <2>2, <2>3
<1>3. ASSUME NEW n \in 1..N, n - 1 \in T PROVE n \in T
  <2>1. PICK f : Upto(n - 1, f)
    BY <1>3
  <2> DEFINE next == Normalized(p, n, x[n], f[n - 1])
             g == [i \in 0..n |-> IF i = n THEN next ELSE f[i]]
             h == [i \in 0..n |-> IF i = 0 THEN <<>> ELSE Normalized(p, i, x[i], g[i - 1])]
  <2>2. ASSUME NEW i \in 0..n PROVE g[i] = h[i]
    <3>1. CASE i = 0
      <4>1. f[0] = <<>>
        BY <1>1, <2>1
      <4> QED BY <3>1, <4>1
    <3>2. CASE i = n
      <4>1. g[n] = next /\ g[n - 1] = f[n - 1]
        BY <1>1
      <4>2. h[n] = Normalized(p, n, x[n], g[n - 1])
        BY <1>1
      <4> QED BY <3>2, <4>1, <4>2
    <3>3. CASE i \in 1..(n - 1)
      <4>1. f[i] = Normalized(p, i, x[i], f[i - 1])
        BY <1>1, <2>1, <3>3
      <4>2. g[i] = f[i] /\ g[i - 1] = f[i - 1]
        BY <1>1, <3>3
      <4>3. h[i] = Normalized(p, i, x[i], g[i - 1])
        BY <1>1, <3>3
      <4> QED BY <4>1, <4>2, <4>3
    <3> QED BY <1>1, <3>1, <3>2, <3>3
  <2>3. g = h
    <3>1. g = [i \in 0..n |-> g[i]] /\ h = [i \in 0..n |-> h[i]]
      OBVIOUS
    <3> HIDE DEF g, h
    <3> QED BY <2>2, <3>1
  <2> HIDE DEF g
  <2>4. Upto(n, g)
    BY <2>3 DEF h
  <2> QED BY <2>4
<1> HIDE DEF T
<1>4. N \in T
  <2> HIDE DEF N
  <2>1. \A i \in 1..N : i - 1 \in T => i \in T
    BY <1>3
  <2>2. \A i \in 0..N : i \in T
    BY <1>1, <1>2, <2>1, Counting
  <2> QED BY <1>1, <2>2
<1>5. PICK solution : Upto(N, solution)
  BY <1>4 DEF T
<1> DEFINE done == CHOOSE f : f = [i \in 0..N |-> IF i = 0 THEN <<>>
                                     ELSE Normalized(p, i, x[i], f[i - 1])]
<1>6. done = [i \in 0..N |-> IF i = 0 THEN <<>>
                             ELSE Normalized(p, i, x[i], done[i - 1])]
  BY <1>5, Zenon
<1>7. Normalizing(p, x) = done
  BY DEF Normalizing, Normalized
<1> HIDE DEF done
<1> QED BY <1>1, <1>6, <1>7
-----------------------------------------------------------------------------
(***************************************************************************)
(* What is computed from a list of strips has strips with the ids of that  *)
(* list, or with ids of the profile the computation is for.                *)
(***************************************************************************)
StripsOf(I) == [id : I, midi : BOOLEAN, target : {0, 1}]
HasOwn(I, p) == \A i, slot \in Nat : <<p, i, slot>> \in I

LEMMA IsLegacy ==
  ASSUME NEW I, NEW p, HasOwn(I, p), NEW J, NEW x \in Seq(StripsOf(J)), NEW i \in Nat, Len(x) <= i
  PROVE  LegacyId(p, i, Ids(x)) \in I
<1>1. IsFiniteSet(Ids(x)) /\ Cardinality(Ids(x)) <= Len(x)
  BY IdsAreFew
<1>2. Cardinality(Ids(x)) \in Nat /\ Len(x) \in Nat
  BY <1>1, FS_CardinalityType
<1>3. Cardinality(Ids(x)) <= i
  BY <1>1, <1>2
<1>4. PICK slot \in 0..i : LegacyId(p, i, Ids(x)) = <<p, i, slot>>
  BY <1>1, <1>3, LegacyIdIsFree
<1> QED BY <1>4 DEF HasOwn

LEMMA BlankIsStrip ==
  ASSUME NEW I, NEW id \in I, NEW m \in BOOLEAN
  PROVE  Blank(id, m) \in StripsOf(I)
BY DEF Blank, StripsOf

LEMMA NormalizeFits ==
  ASSUME NEW I, NEW p, HasOwn(I, p), NEW x \in Seq(StripsOf(I))
  PROVE  /\ NormalizeProfileChannels(p, x) \in Seq(StripsOf(I))
         /\ Len(NormalizeProfileChannels(p, x)) = Len(x)
<1> DEFINE done == Normalizing(p, x)
           T == {i \in 0..Len(x) : done[i] \in Seq(StripsOf(I)) /\ Len(done[i]) = i}
<1>1. Len(x) \in Nat /\ \A i \in 1..Len(x) : x[i] \in StripsOf(I)
  OBVIOUS
<1>2. done[0] = <<>> /\ \A i \in 1..Len(x) : done[i] = Normalized(p, i, x[i], done[i - 1])
  BY NormalizingStrips
<1>3. 0 \in T
  <2>1. <<>> \in Seq(StripsOf(I)) /\ Len(<<>>) = 0 /\ 0 \in 0..Len(x)
    BY <1>1, EmptySeq
  <2> HIDE DEF done
  <2> QED BY <1>2, <2>1
<1>4. ASSUME NEW i \in 1..Len(x), i - 1 \in T PROVE i \in T
  <2> DEFINE before == done[i - 1]
             s == x[i]
             id == LegacyId(p, i, Ids(before))
  <2>1. before \in Seq(StripsOf(I)) /\ Len(before) = i - 1
    BY <1>4
  <2>2. s \in StripsOf(I) /\ done[i] = Normalized(p, i, s, before)
    BY <1>1, <1>2
  <2> HIDE DEF before, s
  <2>3. id \in I
    <3>1. i \in Nat /\ Len(before) <= i
      BY <2>1
    <3> QED BY <2>1, <3>1, IsLegacy
  <2>4. [s EXCEPT !.id = id] \in StripsOf(I)
    BY <2>2, <2>3 DEF StripsOf
  <2>5. PICK t \in StripsOf(I) : done[i] = Append(before, t)
    BY <2>2, <2>4 DEF Normalized
  <2>6. done[i] \in Seq(StripsOf(I)) /\ Len(done[i]) = Len(before) + 1
    BY <2>1, <2>5, AppendProperties
  <2> QED BY <2>1, <2>6
<1> HIDE DEF T
<1>5. Len(x) \in T
  <2>1. \A i \in 1..Len(x) : i - 1 \in T => i \in T
    BY <1>4
  <2>2. \A i \in 0..Len(x) : i \in T
    BY <1>1, <1>3, <2>1, Counting
  <2> QED BY <1>1, <2>2
<1> QED BY <1>5 DEF T, NormalizeProfileChannels

LEMMA ReconcileFits ==
  ASSUME NEW I, NEW p, HasOwn(I, p), NEW x \in Seq(StripsOf(I)), NEW count \in Nat
  PROVE  /\ ReconcileProfileChannels(p, x, count) \in Seq(StripsOf(I))
         /\ Len(ReconcileProfileChannels(p, x, count)) = count
<1> DEFINE y == [i \in 1..count |-> IF i <= Len(x) THEN x[i]
                                    ELSE Blank(LegacyId(p, i, Ids(x)), FALSE)]
<1>1. Len(x) \in Nat /\ \A i \in 1..Len(x) : x[i] \in StripsOf(I)
  OBVIOUS
<1>2. ASSUME NEW i \in 1..count PROVE y[i] \in StripsOf(I)
  <2>1. CASE i <= Len(x)
    BY <1>1, <2>1
  <2>2. CASE ~(i <= Len(x))
    <3>1. i \in Nat /\ Len(x) <= i
      BY <1>1, <2>2
    <3>2. LegacyId(p, i, Ids(x)) \in I
      BY <3>1, IsLegacy
    <3> QED BY <2>2, <3>2, BlankIsStrip
  <2> QED BY <2>1, <2>2
<1>3. y \in Seq(StripsOf(I)) /\ Len(y) = count
  <2>1. y \in [1..count -> StripsOf(I)]
    BY <1>2
  <2> HIDE DEF y
  <2> QED BY <2>1
<1> HIDE DEF y
<1>4. /\ NormalizeProfileChannels(p, y) \in Seq(StripsOf(I))
      /\ Len(NormalizeProfileChannels(p, y)) = count
  BY <1>3, NormalizeFits
<1> QED BY <1>4 DEF ReconcileProfileChannels, y

LEMMA ByPositionFits ==
  ASSUME NEW I, NEW x \in Seq(StripsOf(I)), NEW hw \in Nat
  PROVE  ByPosition(x, hw) \in Seq(StripsOf(I)) /\ Len(ByPosition(x, hw)) = Len(x)
<1>1. Len(x) \in Nat /\ DOMAIN x = 1..Len(x) /\ \A i \in 1..Len(x) : x[i] \in StripsOf(I)
  OBVIOUS
<1>2. \A i \in 1..Len(x) : [x[i] EXCEPT !.midi = i > hw] \in StripsOf(I)
  <2>1. \A s \in StripsOf(I), m \in BOOLEAN : [s EXCEPT !.midi = m] \in StripsOf(I)
    BY DEF StripsOf
  <2>2. \A i \in 1..Len(x) : (i > hw) \in BOOLEAN
    OBVIOUS
  <2> QED BY <1>1, <2>1, <2>2, Zenon
<1>3. ByPosition(x, hw) \in [1..Len(x) -> StripsOf(I)]
  BY <1>1, <1>2 DEF ByPosition
<1> QED BY <1>1, <1>3

LEMMA KeepFits ==
  ASSUME NEW S, NEW x \in Seq(S), NEW gone
  PROVE  Keep(x, gone) \in Seq(S)
<1> DEFINE kept == {i \in DOMAIN x : i \notin gone}
<1>1. Len(x) \in Nat /\ DOMAIN x = 1..Len(x) /\ \A i \in 1..Len(x) : x[i] \in S
  OBVIOUS
<1>2. kept \in SUBSET (1..Len(x))
  BY <1>1
<1>3. Cardinality(kept) \in Nat
  <2>1. IsFiniteSet(1..Len(x))
    BY <1>1, FS_Interval
  <2> QED BY <1>2, <2>1, FS_Subset, FS_CardinalityType
<1> HIDE DEF kept
<1>4. \A n \in 1..Cardinality(kept) : Nth(kept, n) \in kept
  BY <1>1, <1>2, NthIsThere
<1>5. \A n \in 1..Cardinality(kept) : x[Nth(kept, n)] \in S
  BY <1>1, <1>2, <1>4
<1>6. [n \in 1..Cardinality(kept) |-> x[Nth(kept, n)]] \in [1..Cardinality(kept) -> S]
  BY <1>5
<1>7. [n \in 1..Cardinality(kept) |-> x[Nth(kept, n)]] \in Seq(S)
  BY <1>3, <1>6
<1> QED BY <1>7 DEF Keep, kept

LEMMA RebuildFits ==
  ASSUME NEW I, NEW x \in Seq(StripsOf(I)), NEW hw \in Nat, NEW mode \in Modes
  PROVE  RebuildPartition(mode, hw, x) \in Seq(StripsOf(I))
<1> DEFINE usb  == Keep(x, Midi(x))
           midi == Keep(x, DOMAIN x \ Midi(x))
           n    == IF Len(usb) < hw THEN Len(usb) ELSE hw
           kept == SubSeq(usb, 1, n)
<1>1. usb \in Seq(StripsOf(I)) /\ midi \in Seq(StripsOf(I))
  BY KeepFits
<1>2. Len(usb) \in Nat /\ n \in Nat /\ n <= Len(usb)
  <2>1. Len(usb) \in Nat
    BY <1>1, LenProperties
  <2> HIDE DEF usb
  <2> QED BY <2>1
<1> HIDE DEF usb, midi, n
<1>3. kept \in Seq(StripsOf(I))
  <2>1. \A i \in 1..n : usb[i] \in StripsOf(I)
    BY <1>1, <1>2
  <2> QED BY <1>2, <2>1, SubSeqProperties
<1>4. kept \o midi \in Seq(StripsOf(I))
  BY <1>1, <1>3, ConcatProperties
<1> HIDE DEF kept
<1>5. /\ ByPosition(x, 0) \in Seq(StripsOf(I)) /\ ByPosition(x, hw) \in Seq(StripsOf(I))
      /\ ByPosition(kept \o midi, hw) \in Seq(StripsOf(I))
  BY <1>4, ByPositionFits
<1>6. RebuildPartition(mode, hw, x)
        \in {ByPosition(x, 0), ByPosition(x, hw), ByPosition(kept \o midi, hw)}
  BY DEF RebuildPartition, Modes, kept, midi, usb, n
<1> QED BY <1>5, <1>6

LEMMA CountIsNumber ==
  ASSUME NEW I, NEW x \in Seq(StripsOf(I)), NEW hw \in Nat, NEW mode \in Modes
  PROVE  AppliedMidiCount(mode, hw, x) \in Nat
<1>1. Len(RebuildPartition(mode, hw, x)) \in Nat
  BY RebuildFits, LenProperties
<1>2. Cardinality(Midi(x)) \in Nat
  <2>1. DOMAIN x = 1..Len(x) /\ Len(x) \in Nat
    OBVIOUS
  <2>2. IsFiniteSet(1..Len(x)) /\ Midi(x) \in SUBSET (1..Len(x))
    BY <2>1, FS_Interval DEF Midi
  <2> QED BY <2>2, FS_Subset, FS_CardinalityType
<1> QED BY <1>1, <1>2 DEF AppliedMidiCount, MidiCountForMode

LEMMA RoutineSaveFits ==
  ASSUME NEW I, NEW p, HasOwn(I, p), NEW stored \in Seq(StripsOf(I)), NEW x \in Seq(StripsOf(I))
  PROVE  RoutineSave(p, stored, x) \in Seq(StripsOf(I))
<1>1. Len(stored) \in Nat /\ Len(x) \in Nat
  OBVIOUS
<1>2. CASE Len(x) < Len(stored)
  BY <1>2 DEF RoutineSave
<1>3. CASE ~(Len(x) < Len(stored))
  <2>1. \A i \in 1..Len(stored) : x[i] \in StripsOf(I)
    BY <1>1, <1>3
  <2>2. SubSeq(x, 1, Len(stored)) \in Seq(StripsOf(I))
    BY <1>1, <2>1, SubSeqProperties
  <2> QED BY <1>1, <1>3, <2>2, ReconcileFits DEF RoutineSave
<1> QED BY <1>2, <1>3

LEMMA ResizeSaveFits ==
  ASSUME NEW I, NEW p, HasOwn(I, p), NEW stored \in Seq(StripsOf(I)), NEW x \in Seq(StripsOf(I)),
         NEW target \in Nat
  PROVE  /\ ResizeSave(p, stored, x, target) \in Seq(StripsOf(I))
         /\ \E y \in Seq(StripsOf(I)) : ResizeSave(p, stored, x, target) = NormalizeProfileChannels(p, y)
<1> DEFINE now    == NormalizeProfileChannels(p, x)
           prefix == {i \in 1..target : i <= Len(x) /\ i <= Len(stored)}
           padded == ReconcileProfileChannels(p, stored, target)
           merged == [i \in 1..target |-> IF i \in prefix THEN now[i] ELSE padded[i]]
           joined == ReconcileProfileChannels(p, merged, target)
           result == [i \in 1..target |->
                        IF i <= Len(stored) \/ i > Len(x) THEN joined[i]
                        ELSE IF Len(x) = target THEN now[i]
                        ELSE [joined[i] EXCEPT !.midi = now[i].midi, !.id = now[i].id]]
<1>0. now \in Seq(StripsOf(I)) /\ Len(now) = Len(x)
  BY NormalizeFits
<1> HIDE DEF now
<1>1. /\ Len(x) \in Nat /\ \A i \in 1..Len(x) : now[i] \in StripsOf(I)
      /\ Len(stored) \in Nat
  BY <1>0
<1>2. padded \in Seq(StripsOf(I)) /\ Len(padded) = target
  BY ReconcileFits
<1> HIDE DEF padded
<1>3. \A i \in 1..target : padded[i] \in StripsOf(I)
  BY <1>2
<1>4. merged \in [1..target -> StripsOf(I)]
  BY <1>1, <1>3
<1> HIDE DEF merged
<1>5. merged \in Seq(StripsOf(I))
  BY <1>4
<1>6. joined \in Seq(StripsOf(I)) /\ Len(joined) = target
  BY <1>5, ReconcileFits
<1> HIDE DEF joined
<1>7. \A i \in 1..target : joined[i] \in StripsOf(I)
  BY <1>6
<1>8. \A s, t \in StripsOf(I) : [s EXCEPT !.midi = t.midi, !.id = t.id] \in StripsOf(I)
  BY DEF StripsOf
<1>9. ASSUME NEW i \in 1..target PROVE result[i] \in StripsOf(I)
  <2>1. joined[i] \in StripsOf(I)
    BY <1>7
  <2>2. CASE i <= Len(stored) \/ i > Len(x)
    BY <2>1, <2>2
  <2>3. CASE ~(i <= Len(stored) \/ i > Len(x))
    <3>1. now[i] \in StripsOf(I)
      BY <1>1, <2>3
    <3>2. [joined[i] EXCEPT !.midi = now[i].midi, !.id = now[i].id] \in StripsOf(I)
      BY <1>8, <2>1, <3>1
    <3> QED BY <2>3, <3>1, <3>2
  <2> QED BY <2>2, <2>3
<1>10. result \in [1..target -> StripsOf(I)]
  BY <1>9
<1> HIDE DEF result
<1>11. result \in Seq(StripsOf(I))
  BY <1>10
<1>12. ResizeSave(p, stored, x, target) = NormalizeProfileChannels(p, result)
  BY DEF ResizeSave, Loaded, result, joined, merged, padded, prefix, now
<1> QED BY <1>11, <1>12, NormalizeFits

LEMMA ResizeChannelsFits ==
  ASSUME NEW I, NEW stored \in Seq(StripsOf(I)), NEW x \in Seq(StripsOf(I)),
         NEW new \in Seq(StripsOf(I)), NEW target \in Nat, target <= Len(stored) + Len(new)
  PROVE  ResizeChannels(stored, x, new, target) \in Seq(StripsOf(I))
<1> DEFINE y == [i \in DOMAIN stored |-> IF i <= Len(x) THEN x[i] ELSE stored[i]]
<1>1. /\ Len(x) \in Nat /\ \A i \in 1..Len(x) : x[i] \in StripsOf(I)
      /\ Len(stored) \in Nat /\ DOMAIN stored = 1..Len(stored)
      /\ \A i \in 1..Len(stored) : stored[i] \in StripsOf(I)
      /\ Len(new) \in Nat
  OBVIOUS
<1>2. y \in [1..Len(stored) -> StripsOf(I)]
  BY <1>1
<1> HIDE DEF y
<1>3. y \in Seq(StripsOf(I)) /\ Len(y) = Len(stored)
  BY <1>1, <1>2
<1>4. y \o new \in Seq(StripsOf(I)) /\ Len(y \o new) = Len(stored) + Len(new)
  <2>1. y \in Seq(StripsOf(I))
    BY <1>3
  <2>2. y \o new \in Seq(StripsOf(I)) /\ Len(y \o new) = Len(y) + Len(new)
    BY <2>1, ConcatProperties
  <2> QED BY <1>3, <2>2
<1> DEFINE z == y \o new
<1> HIDE DEF z
<1>5. z \in Seq(StripsOf(I)) /\ Len(z) = Len(stored) + Len(new)
  BY <1>4 DEF z
<1>6. \A i \in 1..target : z[i] \in StripsOf(I)
  BY <1>1, <1>5
<1>7. SubSeq(z, 1, target) \in Seq(StripsOf(I))
  BY <1>6, SubSeqProperties
<1> QED BY <1>7 DEF ResizeChannels, y, z
-----------------------------------------------------------------------------
(***************************************************************************)
(* Profiles that keep their strips to themselves.                          *)
(***************************************************************************)
\* The ids a strip of profile p may have, beside these files.
OwnIds(p, files) ==
  {id \in Nat \X Nat \X Nat :
     id[1] \in {0, p} /\ \A q \in DOMAIN files \ {p} : id \notin Ids(files[q])}
OwnLists(p, files) == Seq(StripsOf(OwnIds(p, files)))

Apart(files) == \A p \in DOMAIN files : p \in Nat \ {0} /\ files[p] \in OwnLists(p, files)

LEMMA IdsOfList == ASSUME NEW I, NEW x \in Seq(StripsOf(I)) PROVE Ids(x) \subseteq I
<1>1. \A i \in DOMAIN x : x[i] \in StripsOf(I)
  OBVIOUS
<1> QED BY <1>1 DEF Ids, StripsOf

LEMMA ListOfItsIds ==
  ASSUME NEW I, NEW x \in Seq(StripsOf(I))
  PROVE  x \in Seq(StripsOf(Ids(x)))
<1>1. Len(x) \in Nat /\ DOMAIN x = 1..Len(x) /\ \A i \in 1..Len(x) : x[i] \in StripsOf(I)
  OBVIOUS
<1>2. \A i \in 1..Len(x) : x[i].id \in Ids(x)
  BY <1>1 DEF Ids
<1>3. \A i \in 1..Len(x) : x[i] \in StripsOf(Ids(x))
  BY <1>1, <1>2 DEF StripsOf
<1>4. x = [i \in 1..Len(x) |-> x[i]]
  BY <1>1
<1>5. x \in [1..Len(x) -> StripsOf(Ids(x))]
  BY <1>3, <1>4
<1> QED BY <1>1, <1>5

LEMMA MoreIds == ASSUME NEW I, NEW J, I \subseteq J PROVE Seq(StripsOf(I)) \subseteq Seq(StripsOf(J))
<1>1. StripsOf(I) \subseteq StripsOf(J)
  BY DEF StripsOf
<1> HIDE DEF StripsOf
<1> QED BY <1>1, SeqMonotonic

LEMMA OwnLegacy ==
  ASSUME NEW files, Apart(files), NEW p \in Nat \ {0}
  PROVE  HasOwn(OwnIds(p, files), p)
<1> SUFFICES ASSUME NEW i \in Nat, NEW slot \in Nat PROVE <<p, i, slot>> \in OwnIds(p, files)
  BY DEF HasOwn
<1>1. <<p, i, slot>> \in Nat \X Nat \X Nat /\ <<p, i, slot>>[1] = p
  OBVIOUS
<1>2. ASSUME NEW q \in DOMAIN files \ {p} PROVE <<p, i, slot>> \notin Ids(files[q])
  <2>1. files[q] \in Seq(StripsOf(OwnIds(q, files)))
    BY DEF Apart, OwnLists
  <2>2. Ids(files[q]) \subseteq OwnIds(q, files)
    BY <2>1, IdsOfList
  <2>3. \A id \in Ids(files[q]) : id[1] \in {0, q}
    BY <2>2 DEF OwnIds
  <2> QED BY <1>1, <2>3
<1> QED BY <1>1, <1>2 DEF OwnIds

LEMMA NoIdShared ==
  ASSUME NEW files, NEW p, NEW x \in OwnLists(p, files), NEW q \in DOMAIN files \ {p}
  PROVE  Ids(x) \cap Ids(files[q]) = {}
<1>1. Ids(x) \subseteq OwnIds(p, files)
  BY IdsOfList DEF OwnLists
<1> QED BY <1>1 DEF OwnIds

\* A file is written, or there is one more.
Puts(new, files, p, x) ==
  /\ DOMAIN new = DOMAIN files \cup {p} /\ new[p] = x
  /\ \A q \in DOMAIN files \ {p} : new[q] = files[q]

LEMMA FileWritten ==
  ASSUME NEW files, Apart(files), NEW p \in Nat \ {0}, NEW x \in OwnLists(p, files),
         NEW new, Puts(new, files, p, x)
  PROVE  /\ Apart(new)
         /\ OwnLists(p, new) = OwnLists(p, files)
         /\ \A a, y : /\ a # p /\ y \in OwnLists(a, files) /\ Ids(y) \cap Ids(x) = {}
                      => y \in OwnLists(a, new)
<1>1. OwnIds(p, new) = OwnIds(p, files)
  <2>1. DOMAIN new \ {p} = DOMAIN files \ {p}
    BY DEF Puts
  <2>2. \A q \in DOMAIN new \ {p} : new[q] = files[q]
    BY <2>1 DEF Puts
  <2> QED BY <2>1, <2>2 DEF OwnIds
<1>2. ASSUME NEW a, NEW y, a # p, y \in OwnLists(a, files), Ids(y) \cap Ids(x) = {}
      PROVE  y \in OwnLists(a, new)
  <2>1. y \in Seq(StripsOf(Ids(y))) /\ Ids(y) \subseteq OwnIds(a, files)
    BY <1>2, ListOfItsIds, IdsOfList DEF OwnLists
  <2>2. Ids(y) \subseteq OwnIds(a, new)
    BY <1>2, <2>1 DEF OwnIds, Puts
  <2> QED BY <2>1, <2>2, MoreIds DEF OwnLists
<1>3. ASSUME NEW q \in DOMAIN new PROVE q \in Nat \ {0} /\ new[q] \in OwnLists(q, new)
  <2>1. CASE q = p
    BY <1>1, <2>1 DEF OwnLists, Puts
  <2>2. CASE q # p
    <3>1. q \in DOMAIN files /\ new[q] = files[q]
      BY <2>2 DEF Puts
    <3>2. q \in Nat \ {0} /\ files[q] \in OwnLists(q, files)
      BY <3>1 DEF Apart
    <3>3. Ids(files[q]) \cap Ids(x) = {}
      BY <2>2, <3>1, NoIdShared
    <3> QED BY <1>2, <2>2, <3>1, <3>2, <3>3
  <2> QED BY <2>1, <2>2
<1>4. Apart(new)
  BY <1>3 DEF Apart
<1>5. OwnLists(p, new) = OwnLists(p, files)
  BY <1>1 DEF OwnLists
<1> QED BY <1>2, <1>4, <1>5

LEMMA FileDropped ==
  ASSUME NEW files, Apart(files), NEW p, NEW new, new = [q \in DOMAIN files \ {p} |-> files[q]]
  PROVE  /\ Apart(new)
         /\ \A a : OwnLists(a, files) \subseteq OwnLists(a, new)
<1>1. ASSUME NEW a PROVE OwnLists(a, files) \subseteq OwnLists(a, new)
  <2>1. OwnIds(a, files) \subseteq OwnIds(a, new)
    BY DEF OwnIds
  <2> QED BY <2>1, MoreIds DEF OwnLists
<1>2. \A q \in DOMAIN new : q \in DOMAIN files /\ new[q] = files[q]
  OBVIOUS
<1>3. Apart(new)
  BY <1>1, <1>2 DEF Apart
<1> QED BY <1>1, <1>3

\* Ids that no strip has yet.
FreshIds == {<<0, k, 0>> : k \in UnusedIds}

LEMMA FreshIsOwn ==
  ASSUME NEW p
  PROVE  FreshIds \subseteq OwnIds(p, profiles) /\ FreshIds \cap Ids(channels) = {}
<1> SUFFICES ASSUME NEW k \in UnusedIds
             PROVE  <<0, k, 0>> \in OwnIds(p, profiles) /\ <<0, k, 0>> \notin Ids(channels)
  BY DEF FreshIds
<1>1. /\ k \in 1..MaxIds /\ <<0, k, 0>> \notin Ids(channels)
      /\ \A q \in DOMAIN profiles : <<0, k, 0>> \notin Ids(profiles[q])
  BY DEF UnusedIds
<1>2. <<0, k, 0>> \in Nat \X Nat \X Nat /\ <<0, k, 0>>[1] = 0
  BY <1>1, ConstantsAssumption
<1> QED BY <1>1, <1>2 DEF OwnIds

LEMMA DrawnIsFresh == ASSUME NEW k \in Nat, CanDraw(k), NEW n \in 1..k PROVE NewId(n) \in FreshIds
<1>1. MaxIds \in Nat /\ UnusedIds \in SUBSET (1..MaxIds)
  BY ConstantsAssumption DEF UnusedIds
<1>2. Cardinality(UnusedIds) \in Nat
  <2>1. IsFiniteSet(1..MaxIds)
    BY <1>1, FS_Interval
  <2> QED BY <1>1, <2>1, FS_Subset, FS_CardinalityType
<1>3. n \in 1..Cardinality(UnusedIds)
  BY <1>2 DEF CanDraw
<1>4. Nth(UnusedIds, n) \in UnusedIds
  BY <1>1, <1>3, NthIsThere
<1> QED BY <1>4 DEF NewId, FreshIds

LEMMA NewStripsAreFresh ==
  ASSUME NEW drawn \in Nat, NEW n \in Nat, CanDraw(drawn + n), NEW m \in BOOLEAN
  PROVE  NewStrips(drawn, n, m) \in Seq(StripsOf(FreshIds)) /\ Len(NewStrips(drawn, n, m)) = n
<1>1. \A i \in 1..n : Blank(NewId(drawn + i), m) \in StripsOf(FreshIds)
  <2> TAKE i \in 1..n
  <2>1. drawn + n \in Nat /\ drawn + i \in 1..(drawn + n)
    OBVIOUS
  <2>2. NewId(drawn + i) \in FreshIds
    BY <2>1, DrawnIsFresh
  <2> QED BY <2>2, BlankIsStrip
<1>2. NewStrips(drawn, n, m) \in [1..n -> StripsOf(FreshIds)]
  BY <1>1 DEF NewStrips
<1> QED BY <1>2

LEMMA RenewedAreFresh ==
  ASSUME NEW I, NEW x \in Seq(StripsOf(I)), CanDraw(Len(x))
  PROVE  Renewed(x) \in Seq(StripsOf(FreshIds))
<1>1. Len(x) \in Nat /\ DOMAIN x = 1..Len(x) /\ \A i \in 1..Len(x) : x[i] \in StripsOf(I)
  OBVIOUS
<1>2. \A i \in 1..Len(x) : NewId(i) \in FreshIds
  BY <1>1, DrawnIsFresh
<1>3. \A i \in 1..Len(x) : [x[i] EXCEPT !.id = NewId(i)] \in StripsOf(FreshIds)
  BY <1>1, <1>2 DEF StripsOf
<1>4. Renewed(x) \in [1..Len(x) -> StripsOf(FreshIds)]
  BY <1>1, <1>3 DEF Renewed
<1> QED BY <1>1, <1>4

LEMMA NewProfilesAreFresh ==
  ASSUME Apart(profiles), NEW counts \in SUBSET Nat, NEW sources \in SUBSET DOMAIN profiles
  PROVE  NewProfiles(counts, sources) \subseteq Seq(StripsOf(FreshIds))
<1>1. ASSUME NEW n \in counts, CanDraw(n) PROVE NewStrips(0, n, FALSE) \in Seq(StripsOf(FreshIds))
  <2>1. n \in Nat /\ 0 + n = n
    OBVIOUS
  <2> QED BY <1>1, <2>1, NewStripsAreFresh
<1>2. ASSUME NEW p \in sources, CanDraw(Len(profiles[p]))
      PROVE  Renewed(profiles[p]) \in Seq(StripsOf(FreshIds))
  <2>1. profiles[p] \in Seq(StripsOf(OwnIds(p, profiles)))
    BY DEF Apart, OwnLists
  <2> QED BY <1>2, <2>1, RenewedAreFresh
<1> QED BY <1>1, <1>2 DEF NewProfiles

LEMMA EnsureFits ==
  ASSUME NEW I, FreshIds \subseteq I, NEW drawn \in Nat, NEW x \in Seq(StripsOf(I)),
         NEW n \in Nat, CanDraw(drawn + Missing(n, x)), NEW mode, NEW hw \in Nat
  PROVE  Ensure(drawn, x, n, mode, hw) \in Seq(StripsOf(I))
<1>1. Missing(n, x) \in Nat
  BY DEF Missing
<1>2. NewStrips(drawn, Missing(n, x), FALSE) \in Seq(StripsOf(I))
  BY <1>1, NewStripsAreFresh, MoreIds
<1>3. x \o NewStrips(drawn, Missing(n, x), FALSE) \in Seq(StripsOf(I))
  BY <1>2, ConcatProperties
<1>4. (IF mode = "midi_only" THEN 0 ELSE hw) \in Nat
  OBVIOUS
<1> QED BY <1>3, <1>4, ByPositionFits DEF Ensure
-----------------------------------------------------------------------------
(***************************************************************************)
(* What the writes still to be done carry, and the invariant.              *)
(***************************************************************************)
WriteFits(w, p, files) ==
  IF w.to = Config THEN w.data.mode \in Modes /\ w.data.hw \in Nat
  ELSE w.why = "delete" \/ (w.to = p /\ w.data \in OwnLists(p, files))
WritesFit(s, p, files) == IsList(s) /\ \A i \in DOMAIN s : WriteFits(s[i], p, files)

Readings ==
  /\ inputMode \in Modes /\ hwCount \in Nat /\ midiCount \in Nat
  /\ saved.mode \in Modes /\ saved.hw \in Nat

Lists ==
  /\ Readings /\ Apart(profiles)
  /\ running => channels \in OwnLists(active, profiles)
  /\ WritesFit(todo, active, profiles)

ApartInv == StoreInv /\ Lists

LEMMA NoWritesFit == ASSUME NEW p, NEW files PROVE WritesFit(<<>>, p, files)
BY DEF WritesFit, IsList

LEMMA OneWriteFits == ASSUME NEW w, NEW p, NEW files, WriteFits(w, p, files)
                      PROVE  WritesFit(<<w>>, p, files)
<1>1. <<w>> \in Seq({w}) /\ DOMAIN <<w>> = {1} /\ <<w>>[1] = w
  OBVIOUS
<1> QED BY <1>1, ListOf DEF WritesFit

LEMMA MoreWritesFit ==
  ASSUME NEW p, NEW files, NEW s, NEW t, WritesFit(s, p, files), WritesFit(t, p, files)
  PROVE  WritesFit(s \o t, p, files)
<1> DEFINE S == {s[i] : i \in DOMAIN s} \cup {t[i] : i \in DOMAIN t}
<1>1. s \in Seq(S) /\ t \in Seq(S)
  BY DEF WritesFit, IsList
<1>2. s \o t \in Seq(S) /\ Len(s \o t) = Len(s) + Len(t)
  BY <1>1
<1>3. \A i \in DOMAIN (s \o t) : \/ i \in DOMAIN s /\ (s \o t)[i] = s[i]
                                 \/ i - Len(s) \in DOMAIN t /\ (s \o t)[i] = t[i - Len(s)]
  BY <1>1, <1>2
<1> QED BY <1>2, <1>3, ListOf DEF WritesFit

LEMMA ThreeWritesFit ==
  ASSUME NEW u, NEW v, NEW w, NEW p, NEW files,
         WriteFits(u, p, files), WriteFits(v, p, files), WriteFits(w, p, files)
  PROVE  WritesFit(<<u, v>>, p, files) /\ WritesFit(<<u, v, w>>, p, files)
<1>1. /\ <<u, v>> \in Seq({u, v}) /\ DOMAIN <<u, v>> = 1..2
      /\ <<u, v, w>> \in Seq({u, v, w}) /\ DOMAIN <<u, v, w>> = 1..3
  OBVIOUS
<1>2. IsList(<<u, v>>) /\ IsList(<<u, v, w>>)
  BY <1>1, ListOf
<1>3. (\A i \in 1..2 : <<u, v>>[i] \in {u, v}) /\ \A i \in 1..3 : <<u, v, w>>[i] \in {u, v, w}
  OBVIOUS
<1>4. \A x \in {u, v, w} : WriteFits(x, p, files)
  OBVIOUS
<1> QED BY <1>1, <1>2, <1>3, <1>4, Zenon DEF WritesFit

LEMMA ConfigFits ==
  ASSUME NEW mode \in Modes, NEW hw \in Nat, NEW midi, NEW a, NEW p, NEW files
  PROVE  WriteFits(ConfigWrite(ConfigData(mode, hw, midi, a)), p, files)
BY DEF WriteFits, ConfigWrite, ConfigData

LEMMA ProfileFits ==
  ASSUME NEW p \in Nat \ {0}, NEW files, NEW x \in OwnLists(p, files), NEW why, NEW removed
  PROVE  /\ WriteFits(ProfileWrite(p, x, why), p, files)
         /\ WriteFits(Resize(p, x, removed), p, files)
BY DEF WriteFits, ProfileWrite, Resize, Config

LEMMA RoutineFits ==
  ASSUME NEW p \in Nat \ {0}, NEW files, Apart(files), NEW stored \in OwnLists(p, files),
         NEW x \in OwnLists(p, files), NEW back
  PROVE  WritesFit(RoutineWrites(p, stored, x, back), p, files)
<1> DEFINE y == RoutineSave(p, stored, x)
           w == [ProfileWrite(p, y, "routine") EXCEPT !.back = back]
<1>1. y \in OwnLists(p, files)
  BY OwnLegacy, RoutineSaveFits DEF OwnLists
<1> HIDE DEF y
<1>2. WriteFits(w, p, files)
  BY <1>1 DEF WriteFits, ProfileWrite, Config
<1>3. RoutineWrites(p, stored, x, back) \in {<<>>, <<w>>}
  BY DEF RoutineWrites, y
<1> HIDE DEF w
<1> QED BY <1>2, <1>3, NoWritesFit, OneWriteFits

\* What is left when the first write is done or given up.
LEMMA RestFits == ASSUME NEW s, s # <<>>, NEW p, NEW files, WritesFit(s, p, files)
                  PROVE  WriteFits(Head(s), p, files) /\ WritesFit(Tail(s), p, files)
<1> DEFINE S == {s[i] : i \in DOMAIN s}
<1>1. s \in Seq(S)
  BY DEF WritesFit, IsList
<1>2. Tail(s) \in Seq(S) /\ Len(Tail(s)) = Len(s) - 1 /\ 1 \in DOMAIN s /\ Head(s) = s[1]
  BY <1>1
<1>3. \A i \in DOMAIN Tail(s) : i + 1 \in DOMAIN s /\ Tail(s)[i] = s[i + 1]
  BY <1>1, <1>2
<1>4. IsList(Tail(s))
  BY <1>2, ListOf
<1> QED BY <1>2, <1>3, <1>4 DEF WritesFit

\* Applying a profile shows its strips.
LEMMA Applied ==
  ASSUME Readings, NEW I, NEW x \in Seq(StripsOf(I)), ApplyProfile(x)
  PROVE  channels' \in Seq(StripsOf(I)) /\ midiCount' \in Nat
BY RebuildFits, CountIsNumber DEF Readings, ApplyProfile

LEMMA SwitchFits ==
  ASSUME Readings, NEW p \in Nat \ {0}, NEW files, Apart(files), NEW x \in OwnLists(p, files),
         NEW then, WritesFit(then, p, files), NEW back, SwitchTo(p, x, then, back)
  PROVE  /\ active' = p /\ midiCount' \in Nat
         /\ channels' \in OwnLists(p, files)
         /\ WritesFit(todo', p, files)
<1> DEFINE first  == <<ConfigWrite(ConfigData(inputMode, hwCount, midiCount', p))>>
           Second(shown) == IF shown # x THEN RoutineWrites(p, x, shown, back) ELSE <<>>
<1>1. /\ active' = p /\ ApplyProfile(x) /\ todo' = first \o Second(channels') \o then
  BY DEF SwitchTo
<1>2. channels' \in OwnLists(p, files) /\ midiCount' \in Nat
  BY <1>1, Applied DEF OwnLists
<1>3. WritesFit(first, p, files)
  BY ConfigFits, OneWriteFits DEF Readings
<1>4. \A shown \in OwnLists(p, files) : WritesFit(Second(shown), p, files)
  BY RoutineFits, NoWritesFit
<1>5. PICK second : second = Second(channels')
  OBVIOUS
<1>6. WritesFit(second, p, files)
  <2> HIDE DEF Second
  <2> QED BY <1>2, <1>4, <1>5
<1> HIDE DEF first, Second
<1>7. WritesFit(first \o second \o then, p, files)
  BY <1>3, <1>6, MoreWritesFit
<1> QED BY <1>1, <1>2, <1>5, <1>7
-----------------------------------------------------------------------------
(***************************************************************************)
(* The steps: each handler leaves the lists to their profiles.             *)
(***************************************************************************)
\* What holds when a handler begins.
LEMMA Begins ==
  ASSUME ApartInv, Ready
  PROVE  /\ Readings /\ Apart(profiles) /\ running /\ todo = <<>>
         /\ active \in DOMAIN profiles /\ active \in Nat \ {0}
         /\ channels \in OwnLists(active, profiles)
         /\ profiles[active] \in OwnLists(active, profiles)
<1>1. active \in DOMAIN profiles
  BY Idle DEF ApartInv
<1> QED BY <1>1 DEF ApartInv, Lists, Ready, Apart

LEMMA NumbersOfStrips ==
  ASSUME Readings, NEW mode \in Modes, NEW hw \in Nat, NEW midi \in Nat
  PROVE  NumChannels(mode, hw, midi) \in Nat
BY DEF NumChannels, Modes

LEMMA SwitchLists == ASSUME ApartInv, NEW p \in DOMAIN profiles, SwitchProfile(p) PROVE Lists'
<1>1. Ready /\ UNCHANGED <<inputMode, hwCount, saved, profiles>>
  BY DEF SwitchProfile
<1>2. Readings /\ Apart(profiles) /\ p \in Nat \ {0} /\ profiles[p] \in OwnLists(p, profiles)
  BY <1>1, Begins DEF Apart
<1>3. PICK back \in {None, active} : SwitchTo(p, profiles[p], <<>>, back)
  BY DEF SwitchProfile
<1>4. /\ active' = p /\ midiCount' \in Nat /\ channels' \in OwnLists(p, profiles)
      /\ WritesFit(todo', p, profiles)
  BY <1>2, <1>3, NoWritesFit, SwitchFits
<1> QED BY <1>1, <1>2, <1>4 DEF Lists, Readings

\* A profile with the given strips is added.
LEMMA ProfileAdded ==
  ASSUME ApartInv, Ready, Room, NEW x \in Seq(StripsOf(FreshIds))
  PROVE  LET p == NextProfileId
             files == With(p, x) IN
         /\ p \in Nat \ {0} /\ p \notin DOMAIN profiles
         /\ Apart(files) /\ x \in OwnLists(p, files)
         /\ OwnLists(p, files) = OwnLists(p, profiles)
         /\ channels \in OwnLists(active, files)
<1> DEFINE p == NextProfileId
           files == With(p, x)
<1>1. p \in Nat \ {0} /\ p \notin DOMAIN profiles
  BY FreeProfileId, ConstantsAssumption DEF ApartInv, StoreInv
<1> HIDE DEF p
<1>2. Apart(profiles) /\ active \in DOMAIN profiles /\ channels \in OwnLists(active, profiles)
  BY Begins
<1>3. x \in OwnLists(p, profiles)
  BY FreshIsOwn, MoreIds DEF OwnLists
<1>4. Ids(channels) \cap Ids(x) = {}
  BY FreshIsOwn, IdsOfList
<1>5. Puts(files, profiles, p, x)
  BY DEF With, Puts
<1> HIDE DEF files
<1>6. /\ Apart(files) /\ OwnLists(p, files) = OwnLists(p, profiles)
      /\ channels \in OwnLists(active, files)
  <2>1. active # p
    BY <1>1, <1>2
  <2>2. Apart(files) /\ OwnLists(p, files) = OwnLists(p, profiles)
    BY <1>1, <1>2, <1>3, <1>5, FileWritten, Zenon
  <2>3. channels \in OwnLists(active, files)
    <3>1. \A a, y : a # p => (y \in OwnLists(a, profiles)
                    => (Ids(y) \cap Ids(x) = {} => y \in OwnLists(a, files)))
      BY <1>1, <1>2, <1>3, <1>5, FileWritten, SMTT(30)
    <3> QED BY <1>2, <1>4, <2>1, <3>1, Zenon
  <2> QED BY <2>2, <2>3
<1> QED BY <1>1, <1>3, <1>6 DEF files, p

LEMMA CreateLists == ASSUME ApartInv, CreateProfile PROVE Lists'
<1> DEFINE p == NextProfileId
<1>1. Ready /\ Room /\ UNCHANGED <<inputMode, hwCount, saved>>
  BY DEF CreateProfile
<1>2. Readings /\ Apart(profiles) /\ active \in DOMAIN profiles
  BY <1>1, Begins
<1>3. PICK x \in NewProfiles({hwCount}, {active}) :
        profiles' = With(p, x) /\ SwitchTo(p, x, <<>>, None)
  BY DEF CreateProfile
<1>4. x \in Seq(StripsOf(FreshIds))
  BY <1>2, NewProfilesAreFresh DEF Readings
<1>5. p \in Nat \ {0} /\ Apart(profiles') /\ x \in OwnLists(p, profiles')
  BY <1>1, <1>3, <1>4, ProfileAdded
<1> HIDE DEF p
<1>6. /\ active' = p /\ midiCount' \in Nat /\ channels' \in OwnLists(p, profiles')
      /\ WritesFit(todo', p, profiles')
  BY <1>2, <1>3, <1>5, NoWritesFit, SwitchFits
<1> QED BY <1>1, <1>2, <1>5, <1>6 DEF Lists, Readings

LEMMA CreateRemotelyLists == ASSUME ApartInv, CreateProfileRemotely PROVE Lists'
<1>1. Ready /\ Room /\ UNCHANGED <<config, channels, saved, todo>>
  BY DEF CreateProfileRemotely
<1>2. Readings /\ Apart(profiles) /\ todo = <<>>
  BY <1>1, Begins
<1>3. PICK x \in NewProfiles(HwCounts, DOMAIN profiles) : profiles' = With(NextProfileId, x)
  BY DEF CreateProfileRemotely
<1>4. x \in Seq(StripsOf(FreshIds))
  BY <1>2, <1>3, NewProfilesAreFresh, ConstantsAssumption
<1>5. Apart(profiles') /\ channels \in OwnLists(active, profiles')
  BY <1>1, <1>3, <1>4, ProfileAdded
<1> QED BY <1>1, <1>2, <1>5, NoWritesFit DEF Lists, Readings, config

LEMMA DeleteLists == ASSUME ApartInv, DeleteProfile PROVE Lists'
<1> DEFINE next == First(DOMAIN profiles \ {active})
<1>1. /\ Ready /\ Deletable(active) /\ UNCHANGED <<inputMode, hwCount, saved>>
      /\ profiles' = Without(active) /\ SwitchTo(next, profiles[next], <<>>, None)
  BY DEF DeleteProfile
<1>2. Readings /\ Apart(profiles)
  BY <1>1, Begins
<1>3. next \in DOMAIN profiles \ {active}
  BY <1>1, OthersRemain DEF ApartInv, StoreInv
<1> HIDE DEF next
<1>4. Apart(profiles') /\ \A a : OwnLists(a, profiles) \subseteq OwnLists(a, profiles')
  BY <1>1, <1>2, FileDropped DEF Without
<1>5. next \in Nat \ {0} /\ profiles[next] \in OwnLists(next, profiles')
  BY <1>2, <1>3, <1>4 DEF Apart
<1>6. /\ active' = next /\ midiCount' \in Nat /\ channels' \in OwnLists(next, profiles')
      /\ WritesFit(todo', next, profiles')
  BY <1>1, <1>2, <1>4, <1>5, NoWritesFit, SwitchFits
<1> QED BY <1>1, <1>2, <1>4, <1>6 DEF Lists, Readings

LEMMA DeleteRemotelyLists ==
  ASSUME ApartInv, NEW p \in DOMAIN profiles, DeleteProfileRemotely(p) PROVE Lists'
<1> DEFINE next == First(DOMAIN profiles \ {p})
<1>1. Ready /\ Deletable(p) /\ UNCHANGED <<inputMode, hwCount, saved>>
  BY DEF DeleteProfileRemotely
<1>2. /\ Readings /\ Apart(profiles) /\ todo = <<>>
      /\ channels \in OwnLists(active, profiles)
  BY <1>1, Begins
<1>3. CASE p = active
  <2>1. next \in DOMAIN profiles
    BY <1>1, OthersRemain DEF ApartInv, StoreInv
  <2>2. SwitchTo(next, profiles[next], <<Unlink(p)>>, p) /\ UNCHANGED profiles
    BY <1>3 DEF DeleteProfileRemotely
  <2> HIDE DEF next
  <2>3. next \in Nat \ {0} /\ profiles[next] \in OwnLists(next, profiles)
    BY <1>2, <2>1 DEF Apart
  <2>4. p \in Nat \ {0}
    BY <1>2 DEF Apart
  <2>5. WritesFit(<<Unlink(p)>>, next, profiles)
    <3>1. WriteFits(Unlink(p), next, profiles)
      BY <2>4 DEF WriteFits, Unlink, ProfileWrite, Config
    <3> QED BY <3>1, OneWriteFits
  <2>6. /\ active' = next /\ midiCount' \in Nat /\ channels' \in OwnLists(next, profiles)
        /\ WritesFit(todo', next, profiles)
    BY <1>2, <2>2, <2>3, <2>5, SwitchFits
  <2> QED BY <1>1, <1>2, <2>2, <2>6 DEF Lists, Readings
<1>4. CASE p # active
  <2>1. profiles' = Without(p) /\ UNCHANGED <<midiCount, active, channels, todo>>
    BY <1>4 DEF DeleteProfileRemotely
  <2>2. Apart(profiles') /\ \A a : OwnLists(a, profiles) \subseteq OwnLists(a, profiles')
    BY <1>2, <2>1, FileDropped DEF Without
  <2>3. channels' \in OwnLists(active', profiles') /\ todo' = <<>>
    BY <1>2, <2>1, <2>2
  <2> QED BY <1>1, <1>2, <2>1, <2>2, <2>3, NoWritesFit DEF Lists, Readings
<1> QED BY <1>3, <1>4

LEMMA AssignLists == ASSUME ApartInv, NEW i \in Nat, AssignTarget(i) PROVE Lists'
<1> DEFINE n == IF i > Len(channels) THEN i ELSE Len(channels)
           I == OwnIds(active, profiles)
           New(j) == Blank(LegacyId(active, j, Ids(channels)),
                           inputMode = "midi_only" \/ (inputMode = "hybrid" /\ j > hwCount))
           padded == [j \in 1..n |-> IF j <= Len(channels) THEN channels[j] ELSE New(j)]
<1>1. /\ Ready /\ UNCHANGED <<config, saved, profiles>>
      /\ channels' = [padded EXCEPT ![i].target = 1]
      /\ todo' = RoutineWrites(active, profiles[active], channels', None)
  BY DEF AssignTarget
<1>2. /\ Readings /\ Apart(profiles) /\ active \in Nat \ {0}
      /\ channels \in Seq(StripsOf(I)) /\ profiles[active] \in OwnLists(active, profiles)
  BY <1>1, Begins DEF OwnLists
<1>3. HasOwn(I, active)
  BY <1>2, OwnLegacy
<1> HIDE DEF I
<1>4. /\ Len(channels) \in Nat /\ n \in Nat
      /\ \A j \in 1..Len(channels) : channels[j] \in StripsOf(I)
  BY <1>2
<1>5. ASSUME NEW j \in 1..n PROVE padded[j] \in StripsOf(I)
  <2>1. CASE j <= Len(channels)
    BY <1>4, <2>1
  <2>2. CASE ~(j <= Len(channels))
    <3>1. j \in Nat /\ Len(channels) <= j
      BY <1>4, <2>2
    <3>2. LegacyId(active, j, Ids(channels)) \in I
      BY <1>2, <1>3, <3>1, IsLegacy
    <3>3. (inputMode = "midi_only" \/ (inputMode = "hybrid" /\ j > hwCount)) \in BOOLEAN
      OBVIOUS
    <3>4. New(j) \in StripsOf(I)
      BY <3>2, <3>3, BlankIsStrip
    <3> HIDE DEF New
    <3> QED BY <2>2, <3>4
  <2> QED BY <2>1, <2>2
<1>6. padded \in [1..n -> StripsOf(I)]
  <2> HIDE DEF New
  <2> QED BY <1>5
<1> HIDE DEF padded, n
<1>7. \A s \in StripsOf(I) : [s EXCEPT !.target = 1] \in StripsOf(I)
  BY DEF StripsOf
<1>8. channels' \in [1..n -> StripsOf(I)]
  BY <1>1, <1>6, <1>7
<1>9. channels' \in OwnLists(active, profiles)
  BY <1>4, <1>8 DEF OwnLists, I
<1>10. WritesFit(todo', active, profiles)
  <2>1. PICK shown : shown = channels'
    OBVIOUS
  <2> QED BY <1>1, <1>2, <1>9, <2>1, RoutineFits
<1> QED BY <1>1, <1>2, <1>9, <1>10 DEF Lists, Readings, config

\* A new list in memory, and what is written of it: config.json and a resize.
LEMMA ModeLists == ASSUME ApartInv, NEW mode \in Modes, ChangeInputMode(mode) PROVE Lists'
<1> DEFINE n == NumChannels(mode, hwCount, midiCount')
           I == OwnIds(active, profiles)
           Written(midi) == ConfigWrite(ConfigData(mode, hwCount, midi, active))
           Saved(x) == Resize(active, ResizeSave(active, profiles[active], x, Len(x)), {})
<1>1. /\ Ready /\ inputMode' = mode /\ UNCHANGED <<hwCount, active, saved, profiles>>
      /\ midiCount' = MidiCountForMode(mode, hwCount, Len(channels))
      /\ CanDraw(Missing(n, channels)) /\ channels' = Ensure(0, channels, n, mode, hwCount)
      /\ todo' = <<Written(midiCount'), Saved(channels'), Written(midiCount')>>
  BY DEF ChangeInputMode
<1>2. /\ Readings /\ Apart(profiles) /\ active \in Nat \ {0}
      /\ channels \in Seq(StripsOf(I)) /\ profiles[active] \in Seq(StripsOf(I))
  BY <1>1, Begins DEF OwnLists
<1>3. HasOwn(I, active) /\ FreshIds \subseteq I
  BY <1>2, OwnLegacy, FreshIsOwn
<1> HIDE DEF I
<1>4. Len(channels) \in Nat
  BY <1>2, LenProperties
<1>5. midiCount' \in Nat
  BY <1>1, <1>2, <1>4 DEF MidiCountForMode, Readings
<1>6. PICK midi, x : midi \in Nat /\ midi = midiCount' /\ x = channels'
  BY <1>5
<1>7. x \in Seq(StripsOf(I))
  <2>1. n = NumChannels(mode, hwCount, midi)
    BY <1>6
  <2>2. NumChannels(mode, hwCount, midi) \in Nat
    BY <1>2, <1>6, NumbersOfStrips DEF Readings
  <2>3. 0 + Missing(NumChannels(mode, hwCount, midi), channels)
          = Missing(NumChannels(mode, hwCount, midi), channels)
    BY <1>4, <2>2 DEF Missing
  <2>4. CanDraw(0 + Missing(NumChannels(mode, hwCount, midi), channels))
    BY <1>1, <2>1, <2>3
  <2>5. Ensure(0, channels, NumChannels(mode, hwCount, midi), mode, hwCount) \in Seq(StripsOf(I))
    BY <1>2, <1>3, <2>2, <2>4, EnsureFits DEF Readings
  <2> QED BY <1>1, <1>6, <2>1, <2>5
<1>8. WritesFit(<<Written(midi), Saved(x), Written(midi)>>, active, profiles)
  <2>1. Len(x) \in Nat
    BY <1>7, LenProperties
  <2>2. ResizeSave(active, profiles[active], x, Len(x)) \in OwnLists(active, profiles)
    BY <1>2, <1>3, <1>7, <2>1, ResizeSaveFits DEF OwnLists, I
  <2>3. WriteFits(Saved(x), active, profiles)
    BY <1>2, <2>2, ProfileFits
  <2>4. WriteFits(Written(midi), active, profiles)
    BY <1>2, ConfigFits DEF Readings
  <2> HIDE DEF Saved, Written
  <2> QED BY <2>3, <2>4, ThreeWritesFit
<1> HIDE DEF Saved, Written
<1>9. todo' = <<Written(midi), Saved(x), Written(midi)>>
  BY <1>1, <1>6
<1> QED BY <1>1, <1>2, <1>5, <1>6, <1>7, <1>8, <1>9 DEF Lists, Readings, OwnLists, I

LEMMA AddMidiLists == ASSUME ApartInv, AddMidiChannel PROVE Lists'
<1> DEFINE n == NumChannels(inputMode, hwCount, midiCount')
           I == OwnIds(active, profiles)
           stored == profiles[active]
           New(target) == NewStrips(0, Missing(target, stored), TRUE)
           Written(midi) == ConfigWrite(ConfigData(inputMode, hwCount, midi, active))
           Saved(x, target) == Resize(active, ResizeSave(active, stored, x, target), {})
<1>1. /\ Ready /\ UNCHANGED <<inputMode, hwCount, active, saved, profiles>>
      /\ midiCount' = midiCount + 1 /\ CanDraw(Missing(n, stored))
      /\ channels' = ResizeChannels(stored, channels, New(n), n)
      /\ todo' = <<Written(midiCount'), Saved(channels', n)>>
  BY DEF AddMidiChannel
<1>2. /\ Readings /\ Apart(profiles) /\ active \in Nat \ {0}
      /\ channels \in Seq(StripsOf(I)) /\ stored \in Seq(StripsOf(I))
  BY <1>1, Begins DEF OwnLists
<1>3. HasOwn(I, active) /\ FreshIds \subseteq I
  BY <1>2, OwnLegacy, FreshIsOwn
<1> HIDE DEF I
<1>4. midiCount' \in Nat
  BY <1>1, <1>2 DEF Readings
<1>5. PICK midi, x, target : midi \in Nat /\ midi = midiCount' /\ x = channels' /\ target = n
  <2> HIDE DEF n
  <2> QED BY <1>4
<1>6. target \in Nat
  <2>1. target = NumChannels(inputMode, hwCount, midi)
    BY <1>5
  <2> QED BY <1>2, <1>5, <2>1, NumbersOfStrips DEF Readings
<1>7. New(target) \in Seq(StripsOf(I)) /\ target <= Len(stored) + Len(New(target))
  <2>1. Len(stored) \in Nat
    BY <1>2, LenProperties
  <2> HIDE DEF stored
  <2>2. Missing(target, stored) \in Nat /\ target <= Len(stored) + Missing(target, stored)
    BY <1>6, <2>1 DEF Missing
  <2>3. CanDraw(0 + Missing(target, stored))
    BY <1>1, <1>5, <2>2
  <2>4. New(target) \in Seq(StripsOf(FreshIds)) /\ Len(New(target)) = Missing(target, stored)
    BY <2>2, <2>3, NewStripsAreFresh
  <2> QED BY <1>3, <2>2, <2>4, MoreIds
<1>8. x \in Seq(StripsOf(I))
  <2>1. x = ResizeChannels(stored, channels, New(target), target)
    BY <1>1, <1>5
  <2> HIDE DEF stored, New
  <2> QED BY <1>2, <1>6, <1>7, <2>1, ResizeChannelsFits
<1>9. WritesFit(<<Written(midi), Saved(x, target)>>, active, profiles)
  <2>2. ResizeSave(active, stored, x, target) \in OwnLists(active, profiles)
    BY <1>2, <1>3, <1>6, <1>8, ResizeSaveFits DEF OwnLists, I
  <2>3. WriteFits(Saved(x, target), active, profiles)
    BY <1>2, <2>2, ProfileFits
  <2>4. WriteFits(Written(midi), active, profiles)
    BY <1>2, ConfigFits DEF Readings
  <2> HIDE DEF Saved, Written
  <2> QED BY <2>3, <2>4, ThreeWritesFit
<1> HIDE DEF Saved, Written
<1>10. todo' = <<Written(midi), Saved(x, target)>>
  BY <1>1, <1>5
<1> QED BY <1>1, <1>2, <1>5, <1>8, <1>9, <1>10 DEF Lists, Readings, OwnLists, I

LEMMA RemoveMidiLists == ASSUME ApartInv, NEW gone, RemoveMidiChannels(gone) PROVE Lists'
<1> DEFINE n == NumChannels(inputMode, hwCount, midiCount')
           I == OwnIds(active, profiles)
           stored == profiles[active]
           removed == {channels[i].id : i \in gone}
           order == ProfileWrite(active, stored, "order")
           Written(midi) == ConfigWrite(ConfigData(inputMode, hwCount, midi, active))
           Saved(x, target) == Resize(active, ResizeSave(active, stored, x, target), removed)
<1>1. /\ Ready /\ UNCHANGED <<inputMode, hwCount, active, saved, profiles>>
      /\ channels' = Keep(channels, gone) /\ midiCount' = Cardinality(Midi(channels'))
      /\ todo' = <<order, Written(midiCount'), Saved(channels', n)>>
  BY DEF RemoveMidiChannels, Reorder, Midi
<1>2. /\ Readings /\ Apart(profiles) /\ active \in Nat \ {0}
      /\ channels \in Seq(StripsOf(I)) /\ stored \in Seq(StripsOf(I))
  BY <1>1, Begins DEF OwnLists
<1>3. HasOwn(I, active)
  BY <1>2, OwnLegacy
<1> HIDE DEF I
<1>4. PICK x : x = channels'
  OBVIOUS
<1>5. x \in Seq(StripsOf(I))
  BY <1>1, <1>2, <1>4, KeepFits
<1>6. Cardinality(Midi(x)) \in Nat
  <2>1. DOMAIN x = 1..Len(x) /\ Len(x) \in Nat
    BY <1>5
  <2>2. IsFiniteSet(1..Len(x)) /\ Midi(x) \in SUBSET (1..Len(x))
    BY <2>1, FS_Interval DEF Midi
  <2> QED BY <2>2, FS_Subset, FS_CardinalityType
<1>7. PICK midi, target : midi \in Nat /\ midi = midiCount' /\ target = n
  BY <1>1, <1>4, <1>6
<1>8. target \in Nat
  <2>1. target = NumChannels(inputMode, hwCount, midi)
    BY <1>7
  <2> QED BY <1>2, <1>7, <2>1, NumbersOfStrips DEF Readings
<1>9. WritesFit(<<order, Written(midi), Saved(x, target)>>, active, profiles)
  <2>1. stored \in OwnLists(active, profiles)
    BY <1>2 DEF OwnLists, I
  <2>2. ResizeSave(active, stored, x, target) \in OwnLists(active, profiles)
    BY <1>2, <1>3, <1>5, <1>8, ResizeSaveFits DEF OwnLists, I
  <2>3. WriteFits(Saved(x, target), active, profiles)
    BY <1>2, <2>2, ProfileFits
  <2>4. WriteFits(order, active, profiles)
    BY <1>2, <2>1, ProfileFits
  <2>5. WriteFits(Written(midi), active, profiles)
    BY <1>2, ConfigFits DEF Readings
  <2> HIDE DEF Saved, Written, order
  <2> QED BY <2>3, <2>4, <2>5, ThreeWritesFit
<1> HIDE DEF Saved, Written, order
<1>10. todo' = <<order, Written(midi), Saved(x, target)>>
  BY <1>1, <1>4, <1>7
<1> QED BY <1>1, <1>2, <1>4, <1>5, <1>7, <1>9, <1>10 DEF Lists, Readings, OwnLists, I

\* The Arduino's strips, padded to the new count.
LEMMA CountLists == ASSUME ApartInv, NEW n \in HwCounts, ChannelCountChanged(n) PROVE Lists'
<1> DEFINE Repair(p, strips, shown) ==
             IF shown # strips
               THEN <<ProfileWrite(p, RoutineSave(p, strips, shown), "hardware")>> ELSE <<>>
           Counted(p, count) ==
             IF n # hwCount THEN <<ConfigWrite(ConfigData(inputMode, n, count, p))>> ELSE <<>>
           Total(count) == NumChannels(inputMode, n, count)
           Shows(drawn, shown, count) ==
             IF n = hwCount THEN shown ELSE Ensure(drawn, shown, Total(count), inputMode, n)
           Drawable(drawn, shown, count) ==
             CanDraw(drawn + IF n = hwCount THEN 0 ELSE Missing(Total(count), shown))
           Rebuilt(strips) == RebuildPartition(inputMode, hwCount, strips)
           Count(strips) == AppliedMidiCount(inputMode, hwCount, strips)
           new == NextProfileId
<1>1. Ready /\ hwCount' = n /\ UNCHANGED <<inputMode, saved>>
  BY DEF ChannelCountChanged
<1>2. /\ Readings /\ Apart(profiles) /\ active \in Nat \ {0} /\ n \in Nat
      /\ channels \in OwnLists(active, profiles)
  BY <1>1, Begins, ConstantsAssumption
<1>3. \/ /\ active' = active /\ midiCount' = midiCount /\ profiles' = profiles
         /\ channels' = Shows(0, channels, midiCount) /\ Drawable(0, channels, midiCount)
         /\ todo' = <<>> \o Counted(active, midiCount)
      \/ /\ Room
         /\ \E x \in NewProfiles({n}, {}) :
              /\ active' = new /\ midiCount' = Count(x) /\ profiles' = With(new, x)
              /\ channels' = Shows(n, Rebuilt(x), Count(x)) /\ Drawable(n, Rebuilt(x), Count(x))
              /\ todo' = (<<ConfigWrite(ConfigData(inputMode, hwCount, Count(x), new))>>
                          \o Repair(new, x, Rebuilt(x))) \o Counted(new, Count(x))
  <2>1. PICK small \in {n < Usb(profiles[active])} :
        \E x \in IF ~small THEN {channels} ELSE IF Room THEN NewProfiles({n}, {}) ELSE {} :
          LET p     == IF small THEN new ELSE active
              count == IF small THEN Count(x) ELSE midiCount
              shown == IF small THEN Rebuilt(x) ELSE channels
              drawn == IF small THEN n ELSE 0
          IN  /\ active' = p /\ midiCount' = count
              /\ profiles' = IF small THEN With(p, x) ELSE profiles
              /\ channels' = Shows(drawn, shown, count) /\ Drawable(drawn, shown, count)
              /\ todo' = (IF small
                            THEN <<ConfigWrite(ConfigData(inputMode, hwCount, count, p))>>
                                 \o Repair(p, x, shown)
                            ELSE <<>>) \o Counted(p, count)
    BY DEF ChannelCountChanged
  <2> HIDE DEF Counted, Shows, Drawable, Rebuilt, Count, Repair, new
  <2>2. CASE small
    BY <2>1, <2>2, Zenon
  <2>3. CASE ~small
    BY <2>1, <2>3, Zenon
  <2> QED BY <2>2, <2>3
<1>4. ASSUME NEW p \in Nat \ {0}, NEW drawn \in Nat, NEW shown \in OwnLists(p, profiles),
             NEW count \in Nat, Drawable(drawn, shown, count)
      PROVE  Shows(drawn, shown, count) \in OwnLists(p, profiles)
  <2>1. Total(count) \in Nat
    BY <1>2, NumbersOfStrips DEF Readings
  <2>2. FreshIds \subseteq OwnIds(p, profiles)
    BY FreshIsOwn
  <2> HIDE DEF Total
  <2>3. CASE n # hwCount
    <3>1. CanDraw(drawn + Missing(Total(count), shown))
      BY <1>4, <2>3
    <3>2. Ensure(drawn, shown, Total(count), inputMode, n) \in OwnLists(p, profiles)
      BY <1>2, <2>1, <2>2, <3>1, EnsureFits DEF OwnLists
    <3> QED BY <2>3, <3>2
  <2>4. CASE n = hwCount
    BY <2>4
  <2> QED BY <2>3, <2>4
<1>5. \A p, count, files : WritesFit(Counted(p, count), p, files)
  BY <1>2, ConfigFits, OneWriteFits, NoWritesFit DEF Readings
<1>6. CASE /\ active' = active /\ midiCount' = midiCount /\ profiles' = profiles
           /\ channels' = Shows(0, channels, midiCount) /\ Drawable(0, channels, midiCount)
           /\ todo' = <<>> \o Counted(active, midiCount)
  <2> HIDE DEF Counted, Shows, Drawable
  <2>1. midiCount \in Nat
    BY <1>2 DEF Readings
  <2>2. channels' \in OwnLists(active, profiles)
    BY <1>2, <1>4, <1>6, <2>1
  <2>3. WritesFit(todo', active, profiles)
    BY <1>5, <1>6, NoWritesFit, MoreWritesFit
  <2> QED BY <1>1, <1>2, <1>6, <2>2, <2>3 DEF Lists, Readings
<1>7. ASSUME Room, NEW x \in NewProfiles({n}, {}),
             active' = new, midiCount' = Count(x), profiles' = With(new, x),
             channels' = Shows(n, Rebuilt(x), Count(x)), Drawable(n, Rebuilt(x), Count(x)),
             todo' = (<<ConfigWrite(ConfigData(inputMode, hwCount, Count(x), new))>>
                      \o Repair(new, x, Rebuilt(x))) \o Counted(new, Count(x))
      PROVE  Lists'
  <2>1. x \in Seq(StripsOf(FreshIds))
    BY <1>2, NewProfilesAreFresh
  <2>2. /\ new \in Nat \ {0} /\ Apart(profiles') /\ x \in OwnLists(new, profiles')
        /\ OwnLists(new, profiles') = OwnLists(new, profiles)
    BY <1>1, <1>7, <2>1, ProfileAdded
  <2> HIDE DEF new
  <2>3. Rebuilt(x) \in OwnLists(new, profiles) /\ Count(x) \in Nat
    BY <1>2, <2>2, RebuildFits, CountIsNumber DEF Readings, OwnLists
  <2> HIDE DEF Rebuilt, Count
  <2>4. channels' \in OwnLists(new, profiles)
    <3> HIDE DEF Shows, Drawable
    <3> QED BY <1>2, <1>4, <1>7, <2>2, <2>3
  <2>5. \A shown \in OwnLists(new, profiles) : WritesFit(Repair(new, x, shown), new, profiles)
    <3>1. ASSUME NEW shown \in OwnLists(new, profiles)
          PROVE  RoutineSave(new, x, shown) \in OwnLists(new, profiles)
      BY <1>2, <2>2, OwnLegacy, RoutineSaveFits DEF OwnLists
    <3> QED BY <2>2, <3>1, ProfileFits, OneWriteFits, NoWritesFit
  <2>6. WritesFit(<<ConfigWrite(ConfigData(inputMode, hwCount, Count(x), new))>>, new, profiles)
    BY <1>2, ConfigFits, OneWriteFits DEF Readings
  <2>7. WritesFit(todo', new, profiles)
    <3> HIDE DEF Repair, Counted
    <3> QED BY <1>5, <1>7, <2>3, <2>5, <2>6, MoreWritesFit
  <2>8. WritesFit(todo', new, profiles')
    BY <2>2, <2>7 DEF WritesFit, WriteFits
  <2> QED BY <1>1, <1>2, <1>7, <2>2, <2>3, <2>4, <2>8 DEF Lists, Readings
<1> HIDE DEF Counted, Shows, Drawable, Rebuilt, Count, Repair, new
<1> QED BY <1>3, <1>6, <1>7

\* A file is replaced by a list of its own strips and new ones.
LEMMA ReplaceLists ==
  ASSUME ApartInv, Ready, NEW p \in DOMAIN profiles,
         NEW after \in Seq(StripsOf(Ids(profiles[p]) \cup FreshIds)), ReplaceProfile(p, after)
  PROVE  Lists'
<1>1. /\ Readings /\ Apart(profiles) /\ todo = <<>>
      /\ active \in DOMAIN profiles /\ channels \in OwnLists(active, profiles)
  BY Begins
<1>2. UNCHANGED <<inputMode, hwCount, active, saved>> /\ Puts(profiles', profiles, p, after)
  BY DEF ReplaceProfile, Puts
<1>3. p \in Nat \ {0} /\ profiles[p] \in OwnLists(p, profiles)
  BY <1>1 DEF Apart
<1>4. after \in OwnLists(p, profiles)
  <2>1. Ids(profiles[p]) \cup FreshIds \subseteq OwnIds(p, profiles)
    BY <1>3, IdsOfList, FreshIsOwn DEF OwnLists
  <2> QED BY <2>1, MoreIds DEF OwnLists
<1>5. /\ Apart(profiles') /\ OwnLists(p, profiles') = OwnLists(p, profiles)
  BY <1>1, <1>2, <1>3, <1>4, FileWritten
<1>6. CASE p = active
  <2>1. ApplyProfile(after)
    BY <1>6 DEF ReplaceProfile
  <2>2. channels' \in OwnLists(p, profiles') /\ midiCount' \in Nat
    BY <1>1, <1>4, <1>5, <2>1, Applied DEF OwnLists
  <2>3. PICK shown : shown = channels'
    OBVIOUS
  <2>4. WritesFit(RoutineWrites(p, after, shown, None), p, profiles')
    BY <1>3, <1>4, <1>5, <2>2, <2>3, RoutineFits
  <2>5. todo' \in {<<>>, RoutineWrites(p, after, shown, None)}
    BY <1>6, <2>3 DEF ReplaceProfile
  <2>6. WritesFit(todo', p, profiles')
    BY <2>4, <2>5, NoWritesFit
  <2> QED BY <1>1, <1>2, <1>5, <1>6, <2>2, <2>6 DEF Lists, Readings
<1>7. CASE p # active
  <2>1. UNCHANGED <<midiCount, channels, todo>>
    BY <1>7 DEF ReplaceProfile
  <2>2. Ids(after) \cap Ids(channels) = {}
    <3>1. Ids(channels) \cap Ids(profiles[p]) = {}
      BY <1>1, <1>7, NoIdShared
    <3>2. FreshIds \cap Ids(channels) = {}
      BY FreshIsOwn
    <3>3. Ids(after) \subseteq Ids(profiles[p]) \cup FreshIds
      BY IdsOfList
    <3> QED BY <3>1, <3>2, <3>3
  <2>3. channels \in OwnLists(active, profiles')
    <3>1. \A a, y : a # p => (y \in OwnLists(a, profiles)
                    => (Ids(y) \cap Ids(after) = {} => y \in OwnLists(a, profiles')))
      BY <1>1, <1>2, <1>3, <1>4, FileWritten, SMTT(30)
    <3> QED BY <1>1, <1>7, <2>2, <3>1
  <2> QED BY <1>1, <1>2, <1>5, <2>1, <2>3, NoWritesFit DEF Lists, Readings
<1> QED BY <1>6, <1>7

LEMMA AddRemotelyLists ==
  ASSUME ApartInv, NEW p \in DOMAIN profiles, AddChannelRemotely(p) PROVE Lists'
<1> DEFINE I == Ids(profiles[p]) \cup FreshIds
           after == profiles[p] \o NewStrips(0, 1, TRUE)
<1>1. Ready /\ CanDraw(1) /\ ReplaceProfile(p, after)
  BY DEF AddChannelRemotely
<1>2. profiles[p] \in OwnLists(p, profiles)
  BY <1>1, Begins DEF Apart
<1>3. profiles[p] \in Seq(StripsOf(Ids(profiles[p])))
  BY <1>2, ListOfItsIds DEF OwnLists
<1>4. NewStrips(0, 1, TRUE) \in Seq(StripsOf(FreshIds))
  <2>1. 0 + 1 = 1
    OBVIOUS
  <2> QED BY <1>1, <2>1, NewStripsAreFresh
<1>5. /\ Ids(profiles[p]) \subseteq I /\ FreshIds \subseteq I
  OBVIOUS
<1> HIDE DEF I
<1>6. profiles[p] \in Seq(StripsOf(I)) /\ NewStrips(0, 1, TRUE) \in Seq(StripsOf(I))
  BY <1>3, <1>4, <1>5, MoreIds
<1>7. after \in Seq(StripsOf(I))
  BY <1>6, ConcatProperties
<1> HIDE DEF after
<1> QED BY <1>1, <1>7, ReplaceLists DEF I

LEMMA DeleteRemoteLists ==
  ASSUME ApartInv, NEW p \in DOMAIN profiles, NEW ids, DeleteChannelsRemotely(p, ids) PROVE Lists'
<1>1. Ready /\ \E gone : ReplaceProfile(p, Keep(profiles[p], gone))
  BY DEF DeleteChannelsRemotely
<1>2. profiles[p] \in OwnLists(p, profiles)
  BY <1>1, Begins DEF Apart
<1>3. profiles[p] \in Seq(StripsOf(Ids(profiles[p]) \cup FreshIds))
  <2>1. profiles[p] \in Seq(StripsOf(Ids(profiles[p])))
    BY <1>2, ListOfItsIds DEF OwnLists
  <2>2. Ids(profiles[p]) \subseteq Ids(profiles[p]) \cup FreshIds
    OBVIOUS
  <2> QED BY <2>1, <2>2, MoreIds
<1>4. \A gone : Keep(profiles[p], gone) \in Seq(StripsOf(Ids(profiles[p]) \cup FreshIds))
  BY <1>3, KeepFits
<1> QED BY <1>1, <1>4, ReplaceLists

LEMMA WriteLists == ASSUME ApartInv, Write PROVE Lists'
<1> DEFINE w == Head(todo)
<1>1. running /\ todo # <<>> /\ todo' = Tail(todo) /\ UNCHANGED <<config, channels, running>>
  BY DEF Write
<1>2. /\ Readings /\ Apart(profiles) /\ active \in DOMAIN profiles /\ active \in Nat \ {0}
      /\ channels \in OwnLists(active, profiles)
  BY <1>1 DEF ApartInv, StoreInv, ActiveKnown, Lists, Apart
<1>3. WriteFits(w, active, profiles) /\ WritesFit(Tail(todo), active, profiles)
  BY <1>1, RestFits DEF ApartInv, Lists
<1>4. CASE w.to = Config
  <2>1. saved' = w.data /\ profiles' = profiles
    BY <1>4 DEF Write
  <2> QED BY <1>1, <1>2, <1>3, <1>4, <2>1 DEF Lists, Readings, WriteFits, config
<1>5. CASE w.to # Config /\ w.why = "delete"
  <2>1. saved' = saved /\ profiles' = Without(w.to)
    BY <1>5 DEF Write
  <2>2. todo' = <<>>
    BY <1>1, <1>5, FirstWrite DEF ApartInv
  <2>3. Apart(profiles') /\ OwnLists(active, profiles) \subseteq OwnLists(active, profiles')
    BY <1>2, <2>1, FileDropped DEF Without
  <2> QED BY <1>1, <1>2, <2>1, <2>2, <2>3, NoWritesFit DEF Lists, Readings, config
<1>6. CASE w.to # Config /\ w.why # "delete"
  <2>1. w.to = active /\ w.data \in OwnLists(active, profiles)
    BY <1>3, <1>6 DEF WriteFits
  <2>2. saved' = saved /\ profiles' = [profiles EXCEPT ![active] = w.data]
    BY <1>6, <2>1 DEF Write
  <2>3. Puts(profiles', profiles, active, w.data)
    <3> HIDE DEF w
    <3> QED BY <1>2, <2>2 DEF Puts
  <2>4. Apart(profiles') /\ OwnLists(active, profiles') = OwnLists(active, profiles)
    <3> HIDE DEF w
    <3> QED BY <1>2, <2>1, <2>3, FileWritten
  <2>5. WritesFit(todo', active, profiles')
    BY <1>1, <1>3, <2>4 DEF WritesFit, WriteFits
  <2> QED BY <1>1, <1>2, <2>2, <2>4, <2>5 DEF Lists, Readings, config
<1> QED BY <1>4, <1>5, <1>6

LEMMA FailedLists == ASSUME ApartInv, WriteFails PROVE Lists'
<1> DEFINE w == Head(todo)
<1>1. running /\ todo # <<>> /\ UNCHANGED <<inputMode, hwCount, saved, profiles, running>>
  BY DEF WriteFails
<1>2. Readings /\ Apart(profiles) /\ channels \in OwnLists(active, profiles)
  BY <1>1 DEF ApartInv, Lists
<1>3. CASE w.back # None
  <2>1. SwitchTo(w.back, profiles[w.back], <<>>, None)
    BY <1>3 DEF WriteFails
  <2>2. w.back \in DOMAIN profiles
    BY <1>1, <1>3, FirstWrite DEF ApartInv
  <2> DEFINE p == w.back
  <2> HIDE DEF p
  <2>3. p \in Nat \ {0} /\ profiles[p] \in OwnLists(p, profiles)
    BY <1>2, <2>2 DEF Apart, p
  <2>4. /\ active' = p /\ midiCount' \in Nat /\ channels' \in OwnLists(p, profiles)
        /\ WritesFit(todo', p, profiles)
    <3>1. SwitchTo(p, profiles[p], <<>>, None)
      BY <2>1 DEF p
    <3> QED BY <1>2, <2>3, <3>1, NoWritesFit, SwitchFits
  <2> QED BY <1>1, <1>2, <2>4 DEF Lists, Readings
<1>4. CASE w.back = None
  <2>1. UNCHANGED <<midiCount, active, channels>> /\ todo' \in {<<>>, Tail(todo)}
    BY <1>4 DEF WriteFails
  <2>2. WritesFit(todo', active, profiles)
    BY <1>1, <2>1, RestFits, NoWritesFit DEF ApartInv, Lists
  <2> QED BY <1>1, <1>2, <2>1, <2>2 DEF Lists, Readings
<1> QED BY <1>3, <1>4

LEMMA CrashLists == ASSUME ApartInv, Crash PROVE Lists'
<1>1. ~running' /\ todo' = <<>> /\ UNCHANGED <<config, saved, profiles>>
  BY DEF Crash
<1> QED BY <1>1, NoWritesFit DEF ApartInv, Lists, Readings, config

LEMMA StartLists == ASSUME ApartInv, Start PROVE Lists'
<1>1. UNCHANGED <<saved, profiles>> /\ inputMode' = saved.mode /\ hwCount' = saved.hw
  BY DEF Start
<1>2. Readings /\ Apart(profiles)
  BY DEF ApartInv, Lists
<1>3. PICK p \in DOMAIN profiles : p = active'
  <2>1. StoreInv'
    BY StartStep DEF ApartInv
  <2> QED BY <1>1, <2>1 DEF StoreInv, ActiveKnown, Start
<1>4. p \in Nat \ {0} /\ profiles[p] \in OwnLists(p, profiles)
  BY <1>2 DEF Apart
<1> DEFINE shown == RebuildPartition(saved.mode, saved.hw, profiles[p])
           repair == ProfileWrite(p, RoutineSave(p, profiles[p], shown), "startup")
<1>5. channels' = shown /\ midiCount' = AppliedMidiCount(saved.mode, saved.hw, profiles[p])
  BY <1>3 DEF Start
<1>6. shown \in OwnLists(p, profiles) /\ midiCount' \in Nat
  BY <1>2, <1>4, <1>5, RebuildFits, CountIsNumber DEF Readings, OwnLists
<1>7. todo' \in {<<>>, <<repair>>}
  BY <1>3, <1>5 DEF Start
<1>8. WriteFits(repair, p, profiles)
  <2> HIDE DEF shown
  <2>1. RoutineSave(p, profiles[p], shown) \in OwnLists(p, profiles)
    BY <1>2, <1>4, <1>6, OwnLegacy, RoutineSaveFits DEF OwnLists
  <2> QED BY <1>4, <2>1, ProfileFits
<1>9. WritesFit(todo', p, profiles)
  <2> HIDE DEF repair
  <2> QED BY <1>7, <1>8, OneWriteFits, NoWritesFit
<1> HIDE DEF shown
<1> QED BY <1>1, <1>2, <1>3, <1>5, <1>6, <1>9 DEF Lists, Readings

LEMMA InitLists == Init => Lists
<1> SUFFICES ASSUME Init PROVE Lists
  OBVIOUS
<1>1. hwCount \in Nat
  <2> DEFINE Largest(n) == \A m \in HwCounts : n >= m
  <2>1. \E n \in HwCounts : Largest(n)
    BY ConstantsAssumption
  <2>2. hwCount = (CHOOSE n \in HwCounts : Largest(n))
    BY DEF Init
  <2> HIDE DEF Largest
  <2>3. hwCount \in HwCounts
    BY <2>1, <2>2
  <2> QED BY <2>3, ConstantsAssumption
<1>2. Readings
  BY <1>1 DEF Readings, Init, Modes, ConfigData
<1>3. active = 1 /\ DOMAIN profiles = {1} /\ profiles[1] = channels /\ todo = <<>>
  BY DEF Init
<1>4. \A i \in 1..hwCount : <<0, i, 0>> \in OwnIds(1, profiles)
  <2>1. \A i \in 1..hwCount : <<0, i, 0>> \in Nat \X Nat \X Nat /\ <<0, i, 0>>[1] = 0
    BY <1>1
  <2>2. DOMAIN profiles \ {1} = {}
    BY <1>3
  <2> QED BY <2>1, <2>2 DEF OwnIds
<1>5. channels \in OwnLists(1, profiles)
  <2>1. \A i \in 1..hwCount : Blank(<<0, i, 0>>, FALSE) \in StripsOf(OwnIds(1, profiles))
    BY <1>4, BlankIsStrip
  <2>2. channels = [i \in 1..hwCount |-> Blank(<<0, i, 0>>, FALSE)]
    BY DEF Init
  <2>3. channels \in [1..hwCount -> StripsOf(OwnIds(1, profiles))]
    BY <2>1, <2>2
  <2> QED BY <1>1, <2>3 DEF OwnLists
<1>6. Apart(profiles)
  BY <1>3, <1>5 DEF Apart
<1> QED BY <1>2, <1>3, <1>5, <1>6, NoWritesFit DEF Lists

LEMMA OperationLists == ASSUME ApartInv, Operation PROVE Lists'
<1>1. \A i \in 1..MaxStrips : i \in Nat
  OBVIOUS
<1> QED BY <1>1, SwitchLists, DeleteRemotelyLists, AddRemotelyLists, DeleteRemoteLists,
           CreateLists, CreateRemotelyLists, DeleteLists, AssignLists, ModeLists, AddMidiLists,
           RemoveMidiLists, CountLists DEF Operation

LEMMA ApartStep == ASSUME ApartInv, [Next]_vars PROVE ApartInv'
<1>1. StoreInv'
  BY StoreStep DEF ApartInv
<1>2. CASE UNCHANGED vars
  <2>1. UNCHANGED <<config, channels, saved, profiles, todo, running>>
    BY <1>2 DEF vars
  <2> QED BY <1>1, <2>1 DEF ApartInv, Lists, Readings, config
<1>3. CASE Next
  BY <1>1, <1>3, OperationLists, WriteLists, FailedLists, CrashLists, StartLists
     DEF Next, ApartInv
<1> QED BY <1>2, <1>3

(* A profile keeps its strips to itself: no strip id is in two files, and  *)
(* between two handlers none of another profile is in memory, where the    *)
(* next routine save would pick it up (normalize_profile_channels,         *)
(* _ensure_channels, the writes of _switch_profile and its rollback).      *)
THEOREM ProfilesStayApart == Spec => []ProfilesAreApart
<1>1. Init => ApartInv
  BY StoreInit, InitLists DEF ApartInv
<1>2. ApartInv => ProfilesAreApart
  <2> SUFFICES ASSUME ApartInv PROVE ProfilesAreApart
    OBVIOUS
  <2>1. Apart(profiles)
    BY DEF ApartInv, Lists
  <2>2. ASSUME NEW p \in DOMAIN profiles, NEW q \in DOMAIN profiles, p # q
        PROVE  Ids(profiles[p]) \cap Ids(profiles[q]) = {}
    BY <2>1, <2>2, NoIdShared DEF Apart
  <2>3. ASSUME Ready, NEW p \in DOMAIN profiles \ {active}
        PROVE  Ids(profiles[p]) \cap Ids(channels) = {}
    <3>1. channels \in OwnLists(active, profiles)
      BY <2>3, Begins
    <3> QED BY <3>1, NoIdShared
  <2> QED BY <2>2, <2>3 DEF ProfilesAreApart
<1> QED BY <1>1, <1>2, ApartStep, PTL DEF Spec
-----------------------------------------------------------------------------
(***************************************************************************)
(* Lists whose strips have ids of their own.                               *)
(***************************************************************************)
Distinct(x) == \A i, j \in DOMAIN x : x[i].id = x[j].id => i = j

LEMMA DistinctCounts ==
  ASSUME NEW S, NEW x \in Seq(S)
  PROVE  Distinct(x) <=> Cardinality(Ids(x)) = Len(x)
<1> DEFINE f == [i \in 1..Len(x) |-> x[i].id]
<1>1. Len(x) \in Nat /\ DOMAIN x = 1..Len(x)
  OBVIOUS
<1>2. f \in Surjection(1..Len(x), Ids(x))
  BY <1>1 DEF Surjection, Ids
<1>3. IsFiniteSet(1..Len(x)) /\ Cardinality(1..Len(x)) = Len(x)
  BY <1>1, CountTo, Zenon
<1>4. f \in Injection(1..Len(x), Ids(x)) <=> Distinct(x)
  <2>1. \A i \in 1..Len(x) : f[i] = x[i].id
    OBVIOUS
  <2>2. f \in [1..Len(x) -> Ids(x)]
    BY <1>2 DEF Surjection
  <2> HIDE DEF f
  <2> QED BY <1>1, <2>1, <2>2 DEF Injection, IsInjective, Distinct
<1> HIDE DEF f
<1>5. Cardinality(Ids(x)) = Cardinality(1..Len(x)) <=> f \in Injection(1..Len(x), Ids(x))
  BY <1>2, <1>3, FS_Surjection
<1> QED BY <1>3, <1>4, <1>5

LEMMA DistinctPrefix ==
  ASSUME NEW S, NEW x \in Seq(S), Distinct(x), NEW n \in 0..Len(x)
  PROVE  SubSeq(x, 1, n) \in Seq(S) /\ Len(SubSeq(x, 1, n)) = n /\ Distinct(SubSeq(x, 1, n))
<1>1. Len(x) \in Nat /\ \A i \in 1..Len(x) : x[i] \in S
  OBVIOUS
<1>2. \A i \in 1..n : x[i] \in S
  BY <1>1
<1>3. SubSeq(x, 1, n) \in Seq(S) /\ Len(SubSeq(x, 1, n)) = n
  BY <1>1, <1>2, SubSeqProperties
<1>4. \A i \in 1..n : SubSeq(x, 1, n)[i] = x[i] /\ i \in DOMAIN x
  BY <1>1, <1>2, SubSeqProperties
<1>5. DOMAIN SubSeq(x, 1, n) = 1..n
  BY <1>3
<1> QED BY <1>3, <1>4, <1>5 DEF Distinct

\* What normalizing makes of a list: ids of their own, and nothing changes
\* before the first id that is there twice.
LEMMA NormalizeDistinct ==
  ASSUME NEW I, NEW p, HasOwn(I, p), NEW x \in Seq(StripsOf(I)), NEW k \in 0..Len(x),
         \A i, j \in 1..k : x[i].id = x[j].id => i = j
  PROVE  /\ Distinct(NormalizeProfileChannels(p, x))
         /\ \A i \in 1..k : NormalizeProfileChannels(p, x)[i] = x[i]
<1> DEFINE done == Normalizing(p, x)
           Good(i, y) == /\ y \in Seq(StripsOf(I)) /\ Len(y) = i /\ Distinct(y)
                         /\ \A j \in 1..i : j <= k => y[j] = x[j]
           T == {i \in 0..Len(x) : Good(i, done[i])}
<1>1. Len(x) \in Nat /\ \A i \in 1..Len(x) : x[i] \in StripsOf(I)
  OBVIOUS
<1>2. done[0] = <<>> /\ \A i \in 1..Len(x) : done[i] = Normalized(p, i, x[i], done[i - 1])
  BY NormalizingStrips
<1>3. 0 \in T
  <2>1. <<>> \in Seq(StripsOf(I)) /\ Len(<<>>) = 0 /\ 0 \in 0..Len(x) /\ DOMAIN <<>> = {}
    BY <1>1, EmptySeq
  <2>2. Good(0, <<>>)
    BY <2>1 DEF Distinct
  <2> HIDE DEF done, Good
  <2> QED BY <1>2, <2>1, <2>2
<1>4. ASSUME NEW i \in 1..Len(x), i - 1 \in T PROVE i \in T
  <2>0. PICK before : before = done[i - 1]
    OBVIOUS
  <2> DEFINE s == x[i]
             id == LegacyId(p, i, Ids(before))
  <2>1. /\ before \in Seq(StripsOf(I)) /\ Len(before) = i - 1 /\ Distinct(before)
        /\ \A j \in 1..(i - 1) : j <= k => before[j] = x[j]
    BY <1>4, <2>0
  <2>2. s \in StripsOf(I) /\ done[i] = Normalized(p, i, s, before)
    BY <1>1, <1>2, <2>0
  <2> HIDE DEF done
  <2>3. id \in I /\ id \notin Ids(before)
    <3>1. IsFiniteSet(Ids(before)) /\ Cardinality(Ids(before)) <= Len(before)
      BY <2>1, IdsAreFew
    <3>2. Cardinality(Ids(before)) \in Nat
      BY <3>1, FS_CardinalityType
    <3>3. Cardinality(Ids(before)) <= i /\ i \in Nat
      BY <2>1, <3>1, <3>2
    <3>4. PICK slot \in 0..i : id = <<p, i, slot>> /\ <<p, i, slot>> \notin Ids(before)
      BY <3>1, <3>3, LegacyIdIsFree
    <3> QED BY <3>3, <3>4 DEF HasOwn
  <2>4. ASSUME s.id \in Ids(before) PROVE ~(i <= k)
    <3> SUFFICES ASSUME i <= k PROVE FALSE
      OBVIOUS
    <3>1. PICK j \in DOMAIN before : s.id = before[j].id
      BY <2>4 DEF Ids
    <3>2. j \in 1..(i - 1)
      BY <2>1, <3>1
    <3>3. j \in 1..k /\ i \in 1..k /\ j # i
      BY <3>2
    <3>4. x[j].id = x[i].id
      BY <2>1, <3>1, <3>2, <3>3
    <3> QED BY <3>3, <3>4
  <2>5. PICK t \in StripsOf(I) : /\ done[i] = Append(before, t) /\ t.id \notin Ids(before)
                                 /\ i <= k => t = x[i]
    <3> HIDE DEF s, id
    <3>1. [s EXCEPT !.id = id] \in StripsOf(I) /\ [s EXCEPT !.id = id].id = id
      BY <2>2, <2>3 DEF StripsOf
    <3>2. CASE s.id \in Ids(before)
      BY <2>2, <2>3, <2>4, <3>1, <3>2 DEF Normalized, id
    <3>3. CASE s.id \notin Ids(before)
      BY <2>2, <3>3 DEF Normalized, s
    <3> QED BY <3>2, <3>3
  <2>6. PICK y : y = done[i]
    OBVIOUS
  <2>7. y \in Seq(StripsOf(I)) /\ Len(y) = i /\ y[i] = t /\ \A j \in 1..(i - 1) : y[j] = before[j]
    BY <2>1, <2>5, <2>6, AppendProperties
  <2>8. \A j \in 1..(i - 1) : y[j].id \in Ids(before)
    BY <2>1, <2>7 DEF Ids
  <2>9. Distinct(y)
    <3>1. \A j, l \in 1..(i - 1) : y[j].id = y[l].id => j = l
      <4>1. \A j, l \in 1..(i - 1) : before[j].id = before[l].id => j = l
        BY <2>1 DEF Distinct
      <4> QED BY <2>7, <4>1
    <3>2. \A j \in 1..(i - 1) : y[j].id # y[i].id
      BY <2>5, <2>7, <2>8
    <3>3. DOMAIN y = 1..i /\ \A j \in 1..i : j = i \/ j \in 1..(i - 1)
      BY <2>7
    <3> QED BY <3>1, <3>2, <3>3 DEF Distinct
  <2>10. \A j \in 1..i : j <= k => y[j] = x[j]
    BY <2>1, <2>5, <2>7
  <2> QED BY <2>6, <2>7, <2>9, <2>10
<1> HIDE DEF T
<1>5. Len(x) \in T
  <2>1. \A i \in 1..Len(x) : i - 1 \in T => i \in T
    BY <1>4
  <2>2. \A i \in 0..Len(x) : i \in T
    BY <1>1, <1>3, <2>1, Counting
  <2> QED BY <1>1, <2>2
<1>6. Good(Len(x), NormalizeProfileChannels(p, x))
  BY <1>5 DEF T, NormalizeProfileChannels
<1> HIDE DEF done
<1>7. \A i \in 1..k : i \in 1..Len(x) /\ i <= k
  BY <1>1
<1> QED BY <1>6, <1>7

\* A list whose ids are its own is left as it is.
LEMMA NormalizeKeeps ==
  ASSUME NEW I, NEW p, HasOwn(I, p), NEW x \in Seq(StripsOf(I)), Distinct(x)
  PROVE  NormalizeProfileChannels(p, x) = x
<1> DEFINE y == NormalizeProfileChannels(p, x)
<1>1. Len(x) \in Nat /\ DOMAIN x = 1..Len(x) /\ Len(x) \in 0..Len(x)
  OBVIOUS
<1>2. \A i, j \in 1..Len(x) : x[i].id = x[j].id => i = j
  BY <1>1 DEF Distinct
<1>3. \A i \in 1..Len(x) : y[i] = x[i]
  BY <1>1, <1>2, NormalizeDistinct
<1>4. y \in Seq(StripsOf(I)) /\ Len(y) = Len(x)
  BY NormalizeFits
<1> HIDE DEF y
<1>5. y = x
  BY <1>3, <1>4
<1> QED BY <1>5 DEF y

LEMMA NormalizedIsDistinct ==
  ASSUME NEW I, NEW p, HasOwn(I, p), NEW x \in Seq(StripsOf(I))
  PROVE  Distinct(NormalizeProfileChannels(p, x))
<1>1. 0 \in 0..Len(x) /\ \A i, j \in 1..0 : x[i].id = x[j].id => i = j
  OBVIOUS
<1> QED BY <1>1, NormalizeDistinct

LEMMA ReconciledIsDistinct ==
  ASSUME NEW I, NEW p, HasOwn(I, p), NEW x \in Seq(StripsOf(I)), NEW count \in Nat
  PROVE  Distinct(ReconcileProfileChannels(p, x, count))
<1> DEFINE y == [i \in 1..count |-> IF i <= Len(x) THEN x[i]
                                    ELSE Blank(LegacyId(p, i, Ids(x)), FALSE)]
<1>1. Len(x) \in Nat /\ \A i \in 1..Len(x) : x[i] \in StripsOf(I)
  OBVIOUS
<1>2. ASSUME NEW i \in 1..count PROVE y[i] \in StripsOf(I)
  <2>1. CASE i <= Len(x)
    BY <1>1, <2>1
  <2>2. CASE ~(i <= Len(x))
    <3>1. i \in Nat /\ Len(x) <= i
      BY <1>1, <2>2
    <3>2. LegacyId(p, i, Ids(x)) \in I
      BY <3>1, IsLegacy
    <3> QED BY <2>2, <3>2, BlankIsStrip
  <2> QED BY <2>1, <2>2
<1>3. y \in Seq(StripsOf(I))
  <2>1. y \in [1..count -> StripsOf(I)]
    BY <1>2
  <2> HIDE DEF y
  <2> QED BY <2>1
<1>4. ReconcileProfileChannels(p, x, count) = NormalizeProfileChannels(p, y)
  BY DEF ReconcileProfileChannels
<1> HIDE DEF y
<1> QED BY <1>3, <1>4, NormalizedIsDistinct

\* Two elements of a set of numbers have not the same number of others before them.
UpTo(S, m) == {j \in S : j <= m}

LEMMA NthIsOnly ==
  ASSUME NEW N \in Nat, NEW S \in SUBSET (1..N), NEW k \in S, NEW l \in S,
         Cardinality(UpTo(S, k)) = Cardinality(UpTo(S, l))
  PROVE  k = l
<1> DEFINE Upto(m) == UpTo(S, m)
<1>1. \A m : IsFiniteSet(Upto(m))
  <2>1. IsFiniteSet(1..N)
    BY FS_Interval
  <2>2. \A m : Upto(m) \in SUBSET (1..N)
    BY DEF UpTo
  <2> HIDE DEF Upto
  <2> QED BY <2>1, <2>2, FS_Subset
<1>2. ASSUME NEW a \in S, NEW b \in S, a < b PROVE Cardinality(Upto(a)) # Cardinality(Upto(b))
  <2>0. \A j \in S : j \in Int
    OBVIOUS
  <2>1. Upto(a) \in SUBSET Upto(b)
    <3>1. \A j \in S : j <= a => j <= b
      BY <1>2, <2>0
    <3> QED BY <3>1 DEF UpTo
  <2>2. b \in Upto(b) /\ b \notin Upto(a)
    BY <1>2, <2>0 DEF UpTo
  <2> HIDE DEF Upto
  <2> QED BY <1>1, <2>1, <2>2, FS_Subset
<1>3. k \in Int /\ l \in Int
  OBVIOUS
<1>4. Cardinality(Upto(k)) = Cardinality(Upto(l))
  OBVIOUS
<1> HIDE DEF Upto
<1> QED BY <1>2, <1>3, <1>4

LEMMA NthIsOne ==
  ASSUME NEW N \in Nat, NEW S \in SUBSET (1..N),
         NEW m \in 1..Cardinality(S), NEW n \in 1..Cardinality(S), Nth(S, m) = Nth(S, n)
  PROVE  m = n
<1>1. PICK k : k = Nth(S, m)
  OBVIOUS
<1>2. Cardinality({j \in S : j <= k}) = m
  BY <1>1, NthIsThere
<1>3. Cardinality({j \in S : j <= k}) = n
  BY <1>1, NthIsThere
<1> QED BY <1>2, <1>3

LEMMA NthOfAll ==
  ASSUME NEW N \in Nat, NEW S \in SUBSET (1..N), NEW k \in S
  PROVE  /\ Cardinality({j \in S : j <= k}) \in 1..Cardinality(S)
         /\ Nth(S, Cardinality({j \in S : j <= k})) = k
<1> DEFINE T == {j \in S : j <= k}
           n == Cardinality(T)
<1>1. IsFiniteSet(S)
  <2>1. IsFiniteSet(1..N)
    BY FS_Interval
  <2> QED BY <2>1, FS_Subset
<1>2. T \in SUBSET S /\ k \in T
  OBVIOUS
<1>3. IsFiniteSet(T) /\ n <= Cardinality(S) /\ n \in Nat /\ Cardinality(S) \in Nat
  <2> HIDE DEF T
  <2> QED BY <1>1, <1>2, FS_Subset, FS_CardinalityType
<1>4. n # 0
  <2> HIDE DEF T
  <2> QED BY <1>2, <1>3, FS_EmptySet
<1>5. n \in 1..Cardinality(S)
  <2> HIDE DEF n
  <2> QED BY <1>3, <1>4
<1>6. PICK m : m = n
  OBVIOUS
<1>7. Nth(S, m) \in S /\ Cardinality({j \in S : j <= Nth(S, m)}) = m
  BY <1>5, <1>6, NthIsThere
<1>8. Nth(S, m) = k
  <2>1. Cardinality(UpTo(S, k)) = m /\ Cardinality(UpTo(S, Nth(S, m))) = m
    BY <1>6, <1>7 DEF UpTo
  <2> QED BY <1>7, <2>1, NthIsOnly
<1> QED BY <1>5, <1>6, <1>8

\* Strips drawn one after the other are not the same.
LEMMA NewIdIsOne ==
  ASSUME NEW k \in Nat, CanDraw(k), NEW m \in 1..k, NEW n \in 1..k, NewId(m) = NewId(n)
  PROVE  m = n
<1>1. MaxIds \in Nat /\ UnusedIds \in SUBSET (1..MaxIds)
  BY ConstantsAssumption DEF UnusedIds
<1>2. Cardinality(UnusedIds) \in Nat
  <2>1. IsFiniteSet(1..MaxIds)
    BY <1>1, FS_Interval
  <2> QED BY <1>1, <2>1, FS_Subset, FS_CardinalityType
<1>3. m \in 1..Cardinality(UnusedIds) /\ n \in 1..Cardinality(UnusedIds)
  BY <1>2 DEF CanDraw
<1>4. Nth(UnusedIds, m) = Nth(UnusedIds, n)
  BY DEF NewId
<1> QED BY <1>1, <1>3, <1>4, NthIsOne

LEMMA NewStripsAreDistinct ==
  ASSUME NEW drawn \in Nat, NEW n \in Nat, CanDraw(drawn + n), NEW m
  PROVE  Distinct(NewStrips(drawn, n, m))
<1>1. DOMAIN NewStrips(drawn, n, m) = 1..n
  BY DEF NewStrips
<1>2. \A i \in 1..n : NewStrips(drawn, n, m)[i].id = NewId(drawn + i)
  BY DEF NewStrips, Blank
<1>3. ASSUME NEW i \in 1..n, NEW j \in 1..n, NewId(drawn + i) = NewId(drawn + j) PROVE i = j
  <2>1. drawn + n \in Nat /\ drawn + i \in 1..(drawn + n) /\ drawn + j \in 1..(drawn + n)
    OBVIOUS
  <2>2. drawn + i = drawn + j
    BY <1>3, <2>1, NewIdIsOne
  <2> QED BY <2>2
<1> QED BY <1>1, <1>2, <1>3 DEF Distinct

LEMMA NewProfilesAreDistinct ==
  ASSUME Apart(profiles), NEW counts \in SUBSET Nat, NEW sources \in SUBSET DOMAIN profiles
  PROVE  \A x \in NewProfiles(counts, sources) : Distinct(x)
<1>1. ASSUME NEW n \in counts, CanDraw(n) PROVE Distinct(NewStrips(0, n, FALSE))
  <2>1. n \in Nat /\ 0 + n = n
    OBVIOUS
  <2> QED BY <1>1, <2>1, NewStripsAreDistinct
<1>2. ASSUME NEW p \in sources, CanDraw(Len(profiles[p])) PROVE Distinct(Renewed(profiles[p]))
  <2>1. PICK x : x = profiles[p]
    OBVIOUS
  <2>2. x \in Seq(StripsOf(OwnIds(p, profiles)))
    BY <2>1 DEF Apart, OwnLists
  <2>3. Len(x) \in Nat /\ DOMAIN x = 1..Len(x) /\ \A i \in 1..Len(x) : x[i] \in StripsOf(OwnIds(p, profiles))
    BY <2>2
  <2>4. DOMAIN Renewed(x) = 1..Len(x) /\ \A i \in 1..Len(x) : Renewed(x)[i].id = NewId(i)
    BY <2>3 DEF Renewed, StripsOf
  <2>5. \A i, j \in 1..Len(x) : NewId(i) = NewId(j) => i = j
    BY <1>2, <2>1, <2>3, NewIdIsOne
  <2> QED BY <2>1, <2>4, <2>5 DEF Distinct
<1> QED BY <1>1, <1>2 DEF NewProfiles

LEMMA JoinDistinct ==
  ASSUME NEW S, NEW x \in Seq(S), NEW y \in Seq(S), Distinct(x), Distinct(y),
         Ids(x) \cap Ids(y) = {}
  PROVE  Distinct(x \o y)
<1> DEFINE z == x \o y
<1>1. /\ DOMAIN x = 1..Len(x) /\ DOMAIN y = 1..Len(y) /\ Len(x) \in Nat /\ Len(y) \in Nat
      /\ DOMAIN z = 1..(Len(x) + Len(y))
  BY ConcatProperties
<1>2. /\ \A i \in 1..Len(x) : z[i] = x[i]
      /\ \A i \in 1..Len(y) : z[Len(x) + i] = y[i]
  BY <1>1, ConcatProperties
<1>3. \A i \in DOMAIN z : \/ i \in 1..Len(x) /\ z[i] = x[i]
                          \/ i - Len(x) \in 1..Len(y) /\ z[i] = y[i - Len(x)]
  BY <1>1, <1>2
<1> HIDE DEF z
<1>4. /\ \A i \in 1..Len(x) : x[i].id \in Ids(x)
      /\ \A i \in 1..Len(y) : y[i].id \in Ids(y)
  BY <1>1 DEF Ids
<1>5. ASSUME NEW i \in DOMAIN z, NEW j \in DOMAIN z, z[i].id = z[j].id PROVE i = j
  <2>1. CASE i \in 1..Len(x) /\ z[i] = x[i] /\ j \in 1..Len(x) /\ z[j] = x[j]
    BY <1>1, <1>5, <2>1 DEF Distinct
  <2>2. CASE /\ i - Len(x) \in 1..Len(y) /\ z[i] = y[i - Len(x)]
             /\ j - Len(x) \in 1..Len(y) /\ z[j] = y[j - Len(x)]
    <3>1. i - Len(x) = j - Len(x)
      BY <1>1, <1>5, <2>2 DEF Distinct
    <3> QED BY <1>1, <3>1
  <2>3. CASE i \in 1..Len(x) /\ z[i] = x[i] /\ j - Len(x) \in 1..Len(y) /\ z[j] = y[j - Len(x)]
    BY <1>4, <1>5, <2>3
  <2>4. CASE j \in 1..Len(x) /\ z[j] = x[j] /\ i - Len(x) \in 1..Len(y) /\ z[i] = y[i - Len(x)]
    BY <1>4, <1>5, <2>4
  <2> QED BY <1>3, <2>1, <2>2, <2>3, <2>4
<1> QED BY <1>5 DEF Distinct, z

\* The strips at the positions kept, in their order.
Selection(y, x, kept) ==
  /\ Len(y) = Cardinality(kept)
  /\ \A n \in 1..Len(y) : Nth(kept, n) \in kept /\ y[n] = x[Nth(kept, n)]
  /\ Ids(y) = {x[i].id : i \in kept}
  /\ Distinct(x) => Distinct(y)
Rest(x, gone) == {i \in DOMAIN x : i \notin gone}

LEMMA Keeps ==
  ASSUME NEW S, NEW x \in Seq(S), NEW gone
  PROVE  Selection(Keep(x, gone), x, Rest(x, gone))
<1> DEFINE kept == Rest(x, gone)
           y == Keep(x, gone)
           n == Cardinality(kept)
<1>1. Len(x) \in Nat /\ DOMAIN x = 1..Len(x)
  OBVIOUS
<1>2. kept \in SUBSET (1..Len(x))
  BY <1>1 DEF Rest
<1>3. n \in Nat
  <2>1. IsFiniteSet(1..Len(x))
    BY <1>1, FS_Interval
  <2> QED BY <1>2, <2>1, FS_Subset, FS_CardinalityType
<1>4. y = [m \in 1..n |-> x[Nth(kept, m)]]
  BY DEF Keep, Rest
<1> HIDE DEF kept, y, n
<1>5. Len(y) = n /\ DOMAIN y = 1..n /\ \A m \in 1..n : y[m] = x[Nth(kept, m)]
  BY <1>3, <1>4
<1>6. \A m \in 1..n : Nth(kept, m) \in kept
  BY <1>1, <1>2, NthIsThere DEF n
<1>7. Ids(y) \subseteq {x[i].id : i \in kept}
  BY <1>5, <1>6 DEF Ids
<1>8. ASSUME NEW i \in kept PROVE x[i].id \in Ids(y)
  <2>1. PICK m : m = Cardinality({j \in kept : j <= i})
    OBVIOUS
  <2>2. m \in 1..n /\ Nth(kept, m) = i
    BY <1>1, <1>2, <2>1, NthOfAll DEF n
  <2> QED BY <1>5, <2>2 DEF Ids
<1>9. ASSUME Distinct(x) PROVE Distinct(y)
  <2>1. ASSUME NEW l \in 1..n, NEW m \in 1..n, y[l].id = y[m].id PROVE l = m
    <3>1. Nth(kept, l) \in DOMAIN x /\ Nth(kept, m) \in DOMAIN x
      BY <1>1, <1>2, <1>6
    <3>2. Nth(kept, l) = Nth(kept, m)
      BY <1>5, <1>9, <2>1, <3>1 DEF Distinct
    <3> QED BY <1>1, <1>2, <3>2, NthIsOne DEF n
  <2> QED BY <1>5, <2>1 DEF Distinct
<1>10. Ids(y) = {x[i].id : i \in kept}
  BY <1>7, <1>8
<1> QED BY <1>5, <1>6, <1>9, <1>10 DEF y, n, kept, Selection
-----------------------------------------------------------------------------
(***************************************************************************)
(* Types: every file and every write still to be done has strips with ids  *)
(* of their own, and config.json holds values of the configuration.        *)
(***************************************************************************)
Configs == [mode : Modes, hw : HwCounts, midi : Nat, active : 1..MaxProfiles]

WriteSound(w) ==
  IF w.to = Config THEN w.data \in Configs /\ ~w.fatal /\ w.back = None
  ELSE w.why # "delete" => Distinct(w.data)
WritesSound(s) == IsList(s) /\ \A i \in DOMAIN s : WriteSound(s[i])

FilesDistinct(files) == \A p \in DOMAIN files : Distinct(files[p])

Sound ==
  /\ hwCount \in HwCounts /\ saved \in Configs /\ active \in 1..MaxProfiles
  /\ running \in BOOLEAN /\ whole \in BOOLEAN /\ (~running => channels = <<>>)
  /\ FilesDistinct(profiles) /\ WritesSound(todo)

LEMMA NoWritesSound == WritesSound(<<>>)
BY DEF WritesSound, IsList

LEMMA OneWriteSound == ASSUME NEW w, WriteSound(w) PROVE WritesSound(<<w>>)
<1>1. <<w>> \in Seq({w}) /\ DOMAIN <<w>> = {1} /\ <<w>>[1] = w
  OBVIOUS
<1> QED BY <1>1, ListOf DEF WritesSound

LEMMA MoreWritesSound ==
  ASSUME NEW s, NEW t, WritesSound(s), WritesSound(t)
  PROVE  WritesSound(s \o t)
<1> DEFINE S == {s[i] : i \in DOMAIN s} \cup {t[i] : i \in DOMAIN t}
<1>1. s \in Seq(S) /\ t \in Seq(S)
  BY DEF WritesSound, IsList
<1>2. s \o t \in Seq(S) /\ Len(s \o t) = Len(s) + Len(t)
  BY <1>1
<1>3. \A i \in DOMAIN (s \o t) : \/ i \in DOMAIN s /\ (s \o t)[i] = s[i]
                                 \/ i - Len(s) \in DOMAIN t /\ (s \o t)[i] = t[i - Len(s)]
  BY <1>1, <1>2
<1> QED BY <1>2, <1>3, ListOf DEF WritesSound

LEMMA ThreeWritesSound ==
  ASSUME NEW u, NEW v, NEW w, WriteSound(u), WriteSound(v), WriteSound(w)
  PROVE  WritesSound(<<u, v>>) /\ WritesSound(<<u, v, w>>)
<1>1. /\ <<u, v>> \in Seq({u, v}) /\ DOMAIN <<u, v>> = 1..2
      /\ <<u, v, w>> \in Seq({u, v, w}) /\ DOMAIN <<u, v, w>> = 1..3
  OBVIOUS
<1>2. IsList(<<u, v>>) /\ IsList(<<u, v, w>>)
  BY <1>1, ListOf
<1>3. (\A i \in 1..2 : <<u, v>>[i] \in {u, v}) /\ \A i \in 1..3 : <<u, v, w>>[i] \in {u, v, w}
  OBVIOUS
<1>4. \A x \in {u, v, w} : WriteSound(x)
  OBVIOUS
<1> QED BY <1>1, <1>2, <1>3, <1>4, Zenon DEF WritesSound

LEMMA RestSound == ASSUME NEW s, s # <<>>, WritesSound(s)
                   PROVE  WriteSound(Head(s)) /\ WritesSound(Tail(s))
<1> DEFINE S == {s[i] : i \in DOMAIN s}
<1>1. s \in Seq(S)
  BY DEF WritesSound, IsList
<1>2. Tail(s) \in Seq(S) /\ Len(Tail(s)) = Len(s) - 1 /\ 1 \in DOMAIN s /\ Head(s) = s[1]
  BY <1>1
<1>3. \A i \in DOMAIN Tail(s) : i + 1 \in DOMAIN s /\ Tail(s)[i] = s[i + 1]
  BY <1>1, <1>2
<1>4. IsList(Tail(s))
  BY <1>2, ListOf
<1> QED BY <1>2, <1>3, <1>4 DEF WritesSound

LEMMA ConfigSound ==
  ASSUME NEW mode \in Modes, NEW hw \in HwCounts, NEW midi \in Nat, NEW a \in 1..MaxProfiles
  PROVE  WriteSound(ConfigWrite(ConfigData(mode, hw, midi, a)))
BY DEF WriteSound, ConfigWrite, ConfigData, Configs

LEMMA ProfileSound ==
  ASSUME NEW p \in Nat \ {0}, NEW x, Distinct(x), NEW why, NEW removed
  PROVE  WriteSound(ProfileWrite(p, x, why)) /\ WriteSound(Resize(p, x, removed))
BY DEF WriteSound, ProfileWrite, Resize, Config

LEMMA RoutineIsDistinct ==
  ASSUME NEW I, NEW p, HasOwn(I, p), NEW stored \in Seq(StripsOf(I)), NEW x \in Seq(StripsOf(I)),
         Distinct(stored)
  PROVE  Distinct(RoutineSave(p, stored, x))
<1>1. Len(stored) \in Nat /\ Len(x) \in Nat
  OBVIOUS
<1>2. CASE Len(x) < Len(stored)
  BY <1>2 DEF RoutineSave
<1>3. CASE ~(Len(x) < Len(stored))
  <2>1. \A i \in 1..Len(stored) : x[i] \in StripsOf(I)
    BY <1>1, <1>3
  <2>2. SubSeq(x, 1, Len(stored)) \in Seq(StripsOf(I))
    BY <1>1, <2>1, SubSeqProperties
  <2> QED BY <1>1, <1>3, <2>2, ReconciledIsDistinct DEF RoutineSave
<1> QED BY <1>2, <1>3

LEMMA RoutineSound ==
  ASSUME NEW p \in Nat \ {0}, NEW files, Apart(files), NEW stored \in OwnLists(p, files),
         NEW x \in OwnLists(p, files), NEW back, Distinct(stored)
  PROVE  WritesSound(RoutineWrites(p, stored, x, back))
<1> DEFINE y == RoutineSave(p, stored, x)
           w == [ProfileWrite(p, y, "routine") EXCEPT !.back = back]
<1>1. Distinct(y)
  BY OwnLegacy, RoutineIsDistinct DEF OwnLists
<1> HIDE DEF y
<1>2. WriteSound(w)
  BY <1>1 DEF WriteSound, ProfileWrite, Config
<1>3. RoutineWrites(p, stored, x, back) \in {<<>>, <<w>>}
  BY DEF RoutineWrites, y
<1> HIDE DEF w
<1> QED BY <1>2, <1>3, NoWritesSound, OneWriteSound

LEMMA ResizeSound ==
  ASSUME NEW p \in Nat \ {0}, NEW files, Apart(files), NEW stored \in OwnLists(p, files),
         NEW x \in OwnLists(p, files), NEW target \in Nat, NEW removed
  PROVE  WriteSound(Resize(p, ResizeSave(p, stored, x, target), removed))
<1>1. HasOwn(OwnIds(p, files), p)
  BY OwnLegacy
<1>2. PICK y \in Seq(StripsOf(OwnIds(p, files))) :
        ResizeSave(p, stored, x, target) = NormalizeProfileChannels(p, y)
  BY <1>1, ResizeSaveFits DEF OwnLists
<1>3. Distinct(ResizeSave(p, stored, x, target))
  BY <1>1, <1>2, NormalizedIsDistinct
<1> QED BY <1>3, ProfileSound

LEMMA SwitchSound ==
  ASSUME Readings, hwCount \in HwCounts, NEW p \in 1..MaxProfiles, NEW files, Apart(files),
         NEW x \in OwnLists(p, files), Distinct(x),
         NEW then, WritesSound(then), NEW back, SwitchTo(p, x, then, back)
  PROVE  WritesSound(todo') /\ whole' \in BOOLEAN
<1> DEFINE first  == <<ConfigWrite(ConfigData(inputMode, hwCount, midiCount', p))>>
           Second(shown) == IF shown # x THEN RoutineWrites(p, x, shown, back) ELSE <<>>
<1>0. p \in Nat \ {0}
  BY ConstantsAssumption
<1>1. ApplyProfile(x) /\ todo' = first \o Second(channels') \o then
  BY DEF SwitchTo
<1>2. channels' \in OwnLists(p, files) /\ midiCount' \in Nat
  BY <1>1, Applied DEF OwnLists
<1>3. WritesSound(first)
  BY <1>2, ConfigSound, OneWriteSound DEF Readings
<1>4. \A shown \in OwnLists(p, files) : WritesSound(Second(shown))
  BY <1>0, RoutineSound, NoWritesSound
<1>5. PICK second : second = Second(channels')
  OBVIOUS
<1>6. WritesSound(second)
  <2> HIDE DEF Second
  <2> QED BY <1>2, <1>4, <1>5
<1> HIDE DEF first, Second
<1>7. WritesSound(first \o second \o then)
  BY <1>3, <1>6, MoreWritesSound
<1>8. whole' \in BOOLEAN
  BY <1>1 DEF ApplyProfile, CountsAgree
<1> QED BY <1>1, <1>5, <1>7, <1>8

LEMMA ActiveNumber == ASSUME StoreInv, running PROVE active \in 1..MaxProfiles /\ active \in DOMAIN profiles
BY DEF StoreInv, ActiveKnown, ProfilesKnown

\* What holds when a handler begins, and what it leaves as it is.
LEMMA BeginsSound ==
  ASSUME ApartInv, Sound, Ready
  PROVE  /\ active \in 1..MaxProfiles /\ active \in DOMAIN profiles
         /\ DOMAIN profiles \subseteq 1..MaxProfiles
         /\ \A p \in DOMAIN profiles : p \in Nat \ {0} /\ profiles[p] \in OwnLists(p, profiles)
                                       /\ Distinct(profiles[p])
         /\ \A p \in 1..MaxProfiles : p \in Nat \ {0}
         /\ channels \in OwnLists(active, profiles)
<1>1. StoreInv /\ running /\ Apart(profiles) /\ channels \in OwnLists(active, profiles)
  BY DEF ApartInv, Lists, Ready
<1>2. \A p \in 1..MaxProfiles : p \in Nat \ {0}
  BY ConstantsAssumption
<1> QED BY <1>1, <1>2, ActiveNumber DEF Apart, Sound, FilesDistinct, StoreInv, ProfilesKnown

\* A handler leaves the program running.
LEMMA SoundStep ==
  ASSUME ApartInv', running', UNCHANGED saved, Sound, hwCount' \in HwCounts, whole' \in BOOLEAN,
         FilesDistinct(profiles'), WritesSound(todo')
  PROVE  Sound'
<1>1. active' \in 1..MaxProfiles
  BY DEF ApartInv, StoreInv, ActiveKnown, ProfilesKnown
<1> QED BY <1>1 DEF Sound

LEMMA SwitchSoundStep ==
  ASSUME ApartInv, ApartInv', Sound, NEW p \in DOMAIN profiles, SwitchProfile(p) PROVE Sound'
<1>1. Ready /\ UNCHANGED <<hwCount, saved, profiles, running>>
  BY DEF SwitchProfile
<1>2. Readings /\ Apart(profiles) /\ hwCount \in HwCounts /\ running
  BY <1>1 DEF ApartInv, Lists, Sound, Ready
<1>3. p \in 1..MaxProfiles /\ profiles[p] \in OwnLists(p, profiles) /\ Distinct(profiles[p])
  BY <1>1, BeginsSound
<1>4. PICK back \in {None, active} : SwitchTo(p, profiles[p], <<>>, back)
  BY DEF SwitchProfile
<1>5. WritesSound(todo') /\ whole' \in BOOLEAN
  BY <1>2, <1>3, <1>4, NoWritesSound, SwitchSound
<1> QED BY <1>1, <1>2, <1>5, SoundStep DEF Sound

LEMMA AddedSound ==
  ASSUME Sound, NEW p, NEW x, Distinct(x) PROVE FilesDistinct(With(p, x))
BY DEF Sound, FilesDistinct, With

LEMMA CreateSoundStep == ASSUME ApartInv, ApartInv', Sound, CreateProfile PROVE Sound'
<1> DEFINE p == NextProfileId
<1>1. Ready /\ Room /\ UNCHANGED <<hwCount, saved, running>>
  BY DEF CreateProfile
<1>2. /\ Readings /\ Apart(profiles) /\ hwCount \in HwCounts /\ running
      /\ active \in DOMAIN profiles /\ StoreInv
  BY <1>1, BeginsSound DEF ApartInv, Lists, Sound, Ready
<1>3. PICK x \in NewProfiles({hwCount}, {active}) :
        profiles' = With(p, x) /\ SwitchTo(p, x, <<>>, None)
  BY DEF CreateProfile
<1>4. x \in Seq(StripsOf(FreshIds)) /\ Distinct(x)
  BY <1>2, NewProfilesAreFresh, NewProfilesAreDistinct DEF Readings
<1>5. p \in 1..MaxProfiles /\ Apart(profiles') /\ x \in OwnLists(p, profiles')
  BY <1>1, <1>2, <1>3, <1>4, ProfileAdded, FreeProfileId DEF StoreInv
<1>6. FilesDistinct(profiles')
  BY <1>3, <1>4, AddedSound
<1> HIDE DEF p
<1>7. WritesSound(todo') /\ whole' \in BOOLEAN
  BY <1>2, <1>3, <1>4, <1>5, NoWritesSound, SwitchSound
<1> QED BY <1>1, <1>2, <1>6, <1>7, SoundStep

LEMMA CreateRemotelySoundStep == ASSUME ApartInv, ApartInv', Sound, CreateProfileRemotely PROVE Sound'
<1>1. Ready /\ Room /\ UNCHANGED <<config, channels, saved, todo, running, whole>>
  BY DEF CreateProfileRemotely
<1>2. Readings /\ Apart(profiles) /\ todo = <<>> /\ running
  BY <1>1, Begins
<1>3. PICK x \in NewProfiles(HwCounts, DOMAIN profiles) : profiles' = With(NextProfileId, x)
  BY DEF CreateProfileRemotely
<1>4. Distinct(x)
  BY <1>2, <1>3, NewProfilesAreDistinct, ConstantsAssumption
<1>5. FilesDistinct(profiles')
  BY <1>3, <1>4, AddedSound
<1> QED BY <1>1, <1>2, <1>5, SoundStep, NoWritesSound DEF Sound, config

LEMMA DroppedSound == ASSUME Sound, NEW p PROVE FilesDistinct(Without(p))
BY DEF Sound, FilesDistinct, Without

LEMMA DeleteSoundStep == ASSUME ApartInv, ApartInv', Sound, DeleteProfile PROVE Sound'
<1> DEFINE next == First(DOMAIN profiles \ {active})
<1>1. /\ Ready /\ Deletable(active) /\ UNCHANGED <<hwCount, saved, running>>
      /\ profiles' = Without(active) /\ SwitchTo(next, profiles[next], <<>>, None)
  BY DEF DeleteProfile
<1>2. Readings /\ Apart(profiles) /\ hwCount \in HwCounts /\ running
  BY <1>1 DEF ApartInv, Lists, Sound, Ready
<1>3. next \in DOMAIN profiles
  BY <1>1, OthersRemain DEF ApartInv, StoreInv
<1> HIDE DEF next
<1>4. next \in 1..MaxProfiles /\ profiles[next] \in OwnLists(next, profiles) /\ Distinct(profiles[next])
  BY <1>1, <1>3, BeginsSound
<1>5. WritesSound(todo') /\ whole' \in BOOLEAN
  BY <1>1, <1>2, <1>4, NoWritesSound, SwitchSound
<1>6. FilesDistinct(profiles')
  BY <1>1, DroppedSound
<1> QED BY <1>1, <1>2, <1>5, <1>6, SoundStep

LEMMA DeleteRemotelySoundStep ==
  ASSUME ApartInv, ApartInv', Sound, NEW p \in DOMAIN profiles, DeleteProfileRemotely(p) PROVE Sound'
<1> DEFINE next == First(DOMAIN profiles \ {p})
<1>1. Ready /\ Deletable(p) /\ UNCHANGED <<hwCount, saved, running>>
  BY DEF DeleteProfileRemotely
<1>2. Readings /\ Apart(profiles) /\ hwCount \in HwCounts /\ running /\ todo = <<>>
  BY <1>1 DEF ApartInv, Lists, Sound, Ready
<1>3. CASE p = active
  <2>1. next \in DOMAIN profiles
    BY <1>1, OthersRemain DEF ApartInv, StoreInv
  <2>2. SwitchTo(next, profiles[next], <<Unlink(p)>>, p) /\ UNCHANGED profiles
    BY <1>3 DEF DeleteProfileRemotely
  <2> HIDE DEF next
  <2>3. next \in 1..MaxProfiles /\ profiles[next] \in OwnLists(next, profiles) /\ Distinct(profiles[next])
    BY <1>1, <2>1, BeginsSound
  <2>4. WritesSound(<<Unlink(p)>>)
    <3>1. p \in Nat \ {0}
      BY <1>1, BeginsSound
    <3>2. WriteSound(Unlink(p))
      BY <3>1 DEF WriteSound, Unlink, ProfileWrite, Config
    <3> QED BY <3>2, OneWriteSound
  <2>5. WritesSound(todo') /\ whole' \in BOOLEAN
    BY <1>2, <2>2, <2>3, <2>4, SwitchSound
  <2> QED BY <1>1, <1>2, <2>2, <2>5, SoundStep DEF Sound
<1>4. CASE p # active
  <2>1. profiles' = Without(p) /\ UNCHANGED <<todo, whole>>
    BY <1>4 DEF DeleteProfileRemotely
  <2>2. FilesDistinct(profiles')
    BY <2>1, DroppedSound
  <2> QED BY <1>1, <1>2, <2>1, <2>2, SoundStep DEF Sound
<1> QED BY <1>3, <1>4

LEMMA AssignSoundStep == ASSUME ApartInv, ApartInv', Sound, NEW i, AssignTarget(i) PROVE Sound'
<1>1. /\ Ready /\ UNCHANGED <<config, saved, profiles, running, whole>>
      /\ todo' = RoutineWrites(active, profiles[active], channels', None)
  BY DEF AssignTarget
<1>2. /\ Apart(profiles) /\ active \in Nat \ {0} /\ running
      /\ profiles[active] \in OwnLists(active, profiles) /\ Distinct(profiles[active])
  BY <1>1, BeginsSound DEF ApartInv, Lists, Ready
<1>3. PICK x : x = channels'
  OBVIOUS
<1>4. x \in OwnLists(active, profiles)
  BY <1>1, <1>2, <1>3 DEF ApartInv, Lists, config
<1>5. WritesSound(todo')
  BY <1>1, <1>2, <1>3, <1>4, RoutineSound
<1> QED BY <1>1, <1>2, <1>5, SoundStep DEF Sound, config

LEMMA ModeSoundStep == ASSUME ApartInv, ApartInv', Sound, NEW mode \in Modes, ChangeInputMode(mode)
                       PROVE  Sound'
<1> DEFINE Written(midi) == ConfigWrite(ConfigData(mode, hwCount, midi, active))
           Saved(x) == Resize(active, ResizeSave(active, profiles[active], x, Len(x)), {})
<1>1. /\ Ready /\ UNCHANGED <<hwCount, active, saved, profiles, running, whole>>
      /\ todo' = <<Written(midiCount'), Saved(channels'), Written(midiCount')>>
  BY DEF ChangeInputMode
<1>2. /\ Apart(profiles) /\ active \in Nat \ {0} /\ running /\ active \in 1..MaxProfiles
      /\ profiles[active] \in OwnLists(active, profiles) /\ hwCount \in HwCounts
  BY <1>1, BeginsSound DEF ApartInv, Lists, Ready, Sound
<1>3. PICK x, midi : x = channels' /\ midi = midiCount'
  OBVIOUS
<1>4. x \in OwnLists(active, profiles) /\ midi \in Nat
  BY <1>1, <1>2, <1>3 DEF ApartInv, Lists, Readings
<1>5. Len(x) \in Nat
  BY <1>4, LenProperties DEF OwnLists
<1>6. WriteSound(Written(midi)) /\ WriteSound(Saved(x))
  BY <1>2, <1>4, <1>5, ConfigSound, ResizeSound
<1> HIDE DEF Written, Saved
<1>7. WritesSound(todo')
  BY <1>1, <1>3, <1>6, ThreeWritesSound
<1> QED BY <1>1, <1>2, <1>7, SoundStep DEF Sound

LEMMA AddMidiSoundStep == ASSUME ApartInv, ApartInv', Sound, AddMidiChannel PROVE Sound'
<1> DEFINE Written(midi) == ConfigWrite(ConfigData(inputMode, hwCount, midi, active))
           Saved(x, n) == Resize(active, ResizeSave(active, profiles[active], x, n), {})
<1>1. /\ Ready /\ UNCHANGED <<inputMode, hwCount, active, saved, profiles, running, whole>>
      /\ todo' = <<Written(midiCount'),
                   Saved(channels', NumChannels(inputMode, hwCount, midiCount'))>>
  BY DEF AddMidiChannel
<1>2. /\ Apart(profiles) /\ active \in Nat \ {0} /\ running /\ active \in 1..MaxProfiles /\ Readings
      /\ profiles[active] \in OwnLists(active, profiles) /\ hwCount \in HwCounts
  BY <1>1, BeginsSound DEF ApartInv, Lists, Ready, Sound
<1>3. PICK x, midi : x = channels' /\ midi = midiCount'
  OBVIOUS
<1>4. x \in OwnLists(active, profiles) /\ midi \in Nat
  BY <1>1, <1>2, <1>3 DEF ApartInv, Lists, Readings
<1>5. PICK n \in Nat : n = NumChannels(inputMode, hwCount, midi)
  BY <1>2, <1>4, NumbersOfStrips DEF Readings
<1>6. WriteSound(Written(midi)) /\ WriteSound(Saved(x, n))
  BY <1>2, <1>4, <1>5, ConfigSound, ResizeSound DEF Readings
<1> HIDE DEF Written, Saved
<1>7. WritesSound(todo')
  BY <1>1, <1>3, <1>5, <1>6, ThreeWritesSound
<1> QED BY <1>1, <1>2, <1>7, SoundStep DEF Sound

LEMMA RemoveMidiSoundStep ==
  ASSUME ApartInv, ApartInv', Sound, NEW gone, RemoveMidiChannels(gone) PROVE Sound'
<1> DEFINE removed == {channels[i].id : i \in gone}
           order == ProfileWrite(active, profiles[active], "order")
           Written(midi) == ConfigWrite(ConfigData(inputMode, hwCount, midi, active))
           Saved(x, n) == Resize(active, ResizeSave(active, profiles[active], x, n), removed)
<1>1. /\ Ready /\ UNCHANGED <<inputMode, hwCount, active, saved, profiles, running, whole>>
      /\ todo' = <<order, Written(midiCount'),
                   Saved(channels', NumChannels(inputMode, hwCount, midiCount'))>>
  BY DEF RemoveMidiChannels, Reorder
<1>2. /\ Apart(profiles) /\ active \in Nat \ {0} /\ running /\ active \in 1..MaxProfiles /\ Readings
      /\ profiles[active] \in OwnLists(active, profiles) /\ hwCount \in HwCounts
      /\ Distinct(profiles[active])
  BY <1>1, BeginsSound DEF ApartInv, Lists, Ready, Sound
<1>3. PICK x, midi : x = channels' /\ midi = midiCount'
  OBVIOUS
<1>4. x \in OwnLists(active, profiles) /\ midi \in Nat
  BY <1>1, <1>2, <1>3 DEF ApartInv, Lists, Readings
<1>5. PICK n \in Nat : n = NumChannels(inputMode, hwCount, midi)
  BY <1>2, <1>4, NumbersOfStrips DEF Readings
<1>6. WriteSound(Written(midi)) /\ WriteSound(Saved(x, n)) /\ WriteSound(order)
  BY <1>2, <1>4, <1>5, ConfigSound, ResizeSound, ProfileSound DEF Readings
<1> HIDE DEF Written, Saved, order
<1>7. WritesSound(todo')
  BY <1>1, <1>3, <1>5, <1>6, ThreeWritesSound
<1> QED BY <1>1, <1>2, <1>7, SoundStep DEF Sound

LEMMA CountSoundStep == ASSUME ApartInv, ApartInv', Sound, NEW n \in HwCounts, ChannelCountChanged(n)
                        PROVE  Sound'
<1> DEFINE Repair(p, strips, shown) ==
             IF shown # strips
               THEN <<ProfileWrite(p, RoutineSave(p, strips, shown), "hardware")>> ELSE <<>>
           Counted(p, count) ==
             IF n # hwCount THEN <<ConfigWrite(ConfigData(inputMode, n, count, p))>> ELSE <<>>
           Rebuilt(strips) == RebuildPartition(inputMode, hwCount, strips)
           Count(strips) == AppliedMidiCount(inputMode, hwCount, strips)
           new == NextProfileId
<1>1. Ready /\ hwCount' = n /\ UNCHANGED <<inputMode, saved, running>>
  BY DEF ChannelCountChanged
<1>2. /\ Readings /\ Apart(profiles) /\ n \in Nat /\ hwCount \in HwCounts /\ running
      /\ FilesDistinct(profiles) /\ whole \in BOOLEAN
      /\ active \in 1..MaxProfiles /\ midiCount \in Nat
  BY <1>1, BeginsSound, ConstantsAssumption DEF ApartInv, Lists, Sound, Ready, Readings
<1>3. whole' \in BOOLEAN
  BY <1>2 DEF ChannelCountChanged, CountsAgree
<1>4. \/ profiles' = profiles /\ todo' = <<>> \o Counted(active, midiCount)
      \/ /\ Room
         /\ \E x \in NewProfiles({n}, {}) :
              /\ profiles' = With(new, x)
              /\ todo' = (<<ConfigWrite(ConfigData(inputMode, hwCount, Count(x), new))>>
                          \o Repair(new, x, Rebuilt(x))) \o Counted(new, Count(x))
  <2>1. PICK small \in {n < Usb(profiles[active])} :
        \E x \in IF ~small THEN {channels} ELSE IF Room THEN NewProfiles({n}, {}) ELSE {} :
          LET p     == IF small THEN new ELSE active
              count == IF small THEN Count(x) ELSE midiCount
              shown == IF small THEN Rebuilt(x) ELSE channels
          IN  /\ profiles' = IF small THEN With(p, x) ELSE profiles
              /\ todo' = (IF small
                            THEN <<ConfigWrite(ConfigData(inputMode, hwCount, count, p))>>
                                 \o Repair(p, x, shown)
                            ELSE <<>>) \o Counted(p, count)
    BY DEF ChannelCountChanged
  <2> HIDE DEF Counted, Rebuilt, Count, Repair, new
  <2>2. CASE small
    BY <2>1, <2>2, Zenon
  <2>3. CASE ~small
    BY <2>1, <2>3, Zenon
  <2> QED BY <2>2, <2>3
<1>5. \A p \in 1..MaxProfiles, count \in Nat : WritesSound(Counted(p, count))
  BY <1>2, ConfigSound, OneWriteSound, NoWritesSound DEF Readings
<1>6. CASE profiles' = profiles /\ todo' = <<>> \o Counted(active, midiCount)
  <2> HIDE DEF Counted
  <2>1. WritesSound(todo')
    BY <1>2, <1>5, <1>6, NoWritesSound, MoreWritesSound
  <2> QED BY <1>1, <1>2, <1>3, <1>6, <2>1, SoundStep
<1>7. ASSUME Room, NEW x \in NewProfiles({n}, {}), profiles' = With(new, x),
             todo' = (<<ConfigWrite(ConfigData(inputMode, hwCount, Count(x), new))>>
                      \o Repair(new, x, Rebuilt(x))) \o Counted(new, Count(x))
      PROVE  Sound'
  <2>1. x \in Seq(StripsOf(FreshIds)) /\ Distinct(x)
    BY <1>2, NewProfilesAreFresh, NewProfilesAreDistinct
  <2>2. FilesDistinct(profiles')
    BY <1>7, <2>1, AddedSound
  <2>3. /\ new \in 1..MaxProfiles /\ new \in Nat \ {0} /\ Apart(profiles')
        /\ x \in OwnLists(new, profiles')
    BY <1>1, <1>7, <2>1, ProfileAdded, FreeProfileId DEF ApartInv, StoreInv
  <2> HIDE DEF new
  <2>4. Rebuilt(x) \in OwnLists(new, profiles') /\ Count(x) \in Nat
    BY <1>2, <2>3, RebuildFits, CountIsNumber DEF Readings, OwnLists
  <2> HIDE DEF Rebuilt, Count
  <2>5. \A shown \in OwnLists(new, profiles') : WritesSound(Repair(new, x, shown))
    <3>1. ASSUME NEW shown \in OwnLists(new, profiles') PROVE Distinct(RoutineSave(new, x, shown))
      BY <2>1, <2>3, OwnLegacy, RoutineIsDistinct DEF OwnLists
    <3> QED BY <2>3, <3>1, ProfileSound, OneWriteSound, NoWritesSound
  <2>6. WritesSound(<<ConfigWrite(ConfigData(inputMode, hwCount, Count(x), new))>>)
    BY <1>2, <2>3, <2>4, ConfigSound, OneWriteSound DEF Readings
  <2>7. WritesSound(todo')
    <3> HIDE DEF Repair, Counted
    <3> QED BY <1>5, <1>7, <2>3, <2>4, <2>5, <2>6, MoreWritesSound
  <2> QED BY <1>1, <1>2, <1>3, <2>2, <2>7, SoundStep
<1> HIDE DEF Counted, Rebuilt, Count, Repair, new
<1> QED BY <1>4, <1>6, <1>7

LEMMA ReplaceSoundStep ==
  ASSUME ApartInv, ApartInv', Sound, Ready, NEW p \in DOMAIN profiles, NEW after, Distinct(after),
         ReplaceProfile(p, after)
  PROVE  Sound'
<1>1. UNCHANGED <<hwCount, active, saved, running>> /\ profiles' = [profiles EXCEPT ![p] = after]
  BY DEF ReplaceProfile
<1>2. /\ running /\ todo = <<>> /\ hwCount \in HwCounts /\ whole \in BOOLEAN /\ p \in Nat \ {0}
      /\ Apart(profiles') /\ running'
  BY <1>1, BeginsSound DEF Ready, Sound, ApartInv, Lists
<1>3. FilesDistinct(profiles')
  BY <1>1 DEF Sound, FilesDistinct
<1>4. CASE p = active
  <2>1. PICK x : x = channels'
    OBVIOUS
  <2>2. x \in OwnLists(p, profiles') /\ after \in OwnLists(p, profiles')
    BY <1>1, <1>2, <1>4, <2>1 DEF ApartInv, Lists, Apart
  <2>3. /\ todo' \in {<<>>, RoutineWrites(p, after, x, None)} /\ whole' \in BOOLEAN
    BY <1>4, <2>1 DEF ReplaceProfile, ApplyProfile, CountsAgree
  <2>4. WritesSound(RoutineWrites(p, after, x, None))
    BY <1>2, <2>2, RoutineSound
  <2>5. WritesSound(todo')
    BY <2>3, <2>4, NoWritesSound
  <2> QED BY <1>1, <1>2, <1>3, <2>3, <2>5, SoundStep
<1>5. CASE p # active
  <2>1. UNCHANGED <<todo, whole>>
    BY <1>5 DEF ReplaceProfile
  <2> QED BY <1>1, <1>2, <1>3, <2>1, SoundStep, NoWritesSound
<1> QED BY <1>4, <1>5

\* One more strip under a random id.
LEMMA DrawnDistinct ==
  ASSUME ApartInv, Sound, Ready, NEW p \in DOMAIN profiles, CanDraw(1)
  PROVE  Distinct(profiles[p] \o NewStrips(0, 1, TRUE))
<1> DEFINE I == OwnIds(p, profiles)
           new == NewStrips(0, 1, TRUE)
<1>2. profiles[p] \in Seq(StripsOf(I)) /\ Distinct(profiles[p])
  BY BeginsSound DEF OwnLists
<1>3. new \in Seq(StripsOf(FreshIds)) /\ Distinct(new)
  <2>1. 0 + 1 = 1
    OBVIOUS
  <2> QED BY <2>1, NewStripsAreFresh, NewStripsAreDistinct
<1>4. new \in Seq(StripsOf(I))
  BY <1>3, FreshIsOwn, MoreIds
<1>5. Ids(profiles[p]) \cap Ids(new) = {}
  <2>1. Ids(new) \subseteq FreshIds
    BY <1>3, IdsOfList
  <2>2. FreshIds \cap Ids(profiles[p]) = {}
    BY DEF FreshIds, UnusedIds
  <2> QED BY <2>1, <2>2
<1> HIDE DEF new, I
<1>6. Distinct(profiles[p] \o new)
  BY <1>2, <1>3, <1>4, <1>5, JoinDistinct
<1> QED BY <1>6 DEF new

LEMMA AddRemotelySoundStep ==
  ASSUME ApartInv, ApartInv', Sound, NEW p \in DOMAIN profiles, AddChannelRemotely(p) PROVE Sound'
<1>1. Ready /\ CanDraw(1) /\ ReplaceProfile(p, profiles[p] \o NewStrips(0, 1, TRUE))
  BY DEF AddChannelRemotely
<1> QED BY <1>1, DrawnDistinct, ReplaceSoundStep

LEMMA DeleteRemoteSoundStep ==
  ASSUME ApartInv, ApartInv', Sound, NEW p \in DOMAIN profiles, NEW ids, DeleteChannelsRemotely(p, ids)
  PROVE  Sound'
<1>1. Ready /\ \E gone : ReplaceProfile(p, Keep(profiles[p], gone))
  BY DEF DeleteChannelsRemotely
<1>2. profiles[p] \in Seq(StripsOf(OwnIds(p, profiles))) /\ Distinct(profiles[p])
  BY <1>1, BeginsSound DEF OwnLists
<1>3. \A gone : Distinct(Keep(profiles[p], gone))
  BY <1>2, Keeps DEF Selection
<1> QED BY <1>1, <1>3, ReplaceSoundStep

LEMMA WriteSoundStep == ASSUME ApartInv, ApartInv', Sound, Write PROVE Sound'
<1> DEFINE w == Head(todo)
<1>1. running /\ todo # <<>> /\ todo' = Tail(todo) /\ UNCHANGED <<config, channels, running, whole>>
  BY DEF Write
<1>2. WriteSound(w) /\ WritesSound(todo')
  BY <1>1, RestSound DEF Sound
<1>3. CASE w.to = Config
  <2>1. saved' = w.data /\ profiles' = profiles
    BY <1>3 DEF Write
  <2> QED BY <1>1, <1>2, <1>3, <2>1 DEF Sound, WriteSound, config
<1>4. CASE w.to # Config
  <2>1. /\ saved' = saved
        /\ profiles' = IF w.why = "delete" THEN Without(w.to) ELSE [profiles EXCEPT ![w.to] = w.data]
    BY <1>4 DEF Write
  <2>2. w.why # "delete" => Distinct(w.data)
    BY <1>2, <1>4 DEF WriteSound
  <2> HIDE DEF w
  <2>3. FilesDistinct(profiles')
    BY <2>1, <2>2, DroppedSound DEF FilesDistinct, Sound
  <2> QED BY <1>1, <1>2, <2>1, <2>3 DEF Sound, config
<1> QED BY <1>3, <1>4

LEMMA FailedSoundStep == ASSUME ApartInv, ApartInv', Sound, WriteFails PROVE Sound'
<1> DEFINE w == Head(todo)
<1>1. running /\ todo # <<>> /\ UNCHANGED <<inputMode, hwCount, saved, profiles, running>>
  BY DEF WriteFails
<1>2. Readings /\ Apart(profiles) /\ hwCount \in HwCounts /\ FilesDistinct(profiles)
  BY DEF ApartInv, Lists, Sound
<1>3. CASE w.back # None
  <2>1. SwitchTo(w.back, profiles[w.back], <<>>, None)
    BY <1>3 DEF WriteFails
  <2>2. w.back \in DOMAIN profiles
    BY <1>1, <1>3, FirstWrite DEF ApartInv
  <2> DEFINE p == w.back
  <2> HIDE DEF p
  <2>3. p \in 1..MaxProfiles /\ profiles[p] \in OwnLists(p, profiles) /\ Distinct(profiles[p])
    BY <1>2, <2>2 DEF Apart, FilesDistinct, p, ApartInv, StoreInv, ProfilesKnown
  <2>4. SwitchTo(p, profiles[p], <<>>, None)
    BY <2>1 DEF p
  <2>5. WritesSound(todo') /\ whole' \in BOOLEAN
    BY <1>2, <2>3, <2>4, NoWritesSound, SwitchSound
  <2> QED BY <1>1, <1>2, <2>5, SoundStep
<1>4. CASE w.back = None
  <2>1. todo' \in {<<>>, Tail(todo)} /\ whole' \in BOOLEAN
    <3>1. todo' \in {<<>>, Tail(todo)} /\ whole' = (whole /\ w.to = Config)
      BY <1>4 DEF WriteFails
    <3> QED BY <3>1
  <2>2. WritesSound(todo')
    BY <1>1, <2>1, RestSound, NoWritesSound DEF Sound
  <2> QED BY <1>1, <1>2, <2>1, <2>2, SoundStep
<1> QED BY <1>3, <1>4

LEMMA CrashSoundStep == ASSUME Sound, Crash PROVE Sound'
<1>1. ~running' /\ todo' = <<>> /\ channels' = <<>> /\ whole' /\ UNCHANGED <<config, saved, profiles>>
  BY DEF Crash
<1>2. running' = FALSE /\ whole' = TRUE
  BY DEF Crash
<1> QED BY <1>1, <1>2, NoWritesSound DEF Sound, config

LEMMA StartSoundStep == ASSUME ApartInv, ApartInv', Sound, Start PROVE Sound'
<1>1. UNCHANGED <<saved, profiles>> /\ inputMode' = saved.mode /\ hwCount' = saved.hw /\ running' = TRUE
  BY DEF Start
<1>2. Readings /\ Apart(profiles) /\ FilesDistinct(profiles) /\ saved.hw \in HwCounts
  BY DEF ApartInv, Lists, Sound, Configs
<1>3. PICK p \in DOMAIN profiles : p = active'
  BY <1>1 DEF ApartInv, StoreInv, ActiveKnown
<1>4. p \in Nat \ {0} /\ profiles[p] \in OwnLists(p, profiles) /\ Distinct(profiles[p])
  BY <1>2 DEF Apart, FilesDistinct
<1> DEFINE shown == RebuildPartition(saved.mode, saved.hw, profiles[p])
           repair == ProfileWrite(p, RoutineSave(p, profiles[p], shown), "startup")
<1>5. todo' \in {<<>>, <<repair>>}
  BY <1>3 DEF Start
<1>6. WriteSound(repair)
  <2>1. shown \in OwnLists(p, profiles)
    BY <1>2, <1>4, RebuildFits DEF Readings, OwnLists
  <2> HIDE DEF shown
  <2>2. Distinct(RoutineSave(p, profiles[p], shown))
    BY <1>2, <1>4, <2>1, OwnLegacy, RoutineIsDistinct DEF OwnLists
  <2> QED BY <1>4, <2>2, ProfileSound
<1> HIDE DEF shown, repair
<1>7. WritesSound(todo')
  BY <1>5, <1>6, OneWriteSound, NoWritesSound
<1>8. whole' \in BOOLEAN
  BY DEF Start, CountsAgree
<1> QED BY <1>1, <1>2, <1>7, <1>8, SoundStep

LEMMA InitSound == Init => Sound
<1> SUFFICES ASSUME Init PROVE Sound
  OBVIOUS
<1>1. hwCount \in HwCounts /\ hwCount \in Nat
  <2> DEFINE Largest(n) == \A m \in HwCounts : n >= m
  <2>1. \E n \in HwCounts : Largest(n)
    BY ConstantsAssumption
  <2>2. hwCount = (CHOOSE n \in HwCounts : Largest(n))
    BY DEF Init
  <2> HIDE DEF Largest
  <2> QED BY <2>1, <2>2, ConstantsAssumption
<1>2. 1 \in 1..MaxProfiles /\ active = 1
  BY ConstantsAssumption DEF Init
<1>3. saved \in Configs
  BY <1>1, <1>2 DEF Init, Configs, ConfigData, Modes
<1>4. channels = [i \in 1..hwCount |-> Blank(<<0, i, 0>>, FALSE)] /\ profiles = [p \in {1} |-> channels]
  BY DEF Init
<1>5. Distinct(channels)
  <2>1. DOMAIN channels = 1..hwCount /\ \A i \in 1..hwCount : channels[i].id = <<0, i, 0>>
    BY <1>4 DEF Blank
  <2> QED BY <2>1 DEF Distinct
<1>6. FilesDistinct(profiles)
  BY <1>4, <1>5 DEF FilesDistinct
<1>7. running = TRUE /\ whole = TRUE /\ todo = <<>>
  BY DEF Init
<1> QED BY <1>1, <1>2, <1>3, <1>6, <1>7, NoWritesSound DEF Sound

LEMMA SoundStays == ASSUME ApartInv, ApartInv', Sound, [Next]_vars PROVE Sound'
<1>1. CASE UNCHANGED vars
  <2>1. UNCHANGED <<config, channels, saved, profiles, todo, running, whole>>
    BY <1>1 DEF vars
  <2> QED BY <2>1 DEF Sound, config
<1>2. CASE Operation
  BY <1>2, SwitchSoundStep, DeleteRemotelySoundStep, AddRemotelySoundStep, DeleteRemoteSoundStep,
     CreateSoundStep, CreateRemotelySoundStep, DeleteSoundStep, AssignSoundStep, ModeSoundStep,
     AddMidiSoundStep, RemoveMidiSoundStep, CountSoundStep DEF Operation
<1>3. CASE Write \/ WriteFails \/ Crash \/ Start
  BY <1>3, WriteSoundStep, FailedSoundStep, CrashSoundStep, StartSoundStep
<1> QED BY <1>1, <1>2, <1>3 DEF Next

\* The bounds of the model, which no handler passes.
Counters == faults \in 0..MaxFaults /\ handled \in 0..MaxHandlers

LEMMA CountersStay == ASSUME Counters, [Next]_vars PROVE Counters'
<1>1. MaxFaults \in Nat /\ MaxHandlers \in Nat /\ faults \in 0..MaxFaults /\ handled \in 0..MaxHandlers
  BY ConstantsAssumption DEF Counters
<1>2. faults' = faults \/ (faults < MaxFaults /\ faults' = faults + 1)
  <2>1. ASSUME NEW p, NEW after, ReplaceProfile(p, after) PROVE faults' = faults
    BY <2>1 DEF ReplaceProfile
  <2>2. CASE Operation
    BY <2>1, <2>2 DEF Operation, SwitchProfile, DeleteProfileRemotely, AddChannelRemotely,
       DeleteChannelsRemotely, CreateProfile, CreateProfileRemotely, DeleteProfile, AssignTarget,
       ChangeInputMode, AddMidiChannel, RemoveMidiChannels, ChannelCountChanged
  <2>3. CASE Write \/ WriteFails \/ Crash \/ Start
    BY <2>3 DEF Write, WriteFails, Crash, Start
  <2>4. CASE UNCHANGED vars
    BY <2>4 DEF vars
  <2> QED BY <2>2, <2>3, <2>4 DEF Next
<1>3. handled' = handled \/ (handled < MaxHandlers /\ handled' = handled + 1)
  BY DEF Next, vars
<1> QED BY <1>1, <1>2, <1>3 DEF Counters

SoundInv == ApartInv /\ Sound /\ Counters

LEMMA SoundInvHolds == Spec => []SoundInv
<1>1. Init => SoundInv
  <2>1. Init => Counters
    BY ConstantsAssumption DEF Init, Counters
  <2> QED BY <2>1, StoreInit, InitLists, InitSound DEF SoundInv, ApartInv
<1>2. SoundInv /\ [Next]_vars => SoundInv'
  BY ApartStep, SoundStays, CountersStay DEF SoundInv
<1> QED BY <1>1, <1>2, PTL DEF Spec

(* The types, and every strip of a profile file has an id of its own: drawn*)
(* at random, derived from its place or repaired when two were the same    *)
(* (normalize_profile_channels, reconcile_profile_channels, save_current). *)
THEOREM StoreTypeCorrect == Spec => []TypeOK
<1>1. SoundInv => TypeOK
  <2> SUFFICES ASSUME SoundInv PROVE TypeOK
    OBVIOUS
  <2>1. ApartInv /\ Sound /\ Counters
    BY DEF SoundInv
  <2>2. \A p : OwnIds(p, profiles) \subseteq StripId
    BY DEF OwnIds, StripId
  <2>3. StripsOf(StripId) = Strip
    BY DEF StripsOf, Strip
  <2>4. \A p : OwnLists(p, profiles) \subseteq Seq(Strip)
    BY <2>2, <2>3, MoreIds DEF OwnLists
  <2>5. ASSUME NEW p \in DOMAIN profiles
        PROVE  profiles[p] \in Seq(Strip) /\ Cardinality(Ids(profiles[p])) = Len(profiles[p])
    <3>1. profiles[p] \in Seq(Strip) /\ Distinct(profiles[p])
      BY <2>1, <2>4 DEF ApartInv, Lists, Apart, Sound, FilesDistinct
    <3> QED BY <3>1, DistinctCounts
  <2>6. channels \in Seq(Strip)
    <3>1. running => channels \in OwnLists(active, profiles)
      BY <2>1 DEF ApartInv, Lists
    <3>2. ~running => channels \in Seq(Strip)
      BY <2>1 DEF Sound
    <3> QED BY <2>4, <3>1, <3>2
  <2>7. DOMAIN profiles \subseteq 1..MaxProfiles /\ inputMode \in Modes /\ midiCount \in Nat
    BY <2>1 DEF ApartInv, StoreInv, ProfilesKnown, Lists, Readings
  <2> QED BY <2>1, <2>5, <2>6, <2>7 DEF TypeOK, Sound, Counters, Configs
<1> QED BY <1>1, SoundInvHolds, PTL
-----------------------------------------------------------------------------
(***************************************************************************)
(* Memory and file hold the same strips, as long as the counts agree: the  *)
(* file already, or with a write still to be done.                         *)
(***************************************************************************)
\* The strips in memory are those of the file, in some order, with their
\* assignments.
Held(strips, stored) ==
  /\ Distinct(strips) /\ Len(stored) = Len(strips)
  /\ Ids(stored) = {strips[i].id : i \in 1..Len(stored)}
  /\ \A i \in DOMAIN stored, j \in DOMAIN strips :
       stored[i].id = strips[j].id => stored[i].target = strips[j].target

\* There are as many strips as are shown, the MIDI strips behind the others;
\* in USB mode at least as many, and those behind are not shown.
Placed(mode, hw, midi, strips) ==
  IF mode = "usb" THEN hw <= Len(strips)
  ELSE /\ Len(strips) = NumChannels(mode, hw, midi)
       /\ \A i \in DOMAIN strips : strips[i].midi = (i > IF mode = "midi_only" THEN 0 ELSE hw)

\* The writes of profile files.
Pending(s) == {k \in DOMAIN s : s[k].to # Config /\ s[k].why # "delete"}

Settled(strips, stored, s) ==
  Held(strips, stored) /\ \A k \in Pending(s) : s[k].data = stored
Coming(strips, stored, s) ==
  \E k \in Pending(s) :
    /\ Held(strips, s[k].data)
    /\ Ids(stored) \ Ids(s[k].data) \subseteq s[k].removed
    /\ \A j \in Pending(s) \ {k} : j < k /\ s[j].data = stored
OnItsWay(strips, stored, s) ==
  Settled(strips, stored, s) \/ Coming(strips, stored, s)

HeldInv ==
  running /\ whole => /\ Placed(inputMode, hwCount, midiCount, channels)
                      /\ OnItsWay(channels, profiles[active], todo)

LEMMA IdsOfPlaces ==
  ASSUME NEW S, NEW x \in Seq(S)
  PROVE  Ids(x) = {x[i].id : i \in 1..Len(x)}
BY DEF Ids

LEMMA HeldItself ==
  ASSUME NEW S, NEW x \in Seq(S), Distinct(x)
  PROVE  Held(x, x)
<1>1. Len(x) \in Nat /\ DOMAIN x = 1..Len(x)
  OBVIOUS
<1>2. \A i, j \in DOMAIN x : x[i].id = x[j].id => x[i].target = x[j].target
  BY DEF Distinct
<1> QED BY <1>1, <1>2, IdsOfPlaces DEF Held

\* Every strip of one list is a strip of the other, and no strip is missing.
LEMMA CopyHolds ==
  ASSUME NEW S, NEW x \in Seq(S), NEW T, NEW y \in Seq(T), Distinct(x), Len(y) = Len(x),
         \A j \in 1..Len(y) : \E i \in 1..Len(x) : y[j].id = x[i].id /\ y[j].target = x[i].target,
         Ids(x) \subseteq Ids(y)
  PROVE  Held(y, x)
<1>1. /\ Len(x) \in Nat /\ DOMAIN x = 1..Len(x) /\ DOMAIN y = 1..Len(y)
  OBVIOUS
<1>2. Ids(y) \subseteq Ids(x)
  <2>1. \A j \in DOMAIN y : \E i \in DOMAIN x : y[j].id = x[i].id
    BY <1>1
  <2>2. \A id \in Ids(y) : \E j \in DOMAIN y : id = y[j].id
    BY Zenon DEF Ids
  <2>3. \A i \in DOMAIN x : x[i].id \in Ids(x)
    BY Zenon DEF Ids
  <2> QED BY <2>1, <2>2, <2>3
<1>3. Ids(y) = Ids(x)
  BY <1>2
<1>4. Distinct(y)
  <2>1. Cardinality(Ids(x)) = Len(x)
    BY DistinctCounts
  <2> QED BY <1>3, <2>1, DistinctCounts
<1>5. ASSUME NEW i \in DOMAIN x, NEW j \in DOMAIN y, x[i].id = y[j].id
      PROVE  x[i].target = y[j].target
  <2>1. PICK l \in DOMAIN x : y[j].id = x[l].id /\ y[j].target = x[l].target
    BY <1>1
  <2>2. l = i
    BY <1>5, <2>1 DEF Distinct
  <2> QED BY <2>1, <2>2
<1>6. Ids(x) = {y[i].id : i \in 1..Len(x)}
  BY <1>3, IdsOfPlaces
<1> QED BY <1>1, <1>4, <1>5, <1>6 DEF Held

LEMMA ByPositionHas ==
  ASSUME NEW I, NEW x \in Seq(StripsOf(I)), NEW hw \in Nat
  PROVE  LET y == ByPosition(x, hw) IN
         /\ Len(y) = Len(x) /\ Ids(y) = Ids(x)
         /\ Distinct(x) => Distinct(y)
         /\ \A i \in 1..Len(x) : /\ y[i].id = x[i].id /\ y[i].target = x[i].target
                                 /\ y[i].midi = (i > hw)
<1> DEFINE y == ByPosition(x, hw)
<1>1. Len(x) \in Nat /\ DOMAIN x = 1..Len(x) /\ \A i \in 1..Len(x) : x[i] \in StripsOf(I)
  OBVIOUS
<1>2. Len(y) = Len(x) /\ DOMAIN y = DOMAIN x
  BY <1>1, ByPositionFits
<1>3. \A i \in 1..Len(x) : y[i] = [x[i] EXCEPT !.midi = i > hw]
  BY <1>1 DEF ByPosition
<1> HIDE DEF y
<1>4. \A i \in 1..Len(x) : /\ y[i].id = x[i].id /\ y[i].target = x[i].target
                           /\ y[i].midi = (i > hw)
  <2> TAKE i \in 1..Len(x)
  <2>1. PICK m : m = (i > hw)
    OBVIOUS
  <2>2. y[i] = [x[i] EXCEPT !.midi = m] /\ x[i] \in StripsOf(I)
    BY <1>1, <1>3, <2>1
  <2>3. y[i].id = x[i].id /\ y[i].target = x[i].target /\ y[i].midi = m
    BY <2>2 DEF StripsOf
  <2> QED BY <2>1, <2>3
<1>5. Ids(y) = Ids(x)
  BY <1>1, <1>2, <1>4 DEF Ids
<1>6. Distinct(x) => Distinct(y)
  BY <1>1, <1>2, <1>4 DEF Distinct
<1> QED BY <1>2, <1>4, <1>5, <1>6 DEF y

LEMMA MidiOrNot ==
  ASSUME NEW S, NEW x \in Seq(S)
  PROVE  LET usb  == Keep(x, Midi(x))
             midi == Keep(x, DOMAIN x \ Midi(x)) IN
         /\ Len(usb) + Len(midi) = Len(x)
         /\ Ids(x) \subseteq Ids(usb) \cup Ids(midi)
         /\ \A j \in 1..Len(usb) : \E i \in 1..Len(x) : usb[j] = x[i]
         /\ \A j \in 1..Len(midi) : \E i \in 1..Len(x) : midi[j] = x[i]
<1> DEFINE usb  == Keep(x, Midi(x))
           midi == Keep(x, DOMAIN x \ Midi(x))
           U == Rest(x, Midi(x))
           M == Rest(x, DOMAIN x \ Midi(x))
<1>1. Len(x) \in Nat /\ DOMAIN x = 1..Len(x)
  OBVIOUS
<1>2. U \cup M = 1..Len(x) /\ U \cap M = {} /\ U \subseteq 1..Len(x) /\ M \subseteq 1..Len(x)
  BY <1>1 DEF Rest
<1>3. Selection(usb, x, U) /\ Selection(midi, x, M)
  BY Keeps
<1> HIDE DEF usb, midi, U, M
<1>4. Cardinality(U) + Cardinality(M) = Len(x)
  <2>1. IsFiniteSet(1..Len(x)) /\ Cardinality(1..Len(x)) = Len(x)
    BY <1>1, CountTo, Zenon
  <2>2. IsFiniteSet(U) /\ IsFiniteSet(M) /\ Cardinality(U) \in Nat /\ Cardinality(M) \in Nat
    BY <1>2, <2>1, FS_Subset, FS_CardinalityType
  <2>3. Cardinality(U \cup M) = Cardinality(U) + Cardinality(M) - Cardinality(U \cap M)
    BY <2>2, FS_Union
  <2>4. Cardinality(U \cap M) = 0
    BY <1>2, FS_EmptySet
  <2>5. Cardinality(U \cup M) = Len(x)
    BY <1>2, <2>1
  <2> QED BY <2>2, <2>3, <2>4, <2>5
<1>5. Len(usb) + Len(midi) = Len(x)
  BY <1>3, <1>4 DEF Selection
<1>6. /\ \A j \in 1..Len(usb) : \E i \in 1..Len(x) : usb[j] = x[i]
      /\ \A j \in 1..Len(midi) : \E i \in 1..Len(x) : midi[j] = x[i]
  BY <1>2, <1>3 DEF Selection
<1>7. Ids(x) \subseteq Ids(usb) \cup Ids(midi)
  <2>1. /\ Ids(usb) = {x[i].id : i \in U} /\ Ids(midi) = {x[i].id : i \in M}
    BY <1>3 DEF Selection
  <2>2. \A i \in DOMAIN x : i \in U \/ i \in M
    BY <1>1, <1>2
  <2> QED BY <2>1, <2>2 DEF Ids
<1> QED BY <1>5, <1>6, <1>7 DEF usb, midi

\* Applying a profile loses no strip and no assignment when as many strips are
\* shown as there were.
LEMMA RebuildHolds ==
  ASSUME NEW I, NEW x \in Seq(StripsOf(I)), Distinct(x), NEW hw \in Nat, NEW mode \in Modes,
         Len(RebuildPartition(mode, hw, x)) = Len(x)
  PROVE  LET y == RebuildPartition(mode, hw, x) IN
         /\ Held(y, x)
         /\ mode # "usb" =>
              \A i \in DOMAIN y : y[i].midi = (i > IF mode = "midi_only" THEN 0 ELSE hw)
<1> DEFINE usb  == Keep(x, Midi(x))
           midi == Keep(x, DOMAIN x \ Midi(x))
           n    == IF Len(usb) < hw THEN Len(usb) ELSE hw
           kept == SubSeq(usb, 1, n)
           y    == RebuildPartition(mode, hw, x)
           Right(z, h) == /\ Len(z) = Len(x)
                          /\ \A j \in 1..Len(z) : \E i \in 1..Len(x) :
                               z[j].id = x[i].id /\ z[j].target = x[i].target
                          /\ Ids(x) \subseteq Ids(z)
                          /\ \A i \in DOMAIN z : z[i].midi = (i > h)
<1>1. Len(x) \in Nat /\ DOMAIN x = 1..Len(x)
  OBVIOUS
<1>2. \A h \in Nat : Right(ByPosition(x, h), h)
  <2> TAKE h \in Nat
  <2>1. PICK z : z = ByPosition(x, h)
    OBVIOUS
  <2>2. /\ Len(z) = Len(x) /\ Ids(z) = Ids(x) /\ z \in Seq(StripsOf(I))
        /\ \A i \in 1..Len(x) : /\ z[i].id = x[i].id /\ z[i].target = x[i].target
                                /\ z[i].midi = (i > h)
    BY <2>1, ByPositionHas, ByPositionFits
  <2>3. DOMAIN z = 1..Len(x)
    BY <2>2
  <2> QED BY <2>1, <2>2, <2>3
<1>3. ASSUME mode = "hybrid" PROVE Right(y, hw)
  <2>1. y = ByPosition(kept \o midi, hw)
    BY <1>3 DEF RebuildPartition
  <2>2. usb \in Seq(StripsOf(I)) /\ midi \in Seq(StripsOf(I))
    BY KeepFits
  <2>3. /\ Len(usb) + Len(midi) = Len(x)
        /\ Ids(x) \subseteq Ids(usb) \cup Ids(midi)
        /\ \A j \in 1..Len(usb) : \E i \in 1..Len(x) : usb[j] = x[i]
        /\ \A j \in 1..Len(midi) : \E i \in 1..Len(x) : midi[j] = x[i]
    BY MidiOrNot
  <2> HIDE DEF usb, midi
  <2>4. Len(usb) \in Nat /\ Len(midi) \in Nat
    BY <2>2, LenProperties
  <2>5. n \in Nat /\ n <= Len(usb)
    BY <2>4
  <2> HIDE DEF n
  <2>6. kept \in Seq(StripsOf(I)) /\ Len(kept) = n /\ \A i \in 1..n : kept[i] = usb[i]
    <3>1. \A i \in 1..n : usb[i] \in StripsOf(I)
      BY <2>2, <2>4, <2>5
    <3> QED BY <2>5, <3>1, SubSeqProperties
  <2> HIDE DEF kept
  <2>7. kept \o midi \in Seq(StripsOf(I)) /\ Len(kept \o midi) = n + Len(midi)
    BY <2>2, <2>6, ConcatProperties
  <2>8. Len(y) = n + Len(midi)
    BY <2>1, <2>7, ByPositionHas
  <2>9. n = Len(usb)
    BY <2>3, <2>4, <2>5, <2>8
  <2> DEFINE z == kept \o midi
  <2>10. /\ \A i \in 1..n : z[i] = usb[i]
         /\ \A i \in 1..Len(midi) : z[n + i] = midi[i]
    BY <2>2, <2>6, ConcatProperties
  <2>11. z \in Seq(StripsOf(I)) /\ Len(z) = Len(x)
    BY <2>3, <2>7, <2>9
  <2> HIDE DEF z
  <2>12. \A j \in 1..Len(z) : \/ j \in 1..Len(usb) /\ z[j] = usb[j]
                              \/ j - n \in 1..Len(midi) /\ z[j] = midi[j - n]
    BY <2>3, <2>4, <2>9, <2>10, <2>11
  <2>13. \A j \in 1..Len(z) : \E i \in 1..Len(x) : z[j] = x[i]
    BY <2>3, <2>12
  <2>14. Ids(usb) \subseteq Ids(z)
    <3>1. \A i \in 1..n : i \in 1..Len(z) /\ z[i] = usb[i]
      BY <1>1, <2>3, <2>4, <2>9, <2>10, <2>11
    <3>2. Ids(usb) = {usb[i].id : i \in 1..n} /\ Ids(z) = {z[i].id : i \in 1..Len(z)}
      BY <2>2, <2>9, <2>11, IdsOfPlaces
    <3> QED BY <3>1, <3>2
  <2>15. Ids(midi) \subseteq Ids(z)
    <3>1. \A i \in 1..Len(midi) : n + i \in 1..Len(z) /\ z[n + i] = midi[i]
      BY <1>1, <2>3, <2>4, <2>9, <2>10, <2>11
    <3>2. /\ Ids(midi) = {midi[i].id : i \in 1..Len(midi)}
          /\ Ids(z) = {z[i].id : i \in 1..Len(z)}
      BY <2>2, <2>11, IdsOfPlaces
    <3> QED BY <3>1, <3>2
  <2>16. /\ Len(y) = Len(z) /\ Ids(y) = Ids(z) /\ y \in Seq(StripsOf(I))
         /\ \A i \in 1..Len(z) : /\ y[i].id = z[i].id /\ y[i].target = z[i].target
                                 /\ y[i].midi = (i > hw)
    <3>1. y = ByPosition(z, hw)
      BY <2>1 DEF z
    <3> HIDE DEF y
    <3> QED BY <2>11, <3>1, ByPositionHas, ByPositionFits
  <2> HIDE DEF y
  <2>17. DOMAIN y = 1..Len(z)
    BY <2>16
  <2>18. \A j \in 1..Len(y) : \E i \in 1..Len(x) :
            y[j].id = x[i].id /\ y[j].target = x[i].target
    BY <2>13, <2>16
  <2>19. Ids(x) \subseteq Ids(y)
    BY <2>3, <2>14, <2>15, <2>16
  <2>20. \A i \in DOMAIN y : y[i].midi = (i > hw)
    BY <2>16, <2>17
  <2>21. Len(y) = Len(x)
    BY <2>11, <2>16
  <2> QED BY <2>18, <2>19, <2>20, <2>21
<1>4. y \in Seq(StripsOf(I))
  BY RebuildFits
<1>5. Right(y, hw) \/ (Right(y, 0) /\ mode = "midi_only")
  <2>1. CASE mode = "hybrid"
    BY <1>3, <2>1
  <2>2. CASE mode = "usb"
    <3>1. y = ByPosition(x, hw)
      BY <2>2 DEF RebuildPartition
    <3> HIDE DEF y, Right
    <3> QED BY <1>2, <3>1
  <2>3. CASE mode = "midi_only"
    <3>1. y = ByPosition(x, 0)
      BY <2>3 DEF RebuildPartition
    <3> HIDE DEF y, Right
    <3> QED BY <1>2, <2>3, <3>1
  <2> HIDE DEF y, Right
  <2> QED BY <2>1, <2>2, <2>3 DEF Modes
<1>6. mode = "midi_only" => Right(y, 0)
  <2> SUFFICES ASSUME mode = "midi_only" PROVE Right(y, 0)
    OBVIOUS
  <2>1. y = ByPosition(x, 0)
    BY DEF RebuildPartition
  <2> HIDE DEF y, Right
  <2> QED BY <1>2, <2>1
<1> HIDE DEF y
<1>7. Held(y, x)
  BY <1>4, <1>5, CopyHolds
<1> QED BY <1>5, <1>6, <1>7 DEF y

\* What a routine save and a resize make of the strips in memory.
LEMMA ReconcileKeeps ==
  ASSUME NEW I, NEW p, HasOwn(I, p), NEW x \in Seq(StripsOf(I))
  PROVE  ReconcileProfileChannels(p, x, Len(x)) = NormalizeProfileChannels(p, x)
<1> DEFINE y == [i \in 1..Len(x) |-> IF i <= Len(x) THEN x[i]
                                     ELSE Blank(LegacyId(p, i, Ids(x)), FALSE)]
<1>1. Len(x) \in Nat /\ DOMAIN x = 1..Len(x)
  OBVIOUS
<1>2. y = x
  <2>1. \A i \in 1..Len(x) : i <= Len(x)
    BY <1>1
  <2>2. \A i \in 1..Len(x) : y[i] = x[i]
    BY <2>1
  <2>3. y = [i \in 1..Len(x) |-> x[i]]
    BY <2>1
  <2>4. x = [i \in 1..Len(x) |-> x[i]]
    BY <1>1
  <2> QED BY <2>3, <2>4
<1> QED BY <1>2 DEF ReconcileProfileChannels

LEMMA RoutineKeeps ==
  ASSUME NEW I, NEW p, HasOwn(I, p), NEW stored, NEW x \in Seq(StripsOf(I)), Distinct(x),
         Len(stored) \in Nat, Len(stored) <= Len(x)
  PROVE  RoutineSave(p, stored, x) = SubSeq(x, 1, Len(stored))
<1> DEFINE y == SubSeq(x, 1, Len(stored))
<1>1. Len(x) \in Nat /\ Len(stored) \in 0..Len(x) /\ ~(Len(x) < Len(stored))
  OBVIOUS
<1>2. y \in Seq(StripsOf(I)) /\ Len(y) = Len(stored) /\ Distinct(y)
  BY <1>1, DistinctPrefix
<1>3. RoutineSave(p, stored, x) = ReconcileProfileChannels(p, y, Len(stored))
  BY <1>1 DEF RoutineSave
<1> HIDE DEF y
<1>4. ReconcileProfileChannels(p, y, Len(y)) = y
  BY <1>2, ReconcileKeeps, NormalizeKeeps
<1> QED BY <1>2, <1>3, <1>4 DEF y

LEMMA ResizeKeeps ==
  ASSUME NEW I, NEW p, HasOwn(I, p), NEW stored \in Seq(StripsOf(I)),
         NEW x \in Seq(StripsOf(I)), Distinct(x)
  PROVE  ResizeSave(p, stored, x, Len(x)) = x
<1> DEFINE n == Len(x)
           prefix == {i \in 1..n : i <= Len(x) /\ i <= Len(stored)}
           padded == ReconcileProfileChannels(p, stored, n)
           merged == [i \in 1..n |-> IF i \in prefix THEN x[i] ELSE padded[i]]
           joined == ReconcileProfileChannels(p, merged, n)
           raw    == [i \in 1..n |-> IF i <= Len(stored) \/ i > Len(x) THEN joined[i]
                        ELSE IF Len(x) = n THEN x[i]
                        ELSE [joined[i] EXCEPT !.midi = x[i].midi, !.id = x[i].id]]
           k == IF Len(stored) < n THEN Len(stored) ELSE n
<1>1. /\ Len(x) \in Nat /\ Len(stored) \in Nat /\ DOMAIN x = 1..n
      /\ \A i \in 1..n : x[i] \in StripsOf(I)
  OBVIOUS
<1>2. NormalizeProfileChannels(p, x) = x
  BY NormalizeKeeps
<1>3. ResizeSave(p, stored, x, Len(x)) = NormalizeProfileChannels(p, raw)
  BY <1>2 DEF ResizeSave, Loaded
<1>4. padded \in Seq(StripsOf(I)) /\ Len(padded) = n
  BY <1>1, ReconcileFits
<1> HIDE DEF padded
<1>5. merged \in Seq(StripsOf(I)) /\ Len(merged) = n /\ \A i \in 1..k : merged[i] = x[i]
  <2>1. \A i \in 1..n : padded[i] \in StripsOf(I)
    BY <1>1, <1>4
  <2>2. merged \in [1..n -> StripsOf(I)]
    BY <1>1, <2>1
  <2>3. \A i \in 1..k : i \in 1..n /\ i \in prefix
    BY <1>1
  <2>4. \A i \in 1..k : merged[i] = x[i]
    BY <2>3
  <2> HIDE DEF merged, prefix, k
  <2> QED BY <1>1, <2>2, <2>4
<1> HIDE DEF merged
<1>6. joined = NormalizeProfileChannels(p, merged)
  BY <1>5, ReconcileKeeps
<1>7. k \in 0..Len(merged) /\ \A i \in 1..k : i \in DOMAIN x /\ i <= Len(stored)
  BY <1>1, <1>5
<1>8. \A i, j \in 1..k : merged[i].id = merged[j].id => i = j
  BY <1>5, <1>7 DEF Distinct
<1> HIDE DEF k
<1>9. \A i \in 1..k : joined[i] = x[i]
  BY <1>5, <1>6, <1>7, <1>8, NormalizeDistinct
<1> HIDE DEF joined
<1>10. raw = x
  <2>1. \A i \in 1..n : raw[i] = x[i]
    <3> TAKE i \in 1..n
    <3>1. CASE i <= Len(stored)
      <4>1. i \in 1..k
        BY <1>1, <3>1 DEF k
      <4> QED BY <1>9, <3>1, <4>1
    <3>2. CASE ~(i <= Len(stored))
      <4>1. ~(i > Len(x)) /\ Len(x) = n
        BY <1>1
      <4> QED BY <3>2, <4>1
    <3> QED BY <3>1, <3>2
  <2>2. raw = [i \in 1..n |-> raw[i]] /\ x = [i \in 1..n |-> x[i]]
    BY <1>1
  <2> HIDE DEF raw
  <2> QED BY <2>1, <2>2
<1> HIDE DEF raw
<1> QED BY <1>2, <1>3, <1>10

\* A file with the first strips of memory, which are all of them if it holds memory.
LEMMA HeldPrefix ==
  ASSUME NEW S, NEW x \in Seq(S), Distinct(x), NEW n \in 0..Len(x)
  PROVE  /\ Ids(SubSeq(x, 1, n)) = {x[i].id : i \in 1..n}
         /\ n = Len(x) => Held(x, SubSeq(x, 1, n))
<1> DEFINE y == SubSeq(x, 1, n)
<1>1. /\ Len(x) \in Nat /\ DOMAIN x = 1..Len(x) /\ \A i \in 1..Len(x) : x[i] \in S
      /\ n \in Nat /\ n <= Len(x)
  OBVIOUS
<1>2. y \in Seq(S) /\ Len(y) = n /\ \A i \in 1..n : y[i] = x[i]
  <2>1. \A i \in 1..n : x[i] \in S
    BY <1>1
  <2> QED BY <1>1, <2>1, SubSeqProperties
<1> HIDE DEF y
<1>3. DOMAIN y = 1..n /\ \A i \in 1..n : i \in DOMAIN x
  BY <1>1, <1>2
<1>4. Ids(y) = {x[i].id : i \in 1..n}
  BY <1>2, <1>3 DEF Ids
<1>5. \A i \in DOMAIN y, j \in DOMAIN x : y[i].id = x[j].id => y[i].target = x[j].target
  BY <1>2, <1>3 DEF Distinct
<1>6. n = Len(x) => Held(x, y)
  BY <1>1, <1>2, <1>4, <1>5 DEF Held
<1> QED BY <1>4, <1>6 DEF y

\* Strips of the same ids and assignments, with other flags.
LEMMA HeldSame ==
  ASSUME NEW S, NEW x \in Seq(S), NEW T, NEW y \in Seq(T), NEW stored, Held(x, stored),
         Len(stored) \in Nat, Len(y) = Len(x),
         \A i \in 1..Len(x) : y[i].id = x[i].id /\ y[i].target = x[i].target
  PROVE  Held(y, stored)
<1>1. Len(x) \in Nat /\ DOMAIN x = 1..Len(x) /\ DOMAIN y = 1..Len(x)
  OBVIOUS
<1>2. Distinct(y)
  BY <1>1 DEF Held, Distinct
<1>3. Len(stored) <= Len(x) /\ Ids(stored) = {x[i].id : i \in 1..Len(stored)}
  BY DEF Held
<1>4. \A i \in 1..Len(stored) : i \in 1..Len(x)
  BY <1>1, <1>3
<1>5. {x[i].id : i \in 1..Len(stored)} = {y[i].id : i \in 1..Len(stored)}
  BY <1>4
<1>6. \A i \in DOMAIN stored, j \in DOMAIN y : stored[i].id = y[j].id => stored[i].target = y[j].target
  BY <1>1 DEF Held
<1> QED BY <1>2, <1>3, <1>5, <1>6 DEF Held

\* Every write of a list is one of config.json, a deletion, or this one.
LEMMA NoneComes ==
  ASSUME NEW x, NEW stored, NEW s, Held(x, stored),
         \A j \in DOMAIN s : s[j].to = Config \/ s[j].why = "delete"
  PROVE  OnItsWay(x, stored, s)
BY DEF OnItsWay, Settled, Pending

LEMMA OneComes ==
  ASSUME NEW x, NEW stored, NEW s, NEW k \in DOMAIN s,
         s[k].to # Config, s[k].why # "delete",
         \A j \in DOMAIN s \ {k} : \/ s[j].to = Config \/ s[j].why = "delete"
                                   \/ j < k /\ s[j].data = stored,
         Held(x, s[k].data), Ids(stored) \ Ids(s[k].data) \subseteq s[k].removed
  PROVE  OnItsWay(x, stored, s)
<1>1. k \in Pending(s) /\ \A j \in Pending(s) \ {k} : j < k /\ s[j].data = stored
  BY DEF Pending
<1> QED BY <1>1 DEF OnItsWay, Coming

\* Applying the strips x of a file, when the counts agree.
LEMMA ShownHolds ==
  ASSUME NEW I, NEW p, HasOwn(I, p), NEW x \in Seq(StripsOf(I)), Distinct(x),
         NEW hw \in Nat, NEW mode \in Modes,
         CountsAgree(mode, hw, AppliedMidiCount(mode, hw, x), RebuildPartition(mode, hw, x), x)
  PROVE  LET y == RebuildPartition(mode, hw, x) IN
         /\ y \in Seq(StripsOf(I)) /\ Distinct(y) /\ Len(y) = Len(x) /\ Ids(x) = Ids(y)
         /\ Held(y, x) /\ Held(y, y)
         /\ Placed(mode, hw, AppliedMidiCount(mode, hw, x), y)
         /\ RoutineSave(p, x, y) = y
<1> DEFINE y == RebuildPartition(mode, hw, x)
           midi == AppliedMidiCount(mode, hw, x)
<1>1. /\ Len(y) = Len(x)
      /\ IF mode = "usb" THEN hw <= Len(x) ELSE NumChannels(mode, hw, midi) = Len(x)
  BY DEF CountsAgree
<1>2. /\ Held(y, x) /\ y \in Seq(StripsOf(I))
      /\ mode # "usb" => \A i \in DOMAIN y : y[i].midi = (i > IF mode = "midi_only" THEN 0 ELSE hw)
  BY <1>1, RebuildHolds, RebuildFits
<1> HIDE DEF y, midi
<1>3. Distinct(y) /\ Ids(x) = {y[i].id : i \in 1..Len(x)}
  BY <1>2 DEF Held
<1>4. Ids(x) = Ids(y)
  BY <1>1, <1>2, <1>3, IdsOfPlaces
<1>5. Held(y, y)
  BY <1>2, <1>3, HeldItself
<1>6. Placed(mode, hw, midi, y)
  BY <1>1, <1>2 DEF Placed
<1>7. RoutineSave(p, x, y) = y
  <2>1. Len(y) \in Nat /\ Len(x) \in Nat
    BY <1>2, LenProperties
  <2>2. RoutineSave(p, x, y) = SubSeq(y, 1, Len(x))
    BY <1>1, <1>2, <1>3, <2>1, RoutineKeeps
  <2>3. SubSeq(y, 1, Len(y)) = y
    BY <1>2
  <2> QED BY <1>1, <2>2, <2>3
<1> QED BY <1>1, <1>2, <1>3, <1>4, <1>5, <1>6, <1>7 DEF y, midi

LEMMA Joined ==
  ASSUME NEW u, NEW v, NEW w
  PROVE  /\ <<u>> \o <<>> \o <<>> = <<u>> /\ <<u>> \o <<>> \o <<w>> = <<u, w>>
         /\ <<u>> \o <<v>> \o <<>> = <<u, v>> /\ <<u>> \o <<v>> \o <<w>> = <<u, v, w>>
<1>1. /\ <<u>> \in Seq({u, v, w}) /\ <<v>> \in Seq({u, v, w}) /\ <<w>> \in Seq({u, v, w})
      /\ <<u, v>> \in Seq({u, v, w})
  OBVIOUS
<1>2. \A a, b \in {u, v, w} : <<a>> \o <<b>> = <<a, b>>
  <2> TAKE a, b \in {u, v, w}
  <2> DEFINE s == <<a>> \o <<b>>
             t == <<a, b>>
  <2>1. <<a>> \in Seq({u, v, w}) /\ <<b>> \in Seq({u, v, w}) /\ t \in Seq({u, v, w})
    OBVIOUS
  <2>2. /\ s \in Seq({u, v, w}) /\ Len(s) = Len(<<a>>) + Len(<<b>>)
        /\ \A i \in 1..Len(<<a>>) : s[i] = <<a>>[i]
        /\ \A i \in 1..Len(<<b>>) : s[Len(<<a>>) + i] = <<b>>[i]
    BY <2>1, ConcatProperties
  <2>3. Len(s) = 2 /\ s[1] = a /\ s[2] = b
    <3>1. /\ Len(<<a>>) = 1 /\ Len(<<b>>) = 1 /\ <<a>>[1] = a /\ <<b>>[1] = b
          /\ 1 \in 1..Len(<<a>>) /\ 1 \in 1..Len(<<b>>)
      OBVIOUS
    <3> HIDE DEF s
    <3>2. s[1] = a /\ s[1 + 1] = b /\ Len(s) = 1 + 1
      BY <2>2, <3>1
    <3> QED BY <3>2
  <2>4. Len(t) = 2 /\ t[1] = a /\ t[2] = b
    OBVIOUS
  <2> HIDE DEF s, t
  <2>5. \A i \in 1..Len(s) : s[i] = t[i]
    BY <2>3, <2>4
  <2>6. s \in Seq({u, v, w}) /\ t \in Seq({u, v, w}) /\ Len(s) = Len(t)
    BY <2>1, <2>2, <2>3, <2>4 DEF t
  <2>7. s = t
    BY <2>5, <2>6, SeqEqual, Zenon
  <2> QED BY <2>7 DEF s, t
<1>3. <<u>> \o <<v>> = <<u, v>> /\ <<u>> \o <<w>> = <<u, w>>
  BY <1>2
<1>4. \A s \in Seq({u, v, w}) : s \o <<>> = s
  BY ConcatEmptySeq
<1>5. <<u, v>> \o <<w>> = <<u, v, w>>
  <2> DEFINE s == <<u, v>> \o <<w>>
             t == <<u, v, w>>
  <2>1. t \in Seq({u, v, w}) /\ Len(t) = 3 /\ t[1] = u /\ t[2] = v /\ t[3] = w
    OBVIOUS
  <2>2. /\ s \in Seq({u, v, w}) /\ Len(s) = Len(<<u, v>>) + Len(<<w>>)
        /\ \A i \in 1..Len(<<u, v>>) : s[i] = <<u, v>>[i]
        /\ \A i \in 1..Len(<<w>>) : s[Len(<<u, v>>) + i] = <<w>>[i]
    BY <1>1, ConcatProperties
  <2>3. Len(s) = 3 /\ s[1] = u /\ s[2] = v /\ s[3] = w
    <3> HIDE DEF s
    <3> QED BY <2>2
  <2> HIDE DEF s, t
  <2>4. \A i \in 1..Len(s) : s[i] = t[i]
    BY <2>1, <2>3
  <2>5. s \in Seq({u, v, w}) /\ t \in Seq({u, v, w}) /\ Len(s) = Len(t)
    BY <2>1, <2>2, <2>3 DEF t
  <2>6. s = t
    BY <2>4, <2>5, SeqEqual, Zenon
  <2> QED BY <2>6 DEF s, t
<1> QED BY <1>1, <1>2, <1>3, <1>4, <1>5

LEMMA Literals ==
  ASSUME NEW u, NEW v, NEW w
  PROVE  /\ DOMAIN <<u>> = {1} /\ <<u>>[1] = u
         /\ DOMAIN <<u, v>> = 1..2 /\ <<u, v>>[1] = u /\ <<u, v>>[2] = v
         /\ DOMAIN <<u, v, w>> = 1..3 /\ <<u, v, w>>[1] = u /\ <<u, v, w>>[2] = v
         /\ <<u, v, w>>[3] = w
OBVIOUS

LEMMA AtRest ==
  ASSUME HeldInv, Ready, whole
  PROVE  /\ Placed(inputMode, hwCount, midiCount, channels)
         /\ Held(channels, profiles[active])
<1>1. running /\ todo = <<>>
  BY DEF Ready
<1>2. Pending(<<>>) = {}
  BY DEF Pending
<1> QED BY <1>1, <1>2 DEF HeldInv, OnItsWay, Settled, Coming

LEMMA ConfigToConfig == ASSUME NEW data PROVE ConfigWrite(data).to = Config
BY DEF ConfigWrite

LEMMA RoutineWritten ==
  ASSUME NEW p \in Nat \ {0}, NEW stored, NEW x, NEW back, ~(Len(x) < Len(stored))
  PROVE  \E w : /\ RoutineWrites(p, stored, x, back) = <<w>>
                /\ w.to # Config /\ w.why # "delete" /\ w.data = RoutineSave(p, stored, x)
<1> DEFINE y == RoutineSave(p, stored, x)
           w == [ProfileWrite(p, y, "routine") EXCEPT !.back = back]
<1>1. RoutineWrites(p, stored, x, back) = <<w>>
  BY DEF RoutineWrites
<1> HIDE DEF y
<1>2. w.to # Config /\ w.why # "delete" /\ w.data = y
  BY DEF ProfileWrite, Config
<1> QED BY <1>1, <1>2 DEF y

\* After the configuration and before what is no profile, perhaps a profile.
NoProfile(then) == then # <<>> => \E u : then = <<u>> /\ (u.to = Config \/ u.why = "delete")

LEMMA NoneBetween ==
  ASSUME NEW y, NEW x, Held(y, x), NEW c, c.to = Config, NEW then, NoProfile(then)
  PROVE  OnItsWay(y, x, <<c>> \o <<>> \o then)
<1> PICK s : s = <<c>> \o <<>> \o then
  OBVIOUS
<1>1. CASE then = <<>>
  <2>1. s = <<c>>
    BY <1>1, Joined
  <2>2. DOMAIN s = {1} /\ s[1] = c
    BY <2>1, Literals, Zenon
  <2> QED BY <2>2, NoneComes
<1>2. ASSUME NEW u, then = <<u>>, u.to = Config \/ u.why = "delete"
      PROVE  OnItsWay(y, x, s)
  <2>1. s = <<c, u>>
    BY <1>2, Joined
  <2>2. \A j \in DOMAIN s : s[j].to = Config \/ s[j].why = "delete"
    BY <1>2, <2>1
  <2> QED BY <2>2, NoneComes
<1> QED BY <1>1, <1>2 DEF NoProfile

LEMMA OneBetween ==
  ASSUME NEW y, NEW x, NEW c, c.to = Config, NEW then, NoProfile(then),
         NEW w, w.to # Config, w.why # "delete", Held(y, w.data), Ids(x) \subseteq Ids(w.data)
  PROVE  OnItsWay(y, x, <<c>> \o <<w>> \o then)
<1> PICK s : s = <<c>> \o <<w>> \o then
  OBVIOUS
<1>1. /\ 2 \in DOMAIN s /\ s[2] = w
      /\ \A j \in DOMAIN s \ {2} : s[j].to = Config \/ s[j].why = "delete"
  <2>1. CASE then = <<>>
    <3>1. s = <<c, w>>
      BY <2>1, Joined
    <3>2. DOMAIN s = 1..2 /\ s[1] = c /\ s[2] = w
      <4>1. /\ DOMAIN <<c, w>> = 1..2 /\ <<c, w>>[1] = c /\ <<c, w>>[2] = w
        BY Literals
      <4> QED BY <3>1, <4>1, Zenon
    <3> QED BY <3>2
  <2>2. ASSUME NEW u, then = <<u>>, u.to = Config \/ u.why = "delete"
        PROVE  /\ 2 \in DOMAIN s /\ s[2] = w
               /\ \A j \in DOMAIN s \ {2} : s[j].to = Config \/ s[j].why = "delete"
    <3>1. s = <<c, w, u>>
      BY <2>2, Joined
    <3> QED BY <2>2, <3>1
  <2> QED BY <2>1, <2>2 DEF NoProfile
<1>2. Ids(x) \ Ids(s[2].data) \subseteq s[2].removed
  BY <1>1
<1>3. Held(y, s[2].data) /\ s[2].to # Config /\ s[2].why # "delete"
  BY <1>1
<1>4. OnItsWay(y, x, s)
  <2> PICK k : k = 2
    OBVIOUS
  <2>1. /\ k \in DOMAIN s /\ s[k].to # Config /\ s[k].why # "delete" /\ Held(y, s[k].data)
        /\ Ids(x) \ Ids(s[k].data) \subseteq s[k].removed
    BY <1>1, <1>2, <1>3, Zenon
  <2>2. \A j \in DOMAIN s \ {k} : s[j].to = Config \/ s[j].why = "delete"
    BY <1>1, Zenon
  <2>3. \A j \in DOMAIN s \ {k} : \/ s[j].to = Config \/ s[j].why = "delete"
                                  \/ j < k /\ s[j].data = x
    BY <2>2, Zenon
  <2> QED BY <2>1, <2>3, OneComes, Zenon
<1> QED BY <1>4

LEMMA SwitchHolds ==
  ASSUME Readings, NEW p \in Nat \ {0}, NEW I, HasOwn(I, p), NEW x \in Seq(StripsOf(I)), Distinct(x),
         NEW then, NoProfile(then),
         NEW back, SwitchTo(p, x, then, back),
         UNCHANGED <<inputMode, hwCount>>, profiles'[p] = x
  PROVE  HeldInv'
<1> SUFFICES ASSUME whole'
             PROVE  /\ Placed(inputMode', hwCount', midiCount', channels')
                    /\ OnItsWay(channels', profiles'[active'], todo')
  BY DEF HeldInv
<1> DEFINE c == ConfigWrite(ConfigData(inputMode, hwCount, midiCount', p))
           Second(y) == IF y # x THEN RoutineWrites(p, x, y, back) ELSE <<>>
<1>1. /\ active' = p /\ profiles'[active'] = x /\ inputMode' = inputMode /\ hwCount' = hwCount
      /\ channels' = RebuildPartition(inputMode, hwCount, x)
      /\ midiCount' = AppliedMidiCount(inputMode, hwCount, x)
      /\ CountsAgree(inputMode, hwCount, midiCount', channels', x)
      /\ todo' = <<c>> \o Second(channels') \o then
  BY DEF SwitchTo, ApplyProfile
<1>2. PICK y, midi, s, d : y = channels' /\ midi = midiCount' /\ s = todo' /\ d = c
  OBVIOUS
<1>3. /\ Distinct(y) /\ Len(y) = Len(x) /\ Ids(x) = Ids(y) /\ y \in Seq(StripsOf(I))
      /\ Held(y, x) /\ Held(y, y)
      /\ Placed(inputMode, hwCount, midi, y) /\ RoutineSave(p, x, y) = y
  BY <1>1, <1>2, ShownHolds DEF Readings
<1>4. d.to = Config
  BY <1>2, ConfigToConfig
<1> HIDE DEF c
<1>5. s = <<d>> \o Second(y) \o then
  BY <1>1, <1>2
<1>6. OnItsWay(y, x, s)
  <2>1. CASE y = x
    BY <1>3, <1>4, <1>5, <2>1, NoneBetween
  <2>2. CASE y # x
    <3>1. Len(y) \in Nat /\ ~(Len(y) < Len(x))
      BY <1>3, LenProperties
    <3>2. PICK w : /\ RoutineWrites(p, x, y, back) = <<w>>
                   /\ w.to # Config /\ w.why # "delete" /\ w.data = y
      BY <1>3, <3>1, RoutineWritten
    <3> QED BY <1>3, <1>4, <1>5, <2>2, <3>2, OneBetween
  <2> QED BY <2>1, <2>2
<1> QED BY <1>1, <1>2, <1>3, <1>6

LEMMA SwitchHeld ==
  ASSUME ApartInv, Sound, NEW p \in DOMAIN profiles, SwitchProfile(p) PROVE HeldInv'
<1>1. Ready /\ UNCHANGED <<inputMode, hwCount, profiles>>
  BY DEF SwitchProfile
<1>2. /\ Readings /\ p \in Nat \ {0} /\ HasOwn(OwnIds(p, profiles), p)
      /\ profiles[p] \in OwnLists(p, profiles) /\ Distinct(profiles[p])
  BY <1>1, BeginsSound, OwnLegacy DEF ApartInv, Lists
<1>3. PICK back \in {None, active} : SwitchTo(p, profiles[p], <<>>, back)
  BY DEF SwitchProfile
<1>4. profiles'[p] = profiles[p]
  BY <1>1
<1> QED BY <1>1, <1>2, <1>3, <1>4, SwitchHolds DEF OwnLists, NoProfile

LEMMA CreateHeld == ASSUME ApartInv, Sound, CreateProfile PROVE HeldInv'
<1> DEFINE p == NextProfileId
<1>1. Ready /\ Room /\ UNCHANGED <<inputMode, hwCount>>
  BY DEF CreateProfile
<1>2. /\ Readings /\ Apart(profiles) /\ active \in DOMAIN profiles
  BY <1>1, BeginsSound DEF ApartInv, Lists
<1>3. PICK x \in NewProfiles({hwCount}, {active}) :
        profiles' = With(p, x) /\ SwitchTo(p, x, <<>>, None)
  BY DEF CreateProfile
<1>4. x \in Seq(StripsOf(FreshIds)) /\ Distinct(x)
  BY <1>2, NewProfilesAreFresh, NewProfilesAreDistinct DEF Readings
<1>5. p \in Nat \ {0} /\ Apart(profiles') /\ x \in OwnLists(p, profiles')
  BY <1>1, <1>3, <1>4, ProfileAdded
<1>6. profiles'[p] = x
  BY <1>3 DEF With
<1> HIDE DEF p
<1>7. PICK files : files = profiles'
  OBVIOUS
<1>8. HasOwn(OwnIds(p, files), p) /\ x \in Seq(StripsOf(OwnIds(p, files)))
  BY <1>5, <1>7, OwnLegacy DEF OwnLists
<1> QED BY <1>1, <1>2, <1>3, <1>4, <1>5, <1>6, <1>8, SwitchHolds DEF NoProfile

\* A step that leaves memory, its file and the writes as they are.
LEMMA NothingNew ==
  ASSUME HeldInv, UNCHANGED <<config, channels, todo, running, whole>>,
         profiles'[active] = profiles[active]
  PROVE  HeldInv'
BY DEF HeldInv, config

LEMMA CreateRemotelyHeld == ASSUME ApartInv, Sound, HeldInv, CreateProfileRemotely PROVE HeldInv'
<1>1. Ready /\ Room /\ UNCHANGED <<config, channels, todo, running, whole>>
  BY DEF CreateProfileRemotely
<1>2. PICK x : profiles' = With(NextProfileId, x)
  BY DEF CreateProfileRemotely
<1>3. NextProfileId \notin DOMAIN profiles /\ active \in DOMAIN profiles
  BY <1>1, FreeProfileId, BeginsSound DEF ApartInv, StoreInv
<1>4. profiles'[active] = profiles[active]
  BY <1>2, <1>3 DEF With
<1> QED BY <1>1, <1>4, NothingNew

LEMMA DeleteHeld == ASSUME ApartInv, Sound, DeleteProfile PROVE HeldInv'
<1> DEFINE next == First(DOMAIN profiles \ {active})
<1>1. /\ Ready /\ Deletable(active) /\ UNCHANGED <<inputMode, hwCount>>
      /\ profiles' = Without(active) /\ SwitchTo(next, profiles[next], <<>>, None)
  BY DEF DeleteProfile
<1>2. next \in DOMAIN profiles \ {active}
  BY <1>1, OthersRemain DEF ApartInv, StoreInv
<1> HIDE DEF next
<1>3. /\ Readings /\ next \in Nat \ {0} /\ HasOwn(OwnIds(next, profiles), next)
      /\ profiles[next] \in OwnLists(next, profiles) /\ Distinct(profiles[next])
  BY <1>1, <1>2, BeginsSound, OwnLegacy DEF ApartInv, Lists
<1>4. profiles'[next] = profiles[next]
  BY <1>1, <1>2 DEF Without
<1> QED BY <1>1, <1>3, <1>4, SwitchHolds DEF OwnLists, NoProfile

LEMMA DeleteRemotelyHeld ==
  ASSUME ApartInv, Sound, HeldInv, NEW p \in DOMAIN profiles, DeleteProfileRemotely(p) PROVE HeldInv'
<1> DEFINE next == First(DOMAIN profiles \ {p})
<1>1. Ready /\ Deletable(p) /\ UNCHANGED <<inputMode, hwCount, running>>
  BY DEF DeleteProfileRemotely
<1>2. CASE p = active
  <2>1. next \in DOMAIN profiles
    BY <1>1, OthersRemain DEF ApartInv, StoreInv
  <2>2. SwitchTo(next, profiles[next], <<Unlink(p)>>, p) /\ UNCHANGED profiles
    BY <1>2 DEF DeleteProfileRemotely
  <2> HIDE DEF next
  <2>3. /\ Readings /\ next \in Nat \ {0} /\ HasOwn(OwnIds(next, profiles), next)
        /\ profiles[next] \in OwnLists(next, profiles) /\ Distinct(profiles[next])
    BY <1>1, <2>1, BeginsSound, OwnLegacy DEF ApartInv, Lists
  <2>4. Unlink(p).why = "delete"
    BY DEF Unlink, ProfileWrite
  <2>5. NoProfile(<<Unlink(p)>>)
    BY <2>4 DEF NoProfile
  <2>6. profiles'[next] = profiles[next]
    BY <2>2
  <2> QED BY <1>1, <2>2, <2>3, <2>5, <2>6, SwitchHolds DEF OwnLists
<1>3. CASE p # active
  <2>1. profiles' = Without(p) /\ UNCHANGED <<config, channels, todo, whole>>
    BY <1>1, <1>3 DEF DeleteProfileRemotely, config
  <2>2. active \in DOMAIN profiles
    BY <1>1, BeginsSound
  <2>3. profiles'[active] = profiles[active]
    BY <1>3, <2>1, <2>2 DEF Without
  <2> QED BY <1>1, <2>1, <2>3, NothingNew
<1> QED BY <1>2, <1>3

LEMMA AssignHeld ==
  ASSUME ApartInv, ApartInv', Sound, HeldInv, NEW i \in Nat, AssignTarget(i) PROVE HeldInv'
<1> DEFINE size == IF i > Len(channels) THEN i ELSE Len(channels)
           Flag(j) == inputMode = "midi_only" \/ (inputMode = "hybrid" /\ j > hwCount)
           New(j) == LegacyId(active, j, Ids(channels))
           padded == [j \in 1..size |-> IF j <= Len(channels) THEN channels[j]
                                        ELSE Blank(New(j), Flag(j))]
           stored == profiles[active]
<1> SUFFICES ASSUME whole'
             PROVE  /\ Placed(inputMode', hwCount', midiCount', channels')
                    /\ OnItsWay(channels', profiles'[active'], todo')
  BY DEF HeldInv
<1>1. /\ Ready /\ i \in 1..Shown /\ channels' = [padded EXCEPT ![i].target = 1]
      /\ todo' = RoutineWrites(active, stored, channels', None)
      /\ UNCHANGED <<inputMode, hwCount, midiCount, active, profiles, running>> /\ whole
  BY DEF AssignTarget, config
<1>2. /\ Placed(inputMode, hwCount, midiCount, channels) /\ Held(channels, stored)
  BY <1>1, AtRest
<1>3. /\ Apart(profiles) /\ active \in Nat \ {0} /\ channels \in OwnLists(active, profiles)
      /\ stored \in OwnLists(active, profiles) /\ HasOwn(OwnIds(active, profiles), active)
  BY <1>1, BeginsSound, OwnLegacy DEF ApartInv, Lists
<1>4. PICK I : I = OwnIds(active, profiles)
  OBVIOUS
<1>5. PICK y : y = channels'
  OBVIOUS
<1>6. y \in Seq(StripsOf(I))
  BY <1>1, <1>4, <1>5 DEF ApartInv, Lists, Ready, OwnLists
<1>7. /\ channels \in Seq(StripsOf(I)) /\ Len(channels) \in Nat /\ DOMAIN channels = 1..Len(channels)
      /\ \A j \in 1..Len(channels) : channels[j] \in StripsOf(I)
  BY <1>3, <1>4 DEF OwnLists
<1>8. size \in Nat /\ Len(channels) <= size /\ i \in 1..size
  BY <1>1, <1>7
<1>0. i <= Len(channels) => size = Len(channels)
  BY <1>1, <1>7
<1> HIDE DEF size
<1>9.
      /\ \A j \in 1..size : y[j].id = padded[j].id /\ y[j].midi = padded[j].midi
      /\ DOMAIN y = 1..size
  <2>1. \A j \in 1..size : padded[j] \in [id : {padded[j].id}, midi : {padded[j].midi}, target : {0, 1}]
    <3> TAKE j \in 1..size
    <3>1. CASE j <= Len(channels)
      <4>1. padded[j] = channels[j]
        <5> HIDE DEF New, Flag
        <5> QED BY <3>1
      <4>2. channels[j] \in StripsOf(I)
        BY <1>7, <1>8, <3>1
      <4> HIDE DEF padded
      <4> QED BY <4>1, <4>2 DEF StripsOf
    <3>2. CASE ~(j <= Len(channels))
      <4>1. padded[j] = Blank(New(j), Flag(j))
        BY <3>2
      <4> HIDE DEF padded, New, Flag
      <4> QED BY <4>1 DEF Blank
    <3> QED BY <3>1, <3>2
  <2>2. DOMAIN padded = 1..size
    OBVIOUS
  <2> HIDE DEF padded
  <2>3. y = [padded EXCEPT ![i] = [padded[i] EXCEPT !.target = 1]]
    BY <1>1, <1>5
  <2> QED BY <1>8, <2>1, <2>2, <2>3
<1>10. \A j \in 1..Len(channels) : j \in 1..size /\ y[j].id = channels[j].id /\ y[j].midi = channels[j].midi
  <2> TAKE j \in 1..Len(channels)
  <2>1. j \in 1..size /\ j <= Len(channels)
    BY <1>7, <1>8
  <2>2. padded[j] = channels[j]
    <3> HIDE DEF New, Flag
    <3> QED BY <2>1
  <2> QED BY <1>9, <2>1, <2>2
<1>11. ASSUME NEW j \in 1..size, j > Len(channels)
       PROVE  y[j].id \notin Ids(channels) /\ \E slot : y[j].id = <<active, j, slot>>
  <2>1. j \in Nat /\ Len(channels) <= j /\ ~(j <= Len(channels))
    BY <1>7, <1>8, <1>11
  <2>2. padded[j] = Blank(New(j), Flag(j))
    <3> HIDE DEF New, Flag
    <3> QED BY <2>1
  <2>3. padded[j].id = New(j)
    <3> HIDE DEF New, Flag, padded
    <3> QED BY <2>2 DEF Blank
  <2>4. IsFiniteSet(Ids(channels)) /\ Cardinality(Ids(channels)) \in Nat /\ Cardinality(Ids(channels)) <= j
    <3>1. IsFiniteSet(Ids(channels)) /\ Cardinality(Ids(channels)) <= Len(channels)
      BY <1>7, IdsAreFew
    <3>2. Cardinality(Ids(channels)) \in Nat
      BY <3>1, FS_CardinalityType
    <3> QED BY <1>7, <2>1, <3>1, <3>2
  <2>5. PICK slot \in 0..j : New(j) = <<active, j, slot>> /\ <<active, j, slot>> \notin Ids(channels)
    BY <2>1, <2>4, LegacyIdIsFree
  <2> HIDE DEF New, padded
  <2> QED BY <1>9, <2>3, <2>5
<1> HIDE DEF padded
<1>12. \A j \in 1..Len(channels) : y[j].id \in Ids(channels)
  BY <1>7, <1>10 DEF Ids
<1>13. Distinct(y)
  <2> SUFFICES ASSUME NEW j \in 1..size, NEW k \in 1..size, y[j].id = y[k].id PROVE j = k
    BY <1>9 DEF Distinct
  <2>1. j \in Nat /\ k \in Nat
    BY <1>8
  <2>2. CASE j <= Len(channels) /\ k <= Len(channels)
    <3>1. j \in DOMAIN channels /\ k \in DOMAIN channels
      BY <1>7, <1>8, <2>2
    <3>2. channels[j].id = channels[k].id
      BY <1>7, <1>10, <3>1
    <3> QED BY <1>2, <3>1, <3>2 DEF Held, Distinct
  <2>3. CASE j > Len(channels) /\ k > Len(channels)
    <3>1. PICK s : y[j].id = <<active, j, s>>
      BY <1>11, <2>3
    <3>2. PICK t : y[k].id = <<active, k, t>>
      BY <1>11, <2>3
    <3>3. <<active, j, s>> = <<active, k, t>>
      BY <3>1, <3>2
    <3> QED BY <3>3
  <2>4. CASE j <= Len(channels) /\ k > Len(channels)
    <3>1. j \in 1..Len(channels)
      BY <1>7, <2>1, <2>4
    <3> QED BY <1>11, <1>12, <2>4, <3>1
  <2>5. CASE j > Len(channels) /\ k <= Len(channels)
    <3>1. k \in 1..Len(channels)
      BY <1>7, <2>1, <2>5
    <3> QED BY <1>11, <1>12, <2>5, <3>1
  <2> QED BY <1>7, <2>1, <2>2, <2>3, <2>4, <2>5
<1>14. /\ Len(stored) \in Nat /\ Len(y) = size /\ Len(stored) = Len(channels)
       /\ Ids(stored) = {channels[k].id : k \in 1..Len(stored)}
  <2>1. Len(stored) \in Nat
    BY <1>3, LenProperties DEF OwnLists
  <2>2. Len(y) = size
    BY <1>6, <1>8, <1>9, LenProperties
  <2> QED BY <1>2, <2>1, <2>2 DEF Held
<1>15. size = Len(channels)
  <2>1. Shown \in Nat /\ Shown <= Len(channels)
    <3>1. CASE inputMode = "usb"
      BY <1>2, <3>1 DEF Placed, Shown, NumChannels, ApartInv, Lists, Readings
    <3>2. CASE inputMode # "usb"
      BY <1>2, <1>7, <3>2 DEF Placed, Shown
    <3> QED BY <3>1, <3>2
  <2> QED BY <1>0, <1>1, <1>7, <2>1
<1>16. PICK w : /\ RoutineWrites(active, stored, y, None) = <<w>>
                /\ w.to # Config /\ w.why # "delete" /\ w.data = RoutineSave(active, stored, y)
  <2>1. ~(Len(y) < Len(stored))
    BY <1>7, <1>8, <1>14
  <2> QED BY <1>3, <2>1, RoutineWritten
<1>17. w.data = SubSeq(y, 1, Len(stored))
  <2>1. Len(stored) <= Len(y)
    BY <1>7, <1>8, <1>14
  <2>2. HasOwn(I, active)
    BY <1>3, <1>4
  <2> QED BY <1>6, <1>13, <1>14, <1>16, <2>1, <2>2, RoutineKeeps
<1>18. Held(y, w.data) /\ Ids(w.data) = Ids(stored)
  <2>0. Len(stored) \in 0..Len(y)
    BY <1>7, <1>8, <1>14
  <2>1. Len(stored) = Len(y)
    BY <1>14, <1>15
  <2>2. Held(y, w.data) /\ Ids(w.data) = {y[k].id : k \in 1..Len(stored)}
    BY <1>6, <1>13, <1>17, <2>0, <2>1, HeldPrefix
  <2>3. \A k \in 1..Len(stored) : k \in 1..Len(channels)
    BY <1>7, <1>14
  <2>4. {y[k].id : k \in 1..Len(stored)} = {channels[k].id : k \in 1..Len(stored)}
    BY <1>10, <2>3
  <2> QED BY <1>14, <2>2, <2>4
<1>19. OnItsWay(y, stored, <<w>>)
  <2>1. 1 \in DOMAIN <<w>> /\ <<w>>[1] = w /\ DOMAIN <<w>> \ {1} = {}
    OBVIOUS
  <2> QED BY <1>16, <1>18, <2>1, OneComes
<1>20. Placed(inputMode, hwCount, midiCount, y)
  BY <1>2, <1>7, <1>9, <1>10, <1>14, <1>15 DEF Placed
<1> HIDE DEF stored
<1>21. todo' = <<w>> /\ profiles'[active'] = stored
  BY <1>1, <1>5, <1>16 DEF stored
<1> QED BY <1>1, <1>5, <1>19, <1>20, <1>21

LEMMA ResizeComes ==
  ASSUME NEW I, NEW p \in Nat \ {0}, HasOwn(I, p), NEW stored \in Seq(StripsOf(I)),
         NEW y \in Seq(StripsOf(I)), Distinct(y), NEW target, target = Len(y),
         NEW removed, Ids(stored) \ Ids(y) \subseteq removed,
         NEW s, NEW k \in DOMAIN s, s[k] = Resize(p, ResizeSave(p, stored, y, target), removed),
         \A j \in DOMAIN s \ {k} : s[j].to = Config \/ (j < k /\ s[j].data = stored)
  PROVE  OnItsWay(y, stored, s)
<1> DEFINE data == ResizeSave(p, stored, y, target)
<1>1. data = y
  BY ResizeKeeps
<1> HIDE DEF data
<1>2. s[k] = Resize(p, data, removed)
  BY DEF data
<1>3. s[k].to # Config /\ s[k].why # "delete" /\ s[k].data = data /\ s[k].removed = removed
  BY <1>2 DEF Resize, ProfileWrite, Config
<1>4. Held(y, y)
  BY HeldItself
<1>5. \A j \in DOMAIN s \ {k} : \/ s[j].to = Config \/ s[j].why = "delete"
                                \/ j < k /\ s[j].data = stored
  OBVIOUS
<1> QED BY <1>1, <1>3, <1>4, <1>5, OneComes

\* _ensure_channels keeps what there is and sets the flags by position.
LEMMA EnsureHas ==
  ASSUME NEW I, FreshIds \subseteq I, NEW drawn \in Nat, NEW x \in Seq(StripsOf(I)),
         NEW n \in Nat, CanDraw(drawn + Missing(n, x)), NEW mode, NEW hw \in Nat
  PROVE  LET y == Ensure(drawn, x, n, mode, hw)
             h == IF mode = "midi_only" THEN 0 ELSE hw IN
         /\ y \in Seq(StripsOf(I)) /\ Len(y) = Len(x) + Missing(n, x)
         /\ \A i \in 1..Len(x) : y[i].id = x[i].id /\ y[i].target = x[i].target
         /\ \A i \in 1..Len(y) : y[i].midi = (i > h)
         /\ Distinct(x) /\ Ids(x) \cap FreshIds = {} => Distinct(y)
<1> DEFINE new == NewStrips(drawn, Missing(n, x), FALSE)
           z == x \o new
           h == IF mode = "midi_only" THEN 0 ELSE hw
           y == Ensure(drawn, x, n, mode, hw)
<1>1. Missing(n, x) \in Nat /\ Len(x) \in Nat
  BY DEF Missing
<1>2. /\ new \in Seq(StripsOf(FreshIds)) /\ new \in Seq(StripsOf(I)) /\ Len(new) = Missing(n, x)
      /\ Distinct(new)
  BY <1>1, NewStripsAreFresh, NewStripsAreDistinct, MoreIds
<1> HIDE DEF new
<1>3. /\ z \in Seq(StripsOf(I)) /\ Len(z) = Len(x) + Missing(n, x)
      /\ \A i \in 1..Len(x) : z[i] = x[i]
  <2>1. /\ z \in Seq(StripsOf(I)) /\ Len(z) = Len(x) + Len(new)
        /\ \A i \in 1..Len(x) + Len(new) : z[i] = IF i <= Len(x) THEN x[i] ELSE new[i - Len(x)]
    BY <1>2, ConcatProperties
  <2>2. \A i \in 1..Len(x) : i \in 1..Len(x) + Missing(n, x) /\ i <= Len(x)
    BY <1>1
  <2> HIDE DEF z
  <2> QED BY <1>2, <2>1, <2>2
<1>4. Ids(x) \cap FreshIds = {} /\ Distinct(x) => Distinct(z)
  <2>1. Ids(new) \subseteq FreshIds
    BY <1>2, IdsOfList
  <2>2. Ids(x) \cap FreshIds = {} => Ids(x) \cap Ids(new) = {}
    BY <2>1
  <2> QED BY <1>2, <2>2, JoinDistinct
<1> HIDE DEF z
<1>5. h \in Nat /\ y = ByPosition(z, h)
  BY DEF Ensure, z, new
<1> HIDE DEF y, h
<1>6. /\ Len(y) = Len(z) /\ y \in Seq(StripsOf(I)) /\ (Distinct(z) => Distinct(y))
      /\ \A i \in 1..Len(z) : /\ y[i].id = z[i].id /\ y[i].target = z[i].target
                              /\ y[i].midi = (i > h)
  BY <1>3, <1>5, ByPositionHas, ByPositionFits
<1>7. \A i \in 1..Len(x) : i \in 1..Len(z)
  BY <1>1, <1>3
<1> QED BY <1>3, <1>4, <1>6, <1>7 DEF y, h

LEMMA ModeHeld ==
  ASSUME ApartInv, Sound, HeldInv, NEW mode \in Modes, ChangeInputMode(mode) PROVE HeldInv'
<1> SUFFICES ASSUME whole'
             PROVE  /\ Placed(inputMode', hwCount', midiCount', channels')
                    /\ OnItsWay(channels', profiles'[active'], todo')
  BY DEF HeldInv
<1> DEFINE stored == profiles[active]
           Written(m) == ConfigWrite(ConfigData(mode, hwCount, m, active))
           Saved(x) == Resize(active, ResizeSave(active, stored, x, Len(x)), {})
           Number(m) == NumChannels(mode, hwCount, m)
<1>1. /\ Ready /\ UNCHANGED <<hwCount, active, saved, profiles, running>> /\ whole
      /\ inputMode' = mode /\ midiCount' = MidiCountForMode(mode, hwCount, Len(channels))
      /\ CanDraw(Missing(Number(midiCount'), channels))
      /\ channels' = Ensure(0, channels, Number(midiCount'), mode, hwCount)
      /\ todo' = <<Written(midiCount'), Saved(channels'), Written(midiCount')>>
  BY DEF ChangeInputMode
<1>2. Held(channels, stored)
  BY <1>1, AtRest
<1>3. /\ Apart(profiles) /\ active \in Nat \ {0} /\ channels \in OwnLists(active, profiles)
      /\ stored \in OwnLists(active, profiles) /\ HasOwn(OwnIds(active, profiles), active)
      /\ FreshIds \subseteq OwnIds(active, profiles) /\ FreshIds \cap Ids(channels) = {}
      /\ hwCount \in Nat /\ Readings
  BY <1>1, BeginsSound, OwnLegacy, FreshIsOwn DEF ApartInv, Lists, Readings
<1>4. PICK I, y, midi, n : /\ I = OwnIds(active, profiles) /\ y = channels' /\ midi = midiCount'
                           /\ n = Number(midi)
  OBVIOUS
<1>5. channels \in Seq(StripsOf(I)) /\ stored \in Seq(StripsOf(I)) /\ Len(channels) \in Nat
      /\ Len(stored) \in Nat
  BY <1>3, <1>4, LenProperties DEF OwnLists
<1>6. midi \in Nat /\ n \in Nat
  <2>1. midi \in Nat
    BY <1>1, <1>3, <1>4, <1>5 DEF MidiCountForMode
  <2> QED BY <1>3, <1>4, <2>1, NumbersOfStrips
<1>7. y = Ensure(0, channels, n, mode, hwCount) /\ CanDraw(0 + Missing(n, channels))
  <2>1. 0 + Missing(n, channels) = Missing(n, channels)
    BY <1>5, <1>6 DEF Missing
  <2> QED BY <1>1, <1>4, <2>1
<1>8. /\ y \in Seq(StripsOf(I)) /\ Len(y) = Len(channels) + Missing(n, channels)
      /\ \A i \in 1..Len(channels) : y[i].id = channels[i].id /\ y[i].target = channels[i].target
      /\ \A i \in 1..Len(y) : y[i].midi = (i > IF mode = "midi_only" THEN 0 ELSE hwCount)
      /\ Distinct(channels) /\ Ids(channels) \cap FreshIds = {} => Distinct(y)
  BY <1>3, <1>4, <1>5, <1>6, <1>7, EnsureHas
<1>9. Distinct(y)
  BY <1>2, <1>3, <1>8 DEF Held
<1>10. IF mode = "usb" THEN hwCount <= Len(y) ELSE Len(y) = n
  <2>1. CASE mode = "midi_only"
    BY <1>1, <1>4, <1>5, <1>8, <2>1 DEF MidiCountForMode, NumChannels, Missing
  <2>2. CASE mode = "hybrid"
    BY <1>1, <1>3, <1>4, <1>5, <1>8, <2>2 DEF MidiCountForMode, NumChannels, Missing
  <2>3. CASE mode = "usb"
    BY <1>3, <1>4, <1>5, <1>8, <2>3 DEF NumChannels, Missing
  <2> QED BY <2>1, <2>2, <2>3 DEF Modes
<1>11. Placed(mode, hwCount, midi, y)
  <2>1. DOMAIN y = 1..Len(y)
    BY <1>8
  <2> QED BY <1>4, <1>8, <1>10, <2>1 DEF Placed
<1>12. Ids(stored) \ Ids(y) \subseteq {}
  <2>1. Ids(stored) = {channels[i].id : i \in 1..Len(stored)} /\ Len(stored) <= Len(channels)
    BY <1>2 DEF Held
  <2>2. Missing(n, channels) \in Nat
    BY <1>5, <1>6 DEF Missing
  <2>3. \A i \in 1..Len(stored) : i \in 1..Len(channels) /\ i \in 1..Len(y)
    BY <1>5, <1>8, <2>1, <2>2
  <2>4. Ids(y) = {y[i].id : i \in 1..Len(y)}
    BY <1>8, IdsOfPlaces
  <2> QED BY <1>8, <2>1, <2>3, <2>4
<1>13. PICK u, w : u = Written(midi) /\ w = Saved(y)
  OBVIOUS
<1>14. OnItsWay(y, stored, <<u, w, u>>)
  <2>1. u.to = Config
    BY <1>13, ConfigToConfig
  <2>2. PICK s : s = <<u, w, u>>
    OBVIOUS
  <2>3. 2 \in DOMAIN s /\ s[2] = w /\ \A j \in DOMAIN s \ {2} : s[j].to = Config
    BY <2>1, <2>2
  <2>4. w = Resize(active, ResizeSave(active, stored, y, Len(y)), {})
    BY <1>13
  <2> HIDE DEF stored
  <2>5. OnItsWay(y, stored, s)
    BY <1>3, <1>4, <1>5, <1>8, <1>9, <1>12, <2>3, <2>4, ResizeComes
  <2> QED BY <2>2, <2>5
<1> HIDE DEF Written, Saved, Number
<1>15. todo' = <<u, w, u>> /\ profiles'[active'] = stored
  BY <1>1, <1>4, <1>13
<1> HIDE DEF stored
<1> QED BY <1>1, <1>4, <1>11, <1>14, <1>15

LEMMA BothParts ==
  ASSUME NEW S, NEW x \in Seq(S), NEW y \in Seq(S)
  PROVE  /\ x \o y \in Seq(S) /\ Len(x \o y) = Len(x) + Len(y)
         /\ \A i \in 1..Len(x) : (x \o y)[i] = x[i]
         /\ \A i \in 1..Len(y) : (x \o y)[Len(x) + i] = y[i]
BY ConcatProperties

LEMMA AddMidiHeld == ASSUME ApartInv, Sound, HeldInv, AddMidiChannel PROVE HeldInv'
<1> SUFFICES ASSUME whole'
             PROVE  /\ Placed(inputMode', hwCount', midiCount', channels')
                    /\ OnItsWay(channels', profiles'[active'], todo')
  BY DEF HeldInv
<1> DEFINE stored == profiles[active]
           Number(m) == NumChannels(inputMode, hwCount, m)
           Written(m) == ConfigWrite(ConfigData(inputMode, hwCount, m, active))
           Saved(x, m) == Resize(active, ResizeSave(active, stored, x, Number(m)), {})
           h == IF inputMode = "midi_only" THEN 0 ELSE hwCount
<1>1. /\ Ready /\ UNCHANGED <<inputMode, hwCount, active, saved, profiles, running>> /\ whole
      /\ inputMode # "usb" /\ midiCount' = midiCount + 1
      /\ CanDraw(Missing(Number(midiCount'), stored))
      /\ channels' = ResizeChannels(stored, channels,
                                    NewStrips(0, Missing(Number(midiCount'), stored), TRUE),
                                    Number(midiCount'))
      /\ todo' = <<Written(midiCount'), Saved(channels', midiCount')>>
  BY DEF AddMidiChannel
<1>2. Held(channels, stored) /\ Placed(inputMode, hwCount, midiCount, channels)
  BY <1>1, AtRest
<1>3. /\ Apart(profiles) /\ active \in Nat \ {0} /\ channels \in OwnLists(active, profiles)
      /\ stored \in OwnLists(active, profiles) /\ HasOwn(OwnIds(active, profiles), active)
      /\ FreshIds \subseteq OwnIds(active, profiles) /\ FreshIds \cap Ids(channels) = {}
      /\ hwCount \in Nat /\ midiCount \in Nat /\ inputMode \in Modes
  BY <1>1, BeginsSound, OwnLegacy, FreshIsOwn DEF ApartInv, Lists, Readings
<1>4. PICK I, y, midi, n, size : /\ I = OwnIds(active, profiles) /\ y = channels' /\ midi = midiCount'
                                 /\ n = Number(midi) /\ size = Len(channels)
  OBVIOUS
<1>5. /\ channels \in Seq(StripsOf(I)) /\ stored \in Seq(StripsOf(I)) /\ size \in Nat
      /\ DOMAIN channels = 1..size
  BY <1>3, <1>4, LenProperties DEF OwnLists
<1>6. /\ Len(stored) = size /\ DOMAIN stored = 1..size
      /\ size = Number(midiCount) /\ (\A i \in 1..size : channels[i].midi = (i > h))
  BY <1>1, <1>2, <1>4, <1>5 DEF Held, Placed
<1>7. n = size + 1 /\ n \in Nat /\ h \in Nat /\ h <= size /\ midi = midiCount + 1
  BY <1>1, <1>3, <1>4, <1>6 DEF NumChannels, Modes
<1> HIDE DEF Number, h
<1>8. Missing(n, stored) = 1
  BY <1>5, <1>6, <1>7 DEF Missing
<1> DEFINE new == NewStrips(0, 1, TRUE)
           front == [i \in DOMAIN stored |-> IF i <= Len(channels) THEN channels[i] ELSE stored[i]]
           whole2 == channels \o new
<1>9. y = SubSeq(front \o new, 1, n)
  BY <1>1, <1>4, <1>8 DEF ResizeChannels
<1>10. /\ new \in Seq(StripsOf(FreshIds)) /\ new \in Seq(StripsOf(I)) /\ Len(new) = 1 /\ Distinct(new)
       /\ new[1].midi = TRUE
  <2>1. CanDraw(0 + 1) /\ 1 \in Nat /\ 0 \in Nat
    BY <1>1, <1>4, <1>8
  <2>2. new \in Seq(StripsOf(FreshIds)) /\ Len(new) = 1 /\ Distinct(new)
    BY <2>1, NewStripsAreFresh, NewStripsAreDistinct
  <2>3. new[1] = Blank(NewId(0 + 1), TRUE)
    BY DEF NewStrips
  <2>4. new[1].midi = TRUE
    <3> HIDE DEF new
    <3> QED BY <2>3 DEF Blank
  <2>5. new \in Seq(StripsOf(I))
    <3>1. Seq(StripsOf(FreshIds)) \subseteq Seq(StripsOf(I))
      BY <1>3, <1>4, MoreIds
    <3> QED BY <2>2, <3>1
  <2> QED BY <2>2, <2>4, <2>5
<1> HIDE DEF new
<1>11. front = channels
  <2>1. \A i \in 1..size : i <= Len(channels)
    BY <1>4, <1>5
  <2>2. front = [i \in 1..size |-> channels[i]]
    BY <1>6, <2>1
  <2>3. channels = [i \in 1..size |-> channels[i]]
    BY <1>5
  <2> QED BY <2>2, <2>3
<1> HIDE DEF front
<1>12. /\ whole2 \in Seq(StripsOf(I)) /\ Len(whole2) = n
       /\ \A i \in 1..size : whole2[i] = channels[i]
       /\ whole2[n] = new[1]
  <2>1. /\ whole2 \in Seq(StripsOf(I)) /\ Len(whole2) = size + 1
        /\ \A i \in 1..size : whole2[i] = channels[i]
        /\ \A i \in 1..1 : whole2[size + i] = new[i]
    BY <1>4, <1>5, <1>10, BothParts
  <2> HIDE DEF whole2
  <2>2. 1 \in 1..1
    OBVIOUS
  <2> QED BY <1>7, <2>1, <2>2
<1> HIDE DEF whole2
<1>13. y = whole2
  <2>1. SubSeq(whole2, 1, Len(whole2)) = whole2
    BY <1>12
  <2> QED BY <1>9, <1>11, <1>12, <2>1 DEF whole2
<1>14. Distinct(y)
  <2>1. Ids(new) \subseteq FreshIds
    BY <1>10, IdsOfList
  <2>2. Ids(channels) \cap Ids(new) = {}
    BY <1>3, <2>1
  <2>3. Distinct(channels)
    BY <1>2 DEF Held
  <2>4. Distinct(channels \o new)
    BY <1>5, <1>10, <2>2, <2>3, JoinDistinct
  <2> QED BY <1>13, <2>4 DEF whole2
<1>15. y \in Seq(StripsOf(I)) /\ Len(y) = n /\ DOMAIN y = 1..n
  BY <1>12, <1>13
<1>16. \A i \in 1..n : y[i].midi = (i > h)
  <2> TAKE i \in 1..n
  <2>1. CASE i \in 1..size
    <3>1. y[i] = channels[i]
      BY <1>12, <1>13, <2>1
    <3> QED BY <1>6, <2>1, <3>1
  <2>2. CASE i \notin 1..size
    <3>1. i = n /\ i > h
      BY <1>5, <1>7, <2>2
    <3>2. y[i].midi = TRUE
      BY <1>10, <1>12, <1>13, <3>1
    <3> QED BY <3>1, <3>2
  <2> QED BY <2>1, <2>2
<1>17. Placed(inputMode, hwCount, midi, y)
  BY <1>1, <1>4, <1>15, <1>16 DEF Placed, h, Number
<1>18. Ids(stored) \ Ids(y) \subseteq {}
  <2>1. Ids(stored) = {channels[i].id : i \in 1..size}
    BY <1>2, <1>6 DEF Held
  <2>2. Ids(y) = {y[i].id : i \in 1..n}
    BY <1>15, IdsOfPlaces
  <2>3. \A i \in 1..size : i \in 1..n /\ y[i] = channels[i]
    BY <1>5, <1>7, <1>12, <1>13
  <2> QED BY <2>1, <2>2, <2>3
<1>19. PICK u, w : u = Written(midi) /\ w = Saved(y, midi)
  OBVIOUS
<1>20. OnItsWay(y, stored, <<u, w>>)
  <2>1. u.to = Config
    BY <1>19, ConfigToConfig
  <2>2. PICK s : s = <<u, w>>
    OBVIOUS
  <2>3. 2 \in DOMAIN s /\ s[2] = w /\ \A j \in DOMAIN s \ {2} : s[j].to = Config
    BY <2>1, <2>2
  <2>4. w = Resize(active, ResizeSave(active, stored, y, n), {}) /\ n = Len(y)
    BY <1>4, <1>15, <1>19
  <2> HIDE DEF stored
  <2>5. OnItsWay(y, stored, s)
    BY <1>3, <1>4, <1>5, <1>14, <1>15, <1>18, <2>3, <2>4, ResizeComes
  <2> QED BY <2>2, <2>5
<1> HIDE DEF Written, Saved
<1>21. todo' = <<u, w>> /\ profiles'[active'] = stored
  BY <1>1, <1>4, <1>19
<1> HIDE DEF stored
<1> QED BY <1>1, <1>4, <1>17, <1>20, <1>21

\* A selection that has the first h numbers has them in their places.
LEMMA FrontKept ==
  ASSUME NEW N \in Nat, NEW h \in 0..N, NEW S \in SUBSET (1..N), 1..h \subseteq S
  PROVE  h <= Cardinality(S) /\ \A n \in 1..Cardinality(S) : (Nth(S, n) > h) = (n > h)
<1> DEFINE Upto(k) == UpTo(S, k)
<1>1. IsFiniteSet(S) /\ Cardinality(S) \in Nat
  <2>1. IsFiniteSet(1..N)
    BY CountTo
  <2>2. IsFiniteSet(S)
    BY <2>1, FS_Subset
  <2> QED BY <2>2, FS_CardinalityType
<1>2. h <= Cardinality(S)
  <2>1. h \in Nat
    OBVIOUS
  <2>2. Cardinality(1..h) = h
    BY <2>1, CountTo
  <2>3. Cardinality(1..h) <= Cardinality(S)
    BY <1>1, FS_Subset
  <2> QED BY <2>2, <2>3
<1>3. \A k \in 1..h : Cardinality(Upto(k)) = k
  <2> TAKE k \in 1..h
  <2>1. k \in Nat /\ \A j \in 1..k : j \in 1..h
    OBVIOUS
  <2>2. Upto(k) = 1..k
    <3>1. \A j \in S : j \in Nat /\ j >= 1
      OBVIOUS
    <3>2. \A j \in 1..k : j \in S /\ j <= k
      BY <2>1
    <3>3. \A j \in S : j <= k => j \in 1..k
      BY <2>1, <3>1
    <3> QED BY <3>2, <3>3 DEF UpTo
  <2> QED BY <2>1, <2>2, CountTo
<1>5. \A a, b \in S : Cardinality(Upto(a)) = Cardinality(Upto(b)) => a = b
  <2> SUFFICES ASSUME NEW a \in S, NEW b \in S, Cardinality(Upto(a)) = Cardinality(Upto(b))
               PROVE  a = b
    OBVIOUS
  <2> QED BY NthIsOnly
<1>4. ASSUME NEW n \in 1..Cardinality(S) PROVE (Nth(S, n) > h) = (n > h)
  <2> DEFINE k == Nth(S, n)
  <2>1. k \in S /\ Cardinality(Upto(k)) = n
    BY NthIsThere DEF UpTo
  <2> HIDE DEF k
  <2>2. k \in Nat /\ k >= 1 /\ n \in Nat /\ n >= 1 /\ h \in Nat
    BY <1>1, <2>1
  <2>3. k <= h => n <= h
    <3> SUFFICES ASSUME k <= h PROVE n <= h
      OBVIOUS
    <3>1. Cardinality(Upto(k)) = k
      BY <1>3, <2>2
    <3> HIDE DEF Upto
    <3> QED BY <2>1, <3>1
  <2>4. n <= h => k <= h
    <3> SUFFICES ASSUME n <= h PROVE k <= h
      OBVIOUS
    <3>1. n \in 1..h
      BY <2>2
    <3>2. Cardinality(Upto(n)) = n /\ n \in S
      BY <1>3, <3>1
    <3> HIDE DEF Upto
    <3>4. k = n
      BY <1>5, <2>1, <3>2
    <3> QED BY <3>4
  <2> QED BY <2>2, <2>3, <2>4 DEF k
<1> QED BY <1>2, <1>4

Behind(x, h, gone, y) ==
  /\ h <= Len(y) /\ (Distinct(x) => Distinct(y))
  /\ \A i \in 1..Len(y) : y[i].midi = (i > h)
  /\ Cardinality({i \in DOMAIN y : y[i].midi}) = Len(y) - h
  /\ Ids(x) \ Ids(y) \subseteq {x[i].id : i \in gone}

\* Removing strips behind the first h, when these and only these are no MIDI strips.
LEMMA KeepFront ==
  ASSUME NEW I, NEW x \in Seq(StripsOf(I)), NEW h \in 0..Len(x),
         \A i \in 1..Len(x) : x[i].midi = (i > h),
         NEW gone, \A i \in gone : i \in 1..Len(x) /\ x[i].midi
  PROVE  Behind(x, h, gone, Keep(x, gone)) /\ Keep(x, gone) \in Seq(StripsOf(I))
<1> DEFINE y == Keep(x, gone)
           S == Rest(x, gone)
<1>1. Len(x) \in Nat /\ DOMAIN x = 1..Len(x) /\ h \in Nat
  OBVIOUS
<1>2. S \in SUBSET (1..Len(x)) /\ 1..h \subseteq S
  <2>1. \A i \in 1..h : i \in 1..Len(x) /\ ~(i > h)
    BY <1>1
  <2>2. \A i \in 1..h : i \notin gone
    BY <2>1
  <2> QED BY <1>1, <2>1, <2>2 DEF Rest
<1>3. Selection(y, x, S) /\ y \in Seq(StripsOf(I))
  BY Keeps, KeepFits
<1>4. Ids(x) \ Ids(y) \subseteq {x[i].id : i \in gone}
  <2>1. Ids(y) = {x[i].id : i \in S}
    BY <1>3 DEF Selection
  <2>2. \A i \in DOMAIN x : i \in S \/ i \in gone
    BY DEF Rest
  <2> HIDE DEF y, S
  <2> QED BY <2>1, <2>2 DEF Ids
<1> HIDE DEF y, S
<1>5. Len(y) = Cardinality(S) /\ Len(y) \in Nat /\ DOMAIN y = 1..Len(y)
  <2>1. Len(y) = Cardinality(S)
    BY <1>3 DEF Selection
  <2>2. Len(y) \in Nat /\ DOMAIN y = 1..Len(y)
    BY <1>3, LenProperties
  <2> QED BY <2>1, <2>2
<1>6. h <= Cardinality(S) /\ \A n \in 1..Cardinality(S) : (Nth(S, n) > h) = (n > h)
  BY <1>1, <1>2, FrontKept
<1>7. \A n \in 1..Len(y) : y[n].midi = (n > h)
  <2> TAKE n \in 1..Len(y)
  <2>1. Nth(S, n) \in S /\ y[n] = x[Nth(S, n)]
    BY <1>3 DEF Selection
  <2>2. PICK k \in 1..Len(x) : k = Nth(S, n)
    BY <1>2, <2>1
  <2>3. y[n].midi = (k > h)
    BY <2>1, <2>2
  <2>4. (k > h) = (n > h)
    BY <1>5, <1>6, <2>2
  <2> QED BY <2>3, <2>4
<1>8. Cardinality({i \in DOMAIN y : y[i].midi}) = Len(y) - h
  <2>1. h <= Len(y) /\ h + 1 \in Int
    BY <1>1, <1>5, <1>6
  <2>2. {i \in DOMAIN y : y[i].midi} = (h + 1)..Len(y)
    <3>1. \A i \in 1..Len(y) : y[i].midi <=> i > h
      BY <1>7
    <3>2. {i \in DOMAIN y : y[i].midi} = {i \in 1..Len(y) : i > h}
      BY <1>5, <3>1
    <3>3. {i \in 1..Len(y) : i > h} = (h + 1)..Len(y)
      BY <1>1, <1>5
    <3> QED BY <3>2, <3>3
  <2>3. Cardinality((h + 1)..Len(y)) = IF h + 1 > Len(y) THEN 0 ELSE Len(y) - (h + 1) + 1
    <3>1. \A a, b \in Int : Cardinality(a..b) = IF a > b THEN 0 ELSE b - a + 1
      BY FS_Interval, Zenon
    <3>2. PICK n : n = Len(y)
      OBVIOUS
    <3>3. n \in Int /\ h + 1 \in Int
      BY <1>1, <1>5, <3>2
    <3> QED BY <3>1, <3>2, <3>3
  <2>4. PICK n : n = Len(y)
    OBVIOUS
  <2>5. n \in Nat /\ h \in Nat /\ h <= n
    BY <1>1, <1>5, <2>1, <2>4
  <2>6. (IF h + 1 > n THEN 0 ELSE n - (h + 1) + 1) = n - h
    BY <2>5
  <2> QED BY <2>2, <2>3, <2>4, <2>6
<1>9. Distinct(x) => Distinct(y)
  BY <1>3 DEF Selection
<1>10. h <= Len(y)
  BY <1>5, <1>6
<1>11. Behind(x, h, gone, y)
  BY <1>4, <1>7, <1>8, <1>9, <1>10 DEF Behind
<1> QED BY <1>3, <1>11 DEF y

LEMMA RemoveMidiHeld ==
  ASSUME ApartInv, Sound, HeldInv, NEW gone, RemoveMidiChannels(gone) PROVE HeldInv'
<1> SUFFICES ASSUME whole'
             PROVE  /\ Placed(inputMode', hwCount', midiCount', channels')
                    /\ OnItsWay(channels', profiles'[active'], todo')
  BY DEF HeldInv
<1> DEFINE stored == profiles[active]
           removed == {channels[i].id : i \in gone}
           order == ProfileWrite(active, stored, "order")
           Number(m) == NumChannels(inputMode, hwCount, m)
           Written(m) == ConfigWrite(ConfigData(inputMode, hwCount, m, active))
           Saved(x, m) == Resize(active, ResizeSave(active, stored, x, Number(m)), removed)
           h == IF inputMode = "midi_only" THEN 0 ELSE hwCount
<1>1. /\ Ready /\ UNCHANGED <<inputMode, hwCount, active, saved, profiles, running>> /\ whole
      /\ inputMode # "usb" /\ gone \subseteq {i \in DOMAIN channels : i <= Shown /\ channels[i].midi}
      /\ channels' = Keep(channels, gone)
      /\ midiCount' = Cardinality({i \in DOMAIN channels' : channels'[i].midi})
      /\ todo' = <<order, Written(midiCount'), Saved(channels', midiCount')>>
  BY DEF RemoveMidiChannels, Reorder
<1>2. Held(channels, stored) /\ Placed(inputMode, hwCount, midiCount, channels)
  BY <1>1, AtRest
<1>3. /\ Apart(profiles) /\ active \in Nat \ {0} /\ channels \in OwnLists(active, profiles)
      /\ stored \in OwnLists(active, profiles) /\ HasOwn(OwnIds(active, profiles), active)
      /\ hwCount \in Nat /\ midiCount \in Nat /\ inputMode \in Modes
  BY <1>1, BeginsSound, OwnLegacy DEF ApartInv, Lists, Readings
<1>4. PICK I, y, midi, size : /\ I = OwnIds(active, profiles) /\ y = channels' /\ midi = midiCount'
                              /\ size = Len(channels)
  OBVIOUS
<1>5. /\ channels \in Seq(StripsOf(I)) /\ stored \in Seq(StripsOf(I)) /\ size \in Nat
      /\ DOMAIN channels = 1..size
  BY <1>3, <1>4, LenProperties DEF OwnLists
<1>6. /\ Len(stored) = size
      /\ size = Number(midiCount) /\ (\A i \in 1..size : channels[i].midi = (i > h))
  BY <1>1, <1>2, <1>4, <1>5 DEF Held, Placed
<1>7. h \in 0..Len(channels)
  BY <1>1, <1>3, <1>4, <1>6 DEF NumChannels, Modes
<1>8. \A m \in Nat : m >= 0 => Number(m) = h + m
  BY <1>1, <1>3 DEF NumChannels, Modes
<1> HIDE DEF Number, h
<1>9. \A i \in gone : i \in 1..Len(channels) /\ channels[i].midi
  BY <1>1, <1>4, <1>5
<1>10. y \in Seq(StripsOf(I)) /\ Behind(channels, h, gone, y)
  <2>1. \A i \in 1..Len(channels) : channels[i].midi = (i > h)
    BY <1>4, <1>6
  <2>2. y = Keep(channels, gone)
    BY <1>1, <1>4
  <2> HIDE DEF stored, removed
  <2> QED BY <1>5, <1>7, <1>9, <2>1, <2>2, KeepFront
<1>11. Distinct(y) /\ h <= Len(y)
  BY <1>2, <1>10 DEF Held, Behind
<1>12. Len(y) \in Nat /\ DOMAIN y = 1..Len(y)
  BY <1>10, LenProperties
<1>13. midi \in Nat /\ Number(midi) = Len(y)
  <2>1. midi = Cardinality({i \in DOMAIN y : y[i].midi})
    BY <1>1, <1>4
  <2>2. midi = Len(y) - h
    BY <1>10, <2>1 DEF Behind
  <2>3. midi \in Nat /\ midi >= 0 /\ h + midi = Len(y)
    BY <1>4, <1>5, <1>7, <1>11, <1>12, <2>2
  <2> QED BY <1>8, <2>3
<1>14. Placed(inputMode, hwCount, midi, y)
  BY <1>10, <1>12, <1>13 DEF Placed, h, Number, Behind
<1>15. Ids(stored) \ Ids(y) \subseteq removed
  <2>1. Ids(stored) = {channels[i].id : i \in 1..size}
    BY <1>2, <1>6 DEF Held
  <2>2. Ids(stored) = Ids(channels)
    BY <1>5, <2>1 DEF Ids
  <2> QED BY <1>10, <2>2 DEF Behind
<1> HIDE DEF removed
<1>16. PICK u, v, w : u = order /\ v = Written(midi) /\ w = Saved(y, midi)
  OBVIOUS
<1>17. OnItsWay(y, stored, <<u, v, w>>)
  <2>1. v.to = Config
    BY <1>16, ConfigToConfig
  <2>2. u.data = stored
    BY <1>16 DEF ProfileWrite
  <2>3. PICK s : s = <<u, v, w>>
    OBVIOUS
  <2>4. 3 \in DOMAIN s /\ s[3] = w
    BY <2>3
  <2>5. w = Resize(active, ResizeSave(active, stored, y, Number(midi)), removed)
    BY <1>16
  <2> HIDE DEF stored
  <2>6. \A j \in DOMAIN s \ {3} : s[j].to = Config \/ (j < 3 /\ s[j].data = stored)
    <3>1. DOMAIN s = 1..3 /\ s[1] = u /\ s[2] = v
      BY <2>3
    <3>2. \A j \in DOMAIN s \ {3} : j = 1 \/ j = 2
      BY <3>1
    <3> QED BY <2>1, <2>2, <3>1, <3>2
  <2>7. OnItsWay(y, stored, s)
    BY <1>3, <1>4, <1>5, <1>10, <1>11, <1>13, <1>15, <2>4, <2>5, <2>6, ResizeComes
  <2> QED BY <2>3, <2>7
<1> HIDE DEF Written, Saved, order
<1>18. todo' = <<u, v, w>> /\ profiles'[active'] = stored
  BY <1>1, <1>4, <1>16
<1> HIDE DEF stored
<1> QED BY <1>1, <1>4, <1>14, <1>17, <1>18

\* The strips y follow from the strips x of a profile, strip by strip.
Follows(y, x) ==
  Len(y) = Len(x) /\ \A i \in 1..Len(x) : y[i].id = x[i].id /\ y[i].target = x[i].target

\* Counting n USB strips, when as many strips are shown as the file has.
Recounted(mode, hw, n, drawn, shown, count) ==
  IF n = hw THEN shown ELSE Ensure(drawn, shown, NumChannels(mode, n, count), mode, n)
Enough(mode, hw, n, drawn, shown, count) ==
  CanDraw(drawn + IF n = hw THEN 0 ELSE Missing(NumChannels(mode, n, count), shown))

LEMMA CountedHolds ==
  ASSUME NEW I, FreshIds \subseteq I, NEW shown \in Seq(StripsOf(I)), NEW stored, Len(stored) \in Nat,
         NEW mode \in Modes, mode # "midi_only", NEW hw \in Nat, NEW n \in Nat, NEW count \in Nat,
         NEW drawn \in Nat, Enough(mode, hw, n, drawn, shown, count),
         NEW y, y = Recounted(mode, hw, n, drawn, shown, count),
         Held(shown, stored), Placed(mode, hw, count, shown),
         CountsAgree(mode, n, count, y, stored)
  PROVE  /\ y \in Seq(StripsOf(I)) /\ Follows(y, shown)
         /\ Held(y, stored) /\ Placed(mode, n, count, y)
<1> DEFINE total == NumChannels(mode, n, count)
<1>1. /\ Len(shown) \in Nat /\ total \in Nat /\ Len(y) = Len(stored) /\ Len(stored) = Len(shown)
      /\ IF mode = "usb" THEN n <= Len(stored) ELSE total = Len(stored)
  BY DEF CountsAgree, Held, NumChannels, Modes
<1>2. CASE n = hw
  BY <1>2 DEF Follows, Recounted
<1>3. CASE n # hw
  <2>1. y = Ensure(drawn, shown, total, mode, n) /\ CanDraw(drawn + Missing(total, shown))
    BY <1>3 DEF Recounted, Enough
  <2> HIDE DEF total
  <2>2. /\ y \in Seq(StripsOf(I)) /\ Len(y) = Len(shown) + Missing(total, shown)
        /\ \A i \in 1..Len(shown) : y[i].id = shown[i].id /\ y[i].target = shown[i].target
        /\ \A i \in 1..Len(y) : y[i].midi = (i > IF mode = "midi_only" THEN 0 ELSE n)
    BY <1>1, <2>1, EnsureHas
  <2>3. Missing(total, shown) \in Nat
    BY <1>1 DEF Missing
  <2>4. Len(y) = Len(shown)
    BY <1>1, <2>2, <2>3
  <2>5. Follows(y, shown)
    BY <2>2, <2>4 DEF Follows
  <2>6. Held(y, stored)
    BY <2>2, <2>4, HeldSame
  <2>7. Placed(mode, n, count, y)
    <3>1. DOMAIN y = 1..Len(y)
      BY <2>2
    <3> QED BY <1>1, <2>2, <2>4, <3>1 DEF Placed, total
  <2> QED BY <2>2, <2>5, <2>6, <2>7
<1> QED BY <1>2, <1>3

LEMMA CountHeld ==
  ASSUME ApartInv, Sound, HeldInv, NEW n \in HwCounts, ChannelCountChanged(n) PROVE HeldInv'
<1> DEFINE Repair(p, strips, shown) ==
             IF shown # strips
               THEN <<ProfileWrite(p, RoutineSave(p, strips, shown), "hardware")>> ELSE <<>>
           Counted(p, count) ==
             IF n # hwCount THEN <<ConfigWrite(ConfigData(inputMode, n, count, p))>> ELSE <<>>
           Rebuilt(strips) == RebuildPartition(inputMode, hwCount, strips)
           Count(strips) == AppliedMidiCount(inputMode, hwCount, strips)
           Drawn(drawn, shown, count) ==
             CanDraw(drawn + IF n = hwCount THEN 0
                             ELSE Missing(NumChannels(inputMode, n, count), shown))
           Shows(drawn, shown, count) ==
             IF n = hwCount THEN shown
             ELSE Ensure(drawn, shown, NumChannels(inputMode, n, count), inputMode, n)
           new == NextProfileId
<1>1. /\ Ready /\ hwCount' = n /\ inputMode' = inputMode /\ inputMode # "midi_only"
  BY DEF ChannelCountChanged
<1>2. /\ Readings /\ Apart(profiles) /\ n \in Nat /\ active \in DOMAIN profiles /\ active \in Nat \ {0}
      /\ channels \in OwnLists(active, profiles) /\ profiles[active] \in OwnLists(active, profiles)
      /\ midiCount \in Nat /\ inputMode \in Modes /\ hwCount \in Nat
  BY <1>1, BeginsSound, ConstantsAssumption DEF ApartInv, Lists, Readings
<1>3. \/ /\ active' = active /\ midiCount' = midiCount /\ profiles' = profiles
         /\ channels' = Shows(0, channels, midiCount) /\ Drawn(0, channels, midiCount)
         /\ whole' => whole /\ CountsAgree(inputMode, n, midiCount, channels', profiles[active])
         /\ todo' = <<>> \o Counted(active, midiCount)
      \/ /\ Room
         /\ \E x \in NewProfiles({n}, {}) :
              /\ active' = new /\ midiCount' = Count(x) /\ profiles' = With(new, x)
              /\ channels' = Shows(n, Rebuilt(x), Count(x)) /\ Drawn(n, Rebuilt(x), Count(x))
              /\ whole' => /\ CountsAgree(inputMode, hwCount, Count(x), Rebuilt(x), x)
                           /\ CountsAgree(inputMode, n, Count(x), channels', x)
              /\ todo' = (<<ConfigWrite(ConfigData(inputMode, hwCount, Count(x), new))>>
                          \o Repair(new, x, Rebuilt(x))) \o Counted(new, Count(x))
  <2> DEFINE Following(drawn, shown, count) ==
               IF n = hwCount THEN shown
               ELSE Ensure(drawn, shown, NumChannels(inputMode, n, count), inputMode, n)
             Recount(small, x, p, count, shown, drawn, next, stored) ==
               /\ CanDraw(drawn + IF n = hwCount THEN 0
                                  ELSE Missing(NumChannels(inputMode, n, count), shown))
               /\ Len(next) <= MaxStrips
               /\ active' = p /\ midiCount' = count /\ channels' = next
               /\ whole' = /\ IF small THEN CountsAgree(inputMode, hwCount, count, shown, x) ELSE whole
                           /\ CountsAgree(inputMode, n, count, next, stored)
               /\ profiles' = IF small THEN With(p, x) ELSE profiles
               /\ todo' = (IF small
                             THEN <<ConfigWrite(ConfigData(inputMode, hwCount, count, p))>>
                                  \o Repair(p, x, shown)
                             ELSE <<>>) \o Counted(p, count)
  <2>1. PICK small \in {n < Usb(profiles[active])} :
        \E x \in IF ~small THEN {channels} ELSE IF Room THEN NewProfiles({n}, {}) ELSE {} :
          Recount(small, x, IF small THEN new ELSE active, IF small THEN Count(x) ELSE midiCount,
                   IF small THEN Rebuilt(x) ELSE channels, IF small THEN n ELSE 0,
                   Following(IF small THEN n ELSE 0, IF small THEN Rebuilt(x) ELSE channels,
                             IF small THEN Count(x) ELSE midiCount),
                   IF small THEN x ELSE profiles[active])
    BY Zenon DEF ChannelCountChanged
  <2> HIDE DEF Counted, Rebuilt, Count, Repair, new, Recount, Following
  <2>2. CASE small
    <3>1. PICK x \in NewProfiles({n}, {}) :
            /\ Room
            /\ Recount(small, x, IF small THEN new ELSE active, IF small THEN Count(x) ELSE midiCount,
                        IF small THEN Rebuilt(x) ELSE channels, IF small THEN n ELSE 0,
                        Following(IF small THEN n ELSE 0, IF small THEN Rebuilt(x) ELSE channels,
                                  IF small THEN Count(x) ELSE midiCount),
                        IF small THEN x ELSE profiles[active])
      BY <2>1, <2>2
    <3>2. /\ (IF small THEN new ELSE active) = new
          /\ (IF small THEN Count(x) ELSE midiCount) = Count(x)
          /\ (IF small THEN Rebuilt(x) ELSE channels) = Rebuilt(x)
          /\ (IF small THEN n ELSE 0) = n
          /\ (IF small THEN x ELSE profiles[active]) = x
      BY <2>2
    <3>3. Recount(small, x, new, Count(x), Rebuilt(x), n, Following(n, Rebuilt(x), Count(x)), x)
      BY <3>1, <3>2, Zenon
    <3>4. /\ Drawn(n, Rebuilt(x), Count(x))
          /\ active' = new /\ midiCount' = Count(x) /\ channels' = Shows(n, Rebuilt(x), Count(x))
          /\ whole' => /\ CountsAgree(inputMode, hwCount, Count(x), Rebuilt(x), x)
                       /\ CountsAgree(inputMode, n, Count(x), Following(n, Rebuilt(x), Count(x)), x)
          /\ profiles' = With(new, x)
          /\ todo' = (<<ConfigWrite(ConfigData(inputMode, hwCount, Count(x), new))>>
                      \o Repair(new, x, Rebuilt(x))) \o Counted(new, Count(x))
      <4>1. /\ Drawn(n, Rebuilt(x), Count(x))
            /\ active' = new /\ midiCount' = Count(x)
        BY <2>2, <3>3 DEF Recount
      <4>2. channels' = Shows(n, Rebuilt(x), Count(x))
        BY <3>3, Zenon DEF Recount, Following
      <4>3. whole' => /\ CountsAgree(inputMode, hwCount, Count(x), Rebuilt(x), x)
                      /\ CountsAgree(inputMode, n, Count(x), Following(n, Rebuilt(x), Count(x)), x)
        <5>1. PICK count, shown, next : /\ count = Count(x) /\ shown = Rebuilt(x)
                                        /\ next = Following(n, Rebuilt(x), Count(x))
          OBVIOUS
        <5>2. Recount(small, x, new, count, shown, n, next, x)
          BY <3>3, <5>1, Zenon
        <5>3. whole' => CountsAgree(inputMode, hwCount, count, shown, x)
          BY <2>2, <5>2 DEF Recount
        <5>4. whole' => CountsAgree(inputMode, n, count, next, x)
          BY <5>2, Zenon DEF Recount
        <5> QED BY <5>1, <5>3, <5>4, Zenon
      <4>4. /\ profiles' = With(new, x)
            /\ todo' = (<<ConfigWrite(ConfigData(inputMode, hwCount, Count(x), new))>>
                        \o Repair(new, x, Rebuilt(x))) \o Counted(new, Count(x))
        BY <2>2, <3>3 DEF Recount
      <4> QED BY <4>1, <4>2, <4>3, <4>4
    <3>5. channels' = Following(n, Rebuilt(x), Count(x))
      BY <3>3 DEF Recount
    <3>6. whole' => CountsAgree(inputMode, n, Count(x), channels', x)
      BY <3>4, <3>5, Zenon
    <3> HIDE DEF Drawn, Shows
    <3> QED BY <3>1, <3>4, <3>6, Zenon
  <2>3. CASE ~small
    BY <2>1, <2>3, Zenon DEF Recount, Following
  <2> QED BY <2>2, <2>3
<1> SUFFICES ASSUME whole'
             PROVE  /\ Placed(inputMode', hwCount', midiCount', channels')
                    /\ OnItsWay(channels', profiles'[active'], todo')
  BY DEF HeldInv
<1>4. CASE /\ active' = active /\ midiCount' = midiCount /\ profiles' = profiles
           /\ channels' = Shows(0, channels, midiCount) /\ Drawn(0, channels, midiCount)
           /\ whole' => whole /\ CountsAgree(inputMode, n, midiCount, channels', profiles[active])
           /\ todo' = <<>> \o Counted(active, midiCount)
  <2>1. Held(channels, profiles[active]) /\ Placed(inputMode, hwCount, midiCount, channels)
    BY <1>1, <1>4, AtRest
  <2>2. PICK I, y : I = OwnIds(active, profiles) /\ y = channels'
    OBVIOUS
  <2>3. /\ channels \in Seq(StripsOf(I)) /\ FreshIds \subseteq I /\ Len(profiles[active]) \in Nat
    BY <1>2, <2>2, FreshIsOwn, LenProperties DEF OwnLists
  <2>4. Held(y, profiles[active]) /\ Placed(inputMode, n, midiCount, y)
    <3>1. /\ y = Recounted(inputMode, hwCount, n, 0, channels, midiCount)
          /\ Enough(inputMode, hwCount, n, 0, channels, midiCount)
          /\ CountsAgree(inputMode, n, midiCount, y, profiles[active])
      BY <1>4, <2>2 DEF Recounted, Enough
    <3> QED BY <1>1, <1>2, <2>1, <2>3, <3>1, CountedHolds
  <2>5. \A j \in DOMAIN todo' : todo'[j].to = Config \/ todo'[j].why = "delete"
    <3> DEFINE c == ConfigWrite(ConfigData(inputMode, n, midiCount, active))
    <3>1. c.to = Config
      BY ConfigToConfig
    <3> HIDE DEF c
    <3>2. todo' = <<>> \o <<>> \/ todo' = <<>> \o <<c>>
      BY <1>4 DEF c
    <3>3. <<>> \o <<>> = <<>> /\ <<>> \o <<c>> = <<c>>
      BY ConcatEmptySeq
    <3> QED BY <3>1, <3>2, <3>3
  <2> PICK s : s = todo'
    OBVIOUS
  <2>6. OnItsWay(y, profiles[active], s)
    BY <2>4, <2>5, NoneComes
  <2> QED BY <1>1, <1>4, <2>2, <2>4, <2>6
<1>5. ASSUME Room, NEW x \in NewProfiles({n}, {}),
             active' = new, midiCount' = Count(x), profiles' = With(new, x),
             channels' = Shows(n, Rebuilt(x), Count(x)), Drawn(n, Rebuilt(x), Count(x)),
             CountsAgree(inputMode, hwCount, Count(x), Rebuilt(x), x),
             CountsAgree(inputMode, n, Count(x), channels', x),
             todo' = (<<ConfigWrite(ConfigData(inputMode, hwCount, Count(x), new))>>
                      \o Repair(new, x, Rebuilt(x))) \o Counted(new, Count(x))
      PROVE  /\ Placed(inputMode', hwCount', midiCount', channels')
             /\ OnItsWay(channels', profiles'[active'], todo')
  <2>1. x \in Seq(StripsOf(FreshIds)) /\ Distinct(x)
    BY <1>2, NewProfilesAreFresh, NewProfilesAreDistinct
  <2>2. new \in Nat \ {0} /\ profiles'[new] = x
    BY <1>1, <1>5, <2>1, ProfileAdded DEF With
  <2> HIDE DEF new
  <2>3. PICK I, y : I = OwnIds(new, profiles) /\ y = channels'
    OBVIOUS
  <2>4. FreshIds \subseteq I /\ HasOwn(I, new) /\ x \in Seq(StripsOf(I)) /\ Len(x) \in Nat
    <3>1. FreshIds \subseteq I /\ HasOwn(I, new)
      BY <1>2, <2>2, <2>3, FreshIsOwn, OwnLegacy
    <3> QED BY <2>1, <3>1, MoreIds, LenProperties
  <2>5. PICK shown, count : shown = Rebuilt(x) /\ count = Count(x)
    OBVIOUS
  <2>6. /\ shown \in Seq(StripsOf(I)) /\ Distinct(shown) /\ Len(shown) = Len(x) /\ Ids(x) = Ids(shown)
        /\ Held(shown, x) /\ Held(shown, shown)
        /\ Placed(inputMode, hwCount, count, shown) /\ RoutineSave(new, x, shown) = shown
        /\ count \in Nat
    <3>1. CountsAgree(inputMode, hwCount, Count(x), Rebuilt(x), x)
      BY <1>5
    <3> QED BY <1>2, <2>1, <2>4, <2>5, <3>1, ShownHolds, CountIsNumber
  <2>7. /\ y \in Seq(StripsOf(I)) /\ Follows(y, shown)
        /\ Held(y, x) /\ Placed(inputMode, n, count, y)
    <3>1. /\ y = Recounted(inputMode, hwCount, n, n, shown, count)
          /\ Enough(inputMode, hwCount, n, n, shown, count)
          /\ CountsAgree(inputMode, n, count, y, x)
      BY <1>5, <2>3, <2>5 DEF Recounted, Enough
    <3> QED BY <1>1, <1>2, <2>4, <2>6, <3>1, CountedHolds
  <2>8. Held(y, shown)
    <3>1. Len(shown) \in Nat
      BY <2>4, <2>6
    <3> QED BY <2>6, <2>7, <3>1, HeldSame DEF Follows
  <2>9. PICK c, then : /\ c = ConfigWrite(ConfigData(inputMode, hwCount, count, new))
                       /\ then = Counted(new, count)
    OBVIOUS
  <2>10. c.to = Config /\ NoProfile(then)
    <3>1. c.to = Config /\ ConfigWrite(ConfigData(inputMode, n, count, new)).to = Config
      BY <2>9, ConfigToConfig
    <3>2. then = <<>> \/ then = <<ConfigWrite(ConfigData(inputMode, n, count, new))>>
      BY <2>9
    <3> QED BY <3>1, <3>2 DEF NoProfile
  <2>11. OnItsWay(y, x, (<<c>> \o Repair(new, x, shown)) \o then)
    <3>1. CASE shown = x
      <4>1. Repair(new, x, shown) = <<>>
        BY <3>1
      <4> HIDE DEF Repair
      <4> QED BY <2>7, <2>10, <4>1, NoneBetween
    <3>2. CASE shown # x
      <4>1. PICK w : w = ProfileWrite(new, shown, "hardware")
        OBVIOUS
      <4>2. w.to # Config /\ w.why # "delete" /\ w.data = shown
        BY <2>2, <4>1 DEF ProfileWrite, Config
      <4>3. Repair(new, x, shown) = <<w>>
        BY <2>6, <3>2, <4>1
      <4> HIDE DEF Repair
      <4> QED BY <2>6, <2>8, <2>10, <4>2, <4>3, OneBetween
    <3> QED BY <3>1, <3>2
  <2> HIDE DEF Repair, Counted, Rebuilt, Count, Drawn, Shows
  <2>12. todo' = (<<c>> \o Repair(new, x, shown)) \o then
    BY <1>5, <2>5, <2>9
  <2> QED BY <1>1, <1>5, <2>2, <2>3, <2>5, <2>7, <2>11, <2>12
<1> HIDE DEF Counted, Rebuilt, Count, Repair, new, Drawn, Shows
<1> QED BY <1>3, <1>4, <1>5

LEMMA ReplaceHeld ==
  ASSUME ApartInv, ApartInv', Sound, HeldInv, Ready, NEW p \in DOMAIN profiles, NEW after,
         Distinct(after), ReplaceProfile(p, after)
  PROVE  HeldInv'
<1>1. /\ UNCHANGED <<inputMode, hwCount, active, running>> /\ profiles' = [profiles EXCEPT ![p] = after]
      /\ p \in Nat \ {0}
  BY BeginsSound DEF ReplaceProfile
<1>2. CASE p # active
  <2>1. UNCHANGED <<config, channels, todo, running, whole>>
    BY <1>1, <1>2 DEF ReplaceProfile, config
  <2>2. profiles'[active] = profiles[active]
    BY <1>1, <1>2
  <2> QED BY <2>1, <2>2, NothingNew
<1>3. CASE p = active
  <2> SUFFICES ASSUME whole'
               PROVE  /\ Placed(inputMode', hwCount', midiCount', channels')
                      /\ OnItsWay(channels', profiles'[active'], todo')
    BY DEF HeldInv
  <2>1. PICK y, midi, s, files : y = channels' /\ midi = midiCount' /\ s = todo' /\ files = profiles'
    OBVIOUS
  <2>2. /\ y = RebuildPartition(inputMode, hwCount, after)
        /\ midi = AppliedMidiCount(inputMode, hwCount, after)
        /\ CountsAgree(inputMode, hwCount, midi, y, after)
        /\ s \in {<<>>, RoutineWrites(p, after, y, None)}
    BY <1>3, <2>1 DEF ReplaceProfile, ApplyProfile
  <2>3. files[p] = after
    BY <1>1, <2>1
  <2>4. Apart(files) /\ Readings
    BY <2>1 DEF ApartInv, Lists
  <2>5. p \in DOMAIN files
    BY <1>1, <2>1
  <2>6. after \in Seq(StripsOf(OwnIds(p, files))) /\ HasOwn(OwnIds(p, files), p)
    BY <1>1, <2>3, <2>4, <2>5, OwnLegacy DEF Apart, OwnLists
  <2>7. /\ Distinct(y) /\ Len(y) = Len(after) /\ y \in Seq(StripsOf(OwnIds(p, files)))
        /\ Held(y, after) /\ Held(y, y) /\ Ids(after) = Ids(y)
        /\ Placed(inputMode, hwCount, midi, y) /\ RoutineSave(p, after, y) = y
    BY <2>2, <2>4, <2>6, ShownHolds DEF Readings
  <2>8. OnItsWay(y, after, s)
    <3>1. CASE s = <<>>
      <4>1. \A j \in DOMAIN s : s[j].to = Config \/ s[j].why = "delete"
        BY <3>1
      <4> QED BY <2>7, <4>1, NoneComes
    <3>2. CASE s = RoutineWrites(p, after, y, None)
      <4>1. Len(y) \in Nat /\ ~(Len(y) < Len(after))
        BY <2>7, LenProperties
      <4>2. PICK w : /\ RoutineWrites(p, after, y, None) = <<w>>
                     /\ w.to # Config /\ w.why # "delete" /\ w.data = y
        BY <1>1, <2>7, <4>1, RoutineWritten
      <4>3. DOMAIN s = {1} /\ s[1] = w
        <5>1. s = <<w>>
          BY <3>2, <4>2
        <5>2. DOMAIN <<w>> = {1} /\ <<w>>[1] = w
          BY Literals
        <5> QED BY <5>1, <5>2, Zenon
      <4>4. PICK k : k = 1
        OBVIOUS
      <4>5. /\ k \in DOMAIN s /\ s[k].to # Config /\ s[k].why # "delete" /\ s[k].data = y
            /\ DOMAIN s \ {k} = {}
        BY <4>2, <4>3, <4>4
      <4>6. Held(y, s[k].data) /\ Ids(after) \ Ids(s[k].data) \subseteq s[k].removed
        BY <2>7, <4>5
      <4> QED BY <4>5, <4>6, OneComes
    <3> QED BY <2>2, <3>1, <3>2
  <2> QED BY <1>1, <1>3, <2>1, <2>3, <2>7, <2>8
<1> QED BY <1>2, <1>3

LEMMA AddRemotelyHeld ==
  ASSUME ApartInv, ApartInv', Sound, HeldInv, NEW p \in DOMAIN profiles, AddChannelRemotely(p)
  PROVE  HeldInv'
<1>1. Ready /\ CanDraw(1) /\ ReplaceProfile(p, profiles[p] \o NewStrips(0, 1, TRUE))
  BY DEF AddChannelRemotely
<1>2. Distinct(profiles[p] \o NewStrips(0, 1, TRUE))
  BY <1>1, BeginsSound, DrawnDistinct
<1> QED BY <1>1, <1>2, ReplaceHeld

LEMMA DeleteRemoteHeld ==
  ASSUME ApartInv, ApartInv', Sound, HeldInv, NEW p \in DOMAIN profiles, NEW ids,
         DeleteChannelsRemotely(p, ids)
  PROVE  HeldInv'
<1>1. Ready /\ \E gone : ReplaceProfile(p, Keep(profiles[p], gone))
  BY DEF DeleteChannelsRemotely
<1>2. \A gone : Distinct(Keep(profiles[p], gone))
  BY <1>1, BeginsSound, Keeps DEF OwnLists, Selection
<1> QED BY <1>1, <1>2, ReplaceHeld

\* The first write is done or dropped: the others stand one place further on.
LEMMA Shifted ==
  ASSUME NEW s, s # <<>>, IsList(s)
  PROVE  /\ 1 \in DOMAIN s /\ Head(s) = s[1]
         /\ \A i \in DOMAIN Tail(s) : i + 1 \in DOMAIN s /\ i + 1 # 1 /\ Tail(s)[i] = s[i + 1]
         /\ \A k \in DOMAIN s : k \in Nat \ {0}
         /\ \A k \in DOMAIN s : k # 1 => k - 1 \in DOMAIN Tail(s) /\ Tail(s)[k - 1] = s[k]
         /\ \A i \in DOMAIN Tail(s) : i \in Nat
<1> DEFINE S == {s[i] : i \in DOMAIN s}
<1>1. s \in Seq(S)
  BY DEF IsList
<1>2. /\ Len(s) \in Nat /\ DOMAIN s = 1..Len(s) /\ Tail(s) \in Seq(S) /\ Len(Tail(s)) = Len(s) - 1
      /\ Len(s) # 0 /\ Head(s) = s[1] /\ DOMAIN Tail(s) = 1..(Len(s) - 1)
      /\ \A i \in 1..(Len(s) - 1) : Tail(s)[i] = s[i + 1]
  BY <1>1
<1> QED BY <1>2

LEMMA StillSettled ==
  ASSUME NEW s, s # <<>>, IsList(s), NEW x, NEW stored, Settled(x, stored, s)
  PROVE  Settled(x, stored, Tail(s))
<1> PICK t : t = Tail(s)
  OBVIOUS
<1>1. \A i \in DOMAIN t : i + 1 \in DOMAIN s /\ t[i] = s[i + 1]
  BY Shifted
<1>2. \A i \in Pending(t) : i + 1 \in Pending(s) /\ t[i] = s[i + 1]
  BY <1>1 DEF Pending
<1> QED BY <1>2 DEF Settled

LEMMA StillComing ==
  ASSUME NEW s, s # <<>>, IsList(s), NEW x, NEW stored, NEW k \in Pending(s), k # 1,
         Held(x, s[k].data), Ids(stored) \ Ids(s[k].data) \subseteq s[k].removed,
         \A j \in Pending(s) \ {k} : j < k /\ s[j].data = stored
  PROVE  Coming(x, stored, Tail(s))
<1> PICK t : t = Tail(s)
  OBVIOUS
<1>1. /\ \A i \in DOMAIN t : i + 1 \in DOMAIN s /\ t[i] = s[i + 1] /\ i \in Nat
      /\ \A l \in DOMAIN s : l # 1 => l - 1 \in DOMAIN t /\ t[l - 1] = s[l]
      /\ \A l \in DOMAIN s : l \in Nat \ {0}
  BY Shifted
<1>2. k \in DOMAIN s /\ k \in Nat \ {0}
  BY <1>1 DEF Pending
<1>3. PICK h : h = k - 1
  OBVIOUS
<1>4. h \in DOMAIN t /\ t[h] = s[k] /\ h \in Nat /\ h + 1 = k
  BY <1>1, <1>2, <1>3
<1>5. h \in Pending(t)
  BY <1>4 DEF Pending
<1>6. \A i \in Pending(t) : i \in Nat /\ i + 1 \in Pending(s) /\ t[i] = s[i + 1]
  BY <1>1 DEF Pending
<1>7. ASSUME NEW i \in Pending(t) \ {h} PROVE i < h /\ t[i].data = stored
  <2>0. i \in Nat /\ i + 1 \in Pending(s) /\ t[i] = s[i + 1]
    BY <1>6
  <2>4. i + 1 # k
    <3>1. i \in Nat /\ h \in Nat /\ i # h /\ k = h + 1
      BY <1>4, <2>0
    <3> QED BY <3>1
  <2>1. i \in Nat /\ i + 1 # k /\ i + 1 \in Pending(s) /\ t[i] = s[i + 1]
    BY <2>0, <2>4
  <2>2. i + 1 < k /\ s[i + 1].data = stored
    BY <2>1
  <2>3. i < h
    BY <1>2, <1>4, <2>1, <2>2
  <2> QED BY <2>1, <2>2, <2>3
<1>8. Held(x, t[h].data) /\ Ids(stored) \ Ids(t[h].data) \subseteq t[h].removed
  BY <1>4
<1> QED BY <1>5, <1>7, <1>8 DEF Coming

\* What the first write is when it is one of a profile file, and what follows.
LEMMA FirstHolds ==
  ASSUME NEW s, s # <<>>, IsList(s), NEW x, NEW stored, OnItsWay(x, stored, s),
         Head(s).to # Config, Head(s).why # "delete"
  PROVE  /\ OnItsWay(x, Head(s).data, Tail(s))
         /\ Ids(stored) \ Ids(Head(s).data) \subseteq Head(s).removed
<1> PICK w : w = Head(s)
  OBVIOUS
<1>1. 1 \in Pending(s) /\ s[1] = w
  BY Shifted DEF Pending
<1>2. CASE Settled(x, stored, s)
  <2>1. w.data = stored
    BY <1>1, <1>2 DEF Settled
  <2> QED BY <1>2, <2>1, StillSettled DEF OnItsWay
<1>3. CASE Coming(x, stored, s)
  <2>1. PICK k \in Pending(s) :
          /\ Held(x, s[k].data)
          /\ Ids(stored) \ Ids(s[k].data) \subseteq s[k].removed
          /\ \A j \in Pending(s) \ {k} : j < k /\ s[j].data = stored
    BY <1>3 DEF Coming
  <2>2. CASE k = 1
    <3>1. Held(x, w.data) /\ Ids(stored) \ Ids(w.data) \subseteq w.removed
      BY <1>1, <2>1, <2>2
    <3>2. PICK t : t = Tail(s)
      OBVIOUS
    <3>3. /\ \A i \in DOMAIN t : i + 1 \in DOMAIN s /\ t[i] = s[i + 1] /\ i \in Nat /\ i + 1 # 1
          /\ \A i \in DOMAIN s : i \in Nat \ {0}
      BY <3>2, Shifted
    <3>4. ASSUME NEW i \in Pending(t) PROVE FALSE
      <4>1. i + 1 \in Pending(s) \ {k} /\ i + 1 \in Nat \ {0}
        BY <2>2, <3>3 DEF Pending
      <4> QED BY <2>1, <2>2, <4>1
    <3>5. OnItsWay(x, w.data, t)
      BY <3>1, <3>4 DEF OnItsWay, Settled
    <3> QED BY <3>1, <3>2, <3>5
  <2>3. CASE k # 1
    <3>1. w.data = stored
      BY <1>1, <2>1, <2>3
    <3>2. Coming(x, stored, Tail(s))
      BY <2>1, <2>3, StillComing
    <3> QED BY <3>1, <3>2 DEF OnItsWay
  <2> QED BY <2>2, <2>3
<1> QED BY <1>2, <1>3 DEF OnItsWay

LEMMA RestHolds ==
  ASSUME NEW s, s # <<>>, IsList(s), NEW x, NEW stored, OnItsWay(x, stored, s),
         Head(s).to = Config \/ Head(s).why = "delete"
  PROVE  OnItsWay(x, stored, Tail(s))
<1>1. 1 \notin Pending(s)
  BY Shifted DEF Pending
<1>2. CASE Settled(x, stored, s)
  BY <1>2, StillSettled DEF OnItsWay
<1>3. CASE Coming(x, stored, s)
  <2>1. PICK k \in Pending(s) :
          /\ Held(x, s[k].data)
          /\ Ids(stored) \ Ids(s[k].data) \subseteq s[k].removed
          /\ \A j \in Pending(s) \ {k} : j < k /\ s[j].data = stored
    BY <1>3 DEF Coming
  <2>2. k # 1
    BY <1>1
  <2>3. Coming(x, stored, Tail(s))
    BY <2>1, <2>2, StillComing
  <2> QED BY <2>3 DEF OnItsWay
<1> QED BY <1>2, <1>3 DEF OnItsWay

LEMMA WriteHeld == ASSUME ApartInv, HeldInv, Write PROVE HeldInv'
<1>1. /\ running /\ todo # <<>> /\ todo' = Tail(todo) /\ UNCHANGED <<config, channels, running, whole>>
      /\ profiles' = IF Head(todo).to = Config THEN profiles
                     ELSE IF Head(todo).why = "delete" THEN Without(Head(todo).to)
                     ELSE [profiles EXCEPT ![Head(todo).to] = Head(todo).data]
  BY DEF Write
<1>2. IsList(todo) /\ WriteFits(Head(todo), active, profiles)
  BY <1>1, RestFits DEF ApartInv, Lists, WritesFit
<1>3. active \in DOMAIN profiles /\ (Head(todo).why = "delete" => Head(todo).to # active)
  BY <1>1, FirstWrite DEF ApartInv, StoreInv, ActiveKnown
<1> SUFFICES ASSUME whole'
             PROVE  /\ Placed(inputMode', hwCount', midiCount', channels')
                    /\ OnItsWay(channels', profiles'[active'], todo')
  BY DEF HeldInv
<1>4. /\ Placed(inputMode, hwCount, midiCount, channels)
      /\ OnItsWay(channels, profiles[active], todo)
  BY <1>1 DEF HeldInv
<1>5. CASE Head(todo).to = Config \/ Head(todo).why = "delete"
  <2>1. profiles'[active] = profiles[active]
    BY <1>1, <1>3, <1>5 DEF Without
  <2>2. OnItsWay(channels, profiles[active], Tail(todo))
    BY <1>1, <1>2, <1>4, <1>5, RestHolds
  <2> QED BY <1>1, <1>4, <2>1, <2>2 DEF config
<1>6. CASE Head(todo).to # Config /\ Head(todo).why # "delete"
  <2>1. Head(todo).to = active
    BY <1>2, <1>6 DEF WriteFits
  <2>2. profiles'[active] = Head(todo).data
    BY <1>1, <1>3, <1>6, <2>1
  <2>3. OnItsWay(channels, Head(todo).data, Tail(todo))
    BY <1>1, <1>2, <1>4, <1>6, FirstHolds
  <2> QED BY <1>1, <1>4, <2>2, <2>3 DEF config
<1> QED BY <1>5, <1>6

LEMMA FailedHeld == ASSUME ApartInv, Sound, HeldInv, WriteFails PROVE HeldInv'
<1> DEFINE w == Head(todo)
<1>1. running /\ todo # <<>> /\ UNCHANGED <<inputMode, hwCount, profiles, running>>
  BY DEF WriteFails
<1>2. Readings /\ Apart(profiles) /\ FilesDistinct(profiles)
  BY DEF ApartInv, Lists, Sound
<1>3. CASE w.back # None
  <2>1. SwitchTo(w.back, profiles[w.back], <<>>, None)
    BY <1>3 DEF WriteFails
  <2>2. w.back \in DOMAIN profiles
    BY <1>1, <1>3, FirstWrite DEF ApartInv
  <2> DEFINE p == w.back
  <2> HIDE DEF p
  <2>3. /\ p \in Nat \ {0} /\ profiles[p] \in OwnLists(p, profiles) /\ Distinct(profiles[p])
        /\ HasOwn(OwnIds(p, profiles), p)
    BY <1>2, <2>2, OwnLegacy DEF Apart, FilesDistinct, p
  <2>4. SwitchTo(p, profiles[p], <<>>, None) /\ profiles'[p] = profiles[p]
    BY <1>1, <2>1 DEF p
  <2>5. UNCHANGED <<inputMode, hwCount>> /\ NoProfile(<<>>)
    BY <1>1 DEF NoProfile
  <2> QED BY <1>2, <2>3, <2>4, <2>5, SwitchHolds DEF OwnLists
<1>4. CASE w.back = None
  <2>1. /\ todo' = (IF w.fatal THEN <<>> ELSE Tail(todo)) /\ whole' = (whole /\ w.to = Config)
        /\ UNCHANGED <<midiCount, active, channels>>
    BY <1>4 DEF WriteFails
  <2>2. WriteSound(w) /\ IsList(todo)
    BY <1>1, RestSound DEF Sound, WritesSound
  <2>3. ASSUME whole'
        PROVE  /\ Placed(inputMode, hwCount, midiCount, channels)
               /\ OnItsWay(channels, profiles[active], Tail(todo))
               /\ todo' = Tail(todo)
    <3>1. whole /\ w.to = Config
      BY <2>1, <2>3
    <3>2. ~w.fatal
      BY <2>2, <3>1 DEF WriteSound
    <3>3. /\ Placed(inputMode, hwCount, midiCount, channels)
          /\ OnItsWay(channels, profiles[active], todo)
      BY <1>1, <3>1 DEF HeldInv
    <3> QED BY <1>1, <2>1, <2>2, <3>1, <3>2, <3>3, RestHolds
  <2> HIDE DEF w
  <2> QED BY <1>1, <2>1, <2>3 DEF HeldInv
<1> QED BY <1>3, <1>4

LEMMA CrashHeld == ASSUME Crash PROVE HeldInv'
BY DEF Crash, HeldInv

LEMMA StartHeld == ASSUME ApartInv, ApartInv', Sound, Start PROVE HeldInv'
<1>1. UNCHANGED <<saved, profiles>> /\ inputMode' = saved.mode /\ hwCount' = saved.hw
  BY DEF Start
<1>2. Readings /\ Apart(profiles) /\ FilesDistinct(profiles) /\ running'
  BY DEF ApartInv, Lists, Sound, Start
<1>3. PICK p \in DOMAIN profiles : p = active'
  BY <1>1, <1>2 DEF ApartInv, StoreInv, ActiveKnown
<1>4. /\ p \in Nat \ {0} /\ profiles[p] \in OwnLists(p, profiles) /\ Distinct(profiles[p])
      /\ HasOwn(OwnIds(p, profiles), p)
  BY <1>2, OwnLegacy DEF Apart, FilesDistinct
<1> SUFFICES ASSUME whole'
             PROVE  /\ Placed(inputMode', hwCount', midiCount', channels')
                    /\ OnItsWay(channels', profiles'[active'], todo')
  BY DEF HeldInv
<1>5. PICK x, y, midi, s : x = profiles[p] /\ y = channels' /\ midi = midiCount' /\ s = todo'
  OBVIOUS
<1>6. /\ y = RebuildPartition(saved.mode, saved.hw, x)
      /\ midi = AppliedMidiCount(saved.mode, saved.hw, x)
      /\ CountsAgree(saved.mode, saved.hw, midi, y, x)
      /\ s \in {<<>>, <<ProfileWrite(p, RoutineSave(p, x, y), "startup")>>}
  BY <1>3, <1>5 DEF Start
<1>7. /\ Distinct(y) /\ Len(y) = Len(x) /\ Ids(x) = Ids(y)
      /\ Held(y, x) /\ Held(y, y)
      /\ Placed(saved.mode, saved.hw, midi, y) /\ RoutineSave(p, x, y) = y
  <2>1. saved.mode \in Modes /\ saved.hw \in Nat /\ x \in Seq(StripsOf(OwnIds(p, profiles))) /\ Distinct(x)
    BY <1>2, <1>4, <1>5 DEF Readings, OwnLists
  <2> QED BY <1>4, <1>6, <2>1, ShownHolds
<1>8. OnItsWay(y, x, s)
  <2>1. CASE s = <<>>
    <3>1. \A j \in DOMAIN s : s[j].to = Config \/ s[j].why = "delete"
      BY <2>1
    <3> QED BY <1>7, <3>1, NoneComes
  <2>2. CASE s = <<ProfileWrite(p, RoutineSave(p, x, y), "startup")>>
    <3>1. PICK w : w = ProfileWrite(p, y, "startup")
      OBVIOUS
    <3>2. w.to # Config /\ w.why # "delete" /\ w.data = y
      BY <1>4, <3>1 DEF ProfileWrite, Config
    <3>3. DOMAIN s = {1} /\ s[1] = w
      <4>1. s = <<w>>
        BY <1>7, <2>2, <3>1
      <4>2. DOMAIN <<w>> = {1} /\ <<w>>[1] = w
        BY Literals
      <4> QED BY <4>1, <4>2, Zenon
    <3>4. PICK k : k = 1
      OBVIOUS
    <3>5. /\ k \in DOMAIN s /\ s[k].to # Config /\ s[k].why # "delete" /\ s[k].data = y
          /\ DOMAIN s \ {k} = {}
      BY <3>2, <3>3, <3>4
    <3>6. Held(y, s[k].data) /\ Ids(x) \ Ids(s[k].data) \subseteq s[k].removed
      BY <1>7, <3>5
    <3> QED BY <3>5, <3>6, OneComes
  <2> QED BY <1>6, <2>1, <2>2
<1> QED BY <1>1, <1>3, <1>5, <1>7, <1>8

LEMMA InitHeld == ASSUME Init, ApartInv, Sound PROVE HeldInv
<1>1. /\ inputMode = "usb" /\ active = 1 /\ profiles[1] = channels /\ todo = <<>> /\ 1 \in DOMAIN profiles
  BY DEF Init
<1>2. channels \in Seq(StripsOf(OwnIds(1, profiles))) /\ Distinct(channels)
  BY <1>1 DEF ApartInv, Lists, Apart, OwnLists, Sound, FilesDistinct
<1>3. Held(channels, channels)
  BY <1>2, HeldItself
<1>4. \A j \in DOMAIN todo : todo[j].to = Config \/ todo[j].why = "delete"
  BY <1>1
<1>5. OnItsWay(channels, profiles[active], todo)
  BY <1>1, <1>3, <1>4, NoneComes
<1>6. hwCount <= Len(channels)
  <2>1. channels = [i \in 1..hwCount |-> Blank(<<0, i, 0>>, FALSE)]
    BY DEF Init
  <2>2. hwCount \in Nat /\ DOMAIN channels = 1..hwCount
    BY <2>1 DEF ApartInv, Lists, Readings
  <2> QED BY <1>2, <2>2, LenProperties
<1> QED BY <1>1, <1>5, <1>6 DEF HeldInv, Placed

LEMMA HeldStays == ASSUME ApartInv, ApartInv', Sound, HeldInv, [Next]_vars PROVE HeldInv'
<1>1. CASE UNCHANGED vars
  <2>1. UNCHANGED <<config, channels, profiles, todo, running, whole>>
    BY <1>1 DEF vars
  <2> QED BY <2>1 DEF HeldInv, config
<1>2. CASE Operation
  <2>1. \A i \in 1..MaxStrips : i \in Nat
    BY ConstantsAssumption
  <2> QED BY <1>2, <2>1, SwitchHeld, DeleteRemotelyHeld, AddRemotelyHeld, DeleteRemoteHeld, CreateHeld,
          CreateRemotelyHeld, DeleteHeld, AssignHeld, ModeHeld, AddMidiHeld, RemoveMidiHeld, CountHeld
          DEF Operation
<1>3. CASE Write \/ WriteFails \/ Crash \/ Start
  BY <1>3, WriteHeld, FailedHeld, CrashHeld, StartHeld
<1> QED BY <1>1, <1>2, <1>3 DEF Next

KeptInv == ApartInv /\ Sound /\ HeldInv

LEMMA KeptInvHolds == Spec => []KeptInv
<1>1. Init => KeptInv
  BY StoreInit, InitLists, InitSound, InitHeld DEF KeptInv, ApartInv
<1>2. KeptInv /\ [Next]_vars => KeptInv'
  BY ApartStep, SoundStays, HeldStays DEF KeptInv
<1> QED BY <1>1, <1>2, PTL DEF Spec

(* What the user assigned reaches the disk: after every handler whose       *)
(* writes succeeded every strip in memory is in the file of the active      *)
(* profile with its assignment, as long as the file has a strip for each    *)
(* one shown (save_current after _on_channel_changed, the resizes of the    *)
(* mode switch and of the MIDI strips, apply_profile, rollbacks).           *)
THEOREM AssignmentsReachTheFile == Spec => []AssignmentsAreSaved
<1>1. KeptInv => AssignmentsAreSaved
  <2> SUFFICES ASSUME KeptInv, Ready, whole, NEW j \in DOMAIN channels
               PROVE  \E i \in DOMAIN profiles[active] :
                        /\ profiles[active][i].id = channels[j].id
                        /\ profiles[active][i].target = channels[j].target
    BY DEF AssignmentsAreSaved
  <2> DEFINE stored == profiles[active]
  <2>1. Held(channels, stored)
    BY AtRest DEF KeptInv
  <2>2. channels \in OwnLists(active, profiles) /\ stored \in OwnLists(active, profiles)
    BY BeginsSound DEF KeptInv, ApartInv, Lists, Ready
  <2>3. DOMAIN channels = 1..Len(channels) /\ channels[j].id \in Ids(stored)
    BY <2>1, <2>2 DEF Held, OwnLists
  <2>4. PICK i \in DOMAIN stored : stored[i].id = channels[j].id
    BY <2>3, Zenon DEF Ids
  <2> QED BY <2>1, <2>4 DEF Held
<1> QED BY <1>1, KeptInvHolds, PTL

\* The ids that leave the file p in this step.
Lost(p) == Ids(profiles[p]) \ Ids(profiles'[p])

LEMMA AddingLosesNothing ==
  ASSUME NEW I, NEW J, NEW x \in Seq(StripsOf(I)), NEW y \in Seq(StripsOf(J))
  PROVE  Ids(x) \subseteq Ids(x \o y)
<1>1. x \in Seq(StripsOf(I \cup J)) /\ y \in Seq(StripsOf(I \cup J))
  BY MoreIds
<1>2. PICK z : z = x \o y
  OBVIOUS
<1>3. /\ Len(x) \in Nat /\ Len(y) \in Nat /\ DOMAIN x = 1..Len(x) /\ DOMAIN z = 1..Len(z)
      /\ Len(z) = Len(x) + Len(y) /\ \A i \in 1..Len(x) : z[i] = x[i]
  BY <1>1, <1>2, ConcatProperties
<1>4. \A i \in DOMAIN x : i \in DOMAIN z /\ z[i] = x[i]
  BY <1>3
<1> QED BY <1>2, <1>4 DEF Ids

LEMMA RemoteDeletionLoses ==
  ASSUME ApartInv, Sound, NEW p \in DOMAIN profiles, NEW ids, DeleteChannelsRemotely(p, ids)
  PROVE  ids = Lost(p) /\ \A q \in DOMAIN profiles \ {p} : Lost(q) = {}
<1> DEFINE x == profiles[p]
           gone == {i \in DOMAIN x : x[i].id \in ids}
<1>1. /\ Ready /\ ids \subseteq Ids(x) /\ profiles' = [profiles EXCEPT ![p] = Keep(x, gone)]
  BY DEF DeleteChannelsRemotely, ReplaceProfile
<1>2. x \in Seq(StripsOf(OwnIds(p, profiles)))
  BY <1>1, BeginsSound DEF OwnLists
<1> HIDE DEF gone
<1>3. Ids(Keep(x, gone)) = {x[i].id : i \in Rest(x, gone)}
  BY <1>2, Keeps DEF Selection
<1>4. Ids(x) \ Ids(Keep(x, gone)) = ids
  <2>1. \A i \in DOMAIN x : i \in Rest(x, gone) <=> x[i].id \notin ids
    BY DEF Rest, gone
  <2>2. Rest(x, gone) \subseteq DOMAIN x
    BY DEF Rest
  <2> HIDE DEF x
  <2> QED BY <1>1, <1>3, <2>1, <2>2 DEF Ids
<1>5. profiles'[p] = Keep(x, gone) /\ \A q \in DOMAIN profiles \ {p} : profiles'[q] = profiles[q]
  BY <1>1
<1> QED BY <1>4, <1>5 DEF Lost

LEMMA CountFiles ==
  ASSUME NEW n, ChannelCountChanged(n)
  PROVE  profiles' = profiles \/ (Room /\ \E x : profiles' = With(NextProfileId, x))
<1>1. PICK small \in {n < Usb(profiles[active])} :
        \E x \in IF ~small THEN {channels} ELSE IF Room THEN NewProfiles({n}, {}) ELSE {} :
          profiles' = IF small THEN With(IF small THEN NextProfileId ELSE active, x) ELSE profiles
  BY DEF ChannelCountChanged
<1>2. CASE small
  BY <1>1, <1>2
<1>3. CASE ~small
  BY <1>1, <1>3
<1> QED BY <1>2, <1>3

LEMMA OperationLoses ==
  ASSUME ApartInv, Sound, Operation, NEW p \in DOMAIN profiles, p \in DOMAIN profiles', Lost(p) # {}
  PROVE  DeleteChannelsRemotely(p, Lost(p))
<1>1. ASSUME profiles' = profiles PROVE FALSE
  BY <1>1 DEF Lost
<1>2. ASSUME NEW q, profiles' = Without(q) PROVE FALSE
  <2>1. profiles'[p] = profiles[p]
    BY <1>2 DEF Without
  <2> QED BY <2>1 DEF Lost
<1>3. ASSUME Room, NEW x, profiles' = With(NextProfileId, x) PROVE FALSE
  <2>1. p # NextProfileId
    BY <1>3, FreeProfileId DEF ApartInv, StoreInv
  <2>2. profiles'[p] = profiles[p]
    BY <1>3, <2>1 DEF With
  <2> QED BY <2>2 DEF Lost
<1>4. ASSUME NEW q \in DOMAIN profiles, AddChannelRemotely(q) PROVE FALSE
  <2>1. Ready /\ CanDraw(1) /\ profiles' = [profiles EXCEPT ![q] = profiles[q] \o NewStrips(0, 1, TRUE)]
    BY <1>4 DEF AddChannelRemotely, ReplaceProfile
  <2>2. p = q
    BY <1>4, <2>1 DEF Lost
  <2>3. profiles[q] \in Seq(StripsOf(OwnIds(q, profiles)))
    BY <2>1, BeginsSound DEF OwnLists
  <2>4. NewStrips(0, 1, TRUE) \in Seq(StripsOf(FreshIds))
    <3>1. 0 + 1 = 1
      OBVIOUS
    <3> QED BY <2>1, <3>1, NewStripsAreFresh
  <2>5. Ids(profiles[q]) \subseteq Ids(profiles'[q])
    BY <1>4, <2>1, <2>3, <2>4, AddingLosesNothing
  <2> QED BY <2>2, <2>5 DEF Lost
<1>5. ASSUME NEW q \in DOMAIN profiles, NEW ids, DeleteChannelsRemotely(q, ids)
      PROVE  DeleteChannelsRemotely(p, Lost(p))
  BY <1>5, RemoteDeletionLoses
<1>6. ASSUME NEW q \in DOMAIN profiles, SwitchProfile(q) \/ DeleteProfileRemotely(q) PROVE FALSE
  BY <1>1, <1>2, <1>6 DEF SwitchProfile, DeleteProfileRemotely
<1>7. CASE CreateProfile \/ CreateProfileRemotely \/ DeleteProfile
  BY <1>2, <1>3, <1>7 DEF CreateProfile, CreateProfileRemotely, DeleteProfile
<1>8. ASSUME \/ \E i : AssignTarget(i)
             \/ \E mode : ChangeInputMode(mode)
             \/ AddMidiChannel
             \/ \E gone : RemoveMidiChannels(gone)
      PROVE  FALSE
  BY <1>1, <1>8 DEF AssignTarget, ChangeInputMode, AddMidiChannel, RemoveMidiChannels
<1>9. ASSUME NEW n \in HwCounts, ChannelCountChanged(n) PROVE FALSE
  <2>1. \/ profiles' = profiles
        \/ Room /\ \E x : profiles' = With(NextProfileId, x)
    BY <1>9, CountFiles
  <2> QED BY <1>1, <1>3, <2>1
<1> QED BY <1>4, <1>5, <1>6, <1>7, <1>8, <1>9 DEF Operation

LEMMA WriteLoses ==
  ASSUME KeptInv, Write, NEW p \in DOMAIN profiles, p \in DOMAIN profiles', Lost(p) # {}
  PROVE  p = active /\ (whole => /\ todo # <<>> /\ Head(todo).to = p
                                 /\ Lost(p) \subseteq Head(todo).removed)
<1>1. /\ running /\ todo # <<>>
      /\ profiles' = IF Head(todo).to = Config THEN profiles
                     ELSE IF Head(todo).why = "delete" THEN Without(Head(todo).to)
                     ELSE [profiles EXCEPT ![Head(todo).to] = Head(todo).data]
  BY DEF Write
<1>2. IsList(todo) /\ WriteFits(Head(todo), active, profiles)
  BY <1>1, RestFits DEF KeptInv, ApartInv, Lists, WritesFit
<1>3. Head(todo).to # Config /\ Head(todo).why # "delete"
  BY <1>1 DEF Lost, Without
<1>4. Head(todo).to = active
  BY <1>2, <1>3 DEF WriteFits
<1>5. p = active /\ profiles'[p] = Head(todo).data
  BY <1>1, <1>3, <1>4 DEF Lost
<1>6. ASSUME whole PROVE Ids(profiles[active]) \ Ids(Head(todo).data) \subseteq Head(todo).removed
  <2>1. OnItsWay(channels, profiles[active], todo)
    BY <1>1, <1>6 DEF KeptInv, HeldInv
  <2> QED BY <1>1, <1>2, <1>3, <2>1, FirstHolds
<1> QED BY <1>1, <1>4, <1>5, <1>6 DEF Lost

(* No strip is lost: a strip leaves a profile file only because the user    *)
(* removed it, on this mixer (remove_midi_channels) or from a controller    *)
(* (_prepare_delete_channels), as long as the strip counts agree; an        *)
(* inactive profile never loses one otherwise.                              *)
THEOREM NoStripIsLost == Spec => StripsSurvive
<1> DEFINE Survive ==
             \A p \in DOMAIN profiles \cap DOMAIN profiles' :
               LET lost == Ids(profiles[p]) \ Ids(profiles'[p])
               IN  lost # {} => \/ p = active /\ ~whole
                                \/ DeleteChannelsRemotely(p, lost)
                                \/ /\ todo # <<>> /\ Head(todo).to = p
                                   /\ lost \subseteq Head(todo).removed
<1>1. ASSUME KeptInv, Next PROVE Survive
  <2> SUFFICES ASSUME NEW p \in DOMAIN profiles, p \in DOMAIN profiles', Lost(p) # {}
               PROVE  \/ p = active /\ ~whole
                      \/ DeleteChannelsRemotely(p, Lost(p))
                      \/ /\ todo # <<>> /\ Head(todo).to = p
                         /\ Lost(p) \subseteq Head(todo).removed
    BY DEF Lost
  <2>1. CASE Operation
    BY <1>1, <2>1, OperationLoses DEF KeptInv
  <2>2. CASE Write
    <3>1. p = active /\ (whole => /\ todo # <<>> /\ Head(todo).to = p
                                  /\ Lost(p) \subseteq Head(todo).removed)
      BY <1>1, <2>2, WriteLoses
    <3> QED BY <3>1
  <2>3. CASE WriteFails \/ Crash \/ Start
    BY <2>3 DEF WriteFails, Crash, Start, Lost
  <2> QED BY <1>1, <2>1, <2>2, <2>3 DEF Next
<1>2. KeptInv /\ [Next]_vars => [Survive]_vars
  BY <1>1
<1>3. Spec => [][Survive]_vars
  BY <1>2, KeptInvHolds, PTL DEF Spec
<1> QED BY <1>3 DEF StripsSurvive
=============================================================================
