--------------------------- MODULE DriveMap_proofs ---------------------------
(***************************************************************************)
(* For every set of drives and images:                                     *)
(*  - whatever commands the device refuses or leaves unanswered, a drive   *)
(*    shows a second side only next to a drive that shows the first;       *)
(*  - the one catalogue copy is of the disk it is used for, and no disk    *)
(*    gets another's catalogue, as long as no command that mounts fails.   *)
(***************************************************************************)
EXTENDS DriveMap, TLAPS

FirstSide(d) == [slot |-> d, dsd |-> TRUE, side1 |-> FALSE]

SecondSide(d) == [slot |-> d - 2, dsd |-> TRUE, side1 |-> TRUE]

\* What drive e shows is one of four things.
EntryOf(mp, e) ==
  \/ mp[e] = None
  \/ mp[e] = SingleSided(e)
  \/ mp[e] = FirstSide(e)
  \/ mp[e] = SecondSide(e) /\ e - 2 \in Drives /\ mp[e - 2] = FirstSide(e - 2)

\* The inductive invariant.
Paired(mp) ==
  /\ \E S : mp \in [Drives -> S]
  /\ \A e \in Drives : EntryOf(mp, e)

\* No entry is None, and each of the three says which side it shows.
LEMMA SideOfEntry ==
  ASSUME NEW e \in Drives
  PROVE  /\ SingleSided(e) # None /\ FirstSide(e) # None
         /\ SingleSided(e).side1 = FALSE /\ FirstSide(e).side1 = FALSE
         /\ e - 2 \in Drives => SecondSide(e) # None /\ SecondSide(e).side1 = TRUE
PROOF
  <1>1. SingleSided(e) \in Entry /\ FirstSide(e) \in Entry
    BY DEF SingleSided, FirstSide, Entry
  <1>2. e - 2 \in Drives => SecondSide(e) \in Entry
    BY DEF SecondSide, Entry
  <1>3. SingleSided(e).side1 = FALSE /\ FirstSide(e).side1 = FALSE
    BY DEF SingleSided, FirstSide
  <1>4. SecondSide(e).side1 = TRUE
    BY DEF SecondSide
  <1>5. None \notin Entry
    BY DriveAssumption
  <1> QED
    BY <1>1, <1>2, <1>3, <1>4, <1>5

\* A drive with an ordinary disk, or none, put into a paired map.
LEMMA OneDisk ==
  ASSUME NEW mp, Paired(mp), NEW d \in Drives, NEW entry,
         entry = None \/ entry = SingleSided(d)
  PROVE  Paired([DropSide1(mp, d) EXCEPT ![d] = entry])
PROOF
  <1> DEFINE mq == [DropSide1(mp, d) EXCEPT ![d] = entry]
  <1>1. PICK S : mp \in [Drives -> S]
    BY DEF Paired
  <1>2. mq \in [Drives -> S \cup {None, entry}]
    BY <1>1 DEF DropSide1
  <1>3. ASSUME NEW e \in Drives
        PROVE  EntryOf(mq, e)
    <2>1. CASE e = d
      BY <2>1, <1>1 DEF EntryOf, DropSide1
    <2>2. CASE e # d /\ e = d + 2 /\ d < 2 /\ ShowsSide1(mp, e)
      BY <2>2, <1>1 DEF EntryOf, DropSide1
    <2>3. CASE e # d /\ ~(e = d + 2 /\ d < 2 /\ ShowsSide1(mp, e))
      <3>1. mq[e] = mp[e]
        BY <2>3, <1>1, DriveAssumption DEF DropSide1
      <3>2. EntryOf(mp, e)
        BY DEF Paired
      <3>3. ASSUME mp[e] = SecondSide(e), e - 2 \in Drives, mp[e - 2] = FirstSide(e - 2)
            PROVE  mq[e - 2] = FirstSide(e - 2)
        <4>1. ShowsSide1(mp, e)
          BY <3>3, SideOfEntry DEF ShowsSide1, Mapped
        <4>2. e - 2 # d
          BY <4>1, <2>3, <3>3, DriveAssumption
        <4>3. ~ShowsSide1(mp, e - 2)
          BY <3>3, SideOfEntry DEF ShowsSide1, Mapped
        <4> QED
          BY <4>2, <4>3, <3>3, <1>1 DEF DropSide1
      <3> QED
        BY <3>1, <3>2, <3>3 DEF EntryOf
    <2> QED
      BY <2>1, <2>2, <2>3
  <1> QED
    BY <1>2, <1>3 DEF Paired

\* The second side of a DSD forgotten, the first one left alone.
LEMMA OneSideLess ==
  ASSUME NEW mp, Paired(mp), NEW d \in Drives, ShowsSide1(mp, d)
  PROVE  Paired([mp EXCEPT ![d] = None])
PROOF
  <1> DEFINE mq == [mp EXCEPT ![d] = None]
  <1>1. PICK S : mp \in [Drives -> S]
    BY DEF Paired
  <1>2. mq \in [Drives -> S \cup {None}]
    BY <1>1
  <1>3. mp[d] # FirstSide(d)
    BY SideOfEntry DEF ShowsSide1, Mapped
  <1>4. ASSUME NEW e \in Drives
        PROVE  EntryOf(mq, e)
    <2>1. EntryOf(mp, e)
      BY DEF Paired
    <2> QED
      BY <2>1, <1>1, <1>3 DEF EntryOf
  <1> QED
    BY <1>2, <1>4 DEF Paired

\* A DSD shown on both drives of a pair.
LEMMA BothSides ==
  ASSUME NEW mp, Paired(mp), NEW d \in Drives, d < 2
  PROVE  Paired(WithSide1(mp, d))
PROOF
  <1> DEFINE mq == WithSide1(mp, d)
  <1>1. PICK S : mp \in [Drives -> S]
    BY DEF Paired
  <1>2. /\ d \in 0 .. 1 /\ d + 2 \in Drives /\ (d + 2) - 2 = d /\ d # d + 2
        /\ d - 2 \notin Drives
    BY DriveAssumption
  <1>3. /\ mq \in [Drives -> S \cup {FirstSide(d), SecondSide(d + 2)}]
        /\ mq[d] = FirstSide(d) /\ mq[d + 2] = SecondSide(d + 2)
        /\ \A e \in Drives \ {d, d + 2} : mq[e] = mp[e]
    BY <1>1, <1>2 DEF WithSide1, FirstSide, SecondSide
  <1> HIDE DEF mq
  <1>4. ASSUME NEW e \in Drives
        PROVE  EntryOf(mq, e)
    <2>1. CASE e \in {d, d + 2}
      BY <2>1, <1>2, <1>3 DEF EntryOf
    <2>2. CASE e \notin {d, d + 2}
      <3>1. EntryOf(mp, e)
        BY DEF Paired
      <3>2. e - 2 \in Drives => e - 2 \notin {d, d + 2}
        BY <2>2, <1>2, DriveAssumption
      <3> QED
        BY <3>1, <3>2, <2>2, <1>3 DEF EntryOf
    <2> QED
      BY <2>1, <2>2
  <1> QED
    BY <1>3, <1>4 DEF Paired, mq

\* setdefaults.
LEMMA NothingMounted ==
  Paired([d \in Drives |-> None])
PROOF
  <1>1. [d \in Drives |-> None] \in [Drives -> {None}]
    OBVIOUS
  <1> QED
    BY <1>1 DEF Paired, EntryOf

\* mark_drive0_only_boot_mounted.
LEMMA BootAlone ==
  Paired([d \in Drives |-> IF d = 0 THEN SingleSided(0) ELSE None])
PROOF
  <1> DEFINE mp == [d \in Drives |-> IF d = 0 THEN SingleSided(0) ELSE None]
  <1>1. mp \in [Drives -> {SingleSided(0), None}]
    OBVIOUS
  <1>2. \A e \in Drives : EntryOf(mp, e)
    BY DEF EntryOf
  <1> QED
    BY <1>1, <1>2 DEF Paired

\* Every step of the system keeps the map paired.
LEMMA PairedKept ==
  ASSUME Paired(map), [Next]_vars
  PROVE  Paired(map')
PROOF
  <1>1. ASSUME NEW d \in Drives, NEW image \in Images, FMOUNT(d, image)
        PROVE  Paired(map')
    <2> DEFINE one == [DropSide1(map, d) EXCEPT ![d] = SingleSided(d)]
    <2>1. Paired(one)
      BY OneDisk
    <2>2. map' = one \/ (d < 2 /\ map' = WithSide1(one, d))
      BY <1>1 DEF FMOUNT, MountFails, MountWorks
    <2> HIDE DEF one
    <2> QED
      BY <2>1, <2>2, BothSides
  <1>2. ASSUME NEW d \in Drives, FUMOUNT(d)
        PROVE  Paired(map')
    <2>1. CASE map[d].side1
      <3>1. map' = [map EXCEPT ![d] = None]
        BY <1>2, <2>1 DEF FUMOUNT
      <3>2. ShowsSide1(map, d)
        BY <1>2, <2>1 DEF FUMOUNT, ShowsSide1
      <3> QED
        BY <3>1, <3>2, OneSideLess
    <2>2. CASE ~map[d].side1
      <3>1. map' = [DropSide1(map, d) EXCEPT ![d] = None]
        BY <1>2, <2>2 DEF FUMOUNT
      <3> QED
        BY <3>1, OneDisk
    <2> QED
      BY <2>1, <2>2
  <1>3. ASSUME NEW d \in Drives, FBOOT(d)
        PROVE  Paired(map')
    <2>1. map' = map \/ map' = [DropSide1(map, d) EXCEPT ![d] = SingleSided(d)]
      BY <1>3 DEF FBOOT
    <2> QED
      BY <2>1, OneDisk
  <1>4. ASSUME NEW d \in Drives, FORM(d) \/ Look(d) \/ Change(d)
        PROVE  Paired(map')
    BY <1>4 DEF FORM, Look, Change
  <1>5. ASSUME Forget \/ Leave
        PROVE  Paired(map')
    BY <1>5 DEF Forget, Leave
  <1>6. ASSUME NEW kind, BREAK(kind)
        PROVE  Paired(map')
    BY <1>6 DEF BREAK
  <1>7. CASE Select
    <2> DEFINE mp == IF reset THEN [d \in Drives |-> None] ELSE map
    <2>1. Paired(mp)
      BY NothingMounted
    <2>2. map' = mp \/ map' = [d \in Drives |-> IF d = 0 THEN SingleSided(0) ELSE None]
      BY <1>7 DEF Select, BeginSession
    <2> HIDE DEF mp
    <2> QED
      BY <2>1, <2>2, BootAlone
  <1>8. CASE UNCHANGED vars
    BY <1>8 DEF vars
  <1> QED
    BY <1>1, <1>2, <1>3, <1>4, <1>5, <1>6, <1>7, <1>8 DEF Next, DiskCommand

\* The inductive invariant is strong enough.
LEMMA PairedImplies ==
  ASSUME Paired(map)
  PROVE  SidesPaired
PROOF
  <1>1. ASSUME NEW d \in Drives
        PROVE  EntryOf(map, d)
    BY DEF Paired
  <1>2. ASSUME NEW d \in Drives, ShowsSide1(map, d)
        PROVE  /\ d >= 2 /\ Mapped(map, d - 2)
               /\ map[d].slot = d - 2 /\ map[d].dsd
               /\ map[d - 2] = [slot |-> d - 2, dsd |-> TRUE, side1 |-> FALSE]
    <2>1. map[d] = SecondSide(d) /\ d - 2 \in Drives /\ map[d - 2] = FirstSide(d - 2)
      BY <1>1, <1>2, SideOfEntry DEF EntryOf, ShowsSide1, Mapped
    <2>2. d >= 2
      BY <2>1, DriveAssumption
    <2>3. Mapped(map, d - 2)
      BY <2>1, SideOfEntry DEF Mapped
    <2>4. map[d].slot = d - 2 /\ map[d].dsd
      BY <2>1 DEF SecondSide
    <2> QED
      BY <2>1, <2>2, <2>3, <2>4 DEF FirstSide
  <1>3. ASSUME NEW d \in Drives, NEW e \in Drives, d # e,
               Mapped(map, d), Mapped(map, e), map[d].slot = map[e].slot
        PROVE  map[d].side1 # map[e].side1
    <2>1. ASSUME NEW x \in Drives, Mapped(map, x)
          PROVE  \/ map[x].side1 = TRUE /\ map[x].slot = x - 2
                 \/ map[x].side1 = FALSE /\ map[x].slot = x
      <3>1. map[x] \in {SingleSided(x), FirstSide(x), SecondSide(x)}
        BY <1>1, <2>1 DEF EntryOf, Mapped
      <3> QED
        BY <3>1 DEF SingleSided, FirstSide, SecondSide
    <2>2. d \in Int /\ e \in Int
      BY DriveAssumption
    <2>3. d # e /\ d - 2 # e - 2
      BY <1>3, <2>2
    <2> QED
      BY <2>1, <2>3, <1>3
  <1> QED
    BY <1>2, <1>3 DEF SidesPaired

\* A drive shows a second side only next to a drive that shows the first side
\* of the same DSD, and no other two drives share a slot: fuji_mount_disk,
\* fuji_unmount_disk and fuji_restore_boot_disk drop the second drive's entry
\* in every case that replaces the first, failures included.
THEOREM SidesStayPaired == Spec => []SidesPaired
PROOF
  <1>1. Init => Paired(map)
    BY NothingMounted DEF Init
  <1>2. Paired(map) /\ [Next]_vars => Paired(map)'
    <2> SUFFICES ASSUME Paired(map), [Next]_vars PROVE Paired(map)'
      OBVIOUS
    <2>1. Paired(map')
      BY PairedKept
    <2> QED
      BY <2>1 DEF Paired, EntryOf
  <1>3. Paired(map) => SidesPaired
    BY PairedImplies
  <1> QED
    BY <1>1, <1>2, <1>3, PTL DEF Spec
----------------------------------------------------------------------------
(* The catalogue copy and the disks.                                       *)

\* Every drive that shows something has an image in its slot, and a
\* double-sided one where it shows a second side.
Held(mp, sl) ==
  \A d \in Drives : Mapped(mp, d) =>
    /\ sl[mp[d].slot] \in Images
    /\ mp[d].side1 => sl[mp[d].slot] \in Dsds

OfSide(cat, side) == cat.names.of = side /\ cat.extents.of = side

\* The inductive invariant.  A copy in use is of the side that its drive shows
\* now, if it shows one; without that a save would put it on another disk.
OwnInv ==
  /\ Paired(map) /\ Held(map, slots)
  /\ slots \in [Drives -> Images \cup {None}]
  /\ store \in [Sides -> Catalogue] /\ ram \in Catalogue
  /\ cur \in Drives \cup {None}
  /\ OwnCatalogue
  /\ cur # None /\ Mapped(map, cur) => OfSide(ram, SideOf(cur))

\* The faults that leave the copy's side alone: a drive that gets a disk takes
\* the copy out of use, and what is read is the drive's.
MappingSafe == Faults \cap {"mount", "mapping", "boot", "read"} = {}

\* The faults that leave the copy up to date as well.
CopySafe == Faults \cap {"unmount", "form", "write"} = {}

\* A slot belongs to the drive of its number, and to the one two above only as
\* a second side.
LEMMA SlotOf ==
  ASSUME NEW mp, Paired(mp), NEW d \in Drives, Mapped(mp, d)
  PROVE  /\ mp[d].side1 \in BOOLEAN
         /\ mp[d].slot \in Drives
         /\ ~mp[d].side1 => mp[d].slot = d
         /\ mp[d].side1 => mp[d].slot = d - 2
PROOF
  <1>1. EntryOf(mp, d) /\ mp[d] # None
    BY DEF Paired, Mapped
  <1>2. \/ mp[d] = SingleSided(d)
        \/ mp[d] = FirstSide(d)
        \/ mp[d] = SecondSide(d) /\ d - 2 \in Drives
    BY <1>1 DEF EntryOf
  <1>3. CASE mp[d] = SingleSided(d)
    <2>1. mp[d].side1 = FALSE /\ mp[d].slot = d
      BY <1>3 DEF SingleSided
    <2> QED
      BY <2>1
  <1>4. CASE mp[d] = FirstSide(d)
    <2>1. mp[d].side1 = FALSE /\ mp[d].slot = d
      BY <1>4 DEF FirstSide
    <2> QED
      BY <2>1
  <1>5. CASE mp[d] = SecondSide(d) /\ d - 2 \in Drives
    <2>1. mp[d].side1 = TRUE /\ mp[d].slot = d - 2
      BY <1>5 DEF SecondSide
    <2> QED
      BY <1>5, <2>1
  <1> QED
    BY <1>2, <1>3, <1>4, <1>5

\* A drive that shows something after another one got a disk, or none, has it in
\* a slot of its own.
LEMMA Elsewhere ==
  ASSUME NEW mp, Paired(mp), NEW d \in Drives, NEW entry, NEW e \in Drives, e # d,
         Mapped([DropSide1(mp, d) EXCEPT ![d] = entry], e)
  PROVE  /\ [DropSide1(mp, d) EXCEPT ![d] = entry][e] = mp[e]
         /\ Mapped(mp, e) /\ mp[e].slot # d /\ mp[e].slot \in Drives
PROOF
  <1> DEFINE mq == [DropSide1(mp, d) EXCEPT ![d] = entry]
  <1>1. PICK S : mp \in [Drives -> S]
    BY DEF Paired
  <1>2. mq[e] = mp[e] /\ ~(e = d + 2 /\ d < 2 /\ ShowsSide1(mp, e))
    BY <1>1 DEF DropSide1, Mapped
  <1>3. Mapped(mp, e)
    BY <1>2 DEF Mapped
  <1>4. mp[e].slot # d /\ mp[e].slot \in Drives
    BY <1>2, <1>3, SlotOf, DriveAssumption DEF ShowsSide1
  <1> QED
    BY <1>2, <1>3, <1>4

\* A drive gets another disk, or none.
LEMMA Replaced ==
  ASSUME NEW mp, NEW sl \in [Drives -> Images \cup {None}],
         Paired(mp), Held(mp, sl), NEW d \in Drives, NEW entry, NEW image,
         entry = None \/ (entry = SingleSided(d) /\ image \in Images)
  PROVE  Held([DropSide1(mp, d) EXCEPT ![d] = entry], [sl EXCEPT ![d] = image])
PROOF
  <1> DEFINE mq == [DropSide1(mp, d) EXCEPT ![d] = entry]
             sn == [sl EXCEPT ![d] = image]
  <1>1. PICK S : mp \in [Drives -> S]
    BY DEF Paired
  <1>2. ASSUME NEW e \in Drives, Mapped(mq, e)
        PROVE  sn[mq[e].slot] \in Images /\ (mq[e].side1 => sn[mq[e].slot] \in Dsds)
    <2>1. CASE e = d
      <3>1. mq[e] = entry
        BY <2>1, <1>1 DEF DropSide1
      <3>2. mq[e] = SingleSided(d) /\ image \in Images
        BY <3>1, <1>2 DEF Mapped
      <3> QED
        BY <3>2, <2>1 DEF SingleSided
    <2>2. CASE e # d
      <3>1. mq[e] = mp[e] /\ Mapped(mp, e) /\ mp[e].slot # d /\ mp[e].slot \in Drives
        BY <2>2, <1>2, Elsewhere
      <3>2. sn[mp[e].slot] = sl[mp[e].slot]
        BY <3>1
      <3> QED
        BY <3>1, <3>2 DEF Held
    <2> QED
      BY <2>1, <2>2
  <1> HIDE DEF mq, sn
  <1>3. Held(mq, sn)
    BY <1>2 DEF Held
  <1> QED
    BY <1>3 DEF mq, sn

\* A double-sided disk gets the second drive as well.
LEMMA BothHeld ==
  ASSUME NEW mp, NEW sl, Paired(mp), Held(mp, sl),
         NEW d \in Drives, d < 2, sl[d] \in Dsds
  PROVE  Held(WithSide1(mp, d), sl)
PROOF
  <1>1. PICK S : mp \in [Drives -> S]
    BY DEF Paired
  <1> DEFINE mq == WithSide1(mp, d)
  <1>2. d + 2 \in Drives /\ d # d + 2 /\ sl[d] \in Images
    BY DriveAssumption
  <1>3. /\ mq[d].slot = d /\ mq[d + 2].slot = d
        /\ \A e \in Drives \ {d, d + 2} : mq[e] = mp[e]
    BY <1>1, <1>2 DEF WithSide1
  <1> HIDE DEF mq
  <1>4. Held(mq, sl)
    BY <1>2, <1>3 DEF Held, Mapped
  <1> QED
    BY <1>4 DEF mq

\* A drive that shows something shows a side.
LEMMA HasSide ==
  ASSUME Paired(map), Held(map, slots), NEW d \in Drives, Mapped(map, d)
  PROVE  SideOf(d) \in Sides /\ SideOf(d) # None
PROOF
  <1>1. /\ slots[map[d].slot] \in Images /\ map[d].side1 \in BOOLEAN
        /\ map[d].side1 => slots[map[d].slot] \in Dsds
    BY SlotOf DEF Held
  <1>2. <<slots[map[d].slot], IF map[d].side1 THEN 1 ELSE 0>> \in Sides
    BY <1>1 DEF Sides
  <1>3. None \notin Sides
    BY DriveAssumption
  <1> QED
    BY <1>2, <1>3 DEF SideOf

LEMMA BlankIs ==
  ASSUME NEW s \in Sides
  PROVE  Blank(s) \in Catalogue /\ OfSide(Blank(s), s)
BY DriveAssumption DEF Blank, Catalogue, Sector, OfSide

\* What a read of a drive's catalogue finds.
LEMMA LoadsOwn ==
  ASSUME OwnInv, MappingSafe, NEW d \in Drives, NEW cat \in Loads(d)
  PROVE  /\ cat \in Catalogue
         /\ Mapped(map, d) => OfSide(cat, SideOf(d))
         /\ CopyFresh => Mapped(map, d) /\ cat = store[SideOf(d)]
PROOF
  <1>0. None \notin Drives /\ None \notin Catalogue
    BY DriveAssumption
  <1>1. CASE cur = d
    <2>1. cat = ram
      BY <1>1 DEF Loads
    <2> QED
      BY <1>0, <1>1, <2>1 DEF OwnInv, CopyFresh, SideOf
  <1>2. CASE cur # d
    <2>1. Mapped(map, d) /\ cat \in Reads(d)
      BY <1>2 DEF Loads
    <2>2. SideOf(d) \in Sides /\ SideOf(d) # None
      BY <2>1, HasSide DEF OwnInv
    <2>3. store[SideOf(d)] \in Catalogue /\ OfSide(store[SideOf(d)], SideOf(d))
      BY <1>0, <2>2 DEF OwnInv, OwnCatalogue, OfSide
    <2>4. cat = store[SideOf(d)]
      BY <1>0, <2>1, <2>2, <2>3 DEF Reads, MappingSafe
    <2> QED
      BY <2>1, <2>3, <2>4
  <1> QED
    BY <1>1, <1>2

\* What is left to show of a step that disowns the copy and leaves the disks
\* alone.
LEMMA Disowned ==
  ASSUME OwnInv, Paired(map'), Held(map', slots'),
         slots' \in [Drives -> Images \cup {None}],
         cur' = None, UNCHANGED <<store, ram>>
  PROVE  OwnInv' /\ CopyFresh'
BY DEF OwnInv, OwnCatalogue, Paired, EntryOf, Held, Mapped, CopyFresh

LEMMA OnlyOk ==
  ASSUME MappingSafe
  PROVE  /\ \A c \in {"mount", "mapping", "boot"} : Outcomes(c) = {"ok"}
         /\ \A m \in MappingOutcomes : Agreed(m)
BY DEF MappingSafe, Outcomes, MappingOutcomes, Agreed, Heard

LEMMA MountOwn ==
  ASSUME OwnInv, MappingSafe, NEW d \in Drives, NEW image \in Images, FMOUNT(d, image)
  PROVE  OwnInv' /\ CopyFresh'
PROOF
  <1>1. PICK m \in MappingOutcomes : \E clear \in MappingOutcomes : MountWorks(d, image, m, clear)
    BY OnlyOk DEF FMOUNT, MountFails, Heard
  <1>2. Agreed(m)
    BY OnlyOk
  <1> DEFINE one == [DropSide1(map, d) EXCEPT ![d] = SingleSided(d)]
             two == d < 2 /\ image \in Dsds
             sl  == [slots EXCEPT ![d] = image]
  <1>3. /\ map' = IF two THEN WithSide1(one, d) ELSE one
        /\ slots' = sl /\ cur' = None /\ UNCHANGED <<store, ram>>
    BY <1>1, <1>2 DEF MountWorks, InSlot, Done
  <1>4. sl \in [Drives -> Images \cup {None}] /\ sl[d] = image
    BY DEF OwnInv
  <1>5. Paired(one) /\ Held(one, sl)
    BY OneDisk, Replaced DEF OwnInv
  <1> HIDE DEF one, sl
  <1>6. Paired(map') /\ Held(map', sl)
    BY <1>3, <1>4, <1>5, BothSides, BothHeld
  <1> QED
    BY <1>3, <1>4, <1>6, Disowned

\* An unmount that fails leaves the copy in use for a drive that shows nothing.
LEMMA UnmountOwn ==
  ASSUME OwnInv, MappingSafe, NEW d \in Drives, FUMOUNT(d)
  PROVE  OwnInv' /\ ("unmount" \notin Faults => CopyFresh')
PROOF
  <1>1. Mapped(map, d) /\ UNCHANGED <<store, ram>>
    BY DEF FUMOUNT
  <1>2. CASE map[d].side1
    <2>1. map' = [map EXCEPT ![d] = None] /\ slots' = slots /\ cur' = None
      BY <1>2, OnlyOk DEF FUMOUNT, Heard
    <2>2. Paired(map')
      BY <1>1, <1>2, <2>1, OneSideLess DEF OwnInv, ShowsSide1
    <2>3. \A e \in Drives : Mapped(map', e) => Mapped(map, e) /\ map'[e] = map[e]
      BY <2>1 DEF Mapped, OwnInv, Paired
    <2>4. Held(map', slots')
      BY <2>1, <2>3 DEF OwnInv, Held
    <2> QED
      BY <1>1, <2>1, <2>2, <2>4, Disowned DEF OwnInv
  <1>3. CASE ~map[d].side1
    <2>1. map[d].slot = d
      BY <1>1, <1>3, SlotOf DEF OwnInv
    <2>2. PICK o \in Outcomes("unmount") :
            /\ map' = [DropSide1(map, d) EXCEPT ![d] = None]
            /\ slots' = InSlot(d, None, o)
            /\ cur' = IF Heard(o) THEN None ELSE cur
      BY <1>3, <2>1, OnlyOk DEF FUMOUNT
    <2> DEFINE image == IF Done(o) THEN None ELSE slots[d]
    <2>3. slots \in [Drives -> Images \cup {None}]
      BY DEF OwnInv
    <2>4. /\ slots' = [slots EXCEPT ![d] = image]
          /\ slots' \in [Drives -> Images \cup {None}]
      BY <2>2, <2>3 DEF InSlot
    <2>5. Paired(map')
      BY <2>2, OneDisk DEF OwnInv
    <2>6. Held(map', slots')
      <3> HIDE DEF image
      <3>1. Paired(map) /\ Held(map, slots)
        BY DEF OwnInv
      <3>2. Held([DropSide1(map, d) EXCEPT ![d] = None], [slots EXCEPT ![d] = image])
        BY <2>3, <3>1, Replaced
      <3> QED
        BY <2>2, <2>4, <3>2
    <2>7. CASE Heard(o)
      BY <1>1, <2>2, <2>4, <2>5, <2>6, <2>7, Disowned
    <2>8. CASE ~Heard(o)
      <3>1. cur' = cur
        BY <2>2, <2>8
      <3>2. ASSUME cur # None, Mapped(map', cur)
            PROVE  OfSide(ram, SideOf(cur)')
        <4>1. cur \in Drives /\ cur # d
          BY <2>2, <3>2 DEF OwnInv, Mapped, Paired, DropSide1
        <4> DEFINE e == cur
        <4>2. /\ map'[e] = map[e] /\ Mapped(map, e) /\ map[e].slot # d
              /\ map[e].slot \in Drives
          <5>1. Mapped([DropSide1(map, d) EXCEPT ![d] = None], e)
            BY <2>2, <3>2
          <5>2. e \in Drives /\ e # d /\ Paired(map)
            BY <4>1 DEF OwnInv
          <5> HIDE DEF e
          <5>3. /\ [DropSide1(map, d) EXCEPT ![d] = None][e] = map[e]
                /\ Mapped(map, e) /\ map[e].slot # d /\ map[e].slot \in Drives
            BY <5>1, <5>2, Elsewhere
          <5> QED
            BY <2>2, <5>3
        <4>3. slots'[map[cur].slot] = slots[map[cur].slot]
          BY <2>3, <2>4, <4>2
        <4>4. SideOf(cur)' = SideOf(cur)
          BY <3>1, <3>2, <4>2, <4>3 DEF SideOf, Mapped
        <4> QED
          BY <3>2, <4>2, <4>4 DEF OwnInv
      <3>3. OwnInv'
        BY <1>1, <2>4, <2>5, <2>6, <3>1, <3>2
           DEF OwnInv, OwnCatalogue, Paired, EntryOf, Held, Mapped
      <3> QED
        BY <2>8, <3>3 DEF Outcomes, Heard
    <2> QED
      BY <2>7, <2>8
  <1> QED
    BY <1>2, <1>3

LEMMA BootOwn ==
  ASSUME OwnInv, MappingSafe, NEW d \in Drives, FBOOT(d)
  PROVE  OwnInv' /\ CopyFresh'
PROOF
  <1>1. cur' = None /\ UNCHANGED <<store, ram>>
    BY OnlyOk DEF FBOOT, Heard
  <1>2. CASE UNCHANGED <<map, slots>>
    BY <1>1, <1>2, Disowned DEF OwnInv
  <1>3. CASE /\ map' = [DropSide1(map, d) EXCEPT ![d] = SingleSided(d)]
             /\ slots' = [slots EXCEPT ![d] = Boot]
    <2>1. Boot \in Images
      BY DriveAssumption
    <2>2. slots' \in [Drives -> Images \cup {None}]
      BY <1>3, <2>1 DEF OwnInv
    <2>3. Paired(map')
      BY <1>3, OneDisk DEF OwnInv
    <2>4. Held(map', slots')
      BY <1>3, <2>1, Replaced DEF OwnInv
    <2> QED
      BY <1>1, <2>2, <2>3, <2>4, Disowned
  <1> QED
    BY <1>2, <1>3, OnlyOk DEF FBOOT, InSlot, Done, Heard

\* *FORM of a disk with one side.
LEMMA FormOwn ==
  ASSUME OwnInv, NEW d \in Drives, FORM(d), slots[map[d].slot] \notin Dsds
  PROVE  OwnInv' /\ ("form" \notin Faults => CopyFresh')
PROOF
  <1> DEFINE image == slots[map[d].slot]
  <1>1. PICK o \in Outcomes("form") :
          /\ store' = IF Done(o)
                      THEN [s \in Sides |-> IF s = <<image, 0>> THEN Blank(s)
                                             ELSE IF s = <<image, 1>> THEN None
                                             ELSE store[s]]
                      ELSE store
          /\ cur' = IF Heard(o) THEN None ELSE cur
    BY DEF FORM
  <1>2. UNCHANGED <<map, slots, ram>> /\ image \notin Dsds
    BY DEF FORM
  <1> HIDE DEF image
  <1>3. \A s \in Sides : s # <<image, 1>>
    BY <1>2 DEF Sides
  <1>4. \A s \in Sides : store'[s] = Blank(s) \/ store'[s] = store[s]
    BY <1>1, <1>3
  <1>5. store' \in [Sides -> Catalogue]
    BY <1>1, <1>4, BlankIs DEF OwnInv
  <1>6. OwnCatalogue'
    <2>1. ASSUME NEW s \in Sides
          PROVE  OfSide(store[s], s)
      <3>1. store[s] \in Catalogue /\ store[s] # None
        BY DriveAssumption DEF OwnInv
      <3> QED
        BY <3>1 DEF OwnInv, OwnCatalogue, OfSide
    <2>2. \A s \in Sides : OfSide(store'[s], s)
      BY <1>4, <2>1, BlankIs
    <2> QED
      BY <2>2 DEF OwnCatalogue, OfSide
  <1>7. Paired(map') /\ Held(map', slots')
    BY <1>2 DEF OwnInv
  <1>8. cur' \in Drives \cup {None} /\ (cur' # None => cur' = cur)
    BY <1>1 DEF OwnInv
  <1>9. cur' # None /\ Mapped(map', cur') => OfSide(ram', SideOf(cur)')
    BY <1>2, <1>8 DEF OwnInv, SideOf, Mapped
  <1>10. OwnInv'
    BY <1>2, <1>5, <1>6, <1>7, <1>8, <1>9 DEF OwnInv, Paired, EntryOf, Held, Mapped
  <1>11. "form" \notin Faults => cur' = None
    BY <1>1 DEF Outcomes, Heard
  <1> QED
    BY <1>10, <1>11 DEF CopyFresh

LEMMA LookOwn ==
  ASSUME OwnInv, MappingSafe, NEW d \in Drives, Look(d)
  PROVE  OwnInv' /\ (CopyFresh => CopyFresh')
PROOF
  <1>1. /\ ram' \in Loads(d) /\ cur' = d
        /\ UNCHANGED <<map, slots, store>>
    BY DEF Look
  <1>2. /\ ram' \in Catalogue /\ (Mapped(map, d) => OfSide(ram', SideOf(d)))
        /\ CopyFresh => Mapped(map, d) /\ ram' = store[SideOf(d)]
    BY <1>1, LoadsOwn
  <1>3. SideOf(cur)' = SideOf(d) /\ (Mapped(map, d) => SideOf(d) # None)
    BY <1>1, HasSide DEF SideOf, Mapped, OwnInv
  <1>4. Paired(map)' /\ Held(map, slots)' /\ OwnCatalogue'
        /\ (Mapped(map, cur)' => Mapped(map, d))
    BY <1>1 DEF OwnInv, OwnCatalogue, Paired, EntryOf, Held, Mapped
  <1> QED
    BY <1>1, <1>2, <1>3, <1>4 DEF OwnInv, OfSide, CopyFresh

\* A save, of which any sector may fail, writes the copy's own side only, and
\* nothing when the drive shows none.
LEMMA ChangeOwn ==
  ASSUME OwnInv, MappingSafe, NEW d \in Drives, Change(d)
  PROVE  OwnInv' /\ ("write" \notin Faults /\ CopyFresh => CopyFresh')
PROOF
  <1>1. PICK cat \in Loads(d) :
          /\ cat.names.cycle < MaxCycle /\ cat.extents.cycle < MaxCycle
          /\ ram' = [names |-> Changed(cat.names), extents |-> Changed(cat.extents)]
    BY DEF Change
  <1>2. /\ cat \in Catalogue /\ (Mapped(map, d) => OfSide(cat, SideOf(d)))
        /\ CopyFresh => Mapped(map, d)
    BY LoadsOwn
  <1>3. /\ ram' \in Catalogue /\ ram'.names.of = cat.names.of
        /\ ram'.extents.of = cat.extents.of
    <2>1. cat.names \in Sector /\ cat.extents \in Sector
      BY <1>2 DEF Catalogue
    <2>2. /\ Changed(cat.names) \in Sector /\ Changed(cat.names).of = cat.names.of
          /\ Changed(cat.extents) \in Sector /\ Changed(cat.extents).of = cat.extents.of
      BY <1>1, <2>1, DriveAssumption DEF Sector, Changed
    <2> QED
      BY <1>1, <2>2 DEF Catalogue
  <1>4. cur' = d /\ UNCHANGED <<map, slots>>
    BY DEF Change
  <1> DEFINE side == SideOf(d)
  <1>5. SideOf(cur)' = side
    BY <1>4 DEF SideOf, Mapped
  <1>6. Paired(map)' /\ Held(map, slots)' /\ (Mapped(map, cur)' => Mapped(map, d))
    BY <1>4 DEF OwnInv, Paired, EntryOf, Held, Mapped
  <1>7. CASE ~Mapped(map, d)
    <2>1. store' = store
      BY <1>7 DEF Change, Written, SideOf
    <2>2. OwnCatalogue' /\ store' \in [Sides -> Catalogue]
      BY <2>1 DEF OwnInv, OwnCatalogue
    <2> QED
      BY <1>2, <1>3, <1>4, <1>6, <1>7, <2>2 DEF OwnInv
  <1>8. CASE Mapped(map, d)
    <2>1. side \in Sides /\ side # None /\ OfSide(ram', side)
      BY <1>2, <1>3, <1>8, HasSide DEF OwnInv, OfSide
    <2>2. store[side] \in Catalogue /\ store[side] # None
      BY <2>1, DriveAssumption DEF OwnInv
    <2>3. PICK first, second \in Outcomes("write") :
            store' = [store EXCEPT ![side].names = IF Done(first) THEN ram'.names ELSE @,
                                   ![side].extents = IF Done(second) THEN ram'.extents ELSE @]
      BY <2>1, <2>2 DEF Change, Written
    <2>4. /\ store' \in [Sides -> Catalogue]
          /\ \A s \in Sides \ {side} : store'[s] = store[s]
          /\ store'[side].names = IF Done(first) THEN ram'.names ELSE store[side].names
          /\ store'[side].extents = IF Done(second) THEN ram'.extents ELSE store[side].extents
      BY <1>3, <2>1, <2>2, <2>3 DEF OwnInv, Catalogue
    <2>5. OwnCatalogue'
      <3>1. \A s \in Sides : OfSide(store[s], s)
        <4>1. ASSUME NEW s \in Sides
              PROVE  store[s] \in Catalogue /\ store[s] # None
          BY DriveAssumption DEF OwnInv
        <4> QED
          BY <4>1 DEF OwnInv, OwnCatalogue, OfSide
      <3> HIDE DEF side
      <3>2. \A s \in Sides : OfSide(store'[s], s)
        BY <2>1, <2>4, <3>1 DEF OfSide
      <3> QED
        BY <3>2 DEF OwnCatalogue, OfSide
    <2>6. ASSUME "write" \notin Faults
          PROVE  CopyFresh'
      <3>1. Done(first) /\ Done(second)
        BY <2>6 DEF Outcomes, Done
      <3>2. store'[side] = ram'
        BY <1>3, <2>1, <2>2, <2>4, <3>1 DEF Catalogue
      <3> QED
        BY <1>5, <2>1, <3>2 DEF CopyFresh
    <2> QED
      BY <1>3, <1>4, <1>5, <1>6, <2>1, <2>4, <2>5, <2>6 DEF OwnInv, OfSide
  <1> QED
    BY <1>7, <1>8

\* BREAK and the other filing systems; *FUJI, which forgets a map it does not
\* believe before it asks for a host session.
LEMMA OthersOwn ==
  ASSUME OwnInv,
         \/ Forget \/ Leave \/ \E kind \in {"soft", "hard"} : BREAK(kind)
         \/ (reset \/ lastBreak = "soft") /\ Select
         \/ UNCHANGED vars
  PROVE  OwnInv' /\ (CopyFresh => CopyFresh')
PROOF
  <1>1. CASE Forget
    BY <1>1, Disowned DEF Forget, OwnInv
  <1>2. CASE Leave \/ (\E kind \in {"soft", "hard"} : BREAK(kind)) \/ UNCHANGED vars
    <2>1. UNCHANGED <<map, slots, store, ram, cur>>
      BY <1>2 DEF Leave, BREAK, vars
    <2> QED
      BY <2>1 DEF OwnInv, OwnCatalogue, Paired, EntryOf, Held, Mapped, SideOf, CopyFresh
  <1>3. CASE (reset \/ lastBreak = "soft") /\ Select
    <2> DEFINE mp == IF reset THEN [d \in Drives |-> None] ELSE map
    <2>1. cur' = None /\ UNCHANGED <<store, ram>>
      BY <1>3 DEF Select
    <2>2. Paired(mp)
      BY NothingMounted DEF OwnInv
    <2>3. CASE map' = mp /\ UNCHANGED slots
      <3>1. Held(map', slots')
        BY <2>3 DEF OwnInv, Held, Mapped
      <3> QED
        BY <2>1, <2>2, <2>3, <3>1, Disowned DEF OwnInv
    <2>4. CASE BeginSession(mp) /\ reset
      <3>1. PICK o \in Outcomes("session") : \E mounted, kept \in BOOLEAN :
              /\ map' = IF Heard(o) /\ mounted
                        THEN [d \in Drives |-> IF d = 0 THEN SingleSided(0) ELSE None]
                        ELSE mp
              /\ slots' = IF Done(o)
                          THEN [d \in Drives |-> IF d = 0 /\ mounted THEN Boot
                                                 ELSE IF kept THEN slots[d] ELSE None]
                          ELSE slots
        BY <2>4 DEF BeginSession
      <3>2. PICK mounted, kept \in BOOLEAN :
              /\ map' = IF Heard(o) /\ mounted
                        THEN [d \in Drives |-> IF d = 0 THEN SingleSided(0) ELSE None]
                        ELSE mp
              /\ slots' = IF Done(o)
                          THEN [d \in Drives |-> IF d = 0 /\ mounted THEN Boot
                                                 ELSE IF kept THEN slots[d] ELSE None]
                          ELSE slots
        BY <3>1
      <3>3. slots' \in [Drives -> Images \cup {None}]
        BY <3>2, DriveAssumption DEF OwnInv
      <3>4. Paired(map')
        BY <2>2, <3>2, BootAlone
      <3>5. CASE Heard(o) /\ mounted
        <4>1. \A d \in Drives : map'[d] = IF d = 0 THEN SingleSided(0) ELSE None
          BY <3>2, <3>5
        <4>2. 0 \in Drives => slots'[0] = Boot
          BY <3>2, <3>5 DEF Heard, Done
        <4>3. Held(map', slots')
          BY <4>1, <4>2, DriveAssumption DEF Held, Mapped, SingleSided
        <4> QED
          BY <2>1, <3>3, <3>4, <4>3, Disowned
      <3>6. CASE ~(Heard(o) /\ mounted)
        <4>1. \A d \in Drives : map'[d] = None
          BY <2>4, <3>2, <3>6
        <4>2. Held(map', slots')
          BY <4>1 DEF Held, Mapped
        <4> QED
          BY <2>1, <3>3, <3>4, <4>2, Disowned
      <3> QED
        BY <3>5, <3>6
    <2> HIDE DEF mp
    <2>5. (lastBreak = "hard" /\ BeginSession(mp)) \/ (map' = mp /\ UNCHANGED slots)
      BY <1>3 DEF Select, mp
    <2> QED
      BY <1>3, <2>3, <2>4, <2>5
  <1> QED
    BY <1>1, <1>2, <1>3

LEMMA OwnInit == Init => OwnInv /\ CopyFresh
PROOF
  <1> SUFFICES ASSUME Init PROVE OwnInv /\ CopyFresh
    OBVIOUS
  <1>1. /\ map = [d \in Drives |-> None] /\ slots = [d \in Drives |-> None]
        /\ store = [s \in Sides |-> Blank(s)] /\ ram = Blank(<<Boot, 0>>) /\ cur = None
    BY DEF Init
  <1>2. <<Boot, 0>> \in Sides
    BY DriveAssumption DEF Sides
  <1>3. store \in [Sides -> Catalogue] /\ ram \in Catalogue /\ OwnCatalogue
    BY <1>1, <1>2, BlankIs DEF OwnCatalogue, OfSide
  <1>4. Paired(map) /\ Held(map, slots)
    BY <1>1, NothingMounted DEF Held, Mapped
  <1> QED
    BY <1>1, <1>3, <1>4 DEF OwnInv, CopyFresh

LEMMA OwnStep ==
  ASSUME OwnInv, MappingSafe, [QuietNext]_vars
  PROVE  OwnInv' /\ (CopySafe /\ CopyFresh => CopyFresh')
PROOF
  <1>1. ASSUME NEW d \in Drives, DiskCommand(d)
        PROVE  OwnInv' /\ (CopySafe /\ CopyFresh => CopyFresh')
    BY <1>1, MountOwn, UnmountOwn, BootOwn, LookOwn, ChangeOwn DEF DiskCommand, CopySafe
  <1>2. ASSUME NEW d \in Drives, FORM(d), slots[map[d].slot] \notin Dsds
        PROVE  OwnInv' /\ (CopySafe => CopyFresh')
    BY <1>2, FormOwn DEF CopySafe
  <1> QED
    BY <1>1, <1>2, OthersOwn DEF QuietNext

\* No image gets the catalogue of another: the commands that mount disown the
\* copy, BREAK and *FUJI keep or forget copy and map together.  It holds though
\* an unmount, a format, a save or the start of a host session may be refused or
\* its answer lost, and a mapping record be taken for an old one.
THEOREM CataloguesStayHome ==
  ASSUME MappingSafe
  PROVE  QuietSpec => []OwnCatalogue
PROOF
  <1>1. OwnInv /\ [QuietNext]_vars => OwnInv'
    BY OwnStep
  <1>2. OwnInv => OwnCatalogue
    BY DEF OwnInv
  <1> QED
    BY <1>1, <1>2, OwnInit, PTL DEF QuietSpec

\* The copy in use is the catalogue of the side its drive shows, when unmounts,
\* formats and saves are carried out and answered as well.
THEOREM CopyIsTheDrives ==
  ASSUME MappingSafe, CopySafe
  PROVE  QuietSpec => []CopyFresh
PROOF
  <1> DEFINE Both == OwnInv /\ CopyFresh
  <1>1. Init => Both
    BY OwnInit
  <1>2. Both /\ [QuietNext]_vars => Both'
    BY OwnStep
  <1>3. Both => CopyFresh
    OBVIOUS
  <1> HIDE DEF Both
  <1> QED
    BY <1>1, <1>2, <1>3, PTL DEF QuietSpec

=============================================================================
