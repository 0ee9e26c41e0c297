------------------------------ MODULE DriveMap ------------------------------
(***************************************************************************)
(* BBC drives, the disk slots of the FujiNet device, and the one catalogue *)
(* copy of the ROM: *FMOUNT, *FUMOUNT, *FBOOT, *FORM, BREAK, *FUJI, and    *)
(* what the filing system does to a catalogue through a drive.             *)
(*                                                                         *)
(* fuji_drive_disk_map says which slot, and which side of it, a drive      *)
(* shows.  The ROM mounts into the slot that has the drive's number, so a  *)
(* slot is shown by another drive only as the second side of a DSD.        *)
(*                                                                         *)
(* A command to the device is carried out and answered, or refused, or     *)
(* carried out with its answer lost: Faults names the commands that can be *)
(* refused or lose their answer.                                           *)
(***************************************************************************)
EXTENDS Integers

CONSTANTS
  Drives,      \* 0..3 in the code
  Images,      \* the disk images of the slot catalogue
  Dsds,        \* those that are double-sided, named .dsd
  Boot,        \* the configured boot image
  MaxCycle,    \* bound on the times a catalogue is changed
  Faults,      \* the commands that may go wrong
  None

\* A drive's entry: the slot, and the bits DRIVE_MAP_DSD and DRIVE_MAP_SIDE1.
Entry == [slot : Drives, dsd : BOOLEAN, side1 : BOOLEAN]

\* A side of an image.
Sides == (Images \X {0}) \cup (Dsds \X {1})

\* A catalogue sector: whose it is, and how often it was changed.
Sector == [of : Sides, cycle : 0 .. MaxCycle]

Catalogue == [names : Sector, extents : Sector]

ASSUME DriveAssumption ==
  /\ 0 \in Drives /\ Drives \subseteq 0 .. 3
  /\ \A d \in Drives : d < 2 => d + 2 \in Drives
  /\ Dsds \subseteq Images /\ Boot \in Images \ Dsds
  /\ MaxCycle \in Nat
  /\ None \notin Images \cup Drives \cup Entry \cup Sides \cup Catalogue

VARIABLES
  map,      \* fuji_drive_disk_map
  slots,    \* the image in each slot of the device
  shared,   \* config-nio/mappings: the catalogue slot recorded for a drive
  store,    \* the two catalogue sectors of every side of every image
  ram,      \* the catalogue copy at &0E00 and &0F00
  cur,      \* current_cat
  selected, \* FujiNet is the current filing system
  reset,    \* fuji_force_reset: the workspace is not to be believed
  lastBreak \* what the MOS says the last BREAK was (OSBYTE &FD)

filing == <<selected, reset, lastBreak>>

vars == <<map, slots, shared, store, ram, cur, filing>>

Blank(side) ==
  [names |-> [of |-> side, cycle |-> 0], extents |-> [of |-> side, cycle |-> 0]]

TypeOK ==
  /\ map \in [Drives -> Entry \cup {None}]
  /\ slots \in [Drives -> Images \cup {None}]
  /\ shared \in [Drives -> Images \cup {None}]
  /\ store \in [Sides -> Catalogue \cup {None}]
  /\ ram \in Catalogue
  /\ cur \in Drives \cup {None}
  /\ selected \in BOOLEAN /\ reset \in BOOLEAN
  /\ lastBreak \in {"soft", "hard"}

\* Power-on counts as a hard BREAK; memory holds nothing of use.
Init ==
  /\ map = [d \in Drives |-> None]
  /\ slots = [d \in Drives |-> None]
  /\ shared = [d \in Drives |-> None]
  /\ store = [s \in Sides |-> Blank(s)]
  /\ ram = Blank(<<Boot, 0>>)
  /\ cur = None
  /\ selected = FALSE /\ reset = TRUE /\ lastBreak = "hard"

----------------------------------------------------------------------------
(* The device.                                                             *)

Outcomes(command) ==
  IF command \in Faults THEN {"ok", "refused", "lost"} ELSE {"ok"}

Done(o) == o # "refused"

Heard(o) == o = "ok"

InSlot(d, image, o) == IF Done(o) THEN [slots EXCEPT ![d] = image] ELSE slots

\* fmount_update_mapping reads the record and writes this drive's pair of it.
\* When the read gives nothing it deletes the record and writes a new one that
\* holds this pair alone; either way the write may fail or lose its answer.  (A
\* deletion that fails changes nothing more: the new record is written over the
\* old one.)
MappingOutcomes ==
  [known : IF "mapping_read" \in Faults THEN BOOLEAN ELSE {TRUE},
   write : Outcomes("mapping")]

Recorded(sh, d, image, m) ==
  LET old == IF m.known THEN sh ELSE [e \in Drives |-> None]
  IN  IF Done(m.write) THEN [old EXCEPT ![d] = image] ELSE old

Agreed(m) == Heard(m.write)

----------------------------------------------------------------------------
(* The drive map.                                                          *)

Mapped(mp, d) == mp[d] # None

ShowsSide1(mp, d) == Mapped(mp, d) /\ mp[d].side1

SingleSided(d) == [slot |-> d, dsd |-> FALSE, side1 |-> FALSE]

\* Faulty variant: the second drive's view left behind.
DropSide1_kept(mp, d) == mp

\* fuji_drop_side1_alias: drive d gets a new disk or none.
DropSide1(mp, d) ==
  IF d < 2 /\ ShowsSide1(mp, d + 2) THEN [mp EXCEPT ![d + 2] = None] ELSE mp

\* fmount_map_second_side.
WithSide1(mp, d) ==
  [mp EXCEPT ![d] = [slot |-> d, dsd |-> TRUE, side1 |-> FALSE],
             ![d + 2] = [slot |-> d, dsd |-> TRUE, side1 |-> TRUE]]

\* The side a drive reads and writes: fuji_set_disk_slot_from_mapping_or_error.
SideOf(d) ==
  IF ~Mapped(map, d) THEN None
  ELSE LET side == <<slots[map[d].slot], IF map[d].side1 THEN 1 ELSE 0>>
       IN  IF side \in Sides THEN side ELSE None

----------------------------------------------------------------------------
(* *FMOUNT, *FUMOUNT, *FBOOT and *FORM.                                    *)

\* fuji_mount_disk: the map is changed before the device is asked.
MountFails(d, image, o) ==
  /\ ~Heard(o)
  /\ map' = [DropSide1(map, d) EXCEPT ![d] = SingleSided(d)]
  /\ slots' = InSlot(d, image, o)
  /\ UNCHANGED <<shared, store, ram, cur, filing>>

\* Faulty variant: the copy survives the remapping.
MountWorks_keeping_copy(d, image, m, clear) ==
  LET one == [DropSide1(map, d) EXCEPT ![d] = SingleSided(d)]
      two == d < 2 /\ image \in Dsds
      sh  == Recorded(shared, d, image, m)
  IN  /\ map' = IF two THEN WithSide1(one, d) ELSE one
      /\ slots' = InSlot(d, image, "ok")
      /\ shared' = IF Agreed(m) /\ two THEN Recorded(sh, d + 2, None, clear) ELSE sh
      /\ UNCHANGED <<store, ram, cur, filing>>

MountWorks(d, image, m, clear) ==
  LET one == [DropSide1(map, d) EXCEPT ![d] = SingleSided(d)]
      two == d < 2 /\ image \in Dsds
      sh  == Recorded(shared, d, image, m)
  IN  /\ map' = IF two THEN WithSide1(one, d) ELSE one
      /\ slots' = InSlot(d, image, "ok")
      /\ shared' = IF Agreed(m) /\ two THEN Recorded(sh, d + 2, None, clear) ELSE sh
      /\ cur' = IF Agreed(m) THEN None ELSE cur
      /\ UNCHANGED <<store, ram, filing>>

FMOUNT(d, image) ==
  \/ \E o \in Outcomes("mount") : MountFails(d, image, o)
  \/ \E m, clear \in MappingOutcomes : MountWorks(d, image, m, clear)

\* A drive that shows a second side is only unmapped; the image stays where it
\* is.  Any other is unmapped even when the device refuses.
FUMOUNT(d) ==
  /\ Mapped(map, d)
  /\ \E o \in IF map[d].side1 THEN {"ok"} ELSE Outcomes("unmount"),
        m \in MappingOutcomes :
       /\ map' = [(IF map[d].side1 THEN map ELSE DropSide1(map, d)) EXCEPT ![d] = None]
       /\ slots' = IF map[d].side1 THEN slots ELSE InSlot(map[d].slot, None, o)
       /\ shared' = IF Heard(o) THEN Recorded(shared, d, None, m) ELSE shared
       /\ cur' = IF Heard(o) /\ Agreed(m) THEN None ELSE cur
  /\ UNCHANGED <<store, ram, filing>>

\* fuji_restore_boot_disk; the answer says whether an image was mounted.
FBOOT(d) ==
  /\ \/ \E o \in Outcomes("boot") :
          /\ slots' = InSlot(d, Boot, o)
          /\ map' = IF Heard(o) THEN [DropSide1(map, d) EXCEPT ![d] = SingleSided(d)]
                                ELSE map
          /\ cur' = IF Heard(o) THEN None ELSE cur
     \/ cur' = None /\ UNCHANGED <<map, slots>>
  /\ UNCHANGED <<shared, store, ram, filing>>

\* The image is made anew with one side.
FORM(d) ==
  /\ Mapped(map, d) /\ ~map[d].dsd /\ slots[map[d].slot] # None
  /\ \E o \in Outcomes("form") :
       LET image == slots[map[d].slot]
       IN  /\ store' = IF Done(o)
                       THEN [s \in Sides |-> IF s = <<image, 0>> THEN Blank(s)
                                             ELSE IF s = <<image, 1>> THEN None
                                             ELSE store[s]]
                       ELSE store
           /\ cur' = IF Heard(o) THEN None ELSE cur
  /\ UNCHANGED <<map, slots, shared, ram, filing>>

----------------------------------------------------------------------------
(* The catalogue through a drive.                                          *)

\* fuji_read_catalog_data stops at the first sector that cannot be read.
Reads(d) ==
  LET there == IF SideOf(d) = None THEN None ELSE store[SideOf(d)]
  IN  (IF there = None THEN {ram} ELSE {there})
      \cup (IF there # None /\ "read" \in Faults
            THEN {ram, [ram EXCEPT !.names = there.names]} ELSE {})

\* What the copy may hold after check_cur_drv_cat; the result of the read is
\* not looked at.  An unmapped drive is an error ("No disk").
Loads(d) == IF cur = d THEN {ram} ELSE IF Mapped(map, d) THEN Reads(d) ELSE {}

Look(d) ==
  /\ ram' \in Loads(d) /\ cur' = d
  /\ UNCHANGED <<map, slots, shared, store, filing>>

Changed(sector) == [sector EXCEPT !.cycle = @ + 1]

\* save_cat_to_disk.  Slot &FF of an unmapped drive does not exist; neither
\* does the second side of an image that has one.
Written(d, cat, first, second) ==
  LET side == SideOf(d)
  IN  IF side = None \/ store[side] = None THEN store
      ELSE [store EXCEPT
              ![side].names = IF Done(first) THEN cat.names ELSE @,
              ![side].extents = IF Done(second) THEN cat.extents ELSE @]

Change(d) ==
  /\ \E cat \in Loads(d) :
       /\ cat.names.cycle < MaxCycle /\ cat.extents.cycle < MaxCycle
       /\ ram' = [names |-> Changed(cat.names), extents |-> Changed(cat.extents)]
  /\ \E first, second \in Outcomes("write") : store' = Written(d, ram', first, second)
  /\ cur' = d
  /\ UNCHANGED <<map, slots, shared, filing>>

\* An error of the filing system that disowns the copy, or *CAT.
Forget ==
  cur' = None /\ UNCHANGED <<map, slots, shared, store, ram, filing>>

----------------------------------------------------------------------------
(* BREAK, other filing systems, and *FUJI.                                 *)

\* Another filing system is selected; ours keeps its workspace.
Leave ==
  selected' = FALSE
  /\ UNCHANGED <<map, slots, shared, store, ram, cur, reset, lastBreak>>

\* Service call 2.
BREAK(kind) ==
  /\ lastBreak' = kind
  /\ reset' = (reset \/ kind = "hard")
  /\ selected' = FALSE
  /\ UNCHANGED <<map, slots, shared, store, ram, cur>>

\* fuji_begin_host_session.  When the device says that it mounted the boot
\* image, that is all there is; what becomes of the other slots is its affair.
BeginSession(mp) ==
  \E o \in Outcomes("session"), mounted, kept \in BOOLEAN :
    /\ map' = IF Heard(o) /\ mounted
              THEN [d \in Drives |-> IF d = 0 THEN SingleSided(0) ELSE None]
              ELSE mp
    /\ slots' = IF Done(o)
                THEN [d \in Drives |-> IF d = 0 /\ mounted THEN Boot
                                       ELSE IF kept THEN slots[d] ELSE None]
                ELSE slots

\* fuji_init, entered by BREAK and by *FUJI.  "Hard" is what the MOS says of
\* the last BREAK, however long ago that was.
Select ==
  /\ LET mp == IF reset THEN [d \in Drives |-> None] ELSE map
     IN  \/ lastBreak = "hard" /\ BeginSession(mp)
         \/ lastBreak = "soft" /\ map' = mp /\ UNCHANGED slots
  /\ reset' = FALSE /\ selected' = TRUE /\ cur' = None
  /\ UNCHANGED <<shared, store, ram, lastBreak>>

DiskCommand(d) ==
  \/ \E image \in Images : FMOUNT(d, image)
  \/ FUMOUNT(d) \/ FBOOT(d)
  \/ Look(d) \/ Change(d)

Next ==
  \/ selected /\ \E d \in Drives : DiskCommand(d) \/ FORM(d)
  \/ selected /\ (Forget \/ Leave)
  \/ \E kind \in {"soft", "hard"} : BREAK(kind)
  \/ Select

Spec == Init /\ [][Next]_vars

\* The same without the two commands that are known to do damage: *FORM of a
\* DSD that is mounted in drive 2 or 3 (its second side is gone, cmd_format.s:65),
\* and *FUJI long after a hard BREAK (another host session, fuji_init.s:279).
QuietNext ==
  \/ selected /\ \E d \in Drives :
                   DiskCommand(d) \/ (FORM(d) /\ slots[map[d].slot] \notin Dsds)
  \/ selected /\ (Forget \/ Leave)
  \/ \E kind \in {"soft", "hard"} : BREAK(kind)
  \/ (reset \/ lastBreak = "soft") /\ Select

QuietSpec == Init /\ [][QuietNext]_vars

----------------------------------------------------------------------------
(* Properties.                                                             *)

\* Drive 2 or 3 shows a second side only while drive 0 or 1 shows the first
\* side of the same DSD, and no other two drives show one slot.
SidesPaired ==
  /\ \A d \in Drives : ShowsSide1(map, d) =>
       /\ d >= 2 /\ Mapped(map, d - 2)
       /\ map[d].slot = d - 2 /\ map[d].dsd
       /\ map[d - 2] = [slot |-> d - 2, dsd |-> TRUE, side1 |-> FALSE]
  /\ \A d, e \in Drives :
       /\ d # e /\ Mapped(map, d) /\ Mapped(map, e) /\ map[d].slot = map[e].slot
       => map[d].side1 # map[e].side1

\* A copy the ROM is willing to use is the catalogue of the side that drive
\* shows now, whatever was mounted, unmounted or formatted since it was read.
CopyFresh ==
  cur # None => SideOf(cur) # None /\ ram = store[SideOf(cur)]

\* No image gets the catalogue of another.
OwnCatalogue ==
  \A s \in Sides :
    store[s] # None => store[s].names.of = s /\ store[s].extents.of = s
=============================================================================
