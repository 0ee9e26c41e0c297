----------------------------- MODULE DiskDevice -----------------------------
(***************************************************************************)
(* The disk side of the test device and the commands of the ROM that work  *)
(* on it: disk_image_responder of integration-tests/beebium/fuji_device.py *)
(* (slot catalogue, AppStore, disk slots, images), and *FNEW, *FIN, *FOUT, *)
(* *FMOUNT, *FUMOUNT, *FORM and the writing of sectors.  The link is taken *)
(* as good: FujiLink has what happens when it is not.                      *)
(*                                                                         *)
(* Images are objects that several names and several slots may share: an   *)
(* image is a number, images[i] its sectors now.                           *)
(***************************************************************************)
EXTENDS HostService

CONSTANTS
  Drives,      \* 0..7 in the code; drive d is slot d + 1 on the wire
  Indices,     \* of the slot catalogue
  Targets,     \* what a user may name
  BootDir,     \* the folder of the boot image
  BootLeaf,    \* its name in there
  Available,   \* full names of further copies of it
  BootData,    \* its sectors
  CreateSize,  \* 800
  Formats,     \* 400 and 800
  Lbas, Data,  \* the sectors written, and with what
  Zero, Label, \* an empty sector, and the catalogue of a formatted image
  MaxImages,   \* bound
  None

\* A name: dir is what ends in ":/..." or "://...", prefix a drive alone.
Target == [dir : {t.dir : t \in Targets} \cup {BootDir},
           prefix : {t.prefix : t \in Targets}, leaf : {t.leaf : t \in Targets}]

ASSUME DiskAssumption ==
  /\ \A t \in Targets \cup Available :
       t = [dir |-> t.dir, prefix |-> t.prefix, leaf |-> t.leaf]
  /\ \A t \in Available : t.dir # None
  /\ IsFiniteSet(Drives) /\ Drives = 0 .. Cardinality(Drives) - 1
  /\ IsFiniteSet(Available) /\ Lbas \subseteq Nat
  /\ CreateSize \in Nat \ {0} /\ Formats \subseteq Nat \ {0}
  /\ BootDir # None /\ None \notin Nat
  /\ BootData # << >> /\ BootData \in Seq({BootData[i] : i \in DOMAIN BootData})

VARIABLES
  images,     \* the bytearrays, by number; 1 is the boot image
  available,  \* available_images: name -> image
  catalogue,  \* slots: index -> name
  runtime,    \* runtime_mounts: drive -> mode and name
  mounted,    \* mounted_images: slot on the wire -> image
  record,     \* AppStore entry config-nio/mappings, << >> when there is none
  mapped,     \* drives that fuji_drive_disk_map has an entry for
  names       \* the names each image was made under

disks == <<images, available, catalogue, runtime, mounted, record, mapped, names>>

vars == <<host, disks>>

BootUri == [dir |-> BootDir, prefix |-> None, leaf |-> BootLeaf]

Leaf(name) == [dir |-> None, prefix |-> None, leaf |-> name]

Init ==
  /\ HostInit(<<CHOOSE r \in Roots : TRUE>>)
  /\ \E copies \in Bijection(1 .. Cardinality(Available), Available) :
       /\ images = [i \in 1 .. 1 + Len(copies) |-> BootData]
       /\ available = [t \in {BootUri, Leaf(BootLeaf)} \cup Available |->
                         IF t \in Available
                         THEN 1 + CHOOSE i \in DOMAIN copies : copies[i] = t ELSE 1]
       /\ names = [i \in DOMAIN images |-> {t \in DOMAIN available : available[t] = i}]
  /\ \E i \in Indices : catalogue = i :> BootUri
  /\ runtime = << >> /\ mounted = << >> /\ record = << >> /\ mapped = {}

----------------------------------------------------------------------------
(* The device.                                                             *)

Beside(t) == [t EXCEPT !.dir = BootDir]

\* resolve_target: a drive alone does not make a name absolute here ...
resolve_target(t) == IF t.dir # None THEN t ELSE Beside(t)

\* ... but does for CREATE.
Relative(t) == t.dir = None /\ t.prefix = None

\* Faulty variant: the new image known by the name given alone.
Spellings_given_only(t) == {t}

Spellings(t) == {t} \cup (IF Relative(t) THEN {Beside(t)} ELSE {})

With(f, S, v) == [x \in DOMAIN f \cup S |-> IF x \in S THEN v ELSE f[x]]

Create(t) ==
  /\ Len(images) < MaxImages
  /\ images' = Append(images, [i \in 1 .. CreateSize |-> Zero])
  /\ available' = With(available, Spellings(t), Len(images'))
  /\ names' = Append(names, Spellings(t))

Slot(d) == d + 1

\* Faulty variant: the answer says "mounted" but the slot keeps its image.
Mount_listing_only(d, uri, mode) ==
  /\ uri \in DOMAIN available
  /\ runtime' = With(runtime, {d}, [mode |-> mode, uri |-> uri])
  /\ mounted' = IF Slot(d) \in DOMAIN mounted THEN mounted
                ELSE With(mounted, {Slot(d)}, available[uri])

Mount(d, uri, mode) ==
  /\ uri \in DOMAIN available
  /\ runtime' = With(runtime, {d}, [mode |-> mode, uri |-> uri])
  /\ mounted' = With(mounted, {Slot(d)}, available[uri])

Unmount(d) ==
  /\ runtime' = Restrict(runtime, DOMAIN runtime \ {d})
  /\ mounted' = Restrict(mounted, DOMAIN mounted \ {Slot(d)})

FormattedImage(n) == [i \in 1 .. n |-> IF i <= 2 THEN Label ELSE Zero]

\* Faulty variant: a new object in the slot instead of the one that is there.
Reinitialize_new_object(d, n) ==
  /\ Slot(d) \in DOMAIN mounted
  /\ images' = Append(images, FormattedImage(n))
  /\ mounted' = With(mounted, {Slot(d)}, Len(images'))

\* Every slot and name that shares the image sees it formatted.
Reinitialize(d, n) ==
  /\ Slot(d) \in DOMAIN mounted
  /\ images' = [images EXCEPT ![mounted[Slot(d)]] = FormattedImage(n)]
  /\ UNCHANGED mounted

\* _write_sector: the boot image, whatever the slot.
WriteSector(lba, v) ==
  LET old == images[1]
      n   == IF lba < Len(old) THEN Len(old) ELSE lba + 1
  IN  images' = [images EXCEPT ![1] =
                   [i \in 1 .. n |-> IF i = lba + 1 THEN v
                                     ELSE IF i <= Len(old) THEN old[i] ELSE Zero]]

\* AppStore WRITE: data replaces what is at the offset.
Spliced(old, offset, data) ==
  SubSeq(old, 1, offset) \o data \o SubSeq(old, offset + Len(data) + 1, Len(old))

----------------------------------------------------------------------------
(* The commands.                                                           *)

Pairs == Cardinality(Drives)

\* Version, then flags and catalogue index of each drive.
WholeRecord(d, flags, index) ==
  [i \in 1 .. 1 + 2 * Pairs |->
     IF i = 1 THEN 1 ELSE IF i = 2 * d + 2 THEN flags ELSE IF i = 2 * d + 3 THEN index ELSE 0]

\* Faulty variant: the version byte forgotten in the offset of a pair.
Updated_off_by_one(d, flags, index) ==
  IF Len(record) = 1 + 2 * Pairs /\ record[1] = 1
  THEN Spliced(record, 2 * d, <<flags, index>>)
  ELSE WholeRecord(d, flags, index)

\* fmount_update_mapping: a record of another format is deleted first.
Updated(d, flags, index) ==
  IF Len(record) = 1 + 2 * Pairs /\ record[1] = 1
  THEN Spliced(record, 1 + 2 * d, <<flags, index>>)
  ELSE WholeRecord(d, flags, index)

FNEW(t) == Create(t) /\ UNCHANGED <<host, catalogue, runtime, mounted, record, mapped>>

FIN(i, t) ==
  /\ catalogue' = With(catalogue, {i}, resolve_target(t))
  /\ UNCHANGED <<host, images, available, runtime, mounted, record, mapped, names>>

FOUT(i) ==
  /\ catalogue' = Restrict(catalogue, DOMAIN catalogue \ {i})
  /\ UNCHANGED <<host, images, available, runtime, mounted, record, mapped, names>>

\* The drive is mapped before the device is asked, which may not know the name.
FMOUNT(i, d, mode) ==
  /\ i \in DOMAIN catalogue
  /\ mapped' = mapped \cup {d}
  /\ \/ /\ Mount(d, catalogue[i], mode)
        /\ record' = Updated(d, IF mode = "RO" THEN 3 ELSE 1, i)
     \/ /\ catalogue[i] \notin DOMAIN available
        /\ UNCHANGED <<runtime, mounted, record>>
  /\ UNCHANGED <<host, images, available, catalogue, names>>

FUMOUNT(d) ==
  /\ d \in mapped /\ mapped' = mapped \ {d}
  /\ Unmount(d) /\ record' = Updated(d, 0, 0)
  /\ UNCHANGED <<host, images, available, catalogue, names>>

FORM(d, n) ==
  /\ d \in mapped /\ Reinitialize(d, n)
  /\ UNCHANGED <<host, available, catalogue, runtime, record, mapped, names>>

Write(d, lba, v) ==
  /\ d \in mapped /\ WriteSector(lba, v)
  /\ UNCHANGED <<host, available, catalogue, runtime, mounted, record, mapped, names>>

HoldsBoot(d) == Slot(d) \in DOMAIN mounted /\ mounted[Slot(d)] = 1

Command ==
  \/ \E t \in Targets : FNEW(t) \/ \E i \in Indices : FIN(i, t)
  \/ \E i \in Indices : FOUT(i)
  \/ \E i \in Indices, d \in Drives, mode \in {"AUTO", "RO"} : FMOUNT(i, d, mode)
  \/ \E d \in Drives : FUMOUNT(d) \/ \E n \in Formats : FORM(d, n)
  \/ HostNext /\ UNCHANGED disks

Next == Command \/ \E d \in Drives, lba \in Lbas, v \in Data : Write(d, lba, v)

Spec == Init /\ [][Next]_vars

\* The same with only the boot disk written to: what is written to
\* another disk ends up there too (fuji_device.py:1304), which no run shows.
BootNext ==
  Command \/ \E d \in Drives, lba \in Lbas, v \in Data : HoldsBoot(d) /\ Write(d, lba, v)

BootSpec == Init /\ [][BootNext]_vars

----------------------------------------------------------------------------
(* Properties.                                                             *)

\* The mapping record and the device agree: a drive's pair is valid, with the
\* read-only bit of its mount, exactly while the device lists the drive and
\* serves an image through it; what FMOUNT and FUMOUNT write into the record
\* two bytes at a time never touches the pair of another drive.
MappingsFollow ==
  /\ {Slot(d) : d \in DOMAIN runtime} = DOMAIN mounted
  /\ record = << >> => runtime = << >>
  /\ record # << >> =>
       /\ record[1] = 1
       /\ \A d \in Drives :
            record[2 * d + 2] = IF d \notin DOMAIN runtime THEN 0
                                ELSE IF runtime[d].mode = "RO" THEN 3 ELSE 1

\* The name that LIST_MOUNTS gives for a drive is one that the image in the
\* drive's slot was made under: the two tables of the device do not drift apart.
ListedIsServed ==
  \A d \in DOMAIN runtime : runtime[d].uri \in names[mounted[Slot(d)]]

\* "FIN subsequently persists that same canonical URI": whatever was made
\* since, under whichever spelling, *FIN and *FMOUNT of a name find the last
\* image made in that place.  A name with a drive but no folder is left out:
\* CREATE and the slot catalogue do not agree on what it means.
FoundByName ==
  \A p \in Target :
    LET makers == {i \in DOMAIN names : \E t \in names[i] :
                     t.prefix = None /\ resolve_target(t) = p}
    IN  makers # {} => p \in DOMAIN available /\ available[p] = Max(makers)

\* To the ROM the device is drives with media in them (DiskPort).
Port == INSTANCE DiskPort WITH
  media <- images, Sizes <- Formats \cup {CreateSize},
  Values <- Data \cup {Zero, Label} \cup {BootData[i] : i \in DOMAIN BootData},
  Formatted <- [n \in Formats \cup {CreateSize} |-> FormattedImage(n)],
  inDrive <- [d \in Drives |-> IF Slot(d) \in DOMAIN mounted THEN mounted[Slot(d)] ELSE None]

Implements == Port!Spec
=============================================================================
