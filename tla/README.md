# A verification of the FujiNet ROM for the BBC Micro

The repository is a paged ROM in 6502 assembler: a disk filing system (a
descendant of Acorn DFS and MMFS) whose disks are image files on a FujiNet
device, reached over a serial (SLIP) or Pi1MHz link, and network channels
behind the same file calls. Beside the ROM there are Python tools that make and
repair the disk images, and an end-to-end test harness that runs the ROM in an
emulator against a device written in Python. The specifications here model the
parts of all three that keep state, check them with TLC on small instances, and
prove the properties that matter most with TLAPS for every value of the
parameters. Paths below are relative to the repository; the ROM itself is under
`src/`.

## Inventory

| Component | State | Operations | Hard about it |
|---|---|---|---|
| Catalogue and allocation (`src/disk/vectors/filev/osfile_helpers.s`, `src/disk/fs_functions.s`) | rows of the catalogue at &0E00-&0FFF, sorted by descending sector | look up, first-fit search, insert, delete | sizes at sector boundaries, a full disk, fragmentation |
| Files and channels (`src/kernel/vectors/findv_entry.s`, `bputv_entry.s`, `bgetv_entry.s`, `argsv_entry.s`, `filev_entry.s`) | five channel blocks, the open bits, the copy of the catalogue, `current_cat` | OSFILE, OSFIND, OSARGS, OSBPUT, OSBGET, the commands on files | long sequences of calls on several channels; an error half-way with the copy already changed |
| Drives and mounting (`src/disk/fuji_mount.s`, `src/kernel/commands/cmd_fmount.s`, `src/utils/cmd_funmount.s`, `cmd_format.s`) | `fuji_drive_disk_map`, the device's slots, the recorded mappings | `*FMOUNT`, `*FUMOUNT`, `*FBOOT`, `*FORM`, BREAK | two drives on one DSD; a device that refuses, or whose answer is lost; one catalogue copy for four drives |
| Channel byte buffer (`bgetv_entry.s`, `bputv_entry.s`) | PTR, EXT, one sector per channel | byte reads and writes, OSARGS 1 and 3 | the buffer against the sectors of the image |
| Block transfers (`src/disk/vectors/`) | control block | OSGBPB | the fast path against the byte path |
| FujiBus link (`src/kernel/fujibus.s`, `fuji_link_slip.s`, `src/kernel/serial/`; `integration-tests/beebium/fuji_device.py`) | packet buffer, input buffer, the device's reader thread and its record | send, receive, time out, answer, record | lost and late answers, no sequence numbers |
| Slot listing (`src/utils/cmd_fslots.s`) | a cursor | `*FSLOTS` | pages of limited size |
| Host service, slots and images (`fuji_device.py`, `src/kernel/commands/cmd_fhost.s`, `cmd_fin.s`, `src/utils/cmd_fs_fnew.s`, ...) | hosts and history, slot catalogue, images, mounts, the mapping record | `*FHOST`, `*FNEW`, `*FIN`, `*FOUT`, `*FMOUNT`, `*FUMOUNT`, `*FORM`, sector writes | images shared by names and slots; two spellings of one name |
| Network channels (`src/net/fujibus_network.s`, `findv_entry.s`, `bgetv_entry.s`, `bputv_entry.s`) | handle, offsets and counts in a channel block, one page | open, read, write, flush, translate, close | one page for reading and writing, partial failures |
| Disk image tools (`scripts/create_ssd.py`, `scripts/fix_dfs_catalog.py`) | staging directory, manifest, image | stage, pack, catalogue, reorder | names that meet; the order of rows the ROM relies on |
| End-to-end harness (`integration-tests/beebium/*.py`) | fixtures, environment, firmware process, screen, evidence directories | set up, type, wait, check, tear down | everything happens at its own pace; a killed run |
| Workspace and service calls (`src/kernel/services/`, `src/kernel/fuji_init.s`) | private and static workspace, two flags | claim, save, restore, BREAK, `*FUJI` | who owns which copy, and when |
| Disk device protocol (`src/disk/fujibus_disk.s`, `src/kernel/fuji_data_fujibus.s`) | packet buffer, a saved copy of zero page | read, write, mount, unmount, reinitialise | short and failed answers |
| `*COPY` (`src/utils/cmd_copy.s`) | two catalogues in one memory | copy matching files | creation before contents |
| Listings; printing and parsing; Pi1MHz; `fnnet`; build scripts | little | | text |

How they interact: the star commands and the MOS vectors call the files layer;
the files layer calls the catalogue, which is read and written through the
drive map and the disk protocol; a mounting command changes the drive map, the
device and the recorded mappings and disowns the catalogue copy; network
channels share the channel blocks; BREAK and `*FUJI` save, restore or reset the
workspace all of this lives in; every request to the device crosses one link.
The ROM runs one call at a time. What interleaves is calls on different channels
and commands between them, and on the other side of the link the device's
reader thread with the test that looks at what it recorded. What fails is a
command to the device: it is refused, or carried out and its answer lost or
late. The image tools meet the ROM in the image: the ROM goes on saving to what
they made. The harness types at the emulated machine and judges by its screen.

Correct means:

- allocation: files lie on the disk, apart from each other, each name once;
- files: an open file keeps its row and its sectors; one writer; nothing is
  deleted that nobody deleted; locked files stay; an operation that fails
  disowns the copy of the catalogue it changed;
- drives: a drive shows what was mounted in it; the second side of a DSD
  disappears with the first; the catalogue in use is that of the disk the drive
  shows; no image gets another's catalogue;
- bytes: a channel behaves as an array of bytes with a pointer (`ByteFile`);
- link: a command ends, and what it prints is the device's answer to it unless
  the link was in trouble;
- device: it is drives with media in them (`DiskPort`), and its tables agree;
- network: a stream's bytes are read at PTR and written once and in order;
- images: the tools leave every file its own bytes and the rows in an order in
  which the ROM's gaps are real;
- harness: what was started is stopped, what is kept shows what was seen;
- workspace: what survives BREAK is what the flags say.

`PROJECT.json` lists the hazards at their lines, with the properties aimed at
them and, where there are none, the reason.

## Modules

| Module | Contents |
|---|---|
| `DfsCatalogue` | Rows, first fit, insertion, deletion, as operators; `WellFormed` |
| `DfsFiles` | One drive: image, copy and channel blocks; one action per call or command |
| `DfsCatalogue_proofs`, `DfsFiles_proofs` | Lemmas on the operators; the inductive invariant and the theorems |
| `DriveMap`, `DriveMap_proofs` | Drives, slots, recorded mappings, catalogue copy, BREAK and `*FUJI`, with a device that may fail; the theorems on the sides of a DSD, and on whose catalogue is in memory |
| `ByteFile` | Abstract: a sequence of bytes, a pointer and the last answer |
| `ChannelBuffer`, `ChannelBuffer_proofs` | One disk channel: PTR, EXT, flags, sector buffer, the sectors and the row's length; that it implements `ByteFile` |
| `SsdImage` | `create_ssd.py`, `fix_dfs_catalog.py` and the ROM on the image they make; uses `DfsCatalogue` |
| `FujiLink` | The serial link: requests, answers in two pieces, loss, lateness, timeouts, the device's record |
| `SlotListing`, `SlotListing_proofs` | `*FSLOTS` over `FujiLink` |
| `HostService` | Current host and history |
| `DiskPort` | Abstract: drives and media |
| `DiskDevice`, `DiskDevice_proofs` | Slots, images, mounts and the mapping record, with the commands; extends `HostService`; that its tables agree and that it implements `DiskPort` |
| `NetChannel`, `NetChannel_proofs` | Network channels and the device's streams |
| `BbcScreen` | The screen and the harness's tests on it |
| `YamlSuite` | Suites and programs as steps of lines and checks |
| `TestEnv` | The environment variables and what is found |
| `TestRun` | A session of tests: composes the three above with fixtures, firmware, service and evidence |
| `HostTools_proofs` | The theorems on the two Python programs of the host: `SsdImage`, and `TestRun`, whose host tree is made with `create_ssd.py` |
| `MC...` | One for each of the runs' modules: sets, symmetry, views and bounds for TLC |

Definitions named `X_...` and described as faulty variants are what `X` would be
with a plausible mistake; they occur in no specification, and are kept to show
that the properties notice.

### DfsCatalogue

A row is `[name, start, len, locked]`; the list is the table in memory, newest
sectors first. `Gap` keeps the sixteen-bit subtraction of `create_file_2`: a
negative gap would come out huge, and the lemma `GapIsReal` shows that a sound
catalogue never has one. `FirstFit` is `cfile_loop`, which starts at the last
row and tests the gap below each. Load and execution addresses, title and boot
option are not kept.

### DfsFiles

`disk` is the image's catalogue, `ram` the copy, `valid` stands for
`current_cat = current_drv`, and `chan` maps the channels whose open bit is set
to what their block remembers: the name, the read-only and lock bits, the first
sector, EXT, the sector count and flag bit 5 ("update the row when closed").

Three steps occur everywhere. `Loaded`: the operation looked at the catalogue.
`Commit`: `save_cat_to_disk`. `Fail`: `report_error_cb`, which prints an error
and disowns the copy; what had been changed in it is lost. Errors raised with
`report_error` keep the copy and are `Loaded`.

The byte that OSBPUT writes is not modelled, only where it goes; PTR is chosen
anew for each byte, because OSARGS 1 can put it anywhere up to EXT.
`BputRefused` is the check of bit 7 of the load address's low byte: any file
may meet it. `*WIPE` and `*DESTROY` leave open whether "Disc changed" is
reported: `check_for_disk_change` compares the cycle number with a drive
number.

`CoreNext` leaves out two operations that give a file's reservation away: the
extension of a file that is full (`BputExtend`) and OSARGS &FF (`Flush`).
`Next` includes them.

### DriveMap

`map` is `fuji_drive_disk_map`; `slots` what the device has in each slot;
`shared` the record `config-nio/mappings`; `store` the catalogue of each side
of each image, as two sectors of which only the owner and a change count are
kept; `ram` and `cur` the ROM's copy and `current_cat`. `reset` is
`fuji_force_reset`, `lastBreak` what the MOS answers to OSBYTE &FD.

A command named in `Faults` may be refused, or be carried out with its answer
lost. The device's own behaviour (slots, images, `BeginHostSession`) is
external; where the ROM does not determine it, it is left open. `DiskDevice`
has one such device in detail.

Writing the mapping record is `MappingOutcomes`: whether the record could be read
(`known`), and what became of the write, in all combinations. A record that
could not be read, for whatever reason, is made anew with one drive in it
(`Recorded`).

`QuietNext` leaves out `*FORM` of a DSD in drive 2 or 3 and `*FUJI` long after
a hard BREAK (see the deviations below).

### ByteFile and ChannelBuffer

`ByteFile` is what a program may expect of a file: bytes in a row, PTR, and an
answer per call. `ChannelBuffer` is how the ROM keeps that promise with one
256-byte buffer per channel. `ch` is the channel block: `ptr`, `ext`, `room`
(`fuji_ch_sect_cnt` and `fuji_ch_111A`), `sect` (`fuji_ch_sect_lo/hi`, counted
from the start of the file), the buffer page `buf`, and the bits of
`fuji_ch_flg` as `ok` (7), `dirty` (6), `upd` (5) and `eof` (4). `disk` are the
sectors of the file, `len` the length in its row.

The operators follow the subroutines: `ForPtr` is
`calc_buffer_sector_for_ptr`, `AfterLoad` and `AfterSave` are
`channel_buffer_rw_yintch_c1read`, `Stepped` is `load_then_inc_seq_ptr_yintch`,
`PtrSet` is `is_seq_pointer_in_buffer_yintch` after PTR was written. `PutByte`
is `bp_entry` whole. PTR# and EXT# past the end run `wsp_loop`; each pass is a
step (`GrowByte`), during which `goal` keeps what the call still has to do and
no other call comes in. A transfer of OSGBPB between two sector boundaries is
`FastGet` or `FastPut`; the head and the tail of such a call go byte by byte
and are `Bget` and `Bput` steps.

`Reclaim` is another ROM taking the static workspace and giving it back:
service call 10 writes everything out, `fuji_init` clears bits 6 and 7 and
gives the buffer a sector no disk has. The contents of a disowned buffer are
not followed; where the code uses them all the same (`AsIs`, a new sector at
the end) they are any bytes.

`Held` and `Size` map a channel to a `ByteFile`: a byte is the buffer's if the
buffer is dirty and its sector is the byte's, and the disk's otherwise.

The file's row stays where it is, as `DfsFiles` shows under its conditions; what
happens when a file has no room left is left to `DfsFiles` too.

### SsdImage

`create_ssd.py` goes through the host directory three times: files with a
sidecar, BASIC programs, the rest. Each file is copied or tokenised to a path in
the staging directory made from a DFS name (`staging_temp_name`), and an entry is
appended to the manifest. A step here stages one file; `staged` maps a path to
the host file whose bytes are there, so that a second file with the same path
shows. The path of a BASIC program is made from the directory of its host name,
though `process_bas_file` lists it in `$`: `StagedAs` is the name staged under,
and `OwnBodies` is about directories in which those differ. Staging fails
(`StagingFails`) at a sidecar or REM line that does not parse (`Unparsed`) or in
the tokeniser (`Untokenised`). `write_ssd` gives sectors in manifest order (`Place`) and sorts the rows.
`process_image` is `fix_dfs_catalog.py` on a finished image; `OldDfstool` is an
image in the order of the older tool, the case that script is for. `RomSave`
and `RomDelete` are the ROM's, with the operators of `DfsCatalogue`. How names
are cut is the parameter `Truncate`; sizes are those after tokenising.

### FujiLink and SlotListing

A SLIP frame crosses the link in two pieces, so that the ROM can give up between
them, a device can be closed between them, and the full input buffer can lose
either. The ROM's end is `Send`, `ReadHead`, `ReadAnswer` and `ReadFails`; the
device's is `Serve`, `WriteChunk` and `Close`, which is the loop of the reader
thread of `FujiDevice`; `requests` is the list that `clear` and
`wait_for_command` of a test work on. Packets carry no number: the field `req`
of an answer is seen by properties only.

`SlotListing` puts `*FSLOTS` on it: `RangeAnswer` is
`build_slot_catalog_response`, which fills a page, and `Page` the ROM's handling
of one, which prints it, compares the next index with its own and asks again.
`trouble` is set when an answer was lost, late or somebody else's.

### HostService, DiskPort and DiskDevice

`HostService` is `host_service_responder`, `DiskDevice` `disk_image_responder`
together with the ROM commands that drive it, with a link that is good. Images
are objects: `available` maps names and `mounted` maps slots to them, so that two
may share one. A name is a folder, a drive prefix and a leaf, of which the first
two may be missing; `resolve_target` and `Relative` are the two places that say
what is relative. `record` is the AppStore entry of the mappings, as bytes:
`Updated` is `fmount_update_mapping`.

`DiskPort` is what the ROM may expect of any device: media in drives, which
can be made, inserted, removed, formatted and written. `Port` maps slots and
images to it. `Spec` has what `_write_sector` does, which writes to the boot
image whatever the slot; `BootSpec` writes only through a slot that holds it,
and only `BootSpec` implements `DiskPort`.

### NetChannel

`chan` maps channels to their blocks: `ptr` and `ext`, the window of the page
that holds bytes read (`start`, `cnt`), the bytes waiting to be written
(`wcount`, `wpos`), and the page both use. `handles` is the device's table of
streams (`legacy_openbas_network_responder`). Every request may be carried out,
refused, or carried out with its answer lost; `bad` collects the handles this
happened to, about which the properties then say less. Retries are one outcome.

`Spec` is what the code allows, `CarefulSpec` what it gets right: no read from the
device while bytes wait, no write while bytes of the window have not been read,
no full page, no PTR# after a write, no OSARGS &FF. The runs show both.

### BbcScreen, YamlSuite, TestEnv and TestRun

`BbcScreen` is the external machine (it takes the typed lines in order, shows
each after its prompt, prints, prompts again, or does nothing at all) and the
tests `command` makes on its screen (`helpers.py`). `YamlSuite` is `load_suite` and
`run_suite`, whose two loops make a body a list of steps, each a list of items.

`TestEnv` has the seven environment variables on a host of which the
directories, files and executables are given. What a variable is set to is a
text (`Setting`): a path, one below the home directory, spelled with `~`, or a
relative one, with or without blanks around it, or nothing but blanks.
`Resolved` is what `_env_path` makes of it, `AsRead` what `Path(os.environ[...])`
of `conftest.py` does, and `Expanded` the latter with `expanduser`.
`ensure_environment` uses `setdefault`, so a variable that is set keeps its text.
`Configure` is what `conftest.py` does when it is loaded: `ensure_environment`,
and then `add_fujinet_tools_to_path`, which resolves `FUJINET_TOOLS` once more
from what was just published.

`TestRun` is one test after another: fixtures are set up in order, the body does
its steps and their items (`Item` is the one it has come to), the fixtures set
up are torn down in the opposite order. Each wait is a state of `pc`. `late` says
that its deadline has passed, for the waits that have one; the other three
(`script`, `weather`, `iss`) are `start_test_services.sh` and the two runs of
`create_ssd.py`, which `subprocess.run` waits for without a timeout. They end
with `ServiceScript` and `ImageScript`, steps nobody has to take. The firmware,
the service and the machine take steps of their own. `Look` reads the screen and
`Judge` decides, as in `_wait_for_screen`.

A capture is two steps: `Saved` writes the file of the next number
(`evidence.py:47`), `Noted`, after the picture, rewrites the list (`:67`). At the
end `Finish` writes the metadata, with the number of captures, and moves the
directory. `running` is the directory being written to, its files and its list;
`kept` are those of finished tests. `Kill` ends the harness between any two of
these steps without a tear-down, and leaves `running` for the next run.

## Runs

Sizes are chosen so that every case of the code occurs.

| Run | Instance | Shows |
|---|---|---|
| `core` | 3 names, 2 rows at most, 3 data sectors of 2 bytes, 2 channels | `CacheFresh`, `NoOverlap`, `ChannelsReserved`, `OneWriter` hold of `CoreSpec` |
| `full` | 2 names, 2 rows, 2 data sectors of 1 byte, 2 channels, extension by 1 sector | `NamesUnique`, `OpenFilesStay`, `LockedFilesStay`, `ExtentsKept` hold of `Spec` |
| `extend` | as `core`, 7 data sectors, with the extension of a full file | a disagreement, below |
| `drives` | drives 0 and 2, boot image, a single-sided and a double-sided image, each catalogue changed once, a device that answers | `CopyFresh`, `OwnCatalogue` hold of `QuietSpec` |
| `faults` | two images, every command may be refused or its answer lost | `SidesPaired` holds of `Spec` |
| `bytes` | 2 sectors of 2 bytes, 2 byte values, extension by 2 sectors, no failing transfer | the invariants of `ChannelBuffer`, and that it implements `ByteFile` |
| `build` | 11 host directories of 1 to 4 files, 5 data sectors of 2 bytes, 6 names | images are sound and complete, every file has its own bytes, the build ends, a reordered image is sound |
| `slots` | 3 indices, records of 2, 6 and 10 characters, pages of 1 to 3 records, 2 commands | a listing is complete, without repetitions, ends, and fails only with the link; the test's record is the command's |
| `device` | 5 targets in 4 spellings, 2 drives, 4 images, 2 roots, a history of 2 | the device's tables agree, the history is recent, `DiskPort` is implemented |
| `net` | 2 channels, a file and an echo, pages of 3 bytes, 2 opens, 2 bytes put | `StreamsOwned`, `WritesArrive`, `ReadsTheStream` hold of `CarefulSpec` |
| `full_page` | 1 channel, pages of 3 bytes, 4 bytes put | a disagreement, below |
| `session` | 2 tests, 3 fixture lists, 4 suites, 1 program; 3 tests where 2 are killed; the variables set in 589 ways on 3 hosts | firmware is gone, evidence is true and kept, commands are done, tests end, the environment is usable |

### Bounds

In `core`, three names and two rows let the table be full, with a third name to
be refused; with sectors of two bytes a length of three is a sector and a half;
five sectors less the catalogue leave gaps of 0 to 3. Two channels are enough
for every pair of channels on one or two files. `LiveState` (the VIEW) and
`BoundedExtension` are explained in `MCDfsFiles`. One pair of drives is enough
because drives 1 and 3 only repeat 0 and 2 and no action relates the pairs;
the theorem does not depend on that. `MaxCycle` bounds how often a catalogue
is changed: once tells a changed catalogue from its older copy.

In `bytes`, two sectors are the least for which the one buffer has to be written
out and loaded again, and two bytes the least for which PTR and EXT may be
inside a sector or at its edge; every length from 0 to 4 and every content is an
initial state. Transfers move one sector or two.

In `build`, the directories have each way in which names meet: one leaf in two
directories, two spellings of one name, a REM line or a sidecar against a host
name, directory R beside the root; empty files, files at and over a sector
boundary, hidden files and files that cannot be parsed; four files fill the
table, and some of the sizes do not fit on the disk. In `slots` every content of the
three slots is an initial state, and a page of 11 bytes is exactly full,
over-full, or has room, depending on it. Two commands are the least for which an
answer may be late. `MaxCommands` also bounds `Forget`.

In `device`, the hosts and the disks share no variable, so a behaviour has one
or the other (`OneService`); a history of two with four uses drops its oldest
entry. In `net`, three bytes are the least page for which a window may be empty,
partly used and used up; `Few` lets one stream be in trouble and one of the
channels be busy at a time, which keeps the interplay of two channels on opening,
closing and the device's handles. In `session`, two tests are the least for which evidence or
firmware of one may meet another's; `InOneEnvironment` runs the tests in one of the
environments, since no step of a test depends on it, while `Configure` is checked
in all: any two variables set to something else than usual, among it what is missing,
blank, padded, relative or below `~`. Two kills and a third test
are the least for which a list of one run can name a file of another while the
run that finishes has written neither. `AfterKills` keeps this small: tests that
share a directory have one node id and so one body, here the program's, and the
third test comes only after two kills.

### Fairness and liveness

The ROM's and the device's safety properties need none. Liveness is stated where
the code has something that makes progress by itself:

- `slots`: weak fairness of the ROM's steps. A command is a loop that polls the
  serial port a bounded number of times for each byte (`Outwaited` is always
  possible when nothing comes), so it goes on whatever the device does. Nothing
  is assumed of the device. Shown: `CommandEnds`.
- `build`: weak fairness of the script's steps; it is sequential. Shown:
  `Finishes`.
- `session`: weak fairness of the harness and of time passing. Nothing is assumed
  of the machine, the firmware, the service or the scripts. Shown: `TestsEnd`, which
  has as its hypothesis that the scripts `conftest.py` runs without a timeout end
  (`:290`, `:296`, `:337`, `:366`); everything else it waits for has a deadline, and
  the client's calls to the emulator are taken to be answered.

Deadlock is not checked where the system may stop: all commands of the bound
given (`slots`), all handles or images used up (`net`, `full_page`, `device`),
a script or a session that has ended (`build`, `session`).

### Disagreements the runs show

1. `extend`: a full file is extended by up to 256 sectors whatever the gap
   above it (`bputv_entry.s:122`), against the comments at `:113` and `:134`.
2. `full_page`: the write that fills a page finds its one-byte count wrapped
   to 0, takes that for "nothing to flush" and drops the page
   (`bputv_entry.s:236`), against `cmd_opt.s:89`.

### Deviations that the models have but no run shows

Each is in the specification whose name is given, and leaves a property
that holds without it; the runs use the specification or the constants without
it.

| Where | What |
|---|---|
| `bputv_entry.s:97` (`DfsFiles`) | OSBPUT works on a channel opened for input: the wrong bytes of the block are tested, against `findv_entry.s:223` and `os.s:658` |
| `argsv_entry.s:57` (`DfsFiles`, `Spec`) | OSARGS &FF cuts the row to EXT and leaves the channel open with its old sector count: `ChannelsReserved` fails |
| `fuji_fs.s:100` (`DriveMap`, `Faults = {"read"}`) | a failed catalogue read counts as a read: `CopyFresh` fails |
| `cmd_fmount.s:219` (`DriveMap`, `Faults = {"mapping"}`, `{"mount"}` or `{"boot"}`) | the error exits of `*FMOUNT` and `*FBOOT` keep the old disk's catalogue, and when the device has the new disk all the same the next save writes it there: `OwnCatalogue` fails |
| `cmd_format.s:65` (`DriveMap`, `Spec`) | `*FORM` of a `.dsd` in drive 2 or 3 is not refused, against `README.md:129` |
| `fuji_init.s:279` (`DriveMap`, `Spec`) | the type of the last BREAK is never reset, so every `*FUJI` after a hard BREAK begins another host session, against `cmd_fboot.s:22` |
| `cmd_fmount.s:420` (`DriveMap`, `Faults = {"mapping_read"}`) | any failed read of the mapping record, a lost answer too, is taken for an old record (`:391`), which is deleted and written anew with one drive in it, against "Update one entry" at `:385`: what was recorded of the other drives is lost |
| `bgetv_entry.s:396` (`ChannelBuffer`, `Faults = {"load"}`) | a buffer whose load failed is flagged as good: `BufferAgrees` fails; so it does when a save failed (`:391`) |
| `fix_dfs_catalog.py:145` (`SsdImage`) | equal start sectors are ordered by name, against the length order of `create_ssd.py:343`: with empty files the result may be unsound, so `ReorderSound` is about disks without |
| `create_ssd.py:163` (`SsdImage`) | `R.FOO` and `$.FOO` share a staging path, and two host files may get one DFS name; `OwnBodies` is about directories without either |
| `create_ssd.py:193` (`SsdImage`) | a program `A.FOO.bas` is staged as `A.FOO` and listed as `$.FOO`, against the docstring at `:171`: with a data file `A.FOO` beside it one of the two gets the other's bytes although the image lists two names |
| `fuji_device.py:1304` (`DiskDevice`, `Spec`) | sectors are written to the boot image whatever the slot: `Implements` fails |
| `fuji_device.py` (`DiskDevice`) | `sd0:foo` is absolute for CREATE and relative for the slot catalogue; `FoundByName` leaves such names out |
| `bputv_entry.s:206` (`NetChannel`, `Spec`) | reads and writes share one page: a read between two writes replaces what is to be sent; `WritesArrive` fails |
| `argsv_entry.s:52` (`NetChannel`, `Spec`) | OSARGS &FF on a network channel closes its stream and sets the open bit again |
| `bgetv_entry.s` (`NetChannel`) | the end of an echo stays where it was first reported, though the stream grows |
| `helpers.py:8` (`BbcScreen`) | a line whose echo is still on the screen, a line that clears it, or an old "(Y/N)" makes `command` return at once; `CommandsDone` is about lines without |
| `conftest.py:217`, `:302` (`TestRun`) | firmware whose `start` fails is not torn down: it is started outside the `try`, against `fujinet_runner.py:9`; `FirmwareGone` is about the rest |
| `evidence.py:47`, `:67` (`TestRun`) | a directory left by killed runs is used again, and its list of captures is rewritten only by the first capture: a test that ends without one, because its machine did not start, keeps the old list, which may name a file of yet another run; `EvidenceProves` is about directories whose metadata count a capture |
| `conftest.py:290`, `:296`, `:337`, `:366` (`TestRun`) | a script that does not end is waited for for ever: `TestsEnd` is about scripts that end |
| `beebium_test_env.py:170` (`TestEnv`) | `ensure_environment` is to "resolve paths once and publish them back" (`:162`), but `setdefault` leaves the text of a variable that is set, which `conftest.py:145`, `:146`, `:251` and `:321` read as it is: a variable that is blank or padded, or has a `~` other than in `BEEBIUM_BASIC`, is resolved and found but cannot be used as it is read; with a relative `FUJINET_NIO_HOME` the script is looked up below it twice (`conftest.py:336`). `EnvironmentUsable` is about variables set in none of these ways (`WellSet`), and not about a `BEEBIUM_BASIC` that is missing |
| `beebium_test_env.py:140` (`TestEnv`) | each look at `FUJINET_TOOLS` steps up from `fujinet_tools`, whether or not that is there, or from a package below `py`; it looks twice, so `.../fujinet_tools/fujinet_tools` ends two levels up: `WellSet` leaves out paths in which one of the two names follows upon itself |

Not in any model, but met on the way: OPENIN's mark is not looked at by
`network_bput`, and PTR# beyond EXT on a network channel runs the disk's
OSBPUT on its block (`argsv_entry.s:208`).

## Proofs

Proved by TLAPS for every value of the constants that their assumptions allow:

- `TypeCorrect`, `FilesNeverOverlap`, `ChannelsKeepReservation`,
  `SingleWriter`: `CoreSpec` implies `[]TypeOK`, `[]NoOverlap`,
  `[]ChannelsReserved`, `[]OneWriter`; for all names, sector sizes, disk sizes,
  table sizes and channel counts, from `CatalogueAssumption` and
  `FilesAssumption`.

The argument: `NoOverlap` alone is not inductive, because closing a channel
writes EXT as the length of a row: EXT must fit into the sectors the row has
and, for readers, fill them, or closing one reader would resize the file under
another. `IInv` says that the catalogue is sound, that every channel's row
exists with the channel's first sector and sector count, that EXT fits, and
that two channels on one file are both readers. `DfsCatalogue_proofs` has the
facts on the operators: in a sound catalogue `Gap` is the true gap
(`GapIsReal`), a row placed in a gap that fits leaves the catalogue sound
(`PlacedWellFormed`), and so do deletion (`WithoutRowIs`, `SubTable`) and
resizing within the sectors (`InPlace`). `DfsFiles_proofs` has one lemma per
action.

- `NamesStayUnique`, `OpenFilesRemain`, `LockedFilesRemain`,
  `ExtentsChangeByOwner`, `CopyNeverStale`: the full `Spec` implies
  `[]NamesUnique`, `[]OpenFilesStay`, `LockedFilesStay`, `ExtentsKept` and
  `[]CacheFresh`, from the same
  assumptions. Here files may overlap and reservations be lost, so `IInv` is of
  no use; `NInv` keeps what is left: names are unique, the copy is fresh, and
  every channel's file is in the catalogue at the sector it was opened at. The
  two action properties follow from lemmas on what each operator keeps of the
  rows it is not about (`Keeps`, `From`).

- `SidesStayPaired`: `Spec` of `DriveMap` implies `[]SidesPaired`, for every
  set of drives, images and faults, from `DriveAssumption`. The invariant
  `Paired` says that a drive shows nothing, a single-sided disk in its own
  slot, the first side of a DSD in its own slot, or the second side of the
  slot two below, whose drive then shows the first. The assumption asks for
  drive 0, which `*FBOOT` and a BREAK mount the boot disk in.

- `CataloguesStayHome`, `CopyIsTheDrives`: `QuietSpec` implies
  `[]OwnCatalogue` if none of the commands `mount`, `mapping`, `boot` and `read`
  fails (`MappingSafe`), and `[]CopyFresh` if `unmount`, `form` and `write` do
  not either (`CopySafe`). That each image has its own catalogue says nothing
  about the next save; `OwnInv` adds that the copy in use is of the side its
  drive shows, if it shows one. Each of the seven, alone in `Faults`, has a
  behaviour in TLC that breaks the property it is excluded from, so the
  hypotheses cannot be weaker.

- `BufferBelongsToPtr`, `PointersStayInFile`, `LengthIsKnown`: `Spec` of
  `ChannelBuffer` implies `[]BufferIsPtrs`, `[]PointersInFile` and
  `[]LengthKnown` for every sector size, number of sectors and granule and for
  any failing transfers; `BufferMatchesDisk`: `[]BufferAgrees` if none fails.
  From `BufferAssumption`. `IInv` there is `Sound` of the block (PTR within EXT
  within the sectors; bit 7 only with PTR's sector; a dirty sector is the
  file's) and `Lasting` (the row's length unless bit 5 is set; a call in
  progress wants to put PTR back to a place that is still in the file). The
  lemmas on operators carry it through the subroutines, so that each action is
  a few lines; `Kept` carries `Agrees`, the relation of buffer and disk,
  alongside. The arithmetic of sectors and offsets for a symbolic sector size
  is in the first lemmas.

- `ChannelIsAFile`: `Spec` of `ChannelBuffer` implies `Implements`, that is
  `File!Spec`, if no transfer fails: the one buffer of one sector cannot be told
  from a file of bytes. `Shown` is the byte at a position, and each operator has
  a lemma on what it does to what is shown. Besides `IInv` and `Agrees` the
  invariant `FileInv` needs `Filling`: while a call moves past the end, all bytes
  from the old end to EXT are zeros and PTR is still to be put back, so the passes of
  `wsp_loop` are stutters and the file grows at once when the loop ends or is
  refused. A call of OSGBPB reads or writes a sequence (`FastGet`, `FastPut`); that
  it is the bytes PTR goes over is the arithmetic of `InTransfer` and
  `OutOfTransfer`.

- `MadeImagesSound`, `ReorderingSound`: `Spec` of `SsdImage` implies
  `[]MadeWellFormed` and `ReorderSound`, for every set of host directories, every
  way of cutting names and every order of names, from `CatalogueAssumption` and
  `SsdAssumption`. Between staging and writing the rows placed so far end at
  `sector` and lie one behind the other (`Packed`); sorting
  such rows by start and then length, both descending, is what the ROM's
  `WellFormed` asks for, the length being what decides where an empty file goes.
  After that `PlacedWellFormed` and `SubTable` of `DfsCatalogue_proofs` carry
  the ROM's saves and deletions.

- `EveryFileOnce`, `BytesAreTheFiles`: the same `Spec` implies `[]AllIncluded`
  and `[]OwnBodies`. `WholeInv` adds to the above that each visible host file is
  pending or has its one entry (`Staged`), that a staging path holds the last
  file staged under it (`LastStays`), and that what was placed was read from there
  (`EntryBodies`).

- `ListingIsComplete`, `NothingPrintedTwice`: `Spec` of `SlotListing` implies
  `[]ListingComplete` and `NonePrintedTwice`, for every slot catalogue, page
  size, URI length and number of commands, from `SlotAssumption`. `ListInv` says
  that every answer anywhere on the link is a page (`Pages`: the records from its
  request's cursor up to where the next page starts) and that a command without
  trouble has printed exactly what lies below its cursor. That a page is one
  needs that a set of indices that is not empty has a least one, from
  well-foundedness of the naturals; how large the page is does not matter.

- `OnlyTheLinkFails`: `[]ErrorsAreTheLinks`, if the longest record fits into a
  page (`RecordsFit`: 128 characters of URI into 220 bytes in the code). Without
  that an honest device could answer with an empty page whose next index is the
  cursor, and the ROM's check would end the listing.
  `RecordIsWhatWasSent`: `[]RecordIsTheCommands`. `RecordInv` counts: requests on
  record, requests under way and the request last sent are numbered without a
  gap, also across `Forget`, which clears the record with requests under way.

- `HistoryOfLastUses`, `RecordFollowsTheDevice`, `ListedNameIsServed`,
  `LastMadeIsFound`: `Spec` of `DiskDevice` implies `[]HistoryIsRecent`,
  `[]MappingsFollow`, `[]ListedIsServed` and `[]FoundByName`, from
  `HostAssumption` and `DiskAssumption` (targets are names with the three parts;
  drives are numbered from 0; there is a root, and the boot image is not empty).
  `DeviceInv` is one conjunct per table. `DeviceIsAPort`: `BootSpec` implies
  `Implements`, that is `Port!Spec`; each command is a step of `DiskPort` or
  changes only what it hides.

- `NetTypeCorrect`, `StreamsAreOwned`: `Spec` of `NetChannel` implies `[]TypeOK`
  and `[]StreamsOwned`. `AllPutArrives`, `ByteAtPtr`: `CarefulSpec` implies
  `[]WritesArrive` and `ReadsTheStream`. From `NetAssumption` (a page of at least
  two bytes; `Unknown`, the EXT of an open stream, larger than any length). The
  hard part is `GoodInv`, in which `Window` relates the page that both
  directions share to PTR, EXT and the stream: the window has the stream's bytes
  or lies behind PTR because the page was written to, and EXT is never short of
  a stream that stands still.

- `TestStages`, `FirmwareIsGone`, `EvidenceIsProof`, `EvidenceIsKept`,
  `CommandsAreDone`, `EnvironmentIsUsable`: `TestSpec` of `TestRun` implies
  `[]StageInv`, `[]FirmwareGone`, `[]EvidenceProves`, `EvidenceKept`,
  `CommandsDone` and `EnvironmentUsable`, for all lists of fixtures, suites,
  programs, settings and directory trees, any number of tests and kills, any size
  of the screen, from `PlanAssumption`, `SuiteAssumption`, `EnvAssumption` and
  `ScreenAssumption`. Fixtures are asked for once and in an order pytest
  gives them; lines are among those the machine is told of, and none of them has
  "(Y/N)" in it, which none of the suites' has. The assumptions say nothing of what
  the machine, the firmware or the service do.

  `StageInv` is the frame of the others: where `pc` can be, and that what is set up
  is the beginning of what was asked for. `EachStep` sorts the thirty actions into
  eight moves along that frame, so that an invariant is argued once per move for
  everything it is not about.

  `FirmInv` says of every test, by its number, that the firmware it got hold of
  (`started`) is over, or the test is the current one and its fixture is still
  set up (`Held`): a process that was asked to end belongs to a test that is
  waiting for it, and has ended when its directory is removed. Nor is any process
  asked to end while its own test sets its fixtures up (`Asked`), so that the
  one got hold of last still runs or has ended by itself.

  `StoreInv` is about the directories: each capture on record is in the file of
  its number, and between the two steps of a capture the file of the next number
  holds it already (`Ahead_of`); the list is that of the test once it has a capture.
  What killed runs have left of either is not mentioned, so nothing needs to be known
  of it. The number of a copy is at most that of its test,
  so that `_unique_path` finds a free one. `BodyInv` says that what was captured
  so far, with the checks left in the step begun and in the steps after it, is
  what the suite asks for (`Course`, `Splits`). That needs a fact about
  `FlattenSeq`, a fold over a list of any length, which an induction would
  give; here a function that has all its partial results is shown to exist by
  its least counterexample (`JoinsExist`), from well-foundedness of the naturals.

  `SureInv` follows a line that could not be mistaken from the keyboard to its
  end: still to be read, with no echo of it on the screen; read or running, with no
  prompt below its echo and no question (`Quiet`), however far the screen has
  scrolled (`ScrolledIs`); or over. In the first two `Ready` is false.

  `EnvInv` is that the disk is a tree and paths have no blank name. A variable
  that is well set reads as it resolves (`WellRead`), so one that was set and one
  that was found are alike to whoever reads them (`Found_is`). The rest is
  the arithmetic of steps up a path: after two looks `Highest`, the root found,
  is its own root.

Only model-checked: liveness (`CommandEnds`, `Finishes`, `TestsEnd`), for the
reason below.
`extend` and `full_page` check what is false.

Theorems have hypotheses on `Faults` only where TLC shows that the property
fails without (the table of deviations; for `MappingSafe` and `CopySafe` also
the paragraph on `CataloguesStayHome`); `BufferAssumption`, `CatalogueAssumption` and
the others ask of the constants what the code's own have (256-byte sectors,
drives 0 to 3, a page of 256 bytes). TLC evaluates them in every run.

Three things stay with TLC whatever is proved later: liveness under fairness
and ENABLED (`CommandEnds`, `Finishes`, `TestsEnd`); induction over data, so what
a recursive definition computes for every input (but for the one list of partial
results above); and anything about RECURSIVE
operators, for which reason the modules declare none.

## Not modelled, and the plan

Next, in this order:

1. `FileStore`, an abstract store of named files, implemented by `CoreSpec` of
   `DfsFiles`.
2. `Workspace`: the two flags and the two copies of the workspace through
   service calls 2, 8, 9 and 10 and `fuji_init`.
3. `*COPY`, and `DfsFiles` and `DriveMap` composed, for channels that stay open
   while their disk is changed: the product is beyond TLC as the two modules
   stand, and needs files reduced to one row.

Left out for good: text (listings, help, parsing), printing, the bytes of SLIP
frames and their checksum, the Pi1MHz mailbox, the BASIC and C programs, the
build and debugging scripts (one pass from input to output, no state), and of
the harness pytest's choice of tests and the wording of its reports.
