# Specifications of the recovery program

Recovery is the small system that a device boots into when it cannot, or must
not, run its main system: to install an over-the-air package, to wipe data, to
take a package from a host over USB. Its hard part is that it has to survive
being interrupted. It rewrites partitions in place, and when power is lost
half way the next boot must find its way back, find what is already done, and
finish. This directory holds TLA+ specifications of that part and of what
surrounds it (scripts, patches, slots, signatures, sideloading, the menu), the
TLC configurations that check small instances, and TLAPS proofs of the main
safety properties of eleven modules for every instance.

`PROJECT.json` lists the components, the runs, the mutants that show that each
property can fail, the lines each definition models, the findings, the hazards
and the theorems.

## 1. The system

| component | state | operations | talks to |
|---|---|---|---|
| recovery main program (`recovery.cpp`) | command, retry count, install status | `get_args`, one branch per command, `prompt_and_wait`, `finish_recovery` | BCB, `/cache/recovery/*`, installer, UI |
| bootloader message (`bootloader_message/`) | the BCB on the misc partition: boot command, status, arguments | read, write, update, clear | recovery, main system, uncrypt, bootloader |
| package installation (`install.cpp`) | the child process, `last_install` | `install_package`, `try_update_binary`, `verify_package` | the update binary, over a pipe |
| updater (`updater/updater.cpp`, `install.cpp`, `edify/`) | script, package, call stack, error message and cause | evaluation, the functions of an update script | block image updater, applypatch, BCB |
| block image updater (`updater/blockimg.cpp`) | partitions, stash directory, `last_command_file`, `stash_map` | `block_image_verify`, `block_image_update` and their seven commands | `/cache`, new data thread |
| new data thread (`updater/blockimg.cpp`) | `NewThreadInfo`: writer, `receiver_available`, mutex, condition variable | `PerformCommandNew`, `unzip_new_data`, `receive_new_data`, `receive_brotli_new_data` | main thread of the updater |
| applypatch (`applypatch/`) | target partition, `saved.file` on `/cache` | `applypatch`, `applypatch_check`, `CacheSizeCheck`, `applypatch_flash` | updater |
| FUSE sideload (`fuse_sideload.cpp`) | buffer, block cache, hashes | `handle_read`, `fetch_block`, cache | a provider: adb host or sdcard |
| sideload (`adb_install.cpp`, `minadbd/`, `fuse_sdcard_provider.cpp`) | child, sideload thread, two flags without a lock | start, poll, cancel, install, stop | FUSE, UI |
| Ubuntu updater (`ubupdater.cpp`, `system-image-upgrader`) | command file | `do_ubuntu_update` | recovery |
| uncrypt (`uncrypt/`) | block map, socket, BCB | `uncrypt`, `setup_bcb`, `clear_bcb` | main system, over a socket |
| boot control, update verifier | slot metadata in misc, care map, reading threads | get/set slot, mark successful, verify blocks | bootloader |
| range sets (`rangeset.h`, `rangeset.cpp`) | none | `Parse`, `Split`, `Overlaps`, `GetBlockNumber` | blockimg, imgdiff |
| package verifier (`verifier.cpp`, `asn1_decoder.cpp`) | keys, digests | `load_keys`, `verify_file`, `read_pkcs7` | install |
| UI (`ui.cpp`, `screen_ui.cpp`, `minui/events.cpp`, ...) | event queue, key state, finger, menu, screen saver | input thread, key timers, `WaitInputEvent`, `get_menu_selection` | recovery |
| volume manager (`volume_manager/`) | disks and volumes | uevents, mount, unmount | menu |
| roots, logs, backup and restore, setup tools | mounts, rotated logs, tar stream | thin layers over the file system | recovery |

What makes them hard, and the properties that make them correct:

- *Crash and restart.* The block image updater writes in place; before a
  target that overlaps its source is written, the source is stashed, and the
  order of fsync, rename, unlink and the saved command index decides whether a
  restart can go on. Correct means: never without the data it needs, never
  skipping what is not done, and the new image at the end. Recovery itself
  relies on the BCB: correct means that an interrupted command is taken up
  again, that retries end, and that the device leaves recovery.
- *Interleaving.* Two threads share one writer through one condition variable
  in the updater. Correct means: each command gets exactly its data, nobody
  uses the writer after its owner left, and both threads end. The menu, its
  timers and the input thread share a queue; a sideload shares two flags and
  that queue with its poller. Correct means: no answer, long press or signal
  that belongs to something earlier.
- *Starting over.* A script, a patch, a slot that does not boot: each is begun
  again from the top, by a program that does not know how far it got. Correct
  means: the outcome is the one without the interruption.
- *An untrusted or failing peer.* A sideload host may change or withhold data.
  Correct means: every byte reads the same as it did the first time.
- *Failures that are only logged.* A BCB write, an unlink or the write of the
  saved index may fail without stopping anything.

The hazards of `PROJECT.json` list each place at its line.

## 2. Modules

| module | models | composed with |
|---|---|---|
| `BlockImage` | `PerformBlockImageUpdate` in both modes, with stash, saved index, retry and power loss | instances in `MCBlockImage` |
| `BlockImageProofs` | theorems about it | extends `BlockImage` |
| `NewData` | what the new data thread promises: the commands are served in order, each with all its data or an error | implemented by `NewDataThread` |
| `NewDataThread` | the two threads with mutex and condition variable | `INSTANCE NewData` |
| `Recovery` | boot, `get_args`, commands, retries, menu, `finish_recovery`, power loss | instances in `MCRecovery` |
| `RecoveryProofs` | theorems about it | extends `Recovery` |
| `FuseSideload` | `FUSE_READ` with buffer, cache, hashes and spilled reads | instances in `MCFuseSideload` |
| `Uncrypt` | the uncrypt service and its caller: socket protocol, block map, rewriting of the package, BCB; and how recovery reads the map | instances in `MCUncrypt` |
| `UncryptProofs` | theorems about it | extends `Uncrypt` |
| `RangeSets` | `RangeSet` and `SortedRangeSet` as pure operators | extended by `BootControl` |
| `BootControl` | the boot control HAL, `update_verifier` and its threads, the bootloader that uses the slots | instances in `MCBootControl` |
| `ApplyPatch` | `apply_patch`, its checks, the flash mode and the room on `/cache` | instances in `MCApplyPatch` |
| `ApplyPatchProofs` | theorems about it | extends `ApplyPatch` |
| `UpdaterScript` | the evaluation of a script: edify and every function `install.cpp` registers, with stages, reboots and power losses | instances in `MCUpdaterScript` |
| `UpdaterProofs` | theorems about the two modules of the updater's process, `UpdaterScript` and `NewDataThread`, the refinement of `NewData` included | extends both |
| `UserInterface` | input thread, key timers and main thread of the menu | instances in `MCUserInterface` |
| `UserInterfaceProofs` | theorems about it | extends `UserInterface` |
| `Sideload` | a sideload from adb or a volume: main thread, poller, child process | instances in `MCSideload` |
| `SideloadProofs` | theorems about the session and about the file system it serves | extends `Sideload` and `FuseSideload` |
| `PackageVerifier` | `verify_package`: keys, footer, hashing, decoding, trying the keys | instances in `MCPackageVerifier` |
| `VerifierProofs` | theorems about the two verifiers, the package's and the slot's | extends `PackageVerifier` and `BootControl` |

A definition named `Mut...` is a faulty variant of the definition after it; no
specification uses one. Where two modules are extended by one proof module,
the second one's `Init`, `Next`, `Spec` and types carry its name
(`ThreadInit`, `SideloadSpec`, `BootSpec`).

### BlockImage

A step is what lies between two points at which a power loss makes a
difference: one command of a dry run, and in an update the look at source and
target, the write of the `.partial` file, its fsync, its rename, the saved
index, the discard, each block, the unlink of the stash, the fsync of the
partition. `disk` and `cache` are what the kernel shows; `platter` and
`cacheD` are what a power loss leaves. An fsync of the partition copies `disk`
to `platter`; an fsync of the `/cache` directory commits `cache`; and the
journal of `/cache` may commit at any time (`CommitCache`). `PowerLoss` loses
any subset of the unsynced blocks and the content of any unsynced file.

A SHA-1 names one content, so comparing hashes is comparing contents, and a
stash file is its name and whether its data is intact. A patch applied to the
right source gives the right target. Lines are well formed: the parsing of a
transfer list, which aborts on anything else, is not modelled. Versions 1 and 2
of the format are refused by the code, so are absent here.

The code itself deletes data that it still needs in two cases, and the history
variable `gone` records them. `"unlinked"`: the journal commits the unlink of an
implicit stash before the fsync of the target, and the power loss takes blocks
of that target. `"duplicate"`: a resumed update executes a `free` that the
interrupted one had behind it, and the file it deletes is that of a later stash
of the same id. `AlwaysResumable` and `UpdateCompletes` name these two cases and
no other; the run contains both.

A failing system call ends the updater with a request for a retry; recovery
syncs everything when it copies its logs, and reboots (`Retry`).

The formulas `Right...` at the end of the module say what makes a package one
that the code is written for. They speak of constants only, and are the
hypotheses of theorems: `RightTargets` (each block is written once),
`RightNew` (the new data is that of the `new` commands, none of which precedes
a command that saves its index), `RightScript` (each partition is updated
once, after a dry run), `RightImage` (the commands write the image),
`RightSources` (a source is old content that no earlier command has
overwritten), `RightStash` (what is stashed is freed, used in between, and
stashed again only after that, as `b/69858743` has it; its id is not that of an
overlapping source). TLC evaluates all of them
for the package of the run (`TwoIsRight` of `MCBlockImage`).

### NewData and NewDataThread

Each region that holds `nti.mu` is one step up to its `pthread_cond_wait`; the
write itself happens outside of the mutex. `sleeping` is the set of threads
asleep in the condition variable; a broadcast empties it, and a spurious wakeup
needs no action of its own because both waits are in a loop that would sleep
again without a change. Amounts are counted in blocks; a callback delivers up
to `MaxChunk`. `tail` stands for compressed input that yields no output, which
the brotli receiver must still take after the last command.

### Recovery

`bcb`, `files` (on `/cache`) and `flash` survive a power loss. `flash` records
for the system and for the data volume whether it is whole and otherwise which
command left it half written; it is what the properties are about. The update
binary, the Ubuntu script and each wipe are a step that begins and a step that
ends, so that power can be lost in between. The main system, the bootloader and
the user are external. Whether the menu appears after a command is a free
choice where the code asks `ui->IsTextVisible()`.

`finished` is the last command that ran to its end, and `left` records that the
device kept a trace of it after `finish_recovery`: power was lost before the BCB
was cleared or between that and the unlink of the command file, or one of the
two calls failed, which the code only logs. These are the four cases in which
`RunsOnce` lets a finished command run again. The other properties of commands
are stated for devices on which no access to the BCB or the command file fails.

### FuseSideload

The steps are the calls of `fetch_block` inside `handle_read`: a read that
spills over a block boundary makes two. The provider may deliver any data or
fail after it has overwritten part of the buffer. The arithmetic of the cache
size keeps its width, as `avail` is compared after it may have wrapped.
`stale` and `mixed` only record that a failed read has left foreign data in the
buffer under the old `curr_block`, and that such data went into a reply.

### Uncrypt

One request at a time: init starts the service, the caller connects, both send
and read over the two directions of the socket (`toServer`, `toClient`), and
the socket disappears with the service. The caller is external and keeps to
the protocol in the header comment of `uncrypt.cpp`, or dies.
`produce_block_map` is one step per block and per system call whose order
matters: the removal of the old map, the ring of `WINDOW_SIZE` buffers, the
write of the lines, the two fsyncs, the rename, the fsync of the directory.
`raw` and `rawD` are the block device and what a power loss leaves of it;
`cache` and `cacheD` the same for `block.map` and `block.map.tmp`. A block of a
package is `<<package, index>>`, or `Cipher` on an encrypted device; a block
that was rewritten decrypts to `Junk` when it is read through the file system
again, unless the page cache still holds it (`paged`), and such a package is
noted in `spoilt`. A map file is its package, its count, its range lines, its
size and whether its data is synced. A leftover `block.map.tmp` is opened
without `O_TRUNC`, so that what is written covers its beginning only (`Written`)
and the end of a longer text sticks out (`HeaderLength`, `MapLength`); such a
map is refused by recovery, the exception that `MapMeansPackage` names. Writing
the lines may fail half-way (`WriteRangesFails`). `MapBlockFile`, which recovery
reads the map with, is part of the module, as the property is about the two
together. A `setup_bcb` whose wipe package cannot be read is an operation of its
own (`"setup_missing"`): the service returns without a status and both sides
wait for ever (`Unanswered`), which is the one exception of `RequestsEnd`.

### RangeSets and BootControl

`RangeSets` translates parsing, `Split`, `Overlaps`, `GetBlockNumber` and the
merging `Insert`; a range set is a sequence of pairs. `BootControl` uses its
parser and its split for the care map, so that which thread reads which block
is what the code computes. `MCBootControl` compares every operator with what it
means for sets of blocks, for all range sets of up to three ranges below four:
`Split` is a partition in order into groups that differ by at most one block,
`Overlaps` a common block, `Insert` the union, sorted and merged, the parser
inverts the text, and an offset is the place of its block. These are
assumptions that TLC evaluates at the start of the run.

`misc` is the `bootloader_control` with its checksum reduced to `ok`; every
HAL call loads it, changes it and saves it, or fails. Damage hits the checksum
alone or an entry of a slot with it (`Damages`). `markBootSuccessful` and
`setActiveBootSlot` do not look at the checksum they replace, so that they seal
a damaged entry with a valid one; `damage` records that, and `ComesUp` excepts
it, as the device may then find `NothingToBoot`. `update_verifier` is one
step per decision, from looking for the service (`GetService`, which reboots
without one) up to the start of its threads; each thread reads its ranges
one at a time, and a `scandir` that fails, `std::async` failures and unreadable
blocks end it.
`vouched` is a history variable: the blocks that the care map named when the
slot was marked. `Boot`, `BootloaderRepairs`, `BeginUpdate`, `EndUpdate` and
`CancelUpdate` are external and use the metadata as `boot_control.cpp` and its
comments describe it: highest priority among the bootable slots, one try less
at each start of a slot that is not marked.

### ApplyPatch

A partition is a short sequence of pieces; a hash is the contents it is of.
`device`/`platter` and `saved`/`undo` are, as in `BlockImage`, what is seen and
what a power loss leaves. `GenerateTarget` is a step per point at which power
can be lost: `MakeRoom` (deleting other files of `/cache`), `OpenSaved` (which
truncates), `SaveSource`, `ApplyInMemory`, each piece of `WriteToPartition`,
its sync, its reading back with a second attempt, `UnlinkSaved`. Loading a
source prefers the partition and falls back to `saved.file`; each of these
reads may fail. A check compares with the names of the partition and then with
the list of SHA-1s that the script gives, so that a check of a partition which
the script patches passes a second time only if the list has both contents
(`Repeatable`). `cut` and `blind`
are history variables that name the cases in which the code gives no guarantee:
a copy of `saved.file` being rewritten from itself; and a sync that failed,
after which the page cache hides what is on the medium, or a failed read of a
partition that has its target, which is then patched once more.
The fsync of `saved.file` is taken to make its directory entry durable too, as
ext4 does for a new file; the code has no fsync of the directory.

### UpdaterScript

An expression is a tree given by the instance; the lexer and the parser are
generated. `stack` is the C++ call stack: `Evaluate` and `Takes` push and
collect arguments, `Unwinds` is the return of a null pointer through the
callers, `Refuse` the argument checks, and each function is an action that
either works or fails. The functions that write are split where a power loss
matters: opening (which truncates) and writing of a file are two
steps, and a tree is deleted one entry after the other, any of which may fail.
`undo` is the set of states of the volume that a power loss may leave,
all those since the last sync: the fsync of an extracted file, an unmount, a
format, a reboot by init. `reboot_now` and
`set_stage` work on the BCB; `Boot` is the bootloader and recovery's
`get_args`, which tells the bootloader to come back.
`block_image_update` is only what the script sees of it: success, failure with
or without a cause code, failure with an I/O error.

### UserInterface

An event of a device is three words. The input thread is a step per event it
reads, one per `ProcessKey` call this leads to, and one per decision of
`CheckKey`; a key timer is a pair of key and count that may fire at any time
after its press, as nothing bounds its delay. The main thread is a step per
event it takes in `get_menu_selection` or `WaitInputEvent`. Which item a finger
selects, and how many items fit, is computed from pixels as the code does.
The instance gives a set of scenarios: devices, the events they send (taps,
swipes, chords of keys, a trackball), the state of the screen saver, and
changes of the volumes. `ScreenAssumption` says how small a screen the code can
draw its grid of items on, `DevicesAssumption` that devices send events.
`ChosenIsAnItem` has one exception that the code makes: `get_menu_selection`
returns -1 when nobody answers within the time-out and the text was never
visible, and `choose_recovery_file` indexes its list with it. For that the list
of logs has to be open without the text ever having been visible, which a
toggle of the text during the question before it can bring about. The property
says that no other menu and no other value is concerned. A log that cannot be
opened leads back to the list. The brightness file, drawing, and the progress
thread are left out.

### Sideload

`server` is the child process with the session it was started for, so that
what is at the FUSE path can be compared with what the user asked for. The
poller looks once a second; `Timeout` and `SdTimeout` count polls. A host may
disconnect at any time, after which the file stays and does not answer
(`"deaf"`), or come back and start a second server in the same process.
`started`, `cancelled` and the queue are read and written at the places where
the code does, without a lock; `lost` records that the opening menu flushed the
poller's `KEY_REFRESH`. The fork and the creation of the thread may fail: the
code goes on with a pid of -1, and ends the session with `kill(-1)`, which ends
every process but init and recovery. A provider whose file could not
be looked at is forgotten (`orphans`, and `forgotten` for all there ever were):
it lives on and may mount its file in a later session, the exception that
`InstallsWhatWasOffered` and `NothingLeftBehind` name. What is served, once
it is served, is `FuseSideload`.

### PackageVerifier

A package is a sequence of cells, one for a byte or a field of fixed width, so
that every offset of `verify_file` is still computed. The DER decoder is
translated operator by operator. A digest is what it was computed over, and a
signature value names its key, its hash and its text, so that forging is
impossible by definition and everything around it is not: which bytes are
hashed, with which hash, where the block is found and how it is decoded.
A key whose point is not on the curve is refused, and the file of keys with it.
`sig_bus` is the jump out of the mapped read.

## 3. Runs

| run | states | shows |
|---|---|---|
| `block_image` | 266,624 | with two power losses and one failing call anywhere: stash files are intact, only the current target is at risk, skipped commands are done, no update loses its source but in the two ways of `gone`, success means the new image, and the update completes but for these two |
| `new_data_thread` | 488 | data in order, no stale writer, both threads end, refinement of `NewData` |
| `recovery` | 452,732 | an interrupted command is taken up again, the main system does not start on half of a package, attempts are bounded, a finished command is not run again unless its `finish_recovery` was interrupted or failed, recovery does not cycle |
| `fuse_sideload` | 116,306 | each reply agrees with the first read, the cache is faithful |
| `uncrypt` | 426,286 | what recovery maps from a `block.map` is its package, and it can be mapped unless a longer leftover sticks out; `100` is true and stays true after a power loss, the service outlives the caller's wait, every request ends but for the one that gets no status |
| `boot_control` | 527,639 | a slot is marked only if every block its care map lists could be read, over reboots and repeated updates; a device that goes down comes up again unless damage of misc was sealed |
| `apply_patch` | 40,467 | the source of an unfinished patch is in its partition or in `saved.file`, what was reported as applied is on the medium, and without failing calls a script fails only for a copy cut short, for lack of room, or at a check that cannot be repeated |
| `apply_patch_second_loss` | violation | the one finding, see section 5 |
| `updater_script` | 30,457 | power losses do not change the outcome of a script, the device comes back to the install between its stages, a failed patch asks for a retry, nothing is done after an abort, the install ends |
| `user_interface` | 229,326 | a long press was held, the chosen item exists, a dangerous question is answered by an event made after it was asked, a device left alone without USB reboots |
| `sideload` | 113,441 | what is installed is this session's package and nothing of a session is left for the next, but for a forgotten provider; a package that was found is taken up |
| `package_verifier` | 23,574 | what is accepted was signed up to the directory that the archive reader uses; what a signing tool made with a known key is accepted |

### Bounds

- `block_image`: two partitions of seven and three blocks, a list with every
  command, explicit and implicit stash, stash used by a diff, a list that
  stashes one id twice, and a script that
  verifies both partitions before it updates them. Two power losses, because
  the second one hits the restart that the first one caused, which has the
  directory, the stash and the saved index of the first; a third one would
  start from states the second already reaches. One failing call.
- `new_data_thread`: commands of 2, 1 and 3 blocks and callbacks of up to 4, so
  that a callback ends within a command, at its end, and spans three of them.
- `recovery`: `RETRY_LIMIT` as in the code (4), two requests, so that leftovers
  of the first meet the second, two power losses, one logged failure.
- `fuse_sideload`: three blocks of two bytes, the last one short; no cache or
  one of two blocks, so that it fills and evicts; words of 64 and 256 in place
  of 2^32 and 2^64, small enough that the computation of free memory wraps.
- `uncrypt`: a window of three, so that packages of four and of two blocks fill
  the ring and do not; contiguous, separate and descending blocks; encrypted or
  not; two requests, so that the files and the half-rewritten package of the
  first meet the second; one power loss and one failure, before, between or
  after them. The map of one package has a range more than that of the other, so
  that its leftover is longer; requests include one whose wipe package cannot be
  read.
- `boot_control`: two slots of two partitions with five and two blocks; care
  maps that are absent, whole, one line short, malformed, or name an unknown
  partition; updates that leave all blocks readable, one unreadable, or none;
  two readers per partition, so that the split cuts a range; verity modes none,
  enforcing and logging; an entry damaged to no priority, and one to a mark of
  success on a corrupted slot. Two updates, so
  that the marks and the care map of the first meet the second; one power loss
  and one failure or damage of misc. The tries keep their number (6).
- `apply_patch`: `recovery` patched from `boot`, `radio` and `boot` in place,
  a flash, with checks before them; a target longer and one shorter than its
  source; checks that can be repeated and checks that cannot; a `/cache` that has room
  only after files were deleted, that may be too full for that, and one file
  that must not be deleted. Two power losses (the second hits the resumed patch)
  and two failing calls, short saves or bad writes.
- `updater_script`: a script in three stages with `reboot_now`, one that formats
  the volume and fills it, and short ones for the other functions, some of which
  abort; two power losses, so that one hits the restart of a stage, and one
  failing call.
- `user_interface`: a queue of two events, two timers at a time and two
  devices, so that each is at its limit; three presses of power reboot instead
  of seven; 16 lines of screen, so that the list of logs scrolls.
- `sideload`: three packages in a row, so that one adb session lies between two
  others of either kind; two failing calls; the poller gives up after two polls.
- `package_verifier`: four texts (one with a marker in its content), comments
  with and without markers before the signature, five signatures by three keys
  with two hashes, thirteen key files, every combination of wrong footer fields
  around the right values, eight kinds of damaged block. Chunks of three cells,
  so that the signed part ends within and at the end of one.

### Fairness

- `block_image`: weak fairness of the updater's own steps. It is one process
  that never waits for another except the new data thread, modelled apart.
- `new_data_thread`: weak fairness of each thread: the kernel schedules both.
- `recovery`: weak fairness of the program and the hardware it drives. Nothing
  is assumed of the user, so a menu may be shown for ever, and failures and
  power losses are never required to happen or not to happen beyond the bounds.
- `uncrypt`: weak fairness of the service and of the caller as two processes.
  The caller's fairness is its promise to keep to the protocol; it may die
  instead, which closes its end of the socket.
- `boot_control`: weak fairness of `update_verifier`, an init service, and of
  the bootloader. Updates, reboots and damage are never required.
- `updater_script`: weak fairness of the updater's steps, the bootloader and
  init's reaction to the reboot property.
- `user_interface`: weak fairness of the input thread, of the key timers and of
  the main thread. Nothing is assumed of the user.
- `sideload`: weak fairness of the main thread and of the poller. Nothing is
  assumed of the host, the provider or the user, so that `OfferIsTaken` speaks
  of a package that was found; whether one ever is depends on the host.
- `fuse_sideload`, `apply_patch` and `package_verifier` have no liveness
  property: a host that never answers blocks the file system, for lack of a
  timeout in the code, and the other two are straight-line programs.

Deadlock is checked in every run: where the program ends, the model stutters
explicitly (`Terminated`, `Idle`, `Rest`, `Ended`, `Done`).

## 4. Proofs

Each proof module holds an inductive invariant `IInv`, the lemmas that `Init`
gives it and that each action keeps it, and theorems of the form
`Spec => []P`. The constants are arbitrary but for the named assumptions of the
module (types, and positive sizes and limits); the bounds on power losses and
failures are arbitrary numbers.

- `BlockImageProofs`. `IInv` = types, `Control` (what a program point implies
  for the call and command, and that a renamed `.partial` was synced), and
  `Tame` of both copies of `/cache`. `StashIntact` alone is not inductive: at
  the rename one has to know that the fsync has happened, and after a power
  loss that the committed copy was intact as well. Theorems: `TypeCorrect`,
  `StashFilesIntact`, `AtRiskTheorem` (by the same control argument plus: every
  way into the next command passes an fsync), `DryRunReadOnly`.

  On top of it, for right packages, `ILists`. `SavedDone`, `BelowDone` and
  `EarlierDone` say that the commands up to the saved index, those behind the
  present one and those of earlier updates have left their targets, in both
  copies. `Writing` and `Stream` say how far the present command is and where in
  the new data. The difficult part is the saved index, which one partition
  writes and another may find. `Last` says that it is right for the first
  partition of the script, or that a dry run before the first update will meet a
  transfer up to the index that is not done (`Stale`) and forget it; `Lag`,
  `Checked`, `InFirst` and `NoIndex` carry that through the dry runs, to the
  copy of the index on the medium, and past the first update, whose success
  deletes it. Theorems: `SkipsOnlyFinished` (from `RightTargets`, `RightNew` and
  `RightScript`) and `SuccessMeansTarget` (and `RightImage`).

  And `IStash`, which says that the data is never lost. `SafeNow` and
  `SafeLater`: each transfer is done, or its source is in place, or saved in a
  file, as read now and as read after a power loss. `Kept`, `Stashed` and
  `LastStash` say the same of explicit stashes until their last user is done.
  `FileMono`: the medium lags behind `/cache` in unlinks only. `MapOK`: what
  `stash_map` refers to, so that a dry run reads what an update would. `AtWrite`
  and `FreeOK`: the command that writes over its own source has saved it, and
  frees that file only. `IStash` holds as long as `gone` is empty: an unlink
  that is not yet committed is what `"unlinked"` is about, since the target of
  its command has to be on the medium first, and a `free` that is executed a
  second time is what `"duplicate"` is about. Theorem: `NeverStuck` (from
  `RightLists`, `RightSources` and `RightStash`): for every right package,
  the two cases of `gone` are the only ones in which an update cannot be resumed.
- `UpdaterProofs`, the threads. `ThreadIInv` = types, `Position` (the place in
  the stream is determined by the command and what its writer still wants) and
  `Places` (who may be where while the writer is set). From it `StreamInOrder`,
  `NoStaleWriter`, `SuccessIsComplete`, and the step simulation of
  `ThreadsImplementNewData`.
- `UpdaterProofs`, the script. `IInv` says where a message can be: none before
  the script has started, and then nothing is left of an earlier one
  (`Started`); while a script is evaluated only together with a null value on
  its way back (`Null_Message`), with no entry being extracted (`Null_Job`); no
  entry when the device reboots (`Rebooting`); and none after a success
  (`Verdict`). The property is about steps: a function whose argument failed
  must not act, and what rules that out is that each action that changes a
  volume needs a value that is not null. Theorems: `AbortStopsTheScript`, for
  every script and not only those of the instance, and `AbortIsFailure`: an
  installation that reports success has seen no abort.
- `RecoveryProofs`. `IInv` = types, `Control`, `Message` (from `get_args` to
  `finish_recovery` the BCB names the command), `Counted` (the retry count
  accounts for every start of the update binary but those a power loss cut
  short) and `Owned` (a half-written volume belongs to the command in the BCB).
  Theorems: `TypeCorrect`, `ComesBack`, `RetriesEnd`, `CommandsAreCompleted`.
  `CommandsRunOnce` adds `Once`: unless it was `left`, a command that was
  finished is in no place `get_args` reads from, neither the BCB nor the command
  file, so that only a new request brings it back, through power losses and
  failing calls at every other place.
- `SideloadProofs`, the file system. `IInv` = types, and that the buffer (`BufferGood`), the
  cache (`CacheGood`) and the saved half of a spilled read (`HalfGood`) hold
  accepted data; a second invariant counts the cache. Theorems: `TypeCorrect`,
  `ReadsAreRepeatable`, `CacheIsFaithful`, `HashesStay`.
- `UncryptProofs`. `IType` = types, `Slots` (the ring holds exactly the blocks
  from `head_block` to `pos`, one slot free, which is what keeps `head` and
  `tail` in the window), `Errand` (which request the service is at) and `Files`
  (a file gets the name `block.map` synced and with the header of its package).
  On top of it `ITalk`: which messages are under way at each point of the
  conversation; it gives `SocketOutlives`, since at `"code"` a waiting caller
  has sent nothing and its end is open. And `IStatus`: once `100` is decided
  on, under way or received, what it says holds in both copies of `/cache` and
  in misc; it gives `StatusTrue`. Each layer uses the ones below.

  `IMap` is about what the map means. `Listed`: the lines written so far are the
  blocks up to `head_block`, in order, one line for each block that does not
  follow the one before it. `Plainly`: a block of a package that was never read
  back is encrypted or plain, and plain in the cache before it is on the medium.
  `Progress`: what is in the ring and on the device at each point, up to the
  fsync of the device, behind which the package is whole on the medium. `Maps`:
  a `block.map` is complete, its package is on the medium, and its size is that
  of its text, unless a longer `block.map.tmp` was there. Theorem:
  `MapStandsForPackage`, for packages of any layout and maps of any length; the
  leftover is in the statement and not assumed away.
  What `MapBlockFile` makes of the lines is a recursive function;
  `ExpandCuts` shows what it computes without an induction theorem, by the
  first line at which it and the package would differ.
- `SideloadProofs`, the session. Its invariant = types, `Owner` (at each point of a flow the child
  process is the one of this flow and this session), `ThreadGone` (the thread
  is joined before anything is installed; outside of an adb session there is no
  thread, no flag and no signal in the queue) and `OwnFile` (the file at the
  FUSE path is that of the present server or of an orphan, and orphans were
  forgotten).
  `NothingLeftBehind` speaks only of the end of a session; the invariant has to
  carry the signal of the poller from the place where the queue is read to the
  join. Theorems: `SideloadTypeCorrect`, `InstallsOwnPackage`, `SessionsAreClean`.
- `VerifierProofs`, the package. `IInv` = types, `KeysLoaded` (every key comes from
  the file of keys), `Digested` (the digests cover the file up to `so_far`) and
  `AcceptedWasSigned`. The signed part is the one before the record that the
  footer points to; that this is the record the archive reader uses is the
  argument of `FooterPlaces` (offsets), `MarkerOfSuffix` and `ReaderAgrees`: no
  marker after the record passes the scan, so the record is the last one of the
  file, which is where the reader looks. Theorems: `TypeCorrect`,
  `OnlySignedIsAccepted`, for every file over the naturals.
- `VerifierProofs`, the slot. `IBoot` = types, `Route` (the pairs of lines
  before the present one were read, and only the end of the loop leads to the
  mark), `Tasks` (each range of the present pair was read, or waits in its
  thread, or that thread has failed) and `Pending` (a slot that is being written
  has no mark anyone relies on, which is why the marks survive a change of its
  blocks) and `Vouched` (what a slot was vouched for is readable, whatever the
  damaged entry of a slot says). Theorems: `MarkedWasRead` and
  `BootTypeCorrect`, from one fact about the folds of `RangeSets`,
  `SplitCovers`: the groups leave out no block of the
  care map. TLC evaluates it for the care maps of the instance, and
  `SplitIsPartition` for all small range sets.
- `ApplyPatchProofs`. `IInv` = types, `InMemory` (what each program point
  implies for the source, the target and the saved copy it works with) and
  `OnMedium`: a cell of a partition that differs on the medium is a piece of the
  target being written, and nothing is written where the target already is.
  `AppliedIsOnMedium` is not inductive without it: a partition that reads as
  the target may still be in the page cache only. With it `AppliedStays`. On
  top of it `IFull`: `InFile` (what `saved.file` holds), `Origin` (a partition
  no call has reached is as it was, on both copies) and `Survival` (the source
  is whole in the partition or in the synced copy, or the target is), which
  gives `SourcesSurvive`. And `IReason`: `LeftAlone` (the partitions the script
  does not write are as they were) and, as long as no call has failed and no save
  was cut, `Untroubled`: the script has not failed unless it is `Excused` (no
  room, or a check that cannot be repeated), only the partition being written is
  ahead of the medium, what is written reads back, and nothing was taken for done
  on the word of the page cache. Theorem: `LossesAreNoFailures`, for every `/cache`
  and every script that meets the two assumptions below; that it has room and
  repeatable checks is not assumed.
  Two assumptions go beyond types. `ImageAssumption`: the source of a patch in
  place is not a proper prefix of its target; section 5, point 10, says what
  happens otherwise. `ScriptAssumption`: a script is made for the device (each
  source is there, or the patch is already applied), and no patch reads a
  partition that an earlier call of the script rewrites, which is how the
  scripts of `ota_from_target_files` are made.

- `UserInterfaceProofs`. `IInv` = types, `TimersInv` (every press has a
  timer of its own, and a key is marked long only once the timer of its last
  press is gone), `FreshInv` (what is in the queue, and what was taken out of it,
  was put there after the last `FlushKeys`) and `MenuInv` (the highlight is on
  an item or on the back icon, and the items shown are items of the list).
  Theorems: `LongPress`, `ChosenItem`, `FreshAnswers`, for any length of the
  queue, any screen and lists, and any number of timers.

The type invariant of each of these modules, `SuccessMeansAllWritten`,
`VerifyIsReadOnly` and `AcceptedForever` are proved and not listed with a run:
their TLC runs, with the constants of the configurations, pass as well.

Only model-checked:

- the liveness properties (`UpdateCompletes`, `ThreadsJoin`, `LeavesRecovery`,
  `RequestsEnd`, `ComesUp`, `InstallEnds`, `UnattendedEnds`, `OfferIsTaken`),
  since fairness is out of the prover's reach;
- `SignedIsAccepted`: the DER decoder walks through a sequence of any length;
- what the folds of `RangeSets` compute, `SplitCovers` included;
- `RestartsAreInvisible`, `ComesBackToInstall` and `PatchFailureRetries` of
  `UpdaterScript`, which are about what the scripts of the instance do and not
  true of every script: one may ignore the state it finds, or put another
  cause in the place of the patch's.

## 5. Findings and known divergences

One disagreement of code and documentation has a run of its own. When a patch
resumes from `saved.file`, `GenerateTarget` saves the source again, into the
file it came from, which is opened with `O_TRUNC` (`applypatch.cpp:190`). A
second power loss at that point leaves neither the partition nor the copy;
`updater/install.cpp:265` says that apply_patch never leaves an unrecoverable
state. `apply_patch_second_loss` is the trace. `apply_patch` shows that this,
a failed sync and a failed read are the only ways.

### Known divergences

Points 2, 3, 5 to 7 and 11 to 14 happen in the runs, and the properties name
them as their exceptions, so that a run shows that nothing else goes wrong. The
instances are chosen so that points 1 and 4 do not occur, the assumptions so that
point 10 does not; the modules contain them, and they can be reproduced by
changing the constants of a configuration as given. The hazards refer to them.

1. A resumed update skips `new` commands but not their data
   (`blockimg.cpp:1739`): the next `new` command writes the wrong blocks and
   the script succeeds. It needs a list in which a `new` precedes the saved
   command. *`BlockImage.cfg` with the definitions `New...`, `OnePart` and
   `OneScript` of `MCBlockImage`: `EndMeansTarget` is violated.*
   `RightNew` excludes it, and that a `new` command of one partition precedes a
   saved index of another, which an update of the first then skips.
2. A list that uses one stash id twice cannot always be resumed behind the second
   stash (`blockimg.cpp:1299`): an update that does not skip the first `free`
   executes it again and deletes the file of the second stash. It is
   `"duplicate"` of `AlwaysResumable`. `RightStash` excludes only that a `free`
   names the id of an overlapping source.
3. The stash of an overlapping source is unlinked before the partition is
   synced (`blockimg.cpp:1229`). If the unlink is committed first, a power loss
   takes source, target and stash. It is `"unlinked"` of `AlwaysResumable`.
4. The Ubuntu updater renames its command file before it starts; after a power
   loss recovery comes back, finds nothing to do and boots the half-written
   system (`recovery.cpp:1966`). *`Recovery.cfg` with `Requests <-
   const_Ubuntu`, `MenuWork <- const_NoMenu`, one request and one power loss:
   `UbuntuFinished` is violated.*
5. After a failed read of the provider, `block_data` holds other data than
   `curr_block` says, and the next read of that block returns it
   (`fuse_sideload.cpp:316`). *`FuseSideload.cfg`: `FirstReadInvariant` is
   violated, `RepliesAgree` is what holds.*
6. `block.map.tmp` is opened without `O_TRUNC` (`uncrypt.cpp:262`). If a failed
   run left one that is longer than the next map, the new map keeps its last
   bytes, uncrypt reports 100 and recovery refuses the map: the exception of
   `MapMeansPackage`.
7. `setup_bcb` does not answer when it cannot read the wipe package
   (`uncrypt.cpp:607`); service and caller wait for each other: `Unanswered`, the
   exception of `RequestsEnd`.
8. The key that wakes the screen is to be dropped (`ui.cpp:604`), and the copy
   that closes the gap counts in `sizeof(int)`, not in events. With one event in
   the queue, which is what the main thread normally meets, nothing is copied
   and the key is dropped; with more, the first event stays and the last is lost,
   word by word as `Woken` of `UserInterface` computes it.
9. `CancelWaitKey` (`ui.cpp:635`) does not look at the length of the queue. The
   model lets the queue grow; what the write would hit is not modelled.
10. `LoadPartitionContents` (`applypatch.cpp:97`) tries the names of a partition
    from the shortest to the longest and stops at the first that fits. If the
    source of a patch in place is a prefix of its target, a partition that
    holds the target reads as the source, and every restart of the script
    patches it again; a rewrite that goes wrong then damages what was already
    applied. *`ImageAssumption` of `ApplyPatch` excludes it; `AppliedStays`
    fails without.*
11. A provider whose file could not be looked at is forgotten
    (`fuse_sdcard_provider.cpp:121`): its child is never ended, and may serve its
    package to a later session.
12. A command that has ended runs again when power is lost before the BCB is
    cleared (`recovery.cpp:633`) or before the command file is unlinked (639), or
    when one of the two fails.
13. `markBootSuccessful` and `setActiveBootSlot` give a damaged
    `bootloader_control` a new checksum (`boot_control.cpp:256`), after which the
    bootloader believes it.
14. A script whose check lists only the hash of the source, or none, of a
    partition it patches fails when it is restarted behind that patch
    (`applypatch.cpp:399`), and so does one for which `MakeFreeSpaceOnCache`
    gives up because the file it deleted first leaves too little
    (`freecache.cpp:144`).
15. `LoadStash` says that a dry run whose `stash_map` entry does not verify
    searches the stash files (`blockimg.cpp:739`); the code returns -1 (753). For
    right packages it makes no difference: by `MapFound`, part of the invariant
    of `NeverStuck`, an id has an entry only where no file of it is there.

## 6. Plan

Done: the block image updater, the new data thread, recovery, the FUSE file
system, uncrypt; then boot control, applypatch, scripts, the menu, sideloading
and the verifier; then the theorems about what makes an interrupted block image
update come out right, and those about the block map, the slots, scripts and
the menu. What is left, in this order:

1. Composition of `Recovery` and `BlockImage` for two packages: the saved index
   of an abandoned package met by the next one.
2. `VolumeManager`: disks and volumes that come and go under the menu; the
   progress thread of the UI.

## 7. Not modelled

Drawing, fonts, layout and the progress animation (`minui`, most of
`screen_ui`, `wear_ui`, `vr_ui`), device access, the cryptographic
computations, generated parsers, host tools (`imgdiff`, `dumpkey`), and thin
layers over mount and mkfs (`roots.cpp`) have no state whose order matters, or
are out of TLC's reach. Parsing of transfer lists and command lines is
abstracted to its result. Backup and restore is a stream whose state is in
libtar, which is not part of the repository; the rotation of logs and the setup
tools are sequences of file operations whose failures are ignored and on which
nothing depends. `bspatch` and `imgpatch` are one step that works or fails.
`PROJECT.json` gives the status of each component.
