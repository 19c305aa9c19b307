------------------------------- MODULE ApplyPatch -------------------------------
(***************************************************************************)
(* applypatch/applypatch.cpp and freecache.cpp, with the script functions  *)
(* apply_patch, apply_patch_check and apply_patch_space of                 *)
(* updater/install.cpp and the applypatch command that flashes an image    *)
(* (applypatch_modes.cpp).  A partition is rewritten from what it, or      *)
(* another one, holds; before it is touched the source is saved in         *)
(* /cache/saved.file, one file for the whole script.                       *)
(*                                                                         *)
(* A partition is a sequence of pieces.  A SHA-1 stands for the contents   *)
(* it is of; a patch turns Source[p] into Target[q] (see Imgpatch).        *)
(* device is what the kernel shows, platter what a power loss leaves; undo *)
(* is what a power loss may turn saved.file back into.                     *)
(***************************************************************************)
EXTENDS Integers, Sequences, FiniteSetsExt, SequencesExt

CONSTANTS
  Parts, Source, Target,  \* Source[p], Target[p]: contents before and after
  Device,       \* Device[p]: the partition at first, at least as long as both
  Script,       \* a sequence of calls; sha1 is what an apply_patch_check lists
  Files,        \* Files[f]: sizes of the other regular files in /cache, in their order
  OpenFiles,    \* those that a process has open
  CacheSize,
  Junk, None,
  MaxLosses,    \* bound: power losses
  MaxErrors     \* bound: failing system calls and bad writes

Contents == {Source[p] : p \in Parts} \cup {Target[p] : p \in Parts}
Pieces   == {Junk} \cup UNION {ToSet(c) : c \in Contents \cup {Device[p] : p \in Parts}}
Calls    == [op : {"check", "space", "patch", "flash"}, src : Parts, tgt : Parts,
             sha1 : SUBSET Contents, bytes : Nat]

ASSUME PartAssumption ==
  /\ Device \in [Parts -> Seq(Pieces)] /\ None \notin Contents
  /\ \A p \in Parts : /\ {Source[p], Target[p]} \subseteq Seq(Pieces)
                      /\ Len(Source[p]) \in 1..Len(Device[p])
                      /\ Len(Target[p]) \in 1..Len(Device[p])
  /\ Script \in Seq(Calls)
  /\ Files \in Seq(Nat) /\ OpenFiles \subseteq DOMAIN Files
  /\ CacheSize \in Nat /\ MaxLosses \in Nat /\ MaxErrors \in Nat

Patches == {i \in DOMAIN Script : Script[i].op = "patch"}
Writes  == {i \in DOMAIN Script : Script[i].op \in {"patch", "flash"}}

(* An image that is patched in place is not the mere beginning of the new   *)
(* one: LoadPartitionContents stops at the shortest contents that match.    *)
ASSUME ImageAssumption ==
  \A i \in Patches : Script[i].src = Script[i].tgt =>
    (IsPrefix(Source[Script[i].src], Target[Script[i].tgt]) => Source[Script[i].src] = Target[Script[i].tgt])

(* LoadPartitionContents: the shortest contents of the name that the        *)
(* partition begins with, or None.                                          *)
Load(disk, p, names) ==
  LET found == {c \in names : Len(c) <= Len(disk[p]) /\ SubSeq(disk[p], 1, Len(c)) = c}
  IN  IF found = {} THEN None
      ELSE CHOOSE c \in found : \A d \in found : Len(c) <= Len(d)

SourceNameOf(call) ==
  {Source[call.src]} \cup IF call.src = call.tgt THEN {Target[call.tgt]} ELSE {}

(* What a check finds on the partition: contents of its name which are also *)
(* on its list, if it has one.                                              *)
OnPartition(disk, call) ==
  LET c == Load(disk, call.src, SourceNameOf(call))
  IN  c # None /\ (call.sha1 = {} \/ c \in call.sha1)

(* A script for this device: its checks pass on it, its patches find their  *)
(* sources on it, unless they are done already, and none reads a partition  *)
(* that an earlier call has rewritten.  Damage is never mistaken for an     *)
(* image.                                                                   *)
ASSUME ScriptAssumption ==
  /\ \A i \in DOMAIN Script : Script[i].op = "check" => OnPartition(Device, Script[i])
  /\ \A i \in Patches : LET s == Script[i].src
                           t == Script[i].tgt
                       IN  IsPrefix(Source[s], Device[s]) \/ IsPrefix(Target[t], Device[t])
  /\ \A i \in Patches, k \in Writes : k < i => Script[k].tgt # Script[i].src
  /\ \A p \in Parts : Junk \notin ToSet(Source[p])

VARIABLES
  pc, line,     \* where in the function, and in the script
  data,         \* what is going to be saved, then written
  copy,         \* does it come from saved.file?
  start, attempt,
  device, platter,
  saved, undo,  \* saved.file: its contents, or None
  deleted,      \* files of /cache that have been deleted
  applied,      \* partitions whose patch or flash has succeeded
  blind,        \* partitions that were not read as they are on the medium:
                \* only in the page cache, or not at all though they had the target
  cut,          \* a power loss or error hit the save of a copy of saved.file
  is_retry, losses, errors

memory == <<data, copy, start, attempt>>
disks  == <<device, platter>>
cache  == <<saved, undo, deleted>>
notes  == <<applied, blind, cut>>
vars == <<pc, line, memory, disks, cache, notes, is_retry, losses, errors>>

IsDisk(d) == d \in [Parts -> Seq(Pieces)] /\ \A p \in Parts : Len(d[p]) = Len(Device[p])

(* The state is well typed; a write position never leaves the data.         *)
TypeOK ==
  /\ pc \in {"next", "load", "room", "open", "save", "apply", "write", "verify", "unlink",
             "boot", "done", "failed"}
  /\ line \in 1..(Len(Script) + 1)
  /\ data \in Contents \cup {<<>>} /\ start \in 0..Len(data) /\ attempt \in 0..1
  /\ IsDisk(device) /\ IsDisk(platter)
  /\ saved \in Contents \cup {<<>>, None} /\ undo \in Contents \cup {<<>>, None}
  /\ deleted \subseteq DOMAIN Files
  /\ applied \subseteq Parts /\ blind \subseteq Parts
  /\ copy \in BOOLEAN /\ cut \in BOOLEAN /\ is_retry \in BOOLEAN
  /\ losses \in 0..MaxLosses /\ errors \in 0..MaxErrors

Call  == Script[line]
src   == Call.src
tgt   == Call.tgt
SourceName == SourceNameOf(Call)
TargetName == IF src = tgt THEN SourceName ELSE {Target[tgt]}
Fails == errors < MaxErrors /\ errors' = errors + 1

Goto(place) == pc' = place /\ UNCHANGED line
Forget      == data' = <<>> /\ copy' = FALSE /\ start' = 0 /\ attempt' = 0
(* The script goes on, or aborts, as each call stands in an assert.         *)
Return(ok)  == /\ IF ok THEN pc' = "next" /\ line' = line + 1 ELSE Goto("failed")
               /\ Forget

-----------------------------------------------------------------------------
(* FindMatchingPatch: a patch is for one source.                            *)
Found(contents) == contents = Source[src]

(* applypatch_check: the partition, or else saved.file, has one of the      *)
(* SHA-1s of the list.  A partition needs no list, as its name has the      *)
(* SHA-1s too.                                                              *)
PartitionPasses == OnPartition(device, Call)
SavedPasses     == saved # None /\ saved \in Call.sha1
MutCheckPasses == PartitionPasses
CheckPasses == PartitionPasses \/ SavedPasses
(* Either read may fail.                                                    *)
ApplypatchCheck ==
  /\ pc = "next" /\ line <= Len(Script) /\ Call.op = "check"
  /\ \/ Return(CheckPasses) /\ UNCHANGED errors
     \/ Fails /\ \E passes \in {PartitionPasses, SavedPasses} : Return(passes)
  /\ UNCHANGED <<disks, cache, notes, is_retry, losses>>

-----------------------------------------------------------------------------
(* freecache.cpp *)

Used(file, gone) == FoldSet(LAMBDA f, n : n + Files[f], 0, DOMAIN Files \ gone)
                    + (IF file = None THEN 0 ELSE Len(file))
FreeSpace(file, gone) == CacheSize - Used(file, gone)

FindExpendableFiles(gone) == (DOMAIN Files \ OpenFiles) \ gone

(* The files that get deleted.  The loop stops at a file whose deletion     *)
(* still leaves too little, and goes on otherwise.                          *)
Deletes(file, gone, needed) ==
  LET files == FindExpendableFiles(gone)
      first == Min(files)
  IN  IF FreeSpace(file, gone) >= needed \/ files = {} THEN {}
      ELSE IF FreeSpace(file, gone \cup {first}) < needed THEN {first} ELSE files
HasSpace(file, gone, needed) == FreeSpace(file, gone \cup Deletes(file, gone, needed)) >= needed

MutMakeFreeSpace(needed) ==
  /\ deleted' = deleted \cup Deletes(saved, deleted, needed)
  /\ saved' = IF deleted' = deleted THEN saved ELSE None
  /\ undo' = saved'
MakeFreeSpace(needed) ==
  deleted' = deleted \cup Deletes(saved, deleted, needed) /\ UNCHANGED <<saved, undo>>

ApplyPatchSpace ==
  /\ pc = "next" /\ line <= Len(Script) /\ Call.op = "space"
  /\ IF is_retry THEN Return(TRUE) /\ UNCHANGED cache
     ELSE Return(HasSpace(saved, deleted, Call.bytes)) /\ MakeFreeSpace(Call.bytes)
  /\ UNCHANGED <<disks, notes, is_retry, losses, errors>>

-----------------------------------------------------------------------------
(* applypatch and GenerateTarget *)

Begin ==
  /\ pc = "next" /\ line <= Len(Script) /\ Call.op \in {"patch", "flash"}
  /\ Goto("load")
  /\ UNCHANGED <<memory, disks, cache, notes, is_retry, losses, errors>>

(* The early exit, which trusts the page cache.                             *)
Already ==
  /\ applied' = applied \cup {tgt}
  /\ blind' = IF Load(platter, tgt, {Target[tgt]}) = None THEN blind \cup {tgt} ELSE blind

(* The partition is going to be written, although it may have the target,   *)
(* if reading it failed.                                                    *)
Missed ==
  /\ blind' = IF Load(device, tgt, {Target[tgt]}) = None THEN blind ELSE blind \cup {tgt}
  /\ UNCHANGED applied

(* With what was read of the target, of the source and of saved.file (None  *)
(* if nothing was): the target is there already; or the source is taken     *)
(* from the target or source partition, or else from saved.file.            *)
LoadFrom(t, s, c) ==
  LET from == IF t # None /\ src = tgt THEN t ELSE s
  IN  \/ /\ t = Target[tgt]
         /\ Already /\ Return(TRUE)
      \/ /\ t # Target[tgt] /\ Found(from)
         /\ Goto("room") /\ data' = from /\ copy' = FALSE
         /\ Missed /\ UNCHANGED <<start, attempt>>
      \/ /\ t # Target[tgt] /\ ~Found(from) /\ Found(c)
         /\ Goto("room") /\ data' = c /\ copy' = TRUE
         /\ Missed /\ UNCHANGED <<start, attempt>>
      \/ /\ t # Target[tgt] /\ ~Found(from) /\ ~Found(c)
         /\ Missed /\ Return(FALSE)

(* Each of the three reads may fail.                                        *)
LoadSource ==
  LET t == Load(device, tgt, TargetName)
      s == Load(device, src, SourceName)
  IN  /\ pc = "load" /\ Call.op = "patch"
      /\ \/ LoadFrom(t, s, saved) /\ UNCHANGED errors
         \/ Fails /\ (LoadFrom(None, s, saved) \/ LoadFrom(t, None, saved) \/ LoadFrom(t, s, None))
      /\ UNCHANGED <<disks, cache, cut, is_retry, losses>>

(* applypatch_flash, whose source is an image file.  With a source that     *)
(* cannot be read nothing is left to write, and the write fails; a target   *)
(* that cannot be read is written.                                          *)
LoadImage ==
  /\ pc = "load" /\ Call.op = "flash"
  /\ \/ /\ Load(device, tgt, {Target[tgt]}) = Target[tgt]
        /\ Already /\ Return(TRUE) /\ UNCHANGED errors
     \/ /\ IF Load(device, tgt, {Target[tgt]}) = None THEN UNCHANGED errors ELSE Fails
        /\ Goto("write") /\ data' = Target[tgt]
        /\ Missed /\ UNCHANGED <<copy, start, attempt>>
     \/ /\ Load(device, tgt, {Target[tgt]}) = None
        /\ Fails /\ Return(FALSE) /\ UNCHANGED <<applied, blind>>
  /\ UNCHANGED <<disks, cache, cut, is_retry, losses>>

MakeRoom ==
  /\ pc = "room" /\ MakeFreeSpace(Len(data))
  /\ IF HasSpace(saved, deleted, Len(data)) THEN Goto("open") /\ UNCHANGED memory ELSE Return(FALSE)
  /\ UNCHANGED <<disks, notes, is_retry, losses, errors>>

(* SaveFileContents: O_TRUNC, then the synchronous write.  The fsync of a   *)
(* new file commits its name too, as ext4, the file system of /cache, does. *)
OpenSaved ==
  /\ pc = "open"
  /\ \/ Goto("save") /\ saved' = <<>> /\ undo' = saved /\ UNCHANGED <<memory, errors>>
     \/ Fails /\ Return(FALSE) /\ UNCHANGED <<saved, undo>>
  /\ UNCHANGED <<disks, deleted, notes, is_retry, losses>>
SaveSource ==
  /\ pc = "save"
  /\ \/ /\ Goto("apply") /\ saved' = data /\ undo' = data
        /\ UNCHANGED <<memory, cut, errors>>
     \/ /\ Fails /\ Return(FALSE) /\ cut' = (cut \/ copy)
        /\ UNCHANGED <<saved, undo>>
  /\ UNCHANGED <<disks, deleted, applied, blind, is_retry, losses>>

(* The patch is applied in memory; its result has to have the target's hash. *)
ApplyInMemory ==
  /\ pc = "apply"
  /\ \/ Goto("write") /\ data' = Target[tgt] /\ UNCHANGED <<copy, start, attempt, errors>>
     \/ Fails /\ Return(FALSE)
  /\ UNCHANGED <<disks, cache, notes, is_retry, losses>>

-----------------------------------------------------------------------------
(* WriteToPartition *)

WritePiece ==
  /\ pc = "write" /\ start < Len(data)
  /\ \/ /\ device' = [device EXCEPT ![tgt][start + 1] = data[start + 1]]
        /\ start' = start + 1
        /\ Goto(pc) /\ UNCHANGED <<data, copy, attempt, errors>>
     \/ Fails /\ Return(FALSE) /\ UNCHANGED device
  /\ UNCHANGED <<platter, cache, notes, is_retry, losses>>

(* fsync, sync and drop_caches.  A piece may reach the medium damaged.      *)
SyncPartition ==
  LET flawed == {[device[tgt] EXCEPT ![i] = Junk] : i \in 1..Len(data)}
  IN  /\ pc = "write" /\ start = Len(data)
      /\ undo' = saved
      /\ \/ /\ Goto("verify") /\ platter' = device
            /\ UNCHANGED <<memory, device, blind, errors>>
         \/ /\ Goto("verify") /\ Fails
            /\ \E flaw \in flawed : platter' = [device EXCEPT ![tgt] = flaw] /\ device' = platter'
            /\ UNCHANGED <<memory, blind>>
         \/ /\ Goto("verify") /\ platter' = device
            /\ Fails /\ blind' = blind \cup {tgt}
            /\ UNCHANGED <<memory, device>>
         \/ Fails /\ Return(FALSE) /\ UNCHANGED <<disks, blind>>
      /\ UNCHANGED <<saved, deleted, applied, cut, is_retry, losses>>

(* The first difference is where the second attempt starts to write.        *)
MutDiffers == {i \in 1..(Len(data) - 1) : device[tgt][i] # data[i]}
Differs == {i \in 1..Len(data) : device[tgt][i] # data[i]}
Verify ==
  /\ pc = "verify"
  /\ \/ Differs = {} /\ Goto("unlink") /\ UNCHANGED <<memory, errors>>
     \/ /\ Differs # {} /\ attempt = 0
        /\ Goto("write") /\ start' = Min(Differs) - 1 /\ attempt' = 1
        /\ UNCHANGED <<data, copy, errors>>
     \/ Differs # {} /\ attempt = 1 /\ Return(FALSE) /\ UNCHANGED errors
     \/ Fails /\ Return(FALSE)
  /\ UNCHANGED <<disks, cache, notes, is_retry, losses>>

UnlinkSaved ==
  /\ pc = "unlink"
  /\ IF Call.op = "patch" THEN saved' = None /\ undo' = saved ELSE UNCHANGED <<saved, undo>>
  /\ applied' = applied \cup {tgt} /\ Return(TRUE)
  /\ UNCHANGED <<disks, deleted, blind, cut, is_retry, losses, errors>>

-----------------------------------------------------------------------------
ScriptEnds ==
  /\ pc = "next" /\ line > Len(Script) /\ Goto("done")
  /\ UNCHANGED <<memory, disks, cache, notes, is_retry, losses, errors>>

(* Recovery starts the script again, as a retry.  A failed script is        *)
(* started again by the user, as a new request.                             *)
Restart ==
  /\ pc = "boot" \/ (pc = "failed" /\ ~cut)
  /\ pc' = "next" /\ line' = 1
  /\ is_retry' = (pc = "boot") /\ UNCHANGED <<memory, disks, cache, notes, losses, errors>>

Unsynced == UNION {{<<p, i>> : i \in {j \in DOMAIN Device[p] : device[p][j] # platter[p][j]}} :
                     p \in Parts}
PowerLoss ==
  /\ pc \notin {"boot", "done"} /\ losses < MaxLosses /\ losses' = losses + 1
  /\ pc' = "boot" /\ line' = 1 /\ Forget
  /\ \E lost \in SUBSET Unsynced :
       platter' = [p \in Parts |-> [i \in DOMAIN Device[p] |->
                     IF <<p, i>> \in lost THEN platter[p][i] ELSE device[p][i]]]
  /\ device' = platter'
  /\ saved' \in {saved, undo} /\ undo' = saved'
  /\ cut' = (cut \/ (pc = "save" /\ copy))
  /\ is_retry' = FALSE
  /\ UNCHANGED <<deleted, applied, blind, errors>>

Init ==
  /\ pc = "next" /\ line = 1
  /\ data = <<>> /\ copy = FALSE /\ start = 0 /\ attempt = 0
  /\ device = Device /\ platter = Device
  /\ saved = None /\ undo = None /\ deleted = {}
  /\ applied = {} /\ blind = {} /\ cut = FALSE
  /\ is_retry = FALSE /\ losses = 0 /\ errors = 0

Rest == (pc = "done" \/ (pc = "failed" /\ cut)) /\ UNCHANGED vars

Next == \/ ApplypatchCheck \/ ApplyPatchSpace \/ Begin \/ LoadSource \/ LoadImage \/ MakeRoom
        \/ OpenSaved \/ SaveSource \/ ApplyInMemory \/ WritePiece \/ SyncPartition \/ Verify
        \/ UnlinkSaved \/ ScriptEnds \/ Restart \/ PowerLoss \/ Rest
Spec == Init /\ [][Next]_vars

-----------------------------------------------------------------------------
Patched == {Script[i].tgt : i \in Patches}
CallFor(p) == Script[CHOOSE i \in Patches : Script[i].tgt = p]
Holds(disk, p, contents) == SubSeq(disk[p], 1, Len(contents)) = contents

(* updater/install.cpp says of apply_patch: "it will not be left in an      *)
(* unrecoverable intermediate state".  When the script has to start again,  *)
(* each partition it patches holds its target, or its source is there, in   *)
(* its partition or in saved.file.                                          *)
NeverUnrecoverable ==
  pc \in {"boot", "failed"} =>
    \A p \in Patched : LET from == CallFor(p).src
                       IN  \/ Holds(device, p, Target[p])
                           \/ Holds(device, from, Source[from])
                           \/ saved = Source[from]

(* The same, but for the time in which saved.file is rewritten from its own *)
(* contents, and unless an fsync has failed and the next start took the     *)
(* page cache for the partition, or reading a partition that had its target *)
(* failed, so that it was patched once more.                                *)
SourceSurvives == cut \/ blind # {} \/ NeverUnrecoverable

(* What apply_patch or a flash has reported as done is on the medium, read  *)
(* back past the page cache, and stays there; with the same two exceptions  *)
(* of a failed fsync and of a failed read.                                  *)
AppliedIsOnMedium == \A p \in applied \ blind : Holds(platter, p, Target[p])

(* A check that holds as well when the script starts again: of a partition  *)
(* that is never written, or that is patched in place, and then with the    *)
(* SHA-1 of the old and of the new contents on the list.                    *)
Repeatable(call) ==
  \/ \A k \in Writes : Script[k].tgt # call.src
  \/ /\ call.src = call.tgt /\ {Source[call.src], Target[call.src]} \subseteq call.sha1
     /\ \E k \in Patches : Script[k].src = call.src /\ Script[k].tgt = call.src

(* MakeFreeSpaceOnCache gave up, as it does after one file, if that leaves  *)
(* too little.                                                              *)
NoRoom == \/ Call.op = "space" /\ ~(FreeSpace(saved, deleted) >= Call.bytes)
          \/ Call.op = "patch" /\ ~(FreeSpace(saved, deleted) >= Len(Source[src]))

(* Power losses alone never make the script fail: each check and each patch *)
(* of a restarted script finds what it needs.  The exceptions: the loss of  *)
(* saved.file while it is rewritten from its own contents, a /cache without *)
(* room for saved.file, and a check that lists only the hash of the source, *)
(* or none, of a partition that the script patches.                         *)
FailsForAReason ==
  pc = "failed" => \/ errors > 0 \/ cut
                   \/ NoRoom
                   \/ Call.op = "check" /\ ~Repeatable(Call)

=============================================================================
