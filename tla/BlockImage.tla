------------------------------ MODULE BlockImage ------------------------------
(***************************************************************************)
(* block_image_verify() and block_image_update() of updater/blockimg.cpp:  *)
(* the in-place, resumable update of block devices from a transfer list.   *)
(*                                                                         *)
(* The updater runs the calls of the package's script in order.  Each call *)
(* walks the transfer list of one partition, either as a dry run (verify)  *)
(* or writing (update).  The machine may lose power between any two steps; *)
(* recovery then starts the whole script again.  What survives is          *)
(*   - platter: the blocks of the partitions that reached the medium,      *)
(*   - cacheD : the part of /cache that was committed: the stash           *)
(*              directories, the stash files and the last_command_file.    *)
(* disk and cache are the same things as the running kernel sees them.     *)
(*                                                                         *)
(* Abstractions.  A block is one model value.  A SHA-1 names exactly one   *)
(* content, so VerifyBlocks compares contents and a stash file is fully    *)
(* described by its name and by whether its data is intact.  A transfer    *)
(* (move, bsdiff, imgdiff) that gets verified source data produces the     *)
(* target content `out'.  Commands are numbered from 1 and 0 stands for    *)
(* the -1 of the code ("no saved command").                                *)
(***************************************************************************)
EXTENDS Naturals, Sequences, FiniteSets

CONSTANTS
  Blocks,       \* the blocks of all partitions
  Data,         \* the contents a block can have
  Junk,         \* undefined content: what BLKDISCARD leaves behind
  Zeroes,       \* the content written by "zero"
  Source,       \* the content of the blocks before the update
  Target,       \* the content the package is meant to produce, of the blocks it sets
  Parts,        \* the partitions
  Ids,          \* the stash ids
  Content,      \* Content[id]: the blocks whose SHA-1 is id
  Lists,        \* Lists[p]: the transfer list of partition p
  NewData,      \* NewData[p]: the blocks of its new data stream
  Script,       \* the sequence of calls [fn, part] of the package's script
  MaxCrashes,   \* bound: power losses
  MaxErrors     \* bound: failing system calls

NoId == "no stash id"

Ops == {"move", "diff", "stash", "free", "zero", "new", "erase"}

Command ==
  [op : Ops, id : Ids \cup {NoId}, src : Seq(Blocks), want : Seq(Data), use : SUBSET Ids,
   tgt : Seq(Blocks), out : Seq(Data)]

ASSUME DataAssumption ==
  /\ Junk \in Data /\ Zeroes \in Data
  /\ Source \in [Blocks -> Data]
  /\ DOMAIN Target \subseteq Blocks
  /\ NewData \in [Parts -> Seq(Data)]

ASSUME IdsAssumption ==
  /\ NoId \notin Ids
  /\ Content \in [Ids -> Seq(Data)]

ASSUME ScriptAssumption == Script \in Seq([fn : {"verify", "update"}, part : Parts])

ASSUME ListsAssumption == Lists \in [Parts -> Seq(Command)]

(* Transfers, stash and free carry an id, and what a command writes has the *)
(* size of its target.                                                      *)
ASSUME CommandsAssumption ==
  \A p \in Parts : \A i \in 1..Len(Lists[p]) :
    /\ Lists[p][i].op \in {"move", "diff", "stash", "free"} => Lists[p][i].id \in Ids
    /\ Lists[p][i].op \in {"move", "diff", "zero", "new"} =>
         Len(Lists[p][i].out) = Len(Lists[p][i].tgt)

ASSUME BoundsAssumption == MaxCrashes \in Nat /\ MaxErrors \in Nat

VARIABLES
  disk,         \* the blocks as read() returns them
  platter,      \* the blocks as they would be read after a power loss
  cache,        \* /cache: [dir, file, last], see CacheType
  cacheD,       \* the committed part of /cache
  pc,           \* where the updater is
  call,         \* the position in Script
  idx,          \* params.cmdindex
  saved,        \* saved_last_command_index
  created,      \* params.createdstash
  freestash,    \* params.freestash
  partial,      \* the .partial file: "none", "dirty" or "synced"
  wpos,         \* blocks of the current target already written
  newpos,       \* blocks of the new data stream already consumed
  stash_map,    \* the source range of the ids stashed during verification
  ok,           \* rc == 0
  unresumable,  \* params.isunresumable
  eio,          \* have_eio_error: the updater will ask for a retry
  is_retry,     \* recovery passed "retry" to the updater
  crashes,      \* power losses so far
  errors,       \* failed system calls so far
  gone          \* the ways in which the code itself lost data it still needed

proc == <<call, idx, saved, created, freestash, partial, wpos, newpos, stash_map, ok,
          unresumable, eio, is_retry>>
store == <<disk, platter, cache, cacheD>>
faults == <<crashes, errors, gone>>
vars == <<store, pc, proc, faults>>

(* An unlink committed before the writes that precede it ("unlinked"), and   *)
(* the file of a later stash of the same id freed ("duplicate").            *)
Losses == {"unlinked", "duplicate"}

FileState == {"absent", "dirty", "whole", "torn"}
CacheType == [dir  : [Parts -> BOOLEAN],
              file : [Parts -> [Ids -> FileState]],
              last : Nat]

(* Program points.  "cmd" is the head of the command loop; the points up to *)
(* "sync" are inside one command of an update, the rest is pbiudone.        *)
InCommand == {"partial", "fsync", "rename", "index", "discard", "write", "free", "sync"}
InCall    == {"cmd"} \cup InCommand
Points    == {"boot", "call", "finish", "cleanup", "retry", "end", "abort"} \cup InCall

StoreType ==
  /\ disk \in [Blocks -> Data] /\ platter \in [Blocks -> Data]
  /\ cache \in CacheType /\ cacheD \in CacheType
PlaceType ==
  /\ pc \in Points
  /\ call \in Nat \ {0} /\ idx \in Nat \ {0} /\ saved \in Nat
  /\ wpos \in Nat /\ newpos \in Nat
  /\ crashes \in Nat /\ errors \in Nat /\ gone \subseteq Losses
StashType ==
  /\ freestash \in Ids \cup {NoId}
  /\ partial \in {"none", "dirty", "synced"}
  /\ stash_map \in [Ids -> Seq(Blocks)]
FlagType ==
  /\ created \in BOOLEAN /\ ok \in BOOLEAN /\ unresumable \in BOOLEAN
  /\ eio \in BOOLEAN /\ is_retry \in BOOLEAN

TypeOK == StoreType /\ PlaceType /\ StashType /\ FlagType

-----------------------------------------------------------------------------
part     == Script[call].part
canwrite == Script[call].fn = "update"
list     == Lists[part]
cmd      == list[idx]

BlocksOf(s) == {s[k] : k \in 1..Len(s)}
Overlap(c)  == BlocksOf(c.src) \cap BlocksOf(c.tgt) # {}
ReadBlocks(s) == [k \in 1..Len(s) |-> disk[s[k]]]

DeleteFile(ca, p, id) == [ca EXCEPT !.file[p][id] = "absent"]
DeleteLastCommandFile(ca) == [ca EXCEPT !.last = 0]
DeleteStash(ca, p) ==
  [ca EXCEPT !.file[p] = [id \in Ids |-> "absent"], !.dir[p] = FALSE]

(* LoadStash succeeds with the right data.  A dry run looks at the source   *)
(* blocks recorded in stash_map first, and then does not look further.      *)
MapHas(id) == ~canwrite /\ stash_map[id] # <<>>
LoadStash(id) ==
  IF MapHas(id) THEN ReadBlocks(stash_map[id]) = Content[id]
                ELSE cache.file[part][id] \in {"dirty", "whole"}

(* A stash file that was opened with verify = true and fails is deleted.    *)
AfterBadStash(id) ==
  IF ~MapHas(id) /\ cache.file[part][id] = "torn" THEN DeleteFile(cache, part, id) ELSE cache

(* LoadSrcTgtVersion3: the three questions it asks, in this order.          *)
TargetDone(c)  == ReadBlocks(c.tgt) = c.out
SourceGood(c)  == /\ ReadBlocks(c.src) = c.want
                  /\ \A h \in c.use : LoadStash(h)
SourceSaved(c) == /\ Overlap(c)
                  /\ LoadStash(c.id)

Transfer == {"move", "diff"}

(* Transfer i of p takes the data that command k of p stashes: no command   *)
(* between them frees it.                                                   *)
Uses(p, i, k) ==
  /\ k < i /\ Lists[p][i].op \in Transfer /\ Lists[p][k].id \in Lists[p][i].use
  /\ ~\E f \in (k + 1)..(i - 1) : Lists[p][f].op = "free" /\ Lists[p][f].id = Lists[p][k].id

AtCommand(mode, ops) ==
  /\ pc = "cmd"
  /\ Script[call].fn = mode
  /\ idx <= Len(list)
  /\ cmd.op \in ops

NextCommand ==
  /\ pc' = "cmd"
  /\ idx' = idx + 1

-----------------------------------------------------------------------------
Init ==
  /\ disk = Source /\ platter = Source
  /\ cache = [dir |-> [p \in Parts |-> FALSE],
              file |-> [p \in Parts |-> [id \in Ids |-> "absent"]], last |-> 0]
  /\ cacheD = cache
  /\ pc = "boot"
  /\ call = 1 /\ idx = 1 /\ saved = 0
  /\ created = FALSE /\ freestash = NoId /\ partial = "none"
  /\ wpos = 0 /\ newpos = 0
  /\ stash_map = [id \in Ids |-> <<>>]
  /\ ok = FALSE /\ unresumable = FALSE /\ eio = FALSE /\ is_retry = FALSE
  /\ crashes = 0 /\ errors = 0 /\ gone = {}

(* Recovery starts the updater: a new process, with its statics at their    *)
(* initial values.  Any attempt but the first is a retry.                   *)
Boot ==
  /\ pc = "boot"
  /\ pc' = "call"
  /\ call' = 1 /\ idx' = 1 /\ saved' = 0
  /\ created' = FALSE /\ freestash' = NoId /\ partial' = "none"
  /\ wpos' = 0 /\ newpos' = 0
  /\ stash_map' = [id \in Ids |-> <<>>]
  /\ ok' = FALSE /\ unresumable' = FALSE /\ eio' = FALSE
  /\ is_retry' = (crashes > 0 \/ eio)
  /\ UNCHANGED <<store, faults>>

(* PerformBlockImageUpdate up to the command loop: CreateStash (an existing *)
(* directory loses its .partial files) and ParseLastCommandFile.            *)
StartCall ==
  /\ pc = "call"
  /\ call <= Len(Script)
  /\ created' = ~cache.dir[part]
  /\ cache' = [cache EXCEPT !.dir[part] = TRUE]
  /\ saved' = cache.last
  /\ idx' = 1 /\ newpos' = 0 /\ wpos' = 0
  /\ freestash' = NoId /\ partial' = "none"
  /\ ok' = FALSE /\ unresumable' = FALSE
  /\ pc' = "cmd"
  /\ UNCHANGED <<disk, platter, cacheD, call, stash_map, eio, is_retry, faults>>

(* No room for the stash: the script aborts, the new directory stays.       *)
CreateStashFails ==
  /\ pc = "call"
  /\ call <= Len(Script)
  /\ errors < MaxErrors
  /\ errors' = errors + 1
  /\ cache' = [cache EXCEPT !.dir[part] = TRUE]
  /\ pc' = "abort"
  /\ UNCHANGED <<disk, platter, cacheD, proc, crashes, gone>>

ScriptEnd ==
  /\ pc = "call"
  /\ call > Len(Script)
  /\ pc' = "end"
  /\ UNCHANGED <<store, proc, faults>>

ListEnd ==
  /\ pc = "cmd"
  /\ idx > Len(list)
  /\ ok' = TRUE
  /\ pc' = "finish"
  /\ UNCHANGED <<store, call, idx, saved, created, freestash, partial, wpos, newpos, stash_map,
                 unresumable, eio, is_retry, faults>>

(* goto pbiudone with rc = -1 because no valid source data is left.         *)
Unresumable ==
  /\ unresumable' = TRUE
  /\ pc' = "finish"
  /\ UNCHANGED idx

-----------------------------------------------------------------------------
(* The dry run: block_image_verify.                                         *)

(* "zero", "new" and "erase" have no function in the dry run.               *)
VerifySkip ==
  /\ AtCommand("verify", {"zero", "new", "erase"})
  /\ NextCommand
  /\ UNCHANGED <<store, call, saved, created, freestash, partial, wpos, newpos, stash_map, ok,
                 unresumable, eio, is_retry, faults>>

(* Mutants: a definition named Mut... is the definition that follows with   *)
(* one fault planted in it.  No specification uses them.                    *)
(* Mutant: the saved index survives a transfer that has to be redone.       *)
MutVerifyTransfer ==
  /\ AtCommand("verify", Transfer)
  /\ IF TargetDone(cmd) \/ SourceGood(cmd) \/ SourceSaved(cmd)
     THEN NextCommand /\ UNCHANGED unresumable
     ELSE Unresumable
  /\ UNCHANGED <<store, call, saved, created, freestash, partial, wpos, newpos, stash_map, ok,
                 eio, is_retry, faults>>

(* A transfer up to the saved index that has not produced its target makes  *)
(* the saved index worthless: it is forgotten, also on /cache.              *)
VerifyTransfer ==
  /\ AtCommand("verify", Transfer)
  /\ IF TargetDone(cmd)
     THEN NextCommand /\ UNCHANGED <<cache, saved, unresumable>>
     ELSE IF SourceGood(cmd) \/ SourceSaved(cmd)
     THEN /\ NextCommand
          /\ saved' = IF idx <= saved THEN 0 ELSE saved
          /\ cache' = IF idx <= saved THEN DeleteLastCommandFile(cache) ELSE cache
          /\ UNCHANGED unresumable
     ELSE /\ Unresumable
          /\ cache' = IF Overlap(cmd) THEN AfterBadStash(cmd.id) ELSE cache
          /\ UNCHANGED saved
  /\ UNCHANGED <<disk, platter, cacheD, call, created, freestash, partial, wpos, newpos,
                 stash_map, ok, eio, is_retry, faults>>

VerifyStash ==
  /\ AtCommand("verify", {"stash"})
  /\ NextCommand
  /\ IF LoadStash(cmd.id)
     THEN UNCHANGED <<cache, stash_map>>
     ELSE /\ stash_map' = [stash_map EXCEPT ![cmd.id] = cmd.src]
          /\ cache' = AfterBadStash(cmd.id)
  /\ UNCHANGED <<disk, platter, cacheD, call, saved, created, freestash, partial, wpos, newpos,
                 ok, unresumable, eio, is_retry, faults>>

(* The dry run frees a stash file only in a directory it created itself.    *)
VerifyFree ==
  /\ AtCommand("verify", {"free"})
  /\ NextCommand
  /\ stash_map' = [stash_map EXCEPT ![cmd.id] = <<>>]
  /\ cache' = IF created THEN DeleteFile(cache, part, cmd.id) ELSE cache
  /\ UNCHANGED <<disk, platter, cacheD, call, saved, created, freestash, partial, wpos, newpos,
                 ok, unresumable, eio, is_retry, faults>>

-----------------------------------------------------------------------------
(* The update: block_image_update.                                          *)

(* Mutant: one command too many is skipped.                                 *)
MutUpdateSkip ==
  /\ AtCommand("update", Ops)
  /\ saved > 0 /\ idx <= saved + 1
  /\ NextCommand
  /\ UNCHANGED <<store, call, saved, created, freestash, partial, wpos, newpos, stash_map, ok,
                 unresumable, eio, is_retry, faults>>

UpdateSkip ==
  /\ AtCommand("update", Ops)
  /\ idx <= saved
  /\ NextCommand
  /\ UNCHANGED <<store, call, saved, created, freestash, partial, wpos, newpos, stash_map, ok,
                 unresumable, eio, is_retry, faults>>

(* move, bsdiff, imgdiff up to the first write.  An overlapping source is   *)
(* stashed first, unless a file of that name exists already; a new file may *)
(* be deleted once the command has completed.                               *)
UpdateTransfer ==
  /\ AtCommand("update", Transfer)
  /\ idx > saved
  /\ wpos' = 0
  /\ UNCHANGED <<disk, platter, cacheD, call, saved, created, partial, newpos, stash_map, ok, eio,
                 is_retry, faults>>
  /\ \/ /\ TargetDone(cmd)
        /\ pc' = "free"
        /\ UNCHANGED <<cache, idx, freestash, unresumable>>
     \/ /\ ~TargetDone(cmd)
        /\ SourceGood(cmd)
        /\ IF ~Overlap(cmd)
           THEN pc' = "discard" /\ UNCHANGED freestash
           ELSE IF cache.file[part][cmd.id] # "absent"
           THEN pc' = "index" /\ UNCHANGED freestash
           ELSE pc' = "partial" /\ freestash' = cmd.id
        /\ UNCHANGED <<cache, idx, unresumable>>
     \/ /\ ~TargetDone(cmd)
        /\ ~SourceGood(cmd)
        /\ SourceSaved(cmd)
        /\ pc' = "discard"
        /\ UNCHANGED <<cache, idx, freestash, unresumable>>
     \/ /\ ~TargetDone(cmd)
        /\ ~SourceGood(cmd)
        /\ ~SourceSaved(cmd)
        /\ Unresumable
        /\ cache' = IF Overlap(cmd) THEN AfterBadStash(cmd.id) ELSE cache
        /\ UNCHANGED freestash

(* Mutant: a source that does not match fails the stash command.            *)
MutUpdateStash ==
  /\ AtCommand("update", {"stash"})
  /\ idx > saved
  /\ stash_map' = [stash_map EXCEPT ![cmd.id] = cmd.src]
  /\ pc' = IF LoadStash(cmd.id) THEN "sync"
           ELSE IF ReadBlocks(cmd.src) = Content[cmd.id] THEN "partial" ELSE "finish"
  /\ UNCHANGED <<store, call, idx, saved, created, freestash, partial, wpos,
                 newpos, ok, unresumable, eio, is_retry, faults>>

(* stash.  A file with the right content is kept: the source may have been  *)
(* overwritten by an earlier attempt.  A source that does not match is not  *)
(* an error here.                                                           *)
UpdateStash ==
  /\ AtCommand("update", {"stash"})
  /\ idx > saved
  /\ IF LoadStash(cmd.id)
     THEN pc' = "sync" /\ UNCHANGED <<cache, stash_map>>
     ELSE /\ stash_map' = [stash_map EXCEPT ![cmd.id] = cmd.src]
          /\ cache' = AfterBadStash(cmd.id)
          /\ pc' = IF ReadBlocks(cmd.src) = Content[cmd.id] THEN "partial" ELSE "sync"
  /\ UNCHANGED <<disk, platter, cacheD, call, idx, saved, created, freestash, partial, wpos,
                 newpos, ok, unresumable, eio, is_retry, faults>>

(* The file that is freed may be that of a later stash of the same id, made *)
(* before a power loss: then the source of that stash may be overwritten.   *)
Duplicate ==
  /\ cache.file[part][cmd.id] # "absent"
  /\ \E k \in (idx + 1)..Len(list) :
       /\ list[k].op = "stash" /\ list[k].id = cmd.id
       /\ ReadBlocks(list[k].src) # Content[cmd.id]
       /\ \E i \in 1..Len(list) : Uses(part, i, k) /\ ~TargetDone(list[i])

UpdateFree ==
  /\ AtCommand("update", {"free"})
  /\ idx > saved
  /\ stash_map' = [stash_map EXCEPT ![cmd.id] = <<>>]
  /\ cache' = DeleteFile(cache, part, cmd.id)
  /\ gone' = IF Duplicate THEN gone \cup {"duplicate"} ELSE gone
  /\ pc' = "sync"
  /\ UNCHANGED <<disk, platter, cacheD, call, idx, saved, created, freestash, partial, wpos,
                 newpos, ok, unresumable, eio, is_retry, crashes, errors>>

UpdateWrite ==
  /\ AtCommand("update", {"zero", "new", "erase"})
  /\ idx > saved
  /\ wpos' = 0
  /\ pc' = "discard"
  /\ UNCHANGED <<store, call, idx, saved, created, freestash, partial, newpos, stash_map, ok,
                 unresumable, eio, is_retry, faults>>

(* WriteStash: write the .partial file, fsync it, rename it, fsync the      *)
(* directory.  The last two are one step: a power loss between them leaves  *)
(* /cache as before the rename or as after it.                              *)
WritePartial ==
  /\ pc = "partial"
  /\ partial' = "dirty"
  /\ pc' = "fsync"
  /\ UNCHANGED <<store, call, idx, saved, created, freestash, wpos, newpos, stash_map, ok,
                 unresumable, eio, is_retry, faults>>

(* Mutant: the .partial file is renamed without an fsync.                   *)
MutFsyncPartial ==
  /\ pc = "fsync"
  /\ pc' = "rename"
  /\ UNCHANGED <<store, proc, faults>>

FsyncPartial ==
  /\ pc = "fsync"
  /\ partial' = "synced"
  /\ pc' = "rename"
  /\ UNCHANGED <<store, call, idx, saved, created, freestash, wpos, newpos, stash_map, ok,
                 unresumable, eio, is_retry, faults>>

(* Mutant: the directory is not synced after the rename.                    *)
MutRenamePartial ==
  /\ pc = "rename"
  /\ cache' = [cache EXCEPT !.file[part][cmd.id] = IF partial = "synced" THEN "whole" ELSE "dirty"]
  /\ partial' = "none"
  /\ pc' = "index"
  /\ UNCHANGED <<disk, platter, cacheD, call, idx, saved, created, freestash, wpos, newpos,
                 stash_map, ok, unresumable, eio, is_retry, faults>>

RenamePartial ==
  /\ pc = "rename"
  /\ cache' = [cache EXCEPT !.file[part][cmd.id] = IF partial = "synced" THEN "whole" ELSE "dirty"]
  /\ cacheD' = cache'
  /\ partial' = "none"
  /\ pc' = "index"
  /\ UNCHANGED <<disk, platter, call, idx, saved, created, freestash, wpos, newpos, stash_map, ok,
                 unresumable, eio, is_retry, faults>>

(* UpdateLastCommandIndex: a temporary file, fsync, rename, fsync of the    *)
(* directory.  That it failed is only logged.                               *)
UpdateLastCommandIndex ==
  /\ pc = "index"
  /\ pc' = IF cmd.op = "stash" THEN "sync" ELSE "discard"
  /\ \/ /\ cache' = [cache EXCEPT !.last = idx]
        /\ cacheD' = cache'
        /\ UNCHANGED errors
     \/ /\ errors < MaxErrors
        /\ errors' = errors + 1
        /\ UNCHANGED <<cache, cacheD>>
  /\ UNCHANGED <<disk, platter, proc, crashes, gone>>

(* A retry discards the target first (BLKDISCARD goes to the device), and   *)
(* "erase" does nothing else.                                               *)
Discard ==
  /\ pc = "discard"
  /\ LET dropped == IF is_retry \/ cmd.op = "erase" THEN BlocksOf(cmd.tgt) ELSE {} IN
       /\ disk' = [b \in Blocks |-> IF b \in dropped THEN Junk ELSE disk[b]]
       /\ platter' = [b \in Blocks |-> IF b \in dropped THEN Junk ELSE platter[b]]
  /\ pc' = IF cmd.op = "erase" THEN "free" ELSE "write"
  /\ UNCHANGED <<cache, cacheD, proc, faults>>

(* WriteBlocks, RangeSinkWriter::Write, PerformCommandZero: block by block. *)
WriteBlock ==
  /\ pc = "write"
  /\ wpos < Len(cmd.tgt)
  /\ cmd.op = "new" => newpos < Len(NewData[part])
  /\ disk' = [disk EXCEPT ![cmd.tgt[wpos + 1]] =
                CASE cmd.op = "zero" -> Zeroes
                  [] cmd.op = "new"  -> NewData[part][newpos + 1]
                  [] OTHER           -> cmd.out[wpos + 1]]
  /\ newpos' = IF cmd.op = "new" THEN newpos + 1 ELSE newpos
  /\ wpos' = wpos + 1
  /\ UNCHANGED <<platter, cache, cacheD, pc, call, idx, saved, created, freestash, partial,
                 stash_map, ok, unresumable, eio, is_retry, faults>>

WriteEnd ==
  /\ pc = "write"
  /\ wpos = Len(cmd.tgt)
  /\ pc' = "free"
  /\ UNCHANGED <<store, proc, faults>>

(* The stash of an overlapping source goes before the partition is synced.  *)
FreeImplicitStash ==
  /\ pc = "free"
  /\ cache' = IF freestash # NoId THEN DeleteFile(cache, part, freestash) ELSE cache
  /\ freestash' = NoId
  /\ pc' = "sync"
  /\ UNCHANGED <<disk, platter, cacheD, call, idx, saved, created, partial, wpos, newpos,
                 stash_map, ok, unresumable, eio, is_retry, faults>>

(* Mutant: no fsync after a command.                                        *)
MutFsyncPartition ==
  /\ pc = "sync"
  /\ NextCommand
  /\ UNCHANGED <<store, call, saved, created, freestash, partial, wpos, newpos,
                 stash_map, ok, unresumable, eio, is_retry, faults>>

FsyncPartition ==
  /\ pc = "sync"
  /\ platter' = disk
  /\ NextCommand
  /\ UNCHANGED <<disk, cache, cacheD, call, saved, created, freestash, partial, wpos, newpos,
                 stash_map, ok, unresumable, eio, is_retry, faults>>

-----------------------------------------------------------------------------
(* pbiudone, in two steps because two things are deleted: a successful      *)
(* update deletes the stash and then the last_command_file, an unresumable  *)
(* call the other way round.  A dry run deletes the stash it created.       *)
Finish ==
  /\ pc = "finish"
  /\ cache' = IF canwrite /\ ok THEN DeleteStash(cache, part)
              ELSE IF unresumable THEN DeleteLastCommandFile(cache)
              ELSE cache
  /\ platter' = disk
  /\ pc' = "cleanup"
  /\ UNCHANGED <<disk, cacheD, proc, faults>>

Cleanup ==
  /\ pc = "cleanup"
  /\ cache' = IF canwrite /\ ok THEN DeleteLastCommandFile(cache)
              ELSE IF unresumable \/ (~canwrite /\ created) THEN DeleteStash(cache, part)
              ELSE cache
  /\ call' = IF ok THEN call + 1 ELSE call
  /\ pc' = IF ok THEN "call" ELSE IF eio THEN "retry" ELSE "abort"
  /\ UNCHANGED <<disk, platter, cacheD, idx, saved, created, freestash, partial, wpos, newpos,
                 stash_map, ok, unresumable, eio, is_retry, faults>>

(* Recovery is asked for a retry: copy_logs() calls sync(), then it reboots. *)
Retry ==
  /\ pc = "retry"
  /\ platter' = disk /\ cacheD' = cache
  /\ pc' = "boot"
  /\ UNCHANGED <<disk, cache, proc, faults>>

(* A system call on the partition or on the stash fails: the command        *)
(* returns -1 and the updater will report have_eio_error.                   *)
SystemCallFails ==
  /\ pc \in InCall
  /\ errors < MaxErrors
  /\ errors' = errors + 1
  /\ eio' = TRUE
  /\ pc' = "finish"
  /\ UNCHANGED <<store, call, idx, saved, created, freestash, partial, wpos, newpos, stash_map, ok,
                 unresumable, is_retry, crashes, gone>>

(* The journal of /cache commits on its own every few seconds, also the     *)
(* unlink of a stash file while writes to the partition made before that    *)
(* unlink are still unsynced.                                               *)
CommitCache ==
  /\ cacheD # cache
  /\ cacheD' = cache
  /\ UNCHANGED <<disk, platter, cache, pc, proc, faults>>

(* The stash of the overlapping command that is being completed is gone     *)
(* from the medium.                                                         *)
Unlinked ==
  /\ pc \in {"write", "free", "sync", "finish"}
  /\ canwrite /\ idx <= Len(list)
  /\ cmd.op \in Transfer /\ Overlap(cmd)
  /\ cacheD.file[part][cmd.id] = "absent"

(* Power loss.  Of the writes that were not synced any part is on the       *)
(* medium; a file that was not synced may have lost its data.               *)
PowerLoss ==
  /\ pc \notin {"boot", "abort"}
  /\ crashes < MaxCrashes
  /\ crashes' = crashes + 1
  /\ \E lost \in SUBSET {b \in Blocks : disk[b] # platter[b]} :
       /\ disk' = [b \in Blocks |-> IF b \in lost THEN platter[b] ELSE disk[b]]
       /\ platter' = disk'
  /\ gone' = IF Unlinked /\ disk' # disk THEN gone \cup {"unlinked"} ELSE gone
  /\ \E f \in {"whole", "torn"} :
       /\ cache' = [cacheD EXCEPT !.file =
            [p \in Parts |-> [id \in Ids |->
               IF cacheD.file[p][id] = "dirty" THEN f ELSE cacheD.file[p][id]]]]
       /\ cacheD' = cache'
  /\ pc' = "boot"
  /\ UNCHANGED <<proc, errors>>

(* Nothing runs any more: recovery reports the result of the script.        *)
Terminated ==
  /\ pc \in {"end", "abort"}
  /\ UNCHANGED vars

Verify == VerifySkip \/ VerifyTransfer \/ VerifyStash \/ VerifyFree
Update == \/ UpdateSkip \/ UpdateTransfer \/ UpdateStash \/ UpdateFree \/ UpdateWrite
          \/ WritePartial \/ FsyncPartial \/ RenamePartial \/ UpdateLastCommandIndex
          \/ Discard \/ WriteBlock \/ WriteEnd \/ FreeImplicitStash \/ FsyncPartition
Updater == \/ Boot \/ StartCall \/ ScriptEnd \/ ListEnd \/ Verify \/ Update \/ Finish \/ Cleanup
           \/ Retry
Next == Updater \/ CreateStashFails \/ SystemCallFails \/ CommitCache \/ PowerLoss \/ Terminated

Spec == Init /\ [][Next]_vars
FairSpec == Spec /\ WF_vars(Updater)

-----------------------------------------------------------------------------
(* What makes a package right: the transfer lists that the code is written  *)
(* for.  These formulas are about constants only.                           *)

Writers     == {"move", "diff", "zero", "new"}
Cmds(p)     == 1..Len(Lists[p])
Tgt(p, i)   == BlocksOf(Lists[p][i].tgt)
Src(p, i)   == BlocksOf(Lists[p][i].src)
Updates     == {u \in 1..Len(Script) : Script[u].fn = "update"}
SavesIndex(c) == c.op = "stash" \/ (c.op \in Transfer /\ Overlap(c))

(* A block is written by one command, once.                                 *)
RightTargets ==
  /\ \A p, q \in Parts : \A i \in Cmds(p), j \in Cmds(q) :
       p # q \/ i # j => Tgt(p, i) \cap Tgt(q, j) = {}
  /\ \A p \in Parts : \A i \in Cmds(p) : LET t == Lists[p][i].tgt IN
       \A k \in 1..Len(t), l \in 1..Len(t) : t[k] = t[l] => k = l
  /\ \A p \in Parts : \A i \in Cmds(p) : LET c == Lists[p][i] IN
       c.op = "zero" => \A k \in 1..Len(c.out) : c.out[k] = Zeroes

(* Where in the new data of p each of its commands begins.                  *)
Cuts(p) == [1..(Len(Lists[p]) + 1) -> 0..Len(NewData[p])]
IsCut(p, at) ==
  /\ at[1] = 0
  /\ \A i \in Cmds(p) : LET c == Lists[p][i] IN
       IF c.op = "new"
       THEN /\ at[i + 1] = at[i] + Len(c.tgt)
            /\ \A k \in 1..Len(c.tgt) : NewData[p][at[i] + k] = c.out[k]
       ELSE at[i + 1] = at[i]
NewAt(p) == CHOOSE at \in Cuts(p) : IsCut(p, at)

(* The stream is the data of the "new" commands in their order, and no such *)
(* command comes before one that saves its index: a resumed update does not *)
(* skip the data of the commands it skips.                                  *)
RightNew ==
  /\ \A p \in Parts : \E at \in Cuts(p) : IsCut(p, at)
  /\ \A p, q \in Parts : \A i \in Cmds(p), j \in Cmds(q) :
       Lists[p][i].op = "new" /\ SavesIndex(Lists[q][j]) => j < i

(* A partition is updated once, after it was verified.                      *)
RightScript ==
  \A u \in Updates :
    /\ \A v \in Updates : Script[u].part = Script[v].part => u = v
    /\ \E v \in 1..(u - 1) : Script[v] = [fn |-> "verify", part |-> Script[u].part]

(* The image is what the commands write.                                    *)
RightImage ==
  \A b \in DOMAIN Target : \E u \in Updates : LET p == Script[u].part IN
    \E i \in Cmds(p) : LET c == Lists[p][i] IN
      c.op \in Writers /\ \E k \in 1..Len(c.tgt) : c.tgt[k] = b /\ c.out[k] = Target[b]

RightLists == RightTargets /\ RightNew /\ RightScript

(* Sources are blocks of the old image that no earlier command writes.      *)
RightSources ==
  /\ \A p \in Parts : \A i \in Cmds(p) : LET c == Lists[p][i] IN
       /\ c.op \in Transfer =>
            Len(c.want) = Len(c.src) /\ \A k \in 1..Len(c.src) : c.want[k] = Source[c.src[k]]
       /\ c.op = "stash" =>
            /\ c.src # <<>> /\ Len(Content[c.id]) = Len(c.src)
            /\ \A k \in 1..Len(c.src) : Content[c.id][k] = Source[c.src[k]]
  /\ \A p, q \in Parts : \A i \in Cmds(p), j \in Cmds(q) :
       p # q \/ j < i => Src(p, i) \cap Tgt(q, j) = {}

(* What is stashed is freed, and the same id not stashed again before that; *)
(* it is used in between; and it is not the id of an overlapping source.    *)
RightStash ==
  \A p \in Parts : \A i \in Cmds(p) : LET c == Lists[p][i] IN
    /\ c.op = "stash" =>
         \E f \in Cmds(p) :
           /\ i < f /\ Lists[p][f].op = "free" /\ Lists[p][f].id = c.id
           /\ \A j \in Cmds(p) : Lists[p][j].op = "stash" /\ Lists[p][j].id = c.id => j <= i \/ f < j
    /\ c.op \in Transfer =>
         /\ \A h \in c.use : \E k \in Cmds(p) :
              Lists[p][k].op = "stash" /\ Lists[p][k].id = h /\ Uses(p, i, k)
         /\ Overlap(c) => \A j \in Cmds(p) : Lists[p][j].op \in {"stash", "free"} => Lists[p][j].id # c.id

-----------------------------------------------------------------------------
(* Properties.                                                              *)

(* A stash file under its final name holds the data its name promises,      *)
(* also after a power loss (WriteStash's fsync before the rename).          *)
StashIntact ==
  \A p \in Parts, id \in Ids :
    /\ cache.file[p][id] \in {"absent", "whole"}
    /\ cacheD.file[p][id] \in {"absent", "whole"}

(* What a power loss can damage is at most the target of the one command    *)
(* that is being executed: everything before it was synced.                 *)
OnlyCurrentTargetAtRisk ==
  \A b \in Blocks :
    disk[b] # platter[b] =>
      /\ pc \in {"write", "free", "sync", "finish"}
      /\ canwrite /\ idx <= Len(list)
      /\ b \in BlocksOf(cmd.tgt)

(* The commands an update skips because of the saved index have all left    *)
(* their target as it should be.                                            *)
SkippedCommandsAreDone ==
  pc \in InCall /\ canwrite =>
    \A i \in 1..Len(list) :
      i <= saved /\ list[i].op \in {"move", "diff", "zero", "new"} =>
        ReadBlocks(list[i].tgt) = list[i].out

(* An update that starts from the right source never finds itself without   *)
(* the data it needs, whenever the power was lost and whatever calls fail,  *)
(* in all but two cases, in which the code has deleted that data:           *)
(*   - "unlinked": /cache committed the unlink of an implicit stash (1229-  *)
(*     1232) before the fsync of the target (1766), and the loss took       *)
(*     blocks of that target;                                               *)
(*   - "duplicate": a resumed update that does not skip it executes a free  *)
(*     whose file is that of a later stash of the same id (b/69858743).     *)
AlwaysResumable == unresumable => gone # {}

(* The script only ends with success when the partitions hold the new       *)
(* image, and that survives a power loss: for a package in which no new     *)
(* precedes a command that saves its index (RightNew), as a resumed update  *)
(* skips a new command but not its data (1739).                             *)
EndMeansTarget ==
  pc = "end" => \A b \in DOMAIN Target : disk[b] = Target[b] /\ platter[b] = Target[b]

(* The dry run never writes to a partition.                                 *)
VerifyIsReadOnly ==
  [][(pc \in InCall /\ ~canwrite) => (disk' = disk /\ platter' = platter)]_vars

(* Whatever is lost on the way, the update is carried through: recovery     *)
(* ends with success.  It gives up only when a system call has failed (no   *)
(* space on /cache) or when the code had deleted data it needed, in one of  *)
(* the two ways that AlwaysResumable names.                                 *)
UpdateCompletes == <>[](pc = "end" \/ (pc = "abort" /\ (errors > 0 \/ gone # {})))
=============================================================================
