--------------------------- MODULE BlockImageProofs ---------------------------
(***************************************************************************)
(* Safety of the block image updater for every transfer list, every script *)
(* and any number of power losses and failing system calls.                *)
(***************************************************************************)
EXTENDS BlockImage, WellFoundedInduction, TLAPS

(* Where the updater is determines what it may assume about the call, the   *)
(* command and the .partial file.                                           *)
Control ==
  /\ pc \in InCall \cup {"finish", "cleanup"} => call <= Len(Script)
  /\ pc \in InCommand => canwrite /\ idx <= Len(list)
  /\ pc \in {"partial", "fsync", "rename", "index"} => cmd.op \in {"move", "diff", "stash"}
  /\ pc = "discard" => cmd.op \in {"move", "diff", "zero", "new", "erase"}
  /\ pc = "write" => cmd.op \in {"move", "diff", "zero", "new"}
  /\ pc = "rename" => partial = "synced"

(* The call being executed names a partition, and its command is a command. *)
LEMMA CallType ==
  ASSUME TypeOK, call <= Len(Script)
  PROVE  /\ part \in Parts
         /\ list \in Seq(Command)
         /\ Script[call].fn \in {"verify", "update"}
  <1> DEFINE Calls == [fn : {"verify", "update"}, part : Parts]
  <1>1. Script \in Seq(Calls)
    BY ScriptAssumption
  <1>2. call \in 1..Len(Script)
    <2> HIDE DEF Calls
    <2> QED BY <1>1 DEF TypeOK, PlaceType
  <1>3. Script[call] \in Calls
    <2> HIDE DEF Calls
    <2> QED BY <1>1, <1>2
  <1>4. part \in Parts /\ Script[call].fn \in {"verify", "update"}
    BY <1>3 DEF part
  <1> QED BY <1>4, ListsAssumption DEF list

LEMMA CommandType ==
  ASSUME TypeOK, call <= Len(Script), idx <= Len(list)
  PROVE  /\ cmd \in Command
         /\ cmd.op \in {"move", "diff", "stash", "free"} => cmd.id \in Ids
         /\ cmd.op \in {"move", "diff", "zero", "new"} => Len(cmd.out) = Len(cmd.tgt)
  <1>1. part \in Parts /\ list \in Seq(Command)
    BY CallType
  <1>2. idx \in 1..Len(list)
    BY <1>1 DEF TypeOK, PlaceType
  <1>3. cmd \in Command
    BY <1>1, <1>2 DEF cmd
  <1>4. QED
    BY <1>1, <1>2, <1>3, CommandsAssumption DEF cmd, list

(* What the operations on /cache preserve.                                  *)
Tame(ca) == /\ ca \in CacheType
            /\ \A p \in Parts, id \in Ids : ca.file[p][id] \in {"absent", "whole"}

(* The inductive invariant.                                                 *)
IInv == TypeOK /\ Control /\ Tame(cache) /\ Tame(cacheD)

LEMMA DeleteFileTame ==
  ASSUME NEW ca, Tame(ca), NEW p \in Parts, NEW id \in Ids
  PROVE  Tame(DeleteFile(ca, p, id))
  BY DEF Tame, CacheType, DeleteFile, FileState

LEMMA DeleteLastCommandFileTame ==
  ASSUME NEW ca, Tame(ca)
  PROVE  Tame(DeleteLastCommandFile(ca))
  BY DEF Tame, CacheType, DeleteLastCommandFile, FileState

LEMMA DeleteStashTame ==
  ASSUME NEW ca, Tame(ca), NEW p \in Parts
  PROVE  Tame(DeleteStash(ca, p))
  BY DEF Tame, CacheType, DeleteStash, FileState

LEMMA AfterBadStashTame ==
  ASSUME Tame(cache), part \in Parts, NEW id \in Ids
  PROVE  Tame(AfterBadStash(id))
  BY DeleteFileTame DEF AfterBadStash

LEMMA EmptyMap == [id \in Ids |-> <<>>] \in [Ids -> Seq(Blocks)]
  <1>1. <<>> \in Seq(Blocks)
    OBVIOUS
  <1> QED BY <1>1

LEMMA InitIInv == Init => IInv
  <1> SUFFICES ASSUME Init PROVE IInv
    OBVIOUS
  <1>1. Tame(cache) /\ Tame(cacheD)
    BY DEF Init, Tame, CacheType, FileState
  <1>2. StoreType
    BY <1>1, DataAssumption DEF Init, StoreType, Tame
  <1>3. PlaceType
    BY DEF Init, PlaceType, Points
  <1>6. FlagType
    BY DEF Init, FlagType
  <1>4. StashType
    BY EmptyMap DEF Init, StashType
  <1>5. Control
    BY DEF Init, Control, InCall, InCommand
  <1> QED BY <1>1, <1>2, <1>3, <1>4, <1>5, <1>6 DEF IInv, TypeOK

USE DEF Points, InCall, InCommand, TypeOK

LEMMA StartIInv ==
  ASSUME IInv, Boot \/ StartCall \/ ScriptEnd \/ CreateStashFails \/ ListEnd
  PROVE  IInv'
  <1> USE DEF IInv
  <1>1. CASE Boot
    <2> USE <1>1 DEF Boot
    <2>1. StashType'
      BY EmptyMap DEF StashType
    <2>2. StoreType' /\ PlaceType'
      BY DEF StoreType, PlaceType, store, faults
    <2>3. FlagType'
      BY DEF FlagType
    <2>4. Control' /\ Tame(cache)' /\ Tame(cacheD)'
      BY DEF Control, store
    <2> QED BY <2>1, <2>2, <2>3, <2>4
  <1>2. CASE StartCall
    <2> USE <1>2 DEF StartCall
    <2>1. part \in Parts
      BY CallType
    <2>2. Tame(cache') /\ Tame(cacheD')
      BY <2>1 DEF Tame, CacheType, FileState
    <2>3. saved' \in Nat /\ created' \in BOOLEAN
      BY DEF StoreType, CacheType
    <2>4. StoreType' /\ PlaceType' /\ StashType'
      BY <2>2, <2>3 DEF StoreType, PlaceType, StashType, Tame, faults
    <2>5. FlagType'
      BY <2>3 DEF FlagType
    <2>6. Control'
      BY DEF Control
    <2> QED BY <2>2, <2>4, <2>5, <2>6
  <1>3. CASE ScriptEnd
    BY <1>3 DEF ScriptEnd, StoreType, PlaceType, StashType, FlagType, Control, store, proc, faults
  <1>4. CASE CreateStashFails
    <2> USE <1>4 DEF CreateStashFails
    <2>1. part \in Parts
      BY CallType
    <2>2. Tame(cache') /\ Tame(cacheD')
      BY <2>1 DEF Tame, CacheType, FileState
    <2>3. StoreType' /\ PlaceType' /\ StashType' /\ FlagType'
      BY <2>2 DEF StoreType, PlaceType, StashType, FlagType, Tame, proc
    <2>4. Control'
      BY DEF Control
    <2> QED BY <2>2, <2>3, <2>4
  <1>5. CASE ListEnd
    BY <1>5 DEF ListEnd, StoreType, PlaceType, StashType, FlagType, Control, store, faults
  <1> QED BY <1>1, <1>2, <1>3, <1>4, <1>5

LEMMA VerifyIInv ==
  ASSUME IInv, Verify
  PROVE  IInv'
  <1> USE DEF IInv, AtCommand, NextCommand
  <1>1. call <= Len(Script) /\ idx <= Len(list) /\ pc = "cmd"
    BY DEF Verify, VerifySkip, VerifyTransfer, VerifyStash, VerifyFree, Control
  <1>2. part \in Parts /\ cmd \in Command
    BY <1>1, CallType, CommandType
  <1>3. CASE VerifySkip
    BY <1>1, <1>3 DEF VerifySkip, StoreType, PlaceType, StashType, FlagType, Control, store, faults
  <1>4. CASE VerifyTransfer
    <2> USE <1>4 DEF VerifyTransfer
    <2>1. cmd.id \in Ids
      BY <1>1, CommandType DEF Transfer
    <2>2. Tame(cache') /\ Tame(cacheD')
      BY <1>2, <2>1, AfterBadStashTame, DeleteLastCommandFileTame
    <2>3. StoreType' /\ StashType'
      BY <2>2 DEF StoreType, StashType, Tame
    <2>4. PlaceType'
      BY DEF PlaceType, Unresumable, faults
    <2>5. FlagType'
      BY DEF FlagType, Unresumable
    <2>6. Control'
      BY <1>1 DEF Control, Unresumable
    <2> QED BY <2>2, <2>3, <2>4, <2>5, <2>6
  <1>5. CASE VerifyStash
    <2> USE <1>5 DEF VerifyStash
    <2>1. cmd.id \in Ids /\ cmd.src \in Seq(Blocks)
      BY <1>1, <1>2, CommandType DEF Command
    <2>2. Tame(cache') /\ Tame(cacheD')
      BY <1>2, <2>1, AfterBadStashTame
    <2>3. StashType'
      BY <2>1 DEF StashType
    <2>4. StoreType' /\ PlaceType' /\ FlagType'
      BY <2>2 DEF StoreType, PlaceType, FlagType, Tame, faults
    <2>5. Control'
      BY <1>1 DEF Control
    <2> QED BY <2>2, <2>3, <2>4, <2>5
  <1>6. CASE VerifyFree
    <2> USE <1>6 DEF VerifyFree
    <2>1. cmd.id \in Ids
      BY <1>1, CommandType
    <2>2. Tame(cache') /\ Tame(cacheD')
      BY <1>2, <2>1, DeleteFileTame
    <2>3. StashType'
      BY <2>1 DEF StashType
    <2>4. StoreType' /\ PlaceType' /\ FlagType'
      BY <2>2 DEF StoreType, PlaceType, FlagType, Tame, faults
    <2>5. Control'
      BY <1>1 DEF Control
    <2> QED BY <2>2, <2>3, <2>4, <2>5
  <1> QED BY <1>3, <1>4, <1>5, <1>6 DEF Verify

LEMMA UpdateIInv ==
  ASSUME IInv, UpdateSkip \/ UpdateTransfer \/ UpdateStash \/ UpdateFree \/ UpdateWrite
  PROVE  IInv'
  <1> USE DEF IInv, AtCommand, NextCommand
  <1>1. /\ call <= Len(Script) /\ idx <= Len(list) /\ pc = "cmd"
        /\ Script[call].fn = "update"
    BY DEF UpdateSkip, UpdateTransfer, UpdateStash, UpdateFree, UpdateWrite, Control
  <1>2. part \in Parts /\ cmd \in Command
    BY <1>1, CallType, CommandType
  <1>3. CASE UpdateSkip
    BY <1>1, <1>3 DEF UpdateSkip, StoreType, PlaceType, StashType, FlagType, Control, store, faults
  <1>4. CASE UpdateTransfer
    <2> USE <1>4 DEF UpdateTransfer
    <2>1. cmd.id \in Ids
      BY <1>1, CommandType DEF Transfer
    <2>2. Tame(cache') /\ Tame(cacheD')
      BY <1>2, <2>1, AfterBadStashTame
    <2>3. StoreType' /\ StashType'
      BY <2>1, <2>2 DEF StoreType, StashType, Tame
    <2>4. PlaceType'
      BY DEF PlaceType, Unresumable, faults
    <2>5. FlagType'
      BY DEF FlagType, Unresumable
    <2>6. Control'
      BY <1>1 DEF Control, Unresumable, Transfer, canwrite, cmd, list, part
    <2> QED BY <2>2, <2>3, <2>4, <2>5, <2>6
  <1>5. CASE UpdateStash
    <2> USE <1>5 DEF UpdateStash
    <2>1. cmd.id \in Ids /\ cmd.src \in Seq(Blocks)
      BY <1>1, <1>2, CommandType DEF Command
    <2>2. Tame(cache') /\ Tame(cacheD')
      BY <1>2, <2>1, AfterBadStashTame
    <2>3. StashType'
      BY <2>1 DEF StashType
    <2>4. StoreType' /\ PlaceType' /\ FlagType'
      BY <2>2 DEF StoreType, PlaceType, FlagType, Tame, faults
    <2>5. Control'
      BY <1>1 DEF Control, canwrite, cmd, list, part
    <2> QED BY <2>2, <2>3, <2>4, <2>5
  <1>6. CASE UpdateFree
    <2> USE <1>6 DEF UpdateFree
    <2>1. cmd.id \in Ids
      BY <1>1, CommandType
    <2>2. Tame(cache') /\ Tame(cacheD')
      BY <1>2, <2>1, DeleteFileTame
    <2>3. StashType'
      BY <2>1 DEF StashType
    <2>4. StoreType' /\ PlaceType' /\ FlagType'
      <3>1. gone' \subseteq Losses
        BY DEF PlaceType, Losses
      <3> QED BY <2>2, <3>1 DEF StoreType, PlaceType, FlagType, Tame
    <2>5. Control'
      BY <1>1 DEF Control, canwrite, cmd, list, part
    <2> QED BY <2>2, <2>3, <2>4, <2>5
  <1>7. CASE UpdateWrite
    <2> USE <1>7 DEF UpdateWrite
    <2>1. StoreType' /\ PlaceType' /\ StashType' /\ FlagType'
      BY DEF StoreType, PlaceType, StashType, FlagType, store, faults
    <2>2. Control'
      BY <1>1 DEF Control, canwrite, cmd, list, part
    <2> QED BY <2>1, <2>2 DEF store
  <1> QED BY <1>3, <1>4, <1>5, <1>6, <1>7

(* The steps inside one command.                                            *)
LEMMA CommandIInv ==
  ASSUME IInv,
         \/ WritePartial \/ FsyncPartial \/ RenamePartial \/ UpdateLastCommandIndex
         \/ Discard \/ WriteBlock \/ WriteEnd \/ FreeImplicitStash \/ FsyncPartition
  PROVE  IInv'
  <1> USE DEF IInv
  <1>1. pc \in InCommand
    BY DEF WritePartial, FsyncPartial, RenamePartial, UpdateLastCommandIndex, Discard, WriteBlock,
           WriteEnd, FreeImplicitStash, FsyncPartition
  <1>2. call <= Len(Script) /\ idx <= Len(list) /\ canwrite
    BY <1>1 DEF Control
  <1>3. part \in Parts /\ cmd \in Command
    BY <1>2, CallType, CommandType
  <1>4. CASE WritePartial
    BY <1>2, <1>4 DEF WritePartial, StoreType, PlaceType, StashType, FlagType, Control, store,
                      faults, canwrite, cmd, list, part
  <1>5. CASE FsyncPartial
    BY <1>2, <1>5 DEF FsyncPartial, StoreType, PlaceType, StashType, FlagType, Control, store,
                      faults, canwrite, cmd, list, part
  <1>6. CASE RenamePartial
    <2> USE <1>6 DEF RenamePartial
    <2>1. cmd.id \in Ids /\ partial = "synced"
      BY <1>2, CommandType DEF Control
    <2>2. Tame(cache') /\ Tame(cacheD')
      BY <1>3, <2>1 DEF Tame, CacheType, FileState
    <2>3. StoreType' /\ PlaceType' /\ StashType' /\ FlagType'
      BY <2>2 DEF StoreType, PlaceType, StashType, FlagType, Tame, faults
    <2>4. Control'
      BY <1>2 DEF Control, canwrite, cmd, list, part
    <2> QED BY <2>2, <2>3, <2>4
  <1>7. CASE UpdateLastCommandIndex
    <2> USE <1>7 DEF UpdateLastCommandIndex
    <2>1. Tame(cache') /\ Tame(cacheD')
      BY DEF Tame, CacheType, FileState, PlaceType
    <2>2. StoreType' /\ PlaceType' /\ StashType' /\ FlagType'
      BY <2>1 DEF StoreType, PlaceType, StashType, FlagType, Tame, proc
    <2>3. Control'
      BY <1>2 DEF Control, canwrite, cmd, list, part, proc
    <2> QED BY <2>1, <2>2, <2>3
  <1>8. CASE Discard
    <2> USE <1>8 DEF Discard
    <2>1. StoreType'
      BY DataAssumption DEF StoreType
    <2>2. PlaceType' /\ StashType' /\ FlagType'
      BY DEF PlaceType, StashType, FlagType, proc, faults
    <2>3. Control'
      BY <1>2 DEF Control, canwrite, cmd, list, part, proc
    <2> QED BY <2>1, <2>2, <2>3
  <1>9. CASE WriteBlock
    <2> USE <1>9 DEF WriteBlock
    <2>1. cmd.op \in {"move", "diff", "zero", "new"}
      BY DEF Control
    <2>2. /\ cmd.tgt \in Seq(Blocks) /\ cmd.out \in Seq(Data)
          /\ Len(cmd.out) = Len(cmd.tgt)
      BY <1>2, <1>3, <2>1, CommandType DEF Command
    <2>3. wpos + 1 \in 1..Len(cmd.tgt)
      BY <2>2 DEF PlaceType
    <2>4. cmd.out[wpos + 1] \in Data
      BY <2>2, <2>3
    <2>5. cmd.op = "new" => NewData[part][newpos + 1] \in Data
      <3>1. NewData[part] \in Seq(Data)
        BY <1>3, DataAssumption
      <3> QED BY <3>1 DEF PlaceType
    <2>6. disk' \in [Blocks -> Data]
      BY <2>4, <2>5, DataAssumption DEF StoreType
    <2>7. StoreType' /\ PlaceType' /\ StashType' /\ FlagType'
      BY <2>6 DEF StoreType, PlaceType, StashType, FlagType, faults
    <2>8. Control'
      BY <1>2 DEF Control, canwrite, cmd, list, part
    <2> QED BY <2>7, <2>8
  <1>10. CASE WriteEnd
    BY <1>2, <1>10 DEF WriteEnd, StoreType, PlaceType, StashType, FlagType, Control, store, proc,
                       faults, canwrite, cmd, list, part
  <1>11. CASE FreeImplicitStash
    <2> USE <1>11 DEF FreeImplicitStash
    <2>1. Tame(cache') /\ Tame(cacheD')
      BY <1>3, DeleteFileTame DEF StashType
    <2>2. StoreType' /\ PlaceType' /\ StashType' /\ FlagType'
      BY <2>1 DEF StoreType, PlaceType, StashType, FlagType, Tame, faults
    <2>3. Control'
      BY <1>2 DEF Control, canwrite, cmd, list, part
    <2> QED BY <2>1, <2>2, <2>3
  <1>12. CASE FsyncPartition
    <2> USE <1>12 DEF FsyncPartition, NextCommand
    <2>1. StoreType' /\ PlaceType' /\ StashType' /\ FlagType'
      BY DEF StoreType, PlaceType, StashType, FlagType, faults
    <2>2. Control'
      BY <1>2 DEF Control
    <2> QED BY <2>1, <2>2
  <1> QED BY <1>4, <1>5, <1>6, <1>7, <1>8, <1>9, <1>10, <1>11, <1>12

LEMMA RetryIInv ==
  ASSUME IInv, Retry
  PROVE  IInv'
  BY DEF IInv, Retry, StoreType, PlaceType, StashType, FlagType, Control, proc, faults

LEMMA EndIInv ==
  ASSUME IInv, Finish \/ Cleanup
  PROVE  IInv'
  <1> USE DEF IInv
  <1>1. call <= Len(Script)
    BY DEF Finish, Cleanup, Control
  <1>2. part \in Parts
    BY <1>1, CallType
  <1>3. Tame(cache') /\ Tame(cacheD')
    BY <1>2, DeleteStashTame, DeleteLastCommandFileTame DEF Finish, Cleanup
  <1>4. StoreType' /\ StashType'
    BY <1>3 DEF Finish, Cleanup, StoreType, StashType, Tame, proc
  <1>5. PlaceType'
    BY DEF Finish, Cleanup, PlaceType, proc, faults
  <1>6. FlagType'
    BY DEF Finish, Cleanup, FlagType, proc
  <1>7. Control'
    BY <1>1 DEF Finish, Cleanup, Control, proc
  <1> QED BY <1>3, <1>4, <1>5, <1>6, <1>7

LEMMA FaultIInv ==
  ASSUME IInv, SystemCallFails \/ CommitCache \/ PowerLoss \/ Terminated \/ UNCHANGED vars
  PROVE  IInv'
  <1> USE DEF IInv
  <1>1. CASE SystemCallFails
    <2> USE <1>1 DEF SystemCallFails
    <2>1. StoreType' /\ PlaceType' /\ StashType' /\ FlagType'
      BY DEF StoreType, PlaceType, StashType, FlagType, store
    <2>2. Control' /\ Tame(cache)' /\ Tame(cacheD)'
      BY DEF Control, store
    <2> QED BY <2>1, <2>2
  <1>2. CASE CommitCache
    BY <1>2 DEF CommitCache, StoreType, PlaceType, StashType, FlagType, Control, proc, faults,
                canwrite, cmd, list, part
  <1>3. CASE PowerLoss
    <2> USE <1>3 DEF PowerLoss
    <2>1. disk' \in [Blocks -> Data] /\ platter' \in [Blocks -> Data]
      BY DEF StoreType
    <2>2. Tame(cache') /\ Tame(cacheD')
      <3>1. PICK f \in {"whole", "torn"} :
              cache' = [cacheD EXCEPT !.file =
                [p \in Parts |-> [id \in Ids |->
                  IF cacheD.file[p][id] = "dirty" THEN f ELSE cacheD.file[p][id]]]]
        OBVIOUS
      <3> DEFINE g == [p \in Parts |-> [id \in Ids |->
                        IF cacheD.file[p][id] = "dirty" THEN f ELSE cacheD.file[p][id]]]
      <3>2. \A p \in Parts, id \in Ids : cacheD.file[p][id] \in {"absent", "whole"}
        BY DEF Tame
      <3>3. /\ g \in [Parts -> [Ids -> FileState]]
            /\ \A p \in Parts, id \in Ids : g[p][id] \in {"absent", "whole"}
        BY <3>2 DEF FileState
      <3> HIDE DEF g
      <3>4. cache' \in CacheType /\ cache'.file = g
        <4>1. cache' = [cacheD EXCEPT !.file = g]
          BY <3>1 DEF g
        <4>2. cacheD \in CacheType
          BY DEF Tame
        <4> QED BY <3>3, <4>1, <4>2 DEF CacheType
      <3>5. Tame(cache')
        BY <3>3, <3>4 DEF Tame
      <3> QED BY <3>5
    <2>3. StoreType' /\ PlaceType' /\ StashType' /\ FlagType'
      <3>1. gone' \subseteq Losses
        BY DEF PlaceType, Losses
      <3> QED BY <2>1, <2>2, <3>1 DEF StoreType, PlaceType, StashType, FlagType, Tame, proc
    <2>4. Control'
      BY DEF Control
    <2> QED BY <2>2, <2>3, <2>4
  <1>4. CASE Terminated \/ UNCHANGED vars
    <2>1. UNCHANGED <<store, pc, proc, faults>>
      BY <1>4 DEF Terminated, vars
    <2>2. StoreType' /\ Tame(cache)' /\ Tame(cacheD)'
      BY <2>1 DEF StoreType, store
    <2>3. PlaceType'
      BY <2>1 DEF PlaceType, proc, faults
    <2>4. StashType' /\ FlagType'
      BY <2>1 DEF StashType, FlagType, proc
    <2>5. Control'
      BY <2>1 DEF Control, canwrite, cmd, list, part, proc
    <2> QED BY <2>2, <2>3, <2>4, <2>5 DEF TypeOK
  <1> QED BY <1>1, <1>2, <1>3, <1>4

LEMMA NextIInv == IInv /\ [Next]_vars => IInv'
  BY StartIInv, VerifyIInv, UpdateIInv, CommandIInv, EndIInv, RetryIInv, FaultIInv
     DEF Next, Updater, Update

LEMMA Invariance == Spec => []IInv
  BY InitIInv, NextIInv, PTL DEF Spec

(* Every variable keeps its type, for every transfer list and any faults.   *)
THEOREM TypeCorrect == Spec => []TypeOK
  <1>1. IInv => TypeOK
    BY DEF IInv
  <1> QED BY <1>1, Invariance, PTL

(* A stash file under its final name is always complete, also after power   *)
(* losses: WriteStash renames only what it has synced.                      *)
THEOREM StashFilesIntact == Spec => []StashIntact
  <1>1. IInv => StashIntact
    BY DEF IInv, Tame, StashIntact
  <1> QED BY <1>1, Invariance, PTL

-----------------------------------------------------------------------------
(* No write to a partition is pending.                                      *)
Clean == \A b \in Blocks : disk[b] = platter[b]

LEMMA CleanOutsideWrites ==
  ASSUME OnlyCurrentTargetAtRisk, pc \notin {"write", "free", "sync", "finish"}
  PROVE  Clean
  BY DEF OnlyCurrentTargetAtRisk, Clean

LEMMA RiskInit == Init => OnlyCurrentTargetAtRisk
  BY DEF Init, OnlyCurrentTargetAtRisk

(* Only WriteBlock makes a block differ from the medium; every step that    *)
(* leaves the command first syncs.                                          *)
LEMMA RiskNext == IInv /\ OnlyCurrentTargetAtRisk /\ [Next]_vars => OnlyCurrentTargetAtRisk'
  <1> SUFFICES ASSUME IInv, OnlyCurrentTargetAtRisk, [Next]_vars
               PROVE  OnlyCurrentTargetAtRisk'
    OBVIOUS
  <1>1. ASSUME Clean, disk' = disk, platter' = platter
        PROVE  OnlyCurrentTargetAtRisk'
    BY <1>1 DEF Clean, OnlyCurrentTargetAtRisk
  <1>2. ASSUME platter' = disk' PROVE OnlyCurrentTargetAtRisk'
    BY <1>2 DEF OnlyCurrentTargetAtRisk
  <1>3. CASE Boot \/ StartCall \/ ScriptEnd \/ CreateStashFails \/ ListEnd \/ Verify
    <2>1. Clean
      BY <1>3, CleanOutsideWrites
         DEF Boot, StartCall, ScriptEnd, CreateStashFails, ListEnd, Verify, VerifySkip,
             VerifyTransfer, VerifyStash, VerifyFree, AtCommand
    <2>2. disk' = disk /\ platter' = platter
      BY <1>3 DEF Boot, StartCall, ScriptEnd, CreateStashFails, ListEnd, Verify, VerifySkip,
                  VerifyTransfer, VerifyStash, VerifyFree, store
    <2> QED BY <1>1, <2>1, <2>2
  <1>4. CASE \/ UpdateSkip \/ UpdateTransfer \/ UpdateStash \/ UpdateFree \/ UpdateWrite
             \/ WritePartial \/ FsyncPartial \/ RenamePartial \/ UpdateLastCommandIndex \/ Cleanup
    <2>1. Clean
      BY <1>4, CleanOutsideWrites
         DEF UpdateSkip, UpdateTransfer, UpdateStash, UpdateFree, UpdateWrite, WritePartial,
             FsyncPartial, RenamePartial, UpdateLastCommandIndex, Cleanup, AtCommand
    <2>2. disk' = disk /\ platter' = platter
      BY <1>4 DEF UpdateSkip, UpdateTransfer, UpdateStash, UpdateFree, UpdateWrite, WritePartial,
                  FsyncPartial, RenamePartial, UpdateLastCommandIndex, Cleanup, store
    <2> QED BY <1>1, <2>1, <2>2
  <1>5. CASE Discard
    <2>1. Clean
      BY <1>5, CleanOutsideWrites DEF Discard
    <2> QED BY <1>5, <2>1 DEF Discard, Clean, OnlyCurrentTargetAtRisk
  <1>6. CASE WriteBlock
    <2> USE <1>6 DEF WriteBlock
    <2>1. call <= Len(Script) /\ idx <= Len(list) /\ canwrite
      BY DEF IInv, Control
    <2>2. cmd.tgt \in Seq(Blocks)
      BY <2>1, CommandType DEF IInv, Command
    <2>3. wpos + 1 \in 1..Len(cmd.tgt)
      BY <2>2 DEF IInv, PlaceType
    <2>4. cmd.tgt[wpos + 1] \in BlocksOf(cmd.tgt)
      BY <2>3 DEF BlocksOf
    <2>5. cmd' = cmd /\ list' = list /\ canwrite' = canwrite /\ idx' = idx
      BY DEF cmd, list, part, canwrite
    <2>6. ASSUME NEW b \in Blocks, disk'[b] # platter'[b]
          PROVE  b \in BlocksOf(cmd.tgt)
      <3>1. CASE b = cmd.tgt[wpos + 1]
        BY <2>4, <3>1
      <3>2. CASE b # cmd.tgt[wpos + 1]
        BY <2>6, <3>2 DEF OnlyCurrentTargetAtRisk, IInv, StoreType
      <3> QED BY <3>1, <3>2
    <2> QED BY <2>1, <2>5, <2>6 DEF OnlyCurrentTargetAtRisk
  <1>7. CASE WriteEnd \/ FreeImplicitStash \/ SystemCallFails \/ CommitCache \/ Terminated
             \/ UNCHANGED vars
    BY <1>7 DEF WriteEnd, FreeImplicitStash, SystemCallFails, CommitCache, Terminated, vars, store,
                proc, OnlyCurrentTargetAtRisk, canwrite, cmd, list, part
  <1>8. CASE FsyncPartition \/ Finish \/ Retry \/ PowerLoss
    BY <1>2, <1>8 DEF FsyncPartition, Finish, Retry, PowerLoss
  <1> QED BY <1>3, <1>4, <1>5, <1>6, <1>7, <1>8 DEF Next, Updater, Update

(* A power loss can only damage blocks that the command being executed is   *)
(* about to write anyway.                                                   *)
THEOREM AtRiskTheorem == Spec => []OnlyCurrentTargetAtRisk
  BY Invariance, RiskInit, RiskNext, PTL DEF Spec

(* A step taken during a dry run leaves every partition as it is, in the    *)
(* page cache and on the medium; a power loss then has nothing to lose.     *)
LEMMA VerifyStep ==
  ASSUME IInv, OnlyCurrentTargetAtRisk, [Next]_vars, pc \in InCall, ~canwrite
  PROVE  disk' = disk /\ platter' = platter
  <1>1. pc = "cmd"
    BY DEF IInv, Control
  <1>2. Clean
    BY <1>1, CleanOutsideWrites
  <1>3. disk = platter
    BY <1>2 DEF Clean, IInv, StoreType
  <1>4. CASE PowerLoss
    BY <1>3, <1>4 DEF PowerLoss, IInv, StoreType
  <1>5. CASE ~PowerLoss
    BY <1>1, <1>3, <1>5
       DEF Next, Updater, Boot, StartCall, ScriptEnd, CreateStashFails, ListEnd, Verify, VerifySkip,
           VerifyTransfer, VerifyStash, VerifyFree, Update, UpdateSkip, UpdateTransfer, UpdateStash,
           UpdateFree, UpdateWrite, WritePartial, FsyncPartial, RenamePartial,
           UpdateLastCommandIndex, Discard, WriteBlock, WriteEnd, FreeImplicitStash, FsyncPartition,
           Finish, Cleanup, Retry, SystemCallFails, CommitCache, Terminated, vars, store, AtCommand
  <1> QED BY <1>4, <1>5

(* The dry run is read-only.                                                *)
THEOREM DryRunReadOnly == Spec => VerifyIsReadOnly
  <1>1. IInv /\ OnlyCurrentTargetAtRisk /\ [Next]_vars
          => [(pc \in InCall /\ ~canwrite) => (disk' = disk /\ platter' = platter)]_vars
    BY VerifyStep
  <1> QED BY <1>1, Invariance, AtRiskTheorem, PTL DEF Spec, VerifyIsReadOnly

-----------------------------------------------------------------------------
(* A right package.  What is read in the page cache and on the medium alike *)
(* is safe from a power loss; all of the following is said about that.      *)

ReadsBoth(s, v) ==
  /\ Len(s) = Len(v)
  /\ \A k \in 1..Len(s) : disk[s[k]] = v[k] /\ platter[s[k]] = v[k]

Done(p, i)     == ReadsBoth(Lists[p][i].tgt, Lists[p][i].out)
Finished(p, i) == Lists[p][i].op \in Writers => Done(p, i)
Undone(p, i)   ==
  LET c == Lists[p][i] IN
  \E k \in 1..Len(c.tgt) : disk[c.tgt[k]] = platter[c.tgt[k]] /\ disk[c.tgt[k]] # c.out[k]

(* Command i of partition p is the one being written.                       *)
Touched(p, i) == pc \in {"discard", "write"} /\ p = part /\ i = idx

LEMMA SiteType ==
  ASSUME NEW p \in Parts, NEW i \in Cmds(p)
  PROVE  /\ Lists[p][i] \in Command
         /\ Lists[p][i].tgt \in Seq(Blocks) /\ Lists[p][i].src \in Seq(Blocks)
         /\ Lists[p][i].out \in Seq(Data) /\ Lists[p][i].want \in Seq(Data)
         /\ Lists[p][i].op \in {"move", "diff", "stash", "free"} => Lists[p][i].id \in Ids
         /\ Lists[p][i].op \in Writers => Len(Lists[p][i].out) = Len(Lists[p][i].tgt)
  <1>1. Lists[p] \in Seq(Command) /\ i \in 1..Len(Lists[p])
    BY ListsAssumption DEF Cmds
  <1>2. Lists[p][i] \in Command
    BY <1>1
  <1>3. /\ Lists[p][i].op \in {"move", "diff", "stash", "free"} => Lists[p][i].id \in Ids
        /\ Lists[p][i].op \in Writers => Len(Lists[p][i].out) = Len(Lists[p][i].tgt)
    BY <1>1, CommandsAssumption DEF Writers
  <1> QED BY <1>2, <1>3 DEF Command

(* In a command of an update, the command is one of the list.               *)
LEMMA Here ==
  ASSUME IInv, pc \in InCommand
  PROVE  /\ call \in Updates /\ part = Script[call].part /\ part \in Parts
         /\ idx \in Cmds(part) /\ cmd = Lists[part][idx] /\ canwrite
  <1>1. call <= Len(Script) /\ canwrite /\ idx <= Len(list)
    BY DEF IInv, Control
  <1>2. part \in Parts /\ list = Lists[part] /\ list \in Seq(Command)
    BY <1>1, CallType DEF IInv, list
  <1>3. idx \in Nat \ {0} /\ call \in Nat \ {0} /\ Len(list) \in Nat
    BY <1>2 DEF IInv, PlaceType
  <1>4. idx \in Cmds(part)
    BY <1>1, <1>2, <1>3 DEF Cmds
  <1>5. call \in Updates
    <2>1. Len(Script) \in Nat
      BY ScriptAssumption
    <2> QED BY <1>1, <1>3, <2>1 DEF Updates, canwrite
  <1> QED BY <1>1, <1>2, <1>4, <1>5 DEF cmd, part

(* At the head of the loop the call is one of the script.                   *)
LEMMA AtHead ==
  ASSUME IInv, pc \in InCall \cup {"finish", "cleanup"}
  PROVE  /\ call \in 1..Len(Script) /\ part = Script[call].part /\ part \in Parts
         /\ list = Lists[part] /\ list \in Seq(Command) /\ Len(list) \in Nat
         /\ canwrite <=> call \in Updates
         /\ idx <= Len(list) => idx \in Cmds(part) /\ cmd = Lists[part][idx]
  <1>1. call <= Len(Script)
    BY DEF IInv, Control
  <1>2. part \in Parts /\ list = Lists[part] /\ list \in Seq(Command)
    BY <1>1, CallType DEF IInv, list
  <1>3. idx \in Nat \ {0} /\ call \in Nat \ {0} /\ Len(list) \in Nat
    BY <1>2 DEF IInv, PlaceType
  <1>4. Len(Script) \in Nat
    BY ScriptAssumption
  <1>5. call \in 1..Len(Script)
    BY <1>1, <1>3, <1>4
  <1>6. canwrite <=> call \in Updates
    BY <1>5 DEF Updates, canwrite
  <1>7. idx <= Len(list) => idx \in Cmds(part) /\ cmd = Lists[part][idx]
    BY <1>2, <1>3 DEF Cmds, cmd
  <1> QED BY <1>2, <1>3, <1>5, <1>6, <1>7 DEF part

(* A step changes no block but those of the command being written, and a    *)
(* power loss puts one copy in the place of the other.                      *)
LEMMA BlockStep ==
  ASSUME IInv, [Next]_vars, NEW b \in Blocks
  PROVE  \/ pc \in {"discard", "write"} /\ b \in BlocksOf(cmd.tgt)
         \/ /\ disk'[b] \in {disk[b], platter[b]}
            /\ platter'[b] \in {disk[b], platter[b]}
  <1>1. CASE Discard
    BY <1>1 DEF Discard, IInv, StoreType
  <1>2. CASE WriteBlock
    <2> USE <1>2 DEF WriteBlock
    <2>1. cmd.tgt \in Seq(Blocks)
      BY Here, SiteType DEF IInv
    <2>2. wpos + 1 \in 1..Len(cmd.tgt)
      BY <2>1 DEF IInv, PlaceType
    <2>3. cmd.tgt[wpos + 1] \in BlocksOf(cmd.tgt)
      BY <2>2 DEF BlocksOf
    <2> QED BY <2>3 DEF IInv, StoreType
  <1>3. CASE PowerLoss
    BY <1>3 DEF PowerLoss, IInv, StoreType
  <1>4. CASE FsyncPartition \/ Finish \/ Retry
    BY <1>4 DEF FsyncPartition, Finish, Retry
  <1>5. CASE ~(Discard \/ WriteBlock \/ PowerLoss \/ FsyncPartition \/ Finish \/ Retry)
    <2>1. disk' = disk /\ platter' = platter
      BY <1>5
         DEF Next, Updater, Boot, StartCall, ScriptEnd, CreateStashFails, ListEnd, Verify,
             VerifySkip, VerifyTransfer, VerifyStash, VerifyFree, Update, UpdateSkip,
             UpdateTransfer, UpdateStash, UpdateFree, UpdateWrite, WritePartial, FsyncPartial,
             RenamePartial, UpdateLastCommandIndex, WriteEnd, FreeImplicitStash, Cleanup,
             SystemCallFails, CommitCache, Terminated, vars, store
    <2> QED BY <2>1
  <1> QED BY <1>1, <1>2, <1>3, <1>4, <1>5

LEMMA ReadsStay ==
  ASSUME IInv, [Next]_vars, NEW s \in Seq(Blocks), NEW v, ReadsBoth(s, v),
         pc \in {"discard", "write"} => BlocksOf(s) \cap BlocksOf(cmd.tgt) = {}
  PROVE  ReadsBoth(s, v)'
  <1> SUFFICES ASSUME NEW k \in 1..Len(s)
               PROVE  disk'[s[k]] = v[k] /\ platter'[s[k]] = v[k]
    BY DEF ReadsBoth
  <1>1. s[k] \in Blocks /\ s[k] \in BlocksOf(s)
    BY DEF BlocksOf
  <1>2. disk[s[k]] = v[k] /\ platter[s[k]] = v[k]
    BY DEF ReadsBoth
  <1> QED BY <1>1, <1>2, BlockStep

LEMMA OtherTarget ==
  ASSUME RightTargets, IInv, NEW p \in Parts, NEW i \in Cmds(p), ~Touched(p, i),
         pc \in {"discard", "write"}
  PROVE  Tgt(p, i) \cap BlocksOf(cmd.tgt) = {}
  <1>1. part \in Parts /\ idx \in Cmds(part) /\ cmd = Lists[part][idx]
    BY Here
  <1>2. p # part \/ i # idx
    BY DEF Touched
  <1> QED BY <1>1, <1>2 DEF RightTargets, Tgt

LEMMA FinishedStays ==
  ASSUME RightTargets, IInv, [Next]_vars, NEW p \in Parts, NEW i \in Cmds(p), ~Touched(p, i)
  PROVE  /\ Done(p, i) => Done(p, i)'
         /\ Finished(p, i) => Finished(p, i)'
         /\ Undone(p, i) => Undone(p, i)'
  <1>1. Lists[p][i].tgt \in Seq(Blocks)
    BY SiteType
  <1>2. pc \in {"discard", "write"} => BlocksOf(Lists[p][i].tgt) \cap BlocksOf(cmd.tgt) = {}
    BY OtherTarget DEF Tgt
  <1>3. Done(p, i) => Done(p, i)'
    BY <1>1, <1>2, ReadsStay DEF Done
  <1>4. ASSUME Undone(p, i) PROVE Undone(p, i)'
    <2> DEFINE c == Lists[p][i]
    <2>1. PICK k \in 1..Len(c.tgt) : disk[c.tgt[k]] = platter[c.tgt[k]] /\ disk[c.tgt[k]] # c.out[k]
      BY <1>4 DEF Undone
    <2>2. c.tgt[k] \in Blocks /\ c.tgt[k] \in BlocksOf(c.tgt)
      BY <1>1 DEF BlocksOf
    <2>3. disk'[c.tgt[k]] = disk[c.tgt[k]] /\ platter'[c.tgt[k]] = disk[c.tgt[k]]
      BY <1>2, <2>1, <2>2, BlockStep
    <2> QED BY <2>1, <2>3 DEF Undone
  <1> QED BY <1>3, <1>4 DEF Finished

(* What the comparison with the target tells where nothing is unsynced.     *)
LEMMA TargetRead ==
  ASSUME IInv, NEW p \in Parts, NEW i \in Cmds(p), Lists[p][i].op \in Writers
  PROVE  LET c == Lists[p][i] IN
         /\ TargetDone(c) <=> \A k \in 1..Len(c.tgt) : disk[c.tgt[k]] = c.out[k]
         /\ Done(p, i) => TargetDone(c)
         /\ Clean => (TargetDone(c) => Done(p, i))
         /\ Clean => (~TargetDone(c) => Undone(p, i))
  <1> DEFINE c == Lists[p][i]
  <1>1. c.tgt \in Seq(Blocks) /\ c.out \in Seq(Data) /\ Len(c.out) = Len(c.tgt)
    BY SiteType
  <1>2. TargetDone(c) <=> \A k \in 1..Len(c.tgt) : disk[c.tgt[k]] = c.out[k]
    <2>1. c.out = [k \in 1..Len(c.tgt) |-> c.out[k]]
      BY <1>1
    <2>2. ReadBlocks(c.tgt) = [k \in 1..Len(c.tgt) |-> disk[c.tgt[k]]]
      BY DEF ReadBlocks
    <2> HIDE DEF c
    <2>3. ASSUME \A k \in 1..Len(c.tgt) : disk[c.tgt[k]] = c.out[k] PROVE TargetDone(c)
      BY <2>1, <2>2, <2>3 DEF TargetDone
    <2>4. ASSUME TargetDone(c), NEW k \in 1..Len(c.tgt) PROVE disk[c.tgt[k]] = c.out[k]
      BY <2>2, <2>4 DEF TargetDone
    <2> QED BY <2>3, <2>4
  <1>3. ASSUME Clean, NEW k \in 1..Len(c.tgt) PROVE disk[c.tgt[k]] = platter[c.tgt[k]]
    BY <1>1, <1>3 DEF Clean
  <1> QED BY <1>1, <1>2, <1>3 DEF Done, ReadsBoth, Undone

-----------------------------------------------------------------------------
(* The saved index.  Only the first update of a script can find one: every  *)
(* update that succeeds deletes it.                                         *)
First(u) == u \in Updates /\ \A v \in Updates : u <= v

(* The commands before index n of the first partition are finished.         *)
Before(n, u) ==
  LET p == Script[u].part IN
  \A i \in Cmds(p) : i < n \/ (i = n /\ Lists[p][i].op \notin Transfer) => Finished(p, i)

(* A dry run that precedes the first update will forget index n.            *)
Stale(n, u) ==
  \E v \in 1..(u - 1) : LET q == Script[v].part IN
    \E i \in Cmds(q) : /\ Lists[q][i].op \in Transfer /\ Undone(q, i)
                       /\ i <= n /\ (q = Script[u].part => i = n)

LastOK(n) == \A u \in Updates : First(u) => Before(n, u) \/ Stale(n, u)
Last == LastOK(cache.last) /\ LastOK(cacheD.last)

Steady ==
  /\ pc \in InCall => ~ok /\ ~unresumable
  /\ pc \in {"finish", "cleanup"} => ~(ok /\ unresumable)
  /\ pc \in {"partial", "fsync", "rename", "index"} => SavesIndex(cmd)
  /\ pc \in InCommand => saved < idx
  /\ pc = "end" => call > Len(Script)

(* What an update has behind it.                                            *)
SavedDone == pc \in InCall /\ canwrite => \A i \in Cmds(part) : i <= saved => Finished(part, i)
BelowDone == pc \in InCall /\ canwrite => \A i \in Cmds(part) : i < idx => Finished(part, i)
AllDone ==
  pc \in {"finish", "cleanup"} /\ ok /\ canwrite => \A i \in Cmds(part) : Finished(part, i)
EarlierDone ==
  pc # "boot" => \A u \in Updates : u < call =>
    \A i \in Cmds(Script[u].part) : Finished(Script[u].part, i)

(* What the command being executed has written.                             *)
Writing ==
  /\ pc \in {"partial", "fsync", "rename", "index", "discard"} /\ cmd.op # "stash" => wpos = 0
  /\ pc = "write" => wpos <= Len(cmd.tgt) /\ \A k \in 1..wpos : disk[cmd.tgt[k]] = cmd.out[k]
  /\ pc \in {"free", "sync"} /\ cmd.op \in Writers =>
       \A k \in 1..Len(cmd.tgt) : disk[cmd.tgt[k]] = cmd.out[k]

(* Where the stream of new data is.                                         *)
Stream ==
  pc \in InCall /\ canwrite =>
    IF pc \in {"write", "free", "sync"} /\ cmd.op = "new"
    THEN newpos = NewAt(part)[idx] + wpos /\ (pc # "write" => wpos = Len(cmd.tgt))
    ELSE newpos = NewAt(part)[idx]

NewAfter(n) == \A p \in Parts : \A i \in Cmds(p) : Lists[p][i].op = "new" => n < i
IndexOK == NewAfter(cache.last) /\ NewAfter(cacheD.last) /\ NewAfter(saved)

(* The updater has not reached the first update u, and no dry run failed.   *)
Ahead(u) == \/ pc = "call" /\ call <= u
            \/ call < u /\ (pc = "cmd" \/ (pc \in {"finish", "cleanup"} /\ ok))

(* An index that is on the medium only was forgotten for a reason.          *)
Lag ==
  /\ pc = "boot" => cacheD = cache
  /\ \A u \in Updates : First(u) =>
       /\ Ahead(u) => cacheD.last \in {0, cache.last} \/ Stale(cacheD.last, u)
       /\ call < u /\ pc = "cmd" => saved = cache.last

(* The dry run has looked at command i of call v.                           *)
Seen(v, i) == \/ v < call
              \/ v = call /\ pc \in {"finish", "cleanup"}
              \/ v = call /\ pc = "cmd" /\ i < idx

Checked ==
  \A u \in Updates : First(u) /\ Ahead(u) =>
    \A v \in 1..(u - 1) : \A i \in Cmds(Script[v].part) :
      Lists[Script[v].part][i].op \in Transfer /\ i <= cache.last /\ Seen(v, i)
        => Done(Script[v].part, i)

(* Within the first update: what the index refers to.                       *)
Refers(n) ==
  \/ n <= saved \/ n < idx
  \/ n = idx /\ idx \in Cmds(part) /\ cmd.op \in {"stash", "move", "diff"}
  \/ Stale(n, call)
InFirst == pc \in InCall /\ First(call) => Refers(cache.last) /\ Refers(cacheD.last)

(* After the first update no call finds an index.                           *)
NoIndex ==
  \A u \in Updates : First(u) /\ u < call =>
    /\ pc = "call" => cache.last = 0
    /\ pc \in {"cmd", "finish", "cleanup"} /\ ~canwrite => cache.last = 0
    /\ pc \in InCall => saved = 0

IBase  == IInv /\ OnlyCurrentTargetAtRisk
IDone  == SavedDone /\ BelowDone /\ AllDone /\ EarlierDone
IWrite == Writing /\ Stream /\ IndexOK
ILast  == Last /\ Lag /\ Checked /\ InFirst /\ NoIndex
ILists == IBase /\ Steady /\ IDone /\ IWrite /\ ILast

LEMMA FirstExists ==
  ASSUME NEW w \in Updates
  PROVE  \E u \in Updates : First(u) /\ u <= w
  <1>1. Updates \subseteq Nat
    BY ScriptAssumption DEF Updates
  <1> DEFINE R == OpToRel(<, Nat)
  <1>2. \E x \in Updates : \A y \in Updates : ~(<<y, x>> \in R)
    BY <1>1, NatLessThanWellFounded, WFMin
  <1>3. \A x \in Updates, y \in Updates : <<y, x>> \in R <=> y < x
    BY <1>1 DEF OpToRel
  <1> HIDE DEF R
  <1>4. PICK u \in Updates : \A y \in Updates : ~(<<y, u>> \in R)
    BY <1>2
  <1>5. \A y \in Updates : u <= y
    <2> TAKE y \in Updates
    <2>1. ~(y < u)
      BY <1>3, <1>4
    <2> QED BY <1>1, <2>1
  <1> QED BY <1>5 DEF First

LEMMA CutsExist ==
  ASSUME RightNew, NEW p \in Parts
  PROVE  NewAt(p) \in Cuts(p) /\ IsCut(p, NewAt(p))
  BY DEF RightNew, NewAt

(* The steps that stay within a call.                                       *)
LEMMA SameCall ==
  ASSUME call' = call
  PROVE  part' = part /\ list' = list /\ (canwrite' <=> canwrite) /\ (idx' = idx => cmd' = cmd)
  BY DEF part, list, canwrite, cmd

LEMMA SteadyNext ==
  ASSUME IInv, Steady, [Next]_vars
  PROVE  Steady'
  <1> USE DEF Steady, SavesIndex
  <1>1. CASE Boot \/ StartCall \/ ScriptEnd \/ CreateStashFails \/ ListEnd
    BY <1>1 DEF Boot, StartCall, ScriptEnd, CreateStashFails, ListEnd, IInv, FlagType, proc
  <1>2. CASE Verify
    BY <1>2 DEF Verify, VerifySkip, VerifyTransfer, VerifyStash, VerifyFree, AtCommand, NextCommand,
                Unresumable
  <1>3. CASE UpdateSkip \/ UpdateTransfer \/ UpdateStash \/ UpdateFree \/ UpdateWrite
    <2>1. pc = "cmd" /\ call' = call /\ (pc' \in InCommand => idx' = idx /\ saved' = saved)
      BY <1>3 DEF UpdateSkip, UpdateTransfer, UpdateStash, UpdateFree, UpdateWrite, AtCommand,
                  NextCommand, Unresumable
    <2>2. cmd' = cmd \/ pc' \notin InCommand
      BY <2>1, SameCall
    <2>3. pc' \in InCommand => saved' < idx'
      BY <1>3, <2>1 DEF UpdateSkip, UpdateTransfer, UpdateStash, UpdateFree, UpdateWrite, AtCommand,
                  NextCommand, Unresumable, IInv, PlaceType
    <2>4. pc' \in {"partial", "fsync", "rename", "index"} => SavesIndex(cmd)
      BY <1>3 DEF UpdateSkip, UpdateTransfer, UpdateStash, UpdateFree, UpdateWrite, AtCommand,
                  NextCommand, Unresumable, Transfer
    <2>5. pc' \in InCall \cup {"finish"} /\ ok' = ok /\ (pc' \in InCall => unresumable' = unresumable)
      BY <1>3, <2>1 DEF UpdateSkip, UpdateTransfer, UpdateStash, UpdateFree, UpdateWrite,
                  NextCommand, Unresumable
    <2>6. SavesIndex(cmd)' <=> SavesIndex(cmd')
      BY DEF SavesIndex
    <2> HIDE DEF SavesIndex
    <2> QED BY <2>1, <2>2, <2>3, <2>4, <2>5, <2>6
  <1>4. CASE \/ WritePartial \/ FsyncPartial \/ RenamePartial \/ UpdateLastCommandIndex
             \/ Discard \/ WriteBlock \/ WriteEnd \/ FreeImplicitStash
    <2>1. /\ pc \in InCommand /\ pc' \in InCommand
          /\ UNCHANGED <<call, idx, saved, ok, unresumable>>
          /\ pc' \in {"partial", "fsync", "rename", "index"} =>
               pc \in {"partial", "fsync", "rename", "index"}
      BY <1>4 DEF WritePartial, FsyncPartial, RenamePartial, UpdateLastCommandIndex, Discard,
                  WriteBlock, WriteEnd, FreeImplicitStash, proc
    <2>2. cmd' = cmd
      BY <2>1, SameCall
    <2>3. SavesIndex(cmd)' <=> SavesIndex(cmd')
      BY DEF SavesIndex
    <2> HIDE DEF SavesIndex
    <2> QED BY <2>1, <2>2, <2>3
  <1>5. CASE FsyncPartition \/ Finish \/ Cleanup \/ Retry \/ SystemCallFails \/ PowerLoss
    BY <1>5 DEF FsyncPartition, Finish, Cleanup, Retry, SystemCallFails, PowerLoss, NextCommand, proc
  <1>6. CASE CommitCache \/ Terminated \/ UNCHANGED vars
    <2>1. UNCHANGED <<pc, call, idx, saved, ok, unresumable>>
      BY <1>6 DEF CommitCache, Terminated, vars, proc
    <2>2. cmd' = cmd
      BY <2>1, SameCall
    <2>3. SavesIndex(cmd)' <=> SavesIndex(cmd')
      BY DEF SavesIndex
    <2> HIDE DEF SavesIndex
    <2> QED BY <2>1, <2>2, <2>3
  <1> QED BY <1>1, <1>2, <1>3, <1>4, <1>5, <1>6 DEF Next, Updater, Update

LEMMA NotBoth ==
  ASSUME NEW p, NEW i, Done(p, i), Undone(p, i)
  PROVE  FALSE
  BY DEF Done, Undone, ReadsBoth

LEMMA UpdateCalls ==
  ASSUME NEW u \in Updates
  PROVE  u \in Nat \ {0} /\ u <= Len(Script) /\ Script[u].part \in Parts /\ Script[u].fn = "update"
  <1> DEFINE Calls == [fn : {"verify", "update"}, part : Parts]
  <1>1. Script \in Seq(Calls)
    BY ScriptAssumption
  <1>2. u \in 1..Len(Script) /\ Script[u].fn = "update"
    BY DEF Updates
  <1> HIDE DEF Calls
  <1>3. Script[u] \in Calls /\ Len(Script) \in Nat
    BY <1>1, <1>2
  <1> QED BY <1>2, <1>3 DEF Calls

(* An update that finds an index skips finished commands only.              *)
LEMMA StartSaved ==
  ASSUME RightLists, ILists, pc = "call", call \in Updates, NEW i \in Cmds(part), i <= cache.last
  PROVE  Finished(part, i)
  <1>0. i \in Nat \ {0} /\ part = Script[call].part /\ part \in Parts /\ call \in Nat \ {0}
    BY UpdateCalls DEF Cmds, part
  <1>1. CASE First(call)
    <2>1. Ahead(call)
      BY <1>0, <1>1 DEF Ahead
    <2>2. \A v \in 1..(call - 1) : \A j \in Cmds(Script[v].part) :
            Lists[Script[v].part][j].op \in Transfer /\ j <= cache.last => Done(Script[v].part, j)
      BY <1>0, <1>1, <2>1 DEF ILists, ILast, Checked, Seen
    <2>3. ~Stale(cache.last, call)
      BY <2>2, NotBoth DEF Stale
    <2>4. Before(cache.last, call)
      BY <1>1, <2>3 DEF ILists, ILast, Last, LastOK
    <2>5. PICK v \in 1..(call - 1) : Script[v].part = part
      <3>1. \E v \in 1..(call - 1) : Script[v] = [fn |-> "verify", part |-> Script[call].part]
        BY DEF RightLists, RightScript
      <3> QED BY <1>0, <3>1
    <2>6. Lists[part][i].op \in Transfer => Done(part, i)
      BY <2>2, <2>5
    <2>7. cache.last \in Nat
      BY DEF ILists, IBase, IInv, StoreType, CacheType
    <2>8. i < cache.last \/ i = cache.last
      BY <1>0, <2>7
    <2> QED BY <1>0, <2>4, <2>6, <2>8 DEF Before, Finished
  <1>2. CASE ~First(call)
    <2>1. PICK u \in Updates : First(u) /\ u <= call
      BY FirstExists
    <2>2. u < call
      BY <1>0, <1>2, <2>1, UpdateCalls
    <2>3. cache.last = 0
      BY <2>1, <2>2 DEF ILists, ILast, NoIndex
    <2> QED BY <1>0, <2>3
  <1> QED BY <1>1, <1>2

(* A step within an update: either the same command, or the next one.       *)
LEMMA WithinUpdate ==
  ASSUME IInv, [Next]_vars, pc' \in InCall, canwrite', ~StartCall
  PROVE  /\ pc \in InCall /\ canwrite /\ part' = part /\ saved' = saved /\ call' = call
         /\ list' = list
         /\ \/ idx' = idx /\ cmd' = cmd
            \/ UpdateSkip /\ idx' = idx + 1 /\ pc' = "cmd"
            \/ FsyncPartition /\ idx' = idx + 1 /\ pc' = "cmd"
  <1>1. CASE Verify
    <2>1. call' = call /\ ~canwrite
      BY <1>1 DEF Verify, VerifySkip, VerifyTransfer, VerifyStash, VerifyFree, AtCommand, canwrite
    <2> QED BY <2>1, SameCall
  <1>2. CASE UpdateSkip \/ UpdateTransfer \/ UpdateStash \/ UpdateFree \/ UpdateWrite
    <2>1. /\ pc \in InCall /\ call' = call /\ saved' = saved
          /\ idx' = idx \/ (UpdateSkip /\ idx' = idx + 1 /\ pc' = "cmd")
      BY <1>2 DEF UpdateSkip, UpdateTransfer, UpdateStash, UpdateFree, UpdateWrite, AtCommand,
                  NextCommand, Unresumable
    <2> QED BY <2>1, SameCall
  <1>3. CASE \/ WritePartial \/ FsyncPartial \/ RenamePartial \/ UpdateLastCommandIndex
             \/ Discard \/ WriteBlock \/ WriteEnd \/ FreeImplicitStash
    <2>1. pc \in InCall /\ UNCHANGED <<call, idx, saved>>
      BY <1>3 DEF WritePartial, FsyncPartial, RenamePartial, UpdateLastCommandIndex, Discard,
                  WriteBlock, WriteEnd, FreeImplicitStash, proc
    <2> QED BY <2>1, SameCall
  <1>4. CASE FsyncPartition
    <2>1. pc \in InCall /\ UNCHANGED <<call, saved>> /\ idx' = idx + 1 /\ pc' = "cmd"
      BY <1>4 DEF FsyncPartition, NextCommand
    <2> QED BY <1>4, <2>1, SameCall
  <1>5. CASE CommitCache \/ Terminated \/ UNCHANGED vars
    <2>1. UNCHANGED <<pc, call, idx, saved>>
      BY <1>5 DEF CommitCache, Terminated, vars, proc
    <2> QED BY <2>1, SameCall
  <1>6. CASE \/ Boot \/ ScriptEnd \/ CreateStashFails \/ ListEnd \/ Finish \/ Cleanup \/ Retry
             \/ SystemCallFails \/ PowerLoss
    BY <1>6 DEF Boot, ScriptEnd, CreateStashFails, ListEnd, Finish, Cleanup, Retry, SystemCallFails,
                PowerLoss
  <1> QED BY <1>1, <1>2, <1>3, <1>4, <1>5, <1>6 DEF Next, Updater, Update

LEMMA StartUpdate ==
  ASSUME IInv, StartCall
  PROVE  /\ pc = "call" /\ pc' = "cmd" /\ call' = call /\ part' = part /\ idx' = 1 /\ newpos' = 0
         /\ saved' = cache.last /\ disk' = disk /\ platter' = platter
         /\ canwrite' <=> call \in Updates
         /\ call \in 1..Len(Script) /\ part \in Parts
  <1>1. call' = call /\ call \in 1..Len(Script)
    BY ScriptAssumption DEF StartCall, IInv, PlaceType
  <1>2. canwrite' <=> call \in Updates
    BY <1>1 DEF canwrite, Updates
  <1> QED BY <1>1, <1>2, SameCall, CallType DEF StartCall, IInv

LEMMA DoneNext ==
  ASSUME RightLists, ILists, [Next]_vars
  PROVE  SavedDone' /\ BelowDone'
  <1>0. IInv /\ RightTargets /\ Steady /\ SavedDone /\ BelowDone /\ Writing
    BY DEF ILists, IBase, IDone, IWrite, RightLists
  <1> SUFFICES ASSUME pc' \in InCall, canwrite', NEW p, p = part', NEW i \in Cmds(p),
                      i <= saved' \/ i < idx'
               PROVE  Finished(p, i)'
    BY DEF SavedDone, BelowDone, Finished, Done, ReadsBoth
  <1>1. CASE StartCall
    <2>1. /\ part' = part /\ part \in Parts /\ saved' = cache.last /\ idx' = 1 /\ call \in Updates
          /\ pc = "call"
      BY <1>0, <1>1, StartUpdate
    <2>2. i \in Nat \ {0}
      BY DEF Cmds
    <2>3. Finished(part, i)
      BY <2>1, <2>2, StartSaved
    <2>4. ~Touched(part, i)
      BY <2>1 DEF Touched
    <2> QED BY <1>0, <2>1, <2>3, <2>4, FinishedStays
  <1>2. CASE ~StartCall
    <2>1. /\ pc \in InCall /\ canwrite /\ part' = part /\ saved' = saved
          /\ \/ idx' = idx
             \/ UpdateSkip /\ idx' = idx + 1
             \/ FsyncPartition /\ idx' = idx + 1
      BY <1>0, <1>2, WithinUpdate
    <2>2. part \in Parts /\ i \in Cmds(part) /\ i \in Nat /\ idx \in Nat /\ saved \in Nat
      BY <1>0, <2>1, AtHead DEF Cmds, IInv, PlaceType
    <2>3. CASE FsyncPartition /\ i = idx
      <3>1. cmd = Lists[part][idx] /\ pc = "sync" /\ disk' = disk /\ platter' = disk
        BY <1>0, <2>3, Here DEF FsyncPartition
      <3>2. Lists[part][i].op \in Writers =>
              /\ Len(Lists[part][i].out) = Len(Lists[part][i].tgt)
              /\ \A k \in 1..Len(Lists[part][i].tgt) : disk[Lists[part][i].tgt[k]] = Lists[part][i].out[k]
        BY <1>0, <2>2, <2>3, <3>1, SiteType DEF Writing
      <3> QED BY <2>1, <3>1, <3>2 DEF Finished, Done, ReadsBoth
    <2>4. CASE ~(FsyncPartition /\ i = idx)
      <3>1. i <= saved \/ i < idx
        <4>1. CASE UpdateSkip
          BY <2>1, <2>2, <4>1 DEF UpdateSkip
        <4>2. CASE ~UpdateSkip
          BY <2>1, <2>2, <2>4, <4>2
        <4> QED BY <4>1, <4>2
      <3>2. Finished(part, i)
        BY <1>0, <2>1, <2>2, <3>1 DEF SavedDone, BelowDone
      <3>3. ~Touched(part, i)
        BY <1>0, <2>2, <3>1 DEF Touched, Steady
      <3> QED BY <1>0, <2>1, <2>2, <3>2, <3>3, FinishedStays
    <2> QED BY <2>3, <2>4
  <1> QED BY <1>1, <1>2

LEMMA AllDoneNext ==
  ASSUME RightLists, ILists, [Next]_vars
  PROVE  AllDone'
  <1>0. IInv /\ RightTargets /\ Steady /\ AllDone /\ BelowDone
    BY DEF ILists, IBase, IDone, RightLists
  <1> SUFFICES ASSUME pc' \in {"finish", "cleanup"}, ok', canwrite', NEW p, p = part',
                      NEW i \in Cmds(p)
               PROVE  Finished(p, i)'
    BY DEF AllDone, Finished, Done, ReadsBoth
  <1>1. CASE ListEnd
    <2>1. pc = "cmd" /\ call' = call /\ idx > Len(list)
      BY <1>1 DEF ListEnd
    <2>2. part' = part /\ canwrite /\ part \in Parts /\ list = Lists[part]
      BY <1>0, <2>1, SameCall, AtHead
    <2>3. i < idx
      BY <2>1, <2>2, <1>0, ListsAssumption DEF Cmds, IInv, PlaceType
    <2>4. Finished(part, i) /\ ~Touched(part, i)
      BY <1>0, <2>1, <2>2, <2>3 DEF BelowDone, Touched
    <2> QED BY <1>0, <2>2, <2>4, FinishedStays
  <1>2. CASE ~ListEnd
    <2>1. pc \in {"finish", "cleanup"} /\ ok /\ call' = call
      BY <1>0, <1>2
         DEF Next, Updater, Boot, StartCall, ScriptEnd, CreateStashFails, Verify,
             VerifySkip, VerifyTransfer, VerifyStash, VerifyFree, Update, UpdateSkip,
             UpdateTransfer, UpdateStash, UpdateFree, UpdateWrite, WritePartial, FsyncPartial,
             RenamePartial, UpdateLastCommandIndex, Discard, WriteBlock, WriteEnd,
             FreeImplicitStash, FsyncPartition, Finish, Cleanup, Retry, SystemCallFails,
             CommitCache, PowerLoss, Terminated, vars, proc, AtCommand, NextCommand, Unresumable,
             Steady
    <2>2. part' = part /\ canwrite /\ part \in Parts
      BY <1>0, <2>1, SameCall, AtHead
    <2>3. Finished(part, i) /\ ~Touched(part, i)
      BY <1>0, <2>1, <2>2 DEF AllDone, Touched
    <2> QED BY <1>0, <2>2, <2>3, FinishedStays
  <1> QED BY <1>1, <1>2

LEMMA EarlierDoneNext ==
  ASSUME RightLists, ILists, [Next]_vars
  PROVE  EarlierDone'
  <1>0. IInv /\ RightTargets /\ RightScript /\ AllDone /\ EarlierDone
    BY DEF ILists, IBase, IDone, RightLists
  <1> SUFFICES ASSUME pc' # "boot", NEW u \in Updates, u < call', NEW i \in Cmds(Script[u].part)
               PROVE  Finished(Script[u].part, i)'
    BY DEF EarlierDone
  <1>1. u \in Nat \ {0} /\ Script[u].part \in Parts
    BY UpdateCalls
  <1>2. CASE u = call
    <2>1. Cleanup /\ ok /\ pc = "cleanup"
      BY <1>0, <1>1, <1>2
         DEF Next, Updater, Boot, StartCall, ScriptEnd, CreateStashFails, ListEnd, Verify,
             VerifySkip, VerifyTransfer, VerifyStash, VerifyFree, Update, UpdateSkip,
             UpdateTransfer, UpdateStash, UpdateFree, UpdateWrite, WritePartial, FsyncPartial,
             RenamePartial, UpdateLastCommandIndex, Discard, WriteBlock, WriteEnd,
             FreeImplicitStash, FsyncPartition, Finish, Cleanup, Retry, SystemCallFails,
             CommitCache, PowerLoss, Terminated, vars, proc
    <2>2. canwrite /\ part = Script[u].part
      BY <1>2, UpdateCalls DEF canwrite, part
    <2>3. Finished(Script[u].part, i) /\ ~Touched(Script[u].part, i)
      BY <1>0, <2>1, <2>2 DEF AllDone, Touched
    <2> QED BY <1>0, <1>1, <2>3, FinishedStays
  <1>3. CASE u # call
    <2>1. pc # "boot" /\ u < call
      <3>1. CASE Boot
        BY <1>1, <3>1 DEF Boot
      <3>2. CASE Cleanup
        BY <1>0, <1>1, <1>3, <3>2 DEF Cleanup, IInv, PlaceType
      <3>3. CASE ~Boot /\ ~Cleanup
        BY <1>1, <3>3
           DEF Next, Updater, StartCall, ScriptEnd, CreateStashFails, ListEnd, Verify,
               VerifySkip, VerifyTransfer, VerifyStash, VerifyFree, Update, UpdateSkip,
               UpdateTransfer, UpdateStash, UpdateFree, UpdateWrite, WritePartial, FsyncPartial,
               RenamePartial, UpdateLastCommandIndex, Discard, WriteBlock, WriteEnd,
               FreeImplicitStash, FsyncPartition, Finish, Retry, SystemCallFails,
               CommitCache, PowerLoss, Terminated, vars, proc, AtCommand
      <3> QED BY <3>1, <3>2, <3>3
    <2>2. Finished(Script[u].part, i)
      BY <1>0, <2>1 DEF EarlierDone
    <2>3. ~Touched(Script[u].part, i)
      <3>1. pc \in {"discard", "write"} => call \in Updates /\ part = Script[call].part
        BY <1>0, Here
      <3> QED BY <1>0, <1>3, <3>1 DEF Touched, RightScript
    <2> QED BY <1>0, <1>1, <2>2, <2>3, FinishedStays
  <1> QED BY <1>2, <1>3

-----------------------------------------------------------------------------
(* The data that a command writes.                                          *)

LEMMA WriteBlockGood ==
  ASSUME RightLists, ILists, WriteBlock
  PROVE  /\ wpos + 1 \in 1..Len(cmd.tgt)
         /\ disk' = [disk EXCEPT ![cmd.tgt[wpos + 1]] = cmd.out[wpos + 1]]
  <1> USE DEF WriteBlock
  <1>0. IInv /\ Control /\ Writing /\ Stream /\ RightTargets /\ RightNew
    BY DEF ILists, IBase, IInv, IWrite, RightLists
  <1>1. part \in Parts /\ idx \in Cmds(part) /\ cmd = Lists[part][idx] /\ canwrite
    BY <1>0, Here
  <1>2. cmd.op \in Writers
    BY <1>0 DEF Control, Writers
  <1>3. cmd.tgt \in Seq(Blocks) /\ cmd.out \in Seq(Data) /\ Len(cmd.out) = Len(cmd.tgt)
    BY <1>1, <1>2, SiteType
  <1>4. wpos + 1 \in 1..Len(cmd.tgt) /\ wpos \in Nat
    BY <1>0, <1>3 DEF IInv, PlaceType
  <1>5. cmd.op = "zero" => cmd.out[wpos + 1] = Zeroes
    BY <1>0, <1>1, <1>3, <1>4 DEF RightTargets
  <1>6. cmd.op = "new" => cmd.out[wpos + 1] = NewData[part][newpos + 1]
    <2> SUFFICES ASSUME cmd.op = "new" PROVE cmd.out[wpos + 1] = NewData[part][newpos + 1]
      OBVIOUS
    <2>1. newpos = NewAt(part)[idx] + wpos
      BY <1>0, <1>1 DEF Stream
    <2>2. NewAt(part)[idx] \in Nat
      <3>1. NewAt(part) \in Cuts(part)
        BY <1>0, <1>1, CutsExist
      <3>2. idx \in 1..(Len(Lists[part]) + 1) /\ Len(NewData[part]) \in Nat
        BY <1>1, ListsAssumption, DataAssumption DEF Cmds
      <3> QED BY <3>1, <3>2 DEF Cuts
    <2>3. NewData[part][NewAt(part)[idx] + (wpos + 1)] = cmd.out[wpos + 1]
      <3>1. IsCut(part, NewAt(part))
        BY <1>0, <1>1, CutsExist
      <3>2. \A k \in 1..Len(cmd.tgt) : NewData[part][NewAt(part)[idx] + k] = cmd.out[k]
        BY <1>1, <3>1, Zenon DEF IsCut
      <3> QED BY <1>4, <3>2, Zenon
    <2>4. NewAt(part)[idx] + (wpos + 1) = newpos + 1
      BY <1>4, <2>1, <2>2
    <2> QED BY <2>3, <2>4
  <1>7. (CASE cmd.op = "zero" -> Zeroes
           [] cmd.op = "new"  -> NewData[part][newpos + 1]
           [] OTHER           -> cmd.out[wpos + 1]) = cmd.out[wpos + 1]
    BY <1>5, <1>6
  <1> QED BY <1>4, <1>7

LEMMA WritingNext ==
  ASSUME RightLists, ILists, [Next]_vars
  PROVE  Writing'
  <1>0. IInv /\ Control /\ Writing /\ RightTargets
    BY DEF ILists, IBase, IInv, IWrite, RightLists
  <1>1. CASE UpdateTransfer
    <2>1. pc = "cmd" /\ call' = call /\ idx <= Len(list) /\ cmd.op \in Transfer /\ wpos' = 0
          /\ disk' = disk
      BY <1>1 DEF UpdateTransfer, AtCommand
    <2>2. part \in Parts /\ idx \in Cmds(part) /\ cmd = Lists[part][idx]
      BY <1>0, <2>1, AtHead
    <2>3. CASE pc' \in InCommand
      <3>1. idx' = idx /\ cmd' = cmd /\ (pc' \in {"free", "sync"} => TargetDone(cmd)) /\ pc' # "write"
        BY <1>1, <2>1, <2>3, SameCall DEF UpdateTransfer, Unresumable
      <3>2. TargetDone(cmd) => \A k \in 1..Len(cmd.tgt) : disk[cmd.tgt[k]] = cmd.out[k]
        BY <1>0, <2>1, <2>2, TargetRead DEF Transfer, Writers
      <3> QED BY <2>1, <3>1, <3>2 DEF Writing
    <2>4. CASE pc' \notin InCommand
      BY <2>4 DEF Writing
    <2> QED BY <2>3, <2>4
  <1>2. CASE UpdateWrite
    BY <1>2 DEF UpdateWrite, Writing
  <1>3. CASE UpdateStash \/ UpdateFree
    <2>1. cmd' = cmd /\ cmd.op \in {"stash", "free"} /\ (cmd.op = "free" => pc' = "sync")
          /\ pc' \in {"partial", "sync"}
      BY <1>3, SameCall DEF UpdateStash, UpdateFree, AtCommand
    <2> QED BY <2>1 DEF Writing, Writers
  <1>4. CASE WritePartial \/ FsyncPartial \/ RenamePartial \/ UpdateLastCommandIndex
    <2>1. /\ cmd' = cmd /\ wpos' = wpos /\ pc' \in {"fsync", "rename", "index", "discard", "sync"}
          /\ pc \in {"partial", "fsync", "rename", "index"}
          /\ pc' = "sync" => cmd.op = "stash"
          /\ pc' = "discard" => cmd.op # "stash"
      BY <1>4, SameCall DEF WritePartial, FsyncPartial, RenamePartial, UpdateLastCommandIndex, proc
    <2> QED BY <1>0, <2>1 DEF Writing, Writers
  <1>5. CASE Discard
    <2>1. cmd' = cmd /\ wpos' = wpos /\ pc = "discard" /\ pc' = (IF cmd.op = "erase" THEN "free" ELSE "write")
      BY <1>5, SameCall DEF Discard, proc
    <2>2. cmd.op # "stash"
      BY <1>0, <2>1 DEF Control
    <2>3. wpos = 0
      BY <1>0, <2>1, <2>2 DEF Writing
    <2>4. Len(cmd.tgt) \in Nat
      BY <1>0, <2>1, Here, SiteType
    <2> QED BY <2>1, <2>3, <2>4 DEF Writing, Writers
  <1>6. CASE WriteBlock
    <2>1. /\ wpos + 1 \in 1..Len(cmd.tgt)
          /\ disk' = [disk EXCEPT ![cmd.tgt[wpos + 1]] = cmd.out[wpos + 1]]
      BY <1>6, WriteBlockGood
    <2>2. cmd' = cmd /\ wpos' = wpos + 1 /\ pc = "write" /\ pc' = "write"
      BY <1>6, SameCall DEF WriteBlock
    <2>3. part \in Parts /\ idx \in Cmds(part) /\ cmd = Lists[part][idx]
      BY <1>0, <2>2, Here
    <2>4. \A k \in 1..Len(cmd.tgt), l \in 1..Len(cmd.tgt) : cmd.tgt[k] = cmd.tgt[l] => k = l
      BY <1>0, <2>3 DEF RightTargets
    <2>5. cmd.tgt \in Seq(Blocks) /\ wpos \in Nat /\ disk \in [Blocks -> Data]
      BY <1>0, <2>3, SiteType DEF IInv, PlaceType, StoreType
    <2>6. \A k \in 1..wpos : disk[cmd.tgt[k]] = cmd.out[k]
      BY <1>0, <2>2 DEF Writing
    <2>7. \A k \in 1..(wpos + 1) : disk'[cmd.tgt[k]] = cmd.out[k]
      BY <2>1, <2>4, <2>5, <2>6
    <2> QED BY <2>1, <2>2, <2>5, <2>7 DEF Writing
  <1>7. CASE WriteEnd
    <2>1. cmd' = cmd /\ wpos = Len(cmd.tgt) /\ pc = "write" /\ pc' = "free" /\ disk' = disk
      BY <1>7, SameCall DEF WriteEnd, proc, store
    <2> QED BY <1>0, <2>1 DEF Writing
  <1>8. CASE FreeImplicitStash
    <2>1. cmd' = cmd /\ pc = "free" /\ pc' = "sync" /\ disk' = disk
      BY <1>8, SameCall DEF FreeImplicitStash
    <2> QED BY <1>0, <2>1 DEF Writing
  <1>9. CASE CommitCache \/ Terminated \/ UNCHANGED vars
    <2>1. UNCHANGED <<pc, call, idx, wpos, disk>>
      BY <1>9 DEF CommitCache, Terminated, vars, proc, store
    <2>2. cmd' = cmd
      BY <2>1, SameCall
    <2> QED BY <1>0, <2>1, <2>2 DEF Writing
  <1>10. CASE pc' \notin InCommand
    BY <1>10 DEF Writing
  <1> QED BY <1>1, <1>2, <1>3, <1>4, <1>5, <1>6, <1>7, <1>8, <1>9, <1>10
       DEF Next, Updater, Boot, StartCall, ScriptEnd, CreateStashFails, ListEnd, Verify,
           VerifySkip, VerifyTransfer, VerifyStash, VerifyFree, Update, UpdateSkip,
           FsyncPartition, Finish, Cleanup, Retry, SystemCallFails, PowerLoss, NextCommand,
           Unresumable

LEMMA StreamNext ==
  ASSUME RightLists, ILists, [Next]_vars
  PROVE  Stream'
  <1>0. IInv /\ Control /\ Writing /\ Stream /\ Steady /\ IndexOK /\ RightNew
    BY DEF ILists, IBase, IInv, IWrite, RightLists
  <1> SUFFICES ASSUME pc' \in InCall, canwrite'
               PROVE  IF pc' \in {"write", "free", "sync"} /\ (cmd.op = "new")'
                      THEN newpos' = NewAt(part')[idx'] + wpos' /\ (pc' # "write" => wpos' = Len(cmd'.tgt))
                      ELSE newpos' = NewAt(part')[idx']
    BY DEF Stream
  <1>1. CASE StartCall
    BY <1>0, <1>1, StartUpdate, CutsExist DEF IsCut
  <1>2. CASE ~StartCall
    <2>1. /\ pc \in InCall /\ canwrite /\ part' = part /\ list' = list
          /\ \/ idx' = idx /\ cmd' = cmd
             \/ UpdateSkip /\ idx' = idx + 1 /\ pc' = "cmd"
             \/ FsyncPartition /\ idx' = idx + 1 /\ pc' = "cmd"
      BY <1>0, <1>2, WithinUpdate
    <2>2. part \in Parts /\ list = Lists[part] /\ Len(list) \in Nat
      BY <1>0, <2>1, AtHead
    <2>3. idx \in Cmds(part) /\ cmd = Lists[part][idx] =>
            NewAt(part)[idx + 1] = NewAt(part)[idx] + (IF cmd.op = "new" THEN Len(cmd.tgt) ELSE 0)
      <3> SUFFICES ASSUME idx \in Cmds(part), cmd = Lists[part][idx]
                   PROVE  NewAt(part)[idx + 1] = NewAt(part)[idx] + (IF cmd.op = "new" THEN Len(cmd.tgt) ELSE 0)
        OBVIOUS
      <3>1. IsCut(part, NewAt(part)) /\ NewAt(part) \in Cuts(part)
        BY <1>0, <2>2, CutsExist
      <3>2. idx \in 1..(Len(Lists[part]) + 1) /\ Len(NewData[part]) \in Nat
        BY <2>2, ListsAssumption, DataAssumption DEF Cmds
      <3>3. NewAt(part)[idx] \in Nat
        BY <3>1, <3>2 DEF Cuts
      <3> QED BY <3>1, <3>3 DEF IsCut
    <2>4. CASE UpdateSkip
      <3>1. idx \in Cmds(part) /\ cmd = Lists[part][idx] /\ idx <= saved /\ newpos' = newpos
            /\ pc = "cmd" /\ pc' = "cmd"
        BY <1>0, <2>4, AtHead DEF UpdateSkip, AtCommand, NextCommand
      <3>2. cmd.op # "new"
        <4>1. idx \in Nat /\ saved \in Nat
          BY <1>0 DEF IInv, PlaceType
        <4> QED BY <1>0, <2>2, <3>1, <4>1 DEF IndexOK, NewAfter
      <3>3. newpos = NewAt(part)[idx] /\ idx' = idx + 1
        BY <1>0, <2>1, <2>4, <3>1 DEF Stream, UpdateSkip, NextCommand
      <3>4. NewAt(part)[idx] \in Nat
        BY <1>0, <3>3 DEF IInv, PlaceType
      <3> QED BY <2>1, <2>3, <3>1, <3>2, <3>3, <3>4
    <2>5. CASE FsyncPartition
      <3>1. idx \in Cmds(part) /\ cmd = Lists[part][idx] /\ newpos' = newpos /\ pc = "sync" /\ pc' = "cmd"
            /\ idx' = idx + 1
        BY <1>0, <2>5, Here DEF FsyncPartition, NextCommand
      <3>2. newpos = NewAt(part)[idx] + (IF cmd.op = "new" THEN Len(cmd.tgt) ELSE 0)
        <4>1. newpos \in Nat
          BY <1>0 DEF IInv, PlaceType
        <4> QED BY <1>0, <2>1, <3>1, <4>1 DEF Stream
      <3> QED BY <2>1, <2>3, <3>1, <3>2
    <2>6. CASE WriteBlock
      <3>1. pc = "write" /\ pc' = "write" /\ wpos' = wpos + 1 /\ cmd' = cmd /\ idx' = idx
            /\ newpos' = (IF cmd.op = "new" THEN newpos + 1 ELSE newpos)
        BY <2>6, SameCall DEF WriteBlock
      <3>2. CASE cmd.op = "new"
        <4>1. newpos = NewAt(part)[idx] + wpos
          BY <1>0, <2>1, <3>1, <3>2 DEF Stream
        <4>2. NewAt(part)[idx] \in Nat /\ wpos \in Nat
          <5>1. idx \in Cmds(part) /\ NewAt(part) \in Cuts(part)
            BY <1>0, <2>2, <3>1, Here, CutsExist
          <5>2. idx \in 1..(Len(Lists[part]) + 1) /\ Len(NewData[part]) \in Nat
            BY <2>2, <5>1, ListsAssumption, DataAssumption DEF Cmds
          <5> QED BY <1>0, <5>1, <5>2 DEF Cuts, IInv, PlaceType
        <4> QED BY <2>1, <3>1, <3>2, <4>1, <4>2
      <3>3. CASE cmd.op # "new"
        BY <1>0, <2>1, <3>1, <3>3 DEF Stream
      <3> QED BY <3>2, <3>3
    <2>7. CASE Discard
      <3>1. pc = "discard" /\ cmd' = cmd /\ idx' = idx /\ newpos' = newpos /\ wpos' = wpos
            /\ pc' = (IF cmd.op = "erase" THEN "free" ELSE "write")
        BY <2>7, SameCall DEF Discard, proc
      <3>2. wpos = 0 /\ newpos = NewAt(part)[idx]
        BY <1>0, <2>1, <3>1 DEF Stream, Writing, Control
      <3>3. newpos \in Nat
        BY <1>0 DEF IInv, PlaceType
      <3> QED BY <2>1, <3>1, <3>2, <3>3
    <2>8. CASE WriteEnd \/ FreeImplicitStash \/ CommitCache \/ Terminated \/ UNCHANGED vars
      <3>1. UNCHANGED <<call, idx, newpos, wpos>> /\ cmd' = cmd
        BY <2>8, SameCall DEF WriteEnd, FreeImplicitStash, CommitCache, Terminated, vars, proc
      <3>2. \/ pc = "write" /\ pc' = "free" /\ wpos = Len(cmd.tgt)
            \/ pc = "free" /\ pc' = "sync"
            \/ pc' = pc
        BY <2>8 DEF WriteEnd, FreeImplicitStash, CommitCache, Terminated, vars
      <3> QED BY <1>0, <2>1, <3>1, <3>2 DEF Stream
    <2>9. CASE \/ UpdateTransfer \/ UpdateStash \/ UpdateFree \/ UpdateWrite
               \/ WritePartial \/ FsyncPartial \/ RenamePartial \/ UpdateLastCommandIndex
      <3>1. newpos' = newpos /\ pc \in {"cmd", "partial", "fsync", "rename", "index"} /\ call' = call
            /\ pc' # "write" /\ (pc' \in {"free", "sync"} => cmd.op \in {"move", "diff", "stash", "free"})
        BY <2>9 DEF UpdateTransfer, UpdateStash, UpdateFree, UpdateWrite, WritePartial,
                    FsyncPartial, RenamePartial, UpdateLastCommandIndex, proc, AtCommand, Transfer,
                    Unresumable
      <3>2. idx' = idx /\ cmd' = cmd
        BY <2>9, <3>1, SameCall DEF UpdateTransfer, UpdateStash, UpdateFree, UpdateWrite,
                    WritePartial, FsyncPartial, RenamePartial, UpdateLastCommandIndex, proc,
                    Unresumable
      <3> QED BY <1>0, <2>1, <3>1, <3>2 DEF Stream
    <2>10. CASE Verify
      BY <2>1, <2>10 DEF Verify, VerifySkip, VerifyTransfer, VerifyStash, VerifyFree, AtCommand, canwrite
    <2>11. CASE \/ Boot \/ ScriptEnd \/ CreateStashFails \/ ListEnd \/ Finish \/ Cleanup \/ Retry
                \/ SystemCallFails \/ PowerLoss
      BY <2>11 DEF Boot, ScriptEnd, CreateStashFails, ListEnd, Finish, Cleanup, Retry,
                   SystemCallFails, PowerLoss
    <2> QED BY <1>2, <2>4, <2>5, <2>6, <2>7, <2>8, <2>9, <2>10, <2>11 DEF Next, Updater, Update
  <1> QED BY <1>1, <1>2

(* What becomes of the saved index.                                         *)
LEMMA LastStep ==
  ASSUME IInv, [Next]_vars
  PROVE  /\ \/ cache'.last \in {0, cache.last}
            \/ PowerLoss /\ cache'.last = cacheD.last
            \/ UpdateLastCommandIndex /\ cache'.last = idx
         /\ cacheD'.last = cacheD.last \/ cacheD' = cache'
         /\ saved' \in {0, saved, cache.last}
  <1>1. CASE PowerLoss
    <2>1. PICK f \in {"whole", "torn"} :
            cache' = [cacheD EXCEPT !.file =
              [p \in Parts |-> [id \in Ids |->
                IF cacheD.file[p][id] = "dirty" THEN f ELSE cacheD.file[p][id]]]]
      BY <1>1 DEF PowerLoss
    <2>2. cache'.last = cacheD.last
      BY <2>1 DEF IInv, StoreType, CacheType
    <2> QED BY <1>1, <2>2 DEF PowerLoss, proc
  <1>2. CASE UpdateLastCommandIndex
    BY <1>2 DEF UpdateLastCommandIndex, IInv, StoreType, CacheType, proc
  <1>3. CASE Verify
    BY <1>3 DEF Verify, VerifySkip, VerifyTransfer, VerifyStash, VerifyFree, store, IInv, StoreType,
                CacheType, AfterBadStash, DeleteFile, DeleteLastCommandFile
  <1>4. CASE Finish \/ Cleanup
    BY <1>4 DEF Finish, Cleanup, IInv, StoreType, CacheType, DeleteStash, DeleteLastCommandFile, proc
  <1>5. CASE Boot \/ StartCall \/ CreateStashFails \/ CommitCache \/ Retry \/ RenamePartial
    BY <1>5 DEF Boot, StartCall, CreateStashFails, CommitCache, Retry, RenamePartial, IInv,
                StoreType, CacheType, proc, store
  <1>6. CASE UpdateTransfer \/ UpdateStash \/ UpdateFree \/ FreeImplicitStash
    BY <1>6 DEF UpdateTransfer, UpdateStash, UpdateFree, FreeImplicitStash, IInv, StoreType,
                CacheType, AfterBadStash, DeleteFile
  <1>7. CASE \/ ScriptEnd \/ ListEnd \/ UpdateSkip \/ UpdateWrite \/ WritePartial \/ FsyncPartial
             \/ Discard \/ WriteBlock \/ WriteEnd \/ FsyncPartition \/ SystemCallFails
             \/ Terminated \/ UNCHANGED vars
    BY <1>7 DEF ScriptEnd, ListEnd, UpdateSkip, UpdateWrite, WritePartial, FsyncPartial, Discard,
                WriteBlock, WriteEnd, FsyncPartition, SystemCallFails, Terminated, vars, store, proc
  <1> QED BY <1>1, <1>2, <1>3, <1>4, <1>5, <1>6, <1>7 DEF Next, Updater, Update

LEMMA IndexOKNext ==
  ASSUME RightLists, ILists, [Next]_vars
  PROVE  IndexOK'
  <1>0. IInv /\ Steady /\ IndexOK /\ RightNew
    BY DEF ILists, IBase, IWrite, RightLists
  <1>1. NewAfter(0)
    BY DEF NewAfter, Cmds
  <1>2. ASSUME UpdateLastCommandIndex PROVE NewAfter(idx)
    <2>1. pc = "index"
      BY <1>2 DEF UpdateLastCommandIndex
    <2>2. part \in Parts /\ idx \in Cmds(part) /\ SavesIndex(Lists[part][idx])
      BY <1>0, <2>1, Here DEF Steady
    <2> QED BY <1>0, <2>2 DEF RightNew, NewAfter
  <1>3. NewAfter(cache'.last)
    BY <1>0, <1>1, <1>2, LastStep DEF IndexOK
  <1>4. NewAfter(cacheD'.last) /\ NewAfter(saved')
    BY <1>0, <1>1, <1>3, LastStep DEF IndexOK
  <1> QED BY <1>3, <1>4 DEF IndexOK, NewAfter

-----------------------------------------------------------------------------
(* The saved index stays harmless.                                          *)

LEMMA CallParts ==
  ASSUME NEW v \in 1..Len(Script)
  PROVE  Script[v].part \in Parts
  <1> DEFINE Calls == [fn : {"verify", "update"}, part : Parts]
  <1>1. Script \in Seq(Calls)
    BY ScriptAssumption
  <1> HIDE DEF Calls
  <1>2. Script[v] \in Calls
    BY <1>1
  <1> QED BY <1>2 DEF Calls

(* The command that shows an index stale is left alone, or it is the one    *)
(* being written.                                                           *)
LEMMA StaleStep ==
  ASSUME RightTargets, IInv, [Next]_vars, NEW n, NEW u \in Updates, Stale(n, u)
  PROVE  \/ Stale(n, u)'
         \/ /\ pc \in {"discard", "write"} /\ cmd.op \in Transfer
            /\ part = Script[u].part => n = idx
  <1>1. PICK v \in 1..(u - 1) :
          \E i \in Cmds(Script[v].part) :
            /\ Lists[Script[v].part][i].op \in Transfer /\ Undone(Script[v].part, i)
            /\ i <= n /\ (Script[v].part = Script[u].part => i = n)
    BY DEF Stale
  <1>2. PICK i \in Cmds(Script[v].part) :
            /\ Lists[Script[v].part][i].op \in Transfer /\ Undone(Script[v].part, i)
            /\ i <= n /\ (Script[v].part = Script[u].part => i = n)
    BY <1>1
  <1>3. Script[v].part \in Parts
    <2>1. u \in Nat \ {0} /\ u <= Len(Script) /\ Len(Script) \in Nat
      BY UpdateCalls, ScriptAssumption
    <2>2. v \in Nat /\ 1 <= v /\ v <= Len(Script)
      BY <2>1
    <2>3. v \in 1..Len(Script)
      BY <2>1, <2>2
    <2> QED BY <2>3, CallParts
  <1>4. CASE Touched(Script[v].part, i)
    <2>1. pc \in {"discard", "write"} /\ Script[v].part = part /\ i = idx
      BY <1>4 DEF Touched
    <2>2. cmd = Lists[part][idx]
      BY <2>1, Here
    <2> QED BY <1>2, <2>1, <2>2
  <1>5. CASE ~Touched(Script[v].part, i)
    <2>1. Undone(Script[v].part, i)'
      BY <1>2, <1>3, <1>5, FinishedStays
    <2> QED BY <1>2, <2>1 DEF Stale
  <1> QED BY <1>4, <1>5

LEMMA LastOKStays ==
  ASSUME RightTargets, IInv, [Next]_vars, NEW n, LastOK(n), pc \notin {"discard", "write"}
  PROVE  LastOK(n)'
  <1> SUFFICES ASSUME NEW u \in Updates, First(u)
               PROVE  Before(n, u)' \/ Stale(n, u)'
    BY DEF LastOK, First
  <1>1. CASE Stale(n, u)
    BY <1>1, StaleStep
  <1>2. CASE Before(n, u)
    <2>1. Script[u].part \in Parts
      BY UpdateCalls
    <2>2. \A i \in Cmds(Script[u].part) : Finished(Script[u].part, i) => Finished(Script[u].part, i)'
      <3> TAKE i \in Cmds(Script[u].part)
      <3>1. ~Touched(Script[u].part, i)
        BY DEF Touched
      <3> QED BY <2>1, <3>1, FinishedStays
    <2> QED BY <1>2, <2>2 DEF Before
  <1> QED BY <1>1, <1>2 DEF LastOK

(* While a command is written, the index refers to what is behind it.       *)
LEMMA LastOKTouch ==
  ASSUME RightLists, ILists, [Next]_vars, pc \in {"discard", "write"},
         NEW n \in Nat, n \in {cache.last, cacheD.last}
  PROVE  LastOK(n)'
  <1>0. /\ IInv /\ Control /\ RightTargets /\ RightScript /\ Steady /\ SavedDone /\ BelowDone
        /\ EarlierDone /\ InFirst
    BY DEF ILists, IBase, IInv, IDone, ILast, RightLists
  <1>1. /\ call \in Updates /\ part = Script[call].part /\ part \in Parts /\ idx \in Cmds(part)
        /\ cmd = Lists[part][idx] /\ canwrite /\ pc \in InCall
    BY <1>0, Here
  <1>2. idx \in Nat /\ saved \in Nat /\ saved < idx /\ call \in Nat
    BY <1>0 DEF IInv, PlaceType, Steady
  <1> SUFFICES ASSUME NEW u \in Updates, First(u)
               PROVE  Before(n, u)' \/ Stale(n, u)'
    BY DEF LastOK, First
  <1>3. u \in Nat /\ u <= call /\ Script[u].part \in Parts
    BY <1>1, UpdateCalls DEF First
  <1>4. CASE u < call
    <2>1. \A i \in Cmds(Script[u].part) : Finished(Script[u].part, i)'
      <3> TAKE i \in Cmds(Script[u].part)
      <3>1. Finished(Script[u].part, i)
        BY <1>0, <1>4 DEF EarlierDone
      <3>2. ~Touched(Script[u].part, i)
        <4>1. u # call
          BY <1>2, <1>3, <1>4
        <4>2. Script[u].part # part
          BY <1>0, <1>1, <4>1 DEF RightScript
        <4> QED BY <4>2 DEF Touched
      <3> QED BY <1>0, <1>3, <3>1, <3>2, FinishedStays
    <2> QED BY <2>1 DEF Before
  <1>5. CASE u = call
    <2> DEFINE p == Script[u].part
    <2>0. p = part /\ p \in Parts
      BY <1>1, <1>5
    <2>1. \A i \in Cmds(p) : i < idx => Finished(p, i)'
      <3> TAKE i \in Cmds(p)
      <3> HAVE i < idx
      <3>1. Finished(p, i)
        BY <1>0, <1>1, <2>0 DEF BelowDone
      <3>2. ~Touched(p, i)
        BY <1>2 DEF Touched, Cmds
      <3> QED BY <1>0, <2>0, <3>1, <3>2, FinishedStays
    <2>2. n < idx \/ (n = idx /\ cmd.op \in Transfer) => Before(n, u)'
      <3> SUFFICES ASSUME n < idx \/ (n = idx /\ cmd.op \in Transfer),
                          NEW i \in Cmds(p), i < n \/ (i = n /\ Lists[p][i].op \notin Transfer)
                   PROVE  Finished(p, i)'
        BY DEF Before
      <3>1. i < idx
        BY <1>1, <1>2, <2>0 DEF Cmds
      <3> QED BY <2>1, <3>1
    <2>3. Refers(n)
      BY <1>0, <1>1, <1>5 DEF InFirst
    <2>4. CASE n <= saved \/ n < idx
      BY <1>2, <2>2, <2>4
    <2>5. CASE n = idx /\ cmd.op \in {"stash", "move", "diff"}
      <3>1. cmd.op \in Transfer
        BY <1>0, <2>5 DEF Control, Transfer
      <3> QED BY <2>2, <2>5, <3>1
    <2>6. CASE Stale(n, call)
      BY <1>0, <1>1, <1>5, <2>2, <2>6, StaleStep
    <2> QED BY <2>3, <2>4, <2>5, <2>6 DEF Refers
  <1> QED BY <1>2, <1>3, <1>4, <1>5

LEMMA LastNext ==
  ASSUME RightLists, ILists, [Next]_vars
  PROVE  Last'
  <1>0. /\ IInv /\ RightTargets /\ Steady /\ Last /\ BelowDone /\ EarlierDone
    BY DEF ILists, IBase, IDone, ILast, RightLists
  <1> SUFFICES ASSUME NEW n, n \in {cache'.last, cacheD'.last}
               PROVE  LastOK(n)'
    BY DEF Last, LastOK, First, Before, Stale, Finished, Done, Undone, ReadsBoth
  <1>1. n = 0 \/ n \in {cache.last, cacheD.last} \/ (UpdateLastCommandIndex /\ n = idx)
    BY <1>0, LastStep
  <1>2. CASE n = 0
    <2> SUFFICES ASSUME NEW u \in Updates PROVE Before(n, u)'
      BY DEF LastOK
    <2>1. \A i \in Cmds(Script[u].part) : ~(i < n) /\ i # n
      BY <1>2 DEF Cmds
    <2> QED BY <2>1 DEF Before
  <1>3. CASE n \in {cache.last, cacheD.last}
    <2>1. n \in Nat
      BY <1>0, <1>3 DEF IInv, StoreType, CacheType
    <2>2. CASE pc \in {"discard", "write"}
      BY <1>3, <2>1, <2>2, LastOKTouch
    <2>3. CASE pc \notin {"discard", "write"}
      BY <1>0, <1>3, <2>3, LastOKStays DEF Last
    <2> QED BY <2>2, <2>3
  <1>4. CASE UpdateLastCommandIndex /\ n = idx
    <2>1. pc = "index"
      BY <1>4 DEF UpdateLastCommandIndex
    <2>2. /\ call \in Updates /\ part = Script[call].part /\ part \in Parts /\ idx \in Cmds(part)
          /\ cmd = Lists[part][idx] /\ canwrite
      BY <1>0, <2>1, Here
    <2>3. LastOK(n)
      <3> SUFFICES ASSUME NEW u \in Updates, First(u) PROVE Before(n, u)
        BY DEF LastOK
      <3>1. u \in Nat /\ call \in Nat /\ u <= call
        BY <2>2, UpdateCalls DEF First
      <3>2. CASE u < call
        BY <1>0, <2>1, <3>2 DEF EarlierDone, Before
      <3>3. CASE u = call
        <4>1. cmd.op \notin Transfer => cmd.op \notin Writers
          BY <1>0, <2>1 DEF Steady, SavesIndex, Writers
        <4> QED BY <1>0, <1>4, <2>1, <2>2, <3>3, <4>1 DEF Before, BelowDone, Finished
      <3> QED BY <3>1, <3>2, <3>3
    <2> QED BY <1>0, <2>1, <2>3, LastOKStays
  <1> QED BY <1>1, <1>2, <1>3, <1>4

LEMMA InFirstNext ==
  ASSUME RightLists, ILists, [Next]_vars
  PROVE  InFirst'
  <1>0. /\ IInv /\ RightTargets /\ Steady /\ Lag /\ InFirst
    BY DEF ILists, IBase, ILast, RightLists
  <1> SUFFICES ASSUME pc' \in InCall, NEW u, u = call', First(u), NEW n,
                      n \in {cache'.last, cacheD'.last}
               PROVE  \/ n <= saved' \/ n < idx'
                      \/ n = idx' /\ idx' \in Cmds(part') /\ cmd'.op \in {"stash", "move", "diff"}
                      \/ Stale(n, u)'
    BY DEF InFirst, Refers, First, Stale, Undone
  <1>1. u \in Updates /\ u \in Nat \ {0}
    BY UpdateCalls DEF First
  <1>2. idx \in Nat \ {0} /\ saved \in Nat /\ cache.last \in Nat /\ cacheD.last \in Nat
    BY <1>0 DEF IInv, PlaceType, StoreType, CacheType
  <1>3. CASE StartCall
    <2>1. pc = "call" /\ call' = call /\ saved' = cache.last /\ cacheD' = cacheD /\ idx' = 1
      BY <1>3 DEF StartCall
    <2>2. cache'.last = cache.last
      BY <1>0, <1>3 DEF StartCall, IInv, StoreType, CacheType
    <2>3. cacheD.last \in {0, cache.last} \/ Stale(cacheD.last, u)
      BY <1>0, <1>1, <2>1 DEF Lag, Ahead
    <2>4. ASSUME n = cacheD.last, Stale(n, u) PROVE Stale(n, u)'
      BY <1>0, <1>1, <2>1, <2>4, StaleStep
    <2>5. n \in {cache.last, cacheD.last}
      BY <2>1, <2>2
    <2>6. CASE n \in {0, cache.last}
      BY <1>2, <2>1, <2>6
    <2>7. CASE n \notin {0, cache.last}
      BY <2>3, <2>4, <2>5, <2>7
    <2> QED BY <2>6, <2>7
  <1>4. CASE ~StartCall
    <2>0. canwrite'
      BY <1>1, UpdateCalls DEF canwrite
    <2>1. /\ pc \in InCall /\ part' = part /\ saved' = saved /\ call' = call
          /\ (idx' = idx /\ cmd' = cmd) \/ idx' = idx + 1
      BY <1>0, <1>4, <2>0, WithinUpdate
    <2>2. \/ n = 0 \/ n \in {cache.last, cacheD.last}
          \/ UpdateLastCommandIndex /\ n = idx /\ pc = "index"
      BY <1>0, LastStep DEF UpdateLastCommandIndex
    <2>3. n = idx /\ idx \in Cmds(part) /\ cmd.op \in {"stash", "move", "diff"} =>
            \/ n < idx'
            \/ n = idx' /\ idx' \in Cmds(part') /\ cmd'.op \in {"stash", "move", "diff"}
      BY <1>2, <2>1
    <2>4. CASE n = 0
      BY <1>2, <2>1, <2>4
    <2>5. CASE UpdateLastCommandIndex /\ n = idx /\ pc = "index"
      <3>1. idx \in Cmds(part) /\ cmd.op \in {"stash", "move", "diff"}
        BY <1>0, <2>5, Here DEF Steady, SavesIndex, Transfer
      <3> QED BY <2>3, <2>5, <3>1
    <2>6. CASE n \in {cache.last, cacheD.last}
      <3>1. Refers(n)
        BY <1>0, <2>1, <2>6 DEF InFirst
      <3>2. CASE n <= saved \/ n < idx
        BY <1>2, <2>1, <2>6, <3>2
      <3>3. CASE n = idx /\ idx \in Cmds(part) /\ cmd.op \in {"stash", "move", "diff"}
        BY <2>3, <3>3
      <3>4. CASE Stale(n, call)
        <4>1. CASE Stale(n, u)'
          BY <4>1
        <4>2. CASE ~Stale(n, u)'
          <5>1. pc \in {"discard", "write"} /\ cmd.op \in Transfer /\ (part = Script[u].part => n = idx)
            BY <1>0, <1>1, <2>1, <3>4, <4>2, StaleStep
          <5>2. n = idx /\ idx \in Cmds(part)
            BY <1>0, <2>1, <5>1, Here
          <5> QED BY <2>3, <5>1, <5>2 DEF Transfer
        <4> QED BY <4>1, <4>2
      <3> QED BY <3>1, <3>2, <3>3, <3>4 DEF Refers
    <2> QED BY <2>2, <2>4, <2>5, <2>6
  <1> QED BY <1>3, <1>4

(* The steps on the way to the first update.                                *)
LEMMA AheadStep ==
  ASSUME IInv, Steady, [Next]_vars, NEW u, First(u), Ahead(u)'
  PROVE  \/ Boot
         \/ /\ Ahead(u) /\ pc \notin InCommand
            /\ \/ StartCall /\ call < u
               \/ Verify /\ pc' = "cmd" /\ idx' = idx + 1 /\ call < u
               \/ ListEnd /\ call < u
               \/ Finish /\ ok /\ call < u
               \/ Cleanup /\ ok /\ call < u
               \/ CommitCache
               \/ UNCHANGED vars
  <1>0. u \in Nat /\ call \in Nat
    BY UpdateCalls DEF First, IInv, PlaceType
  <1>1. ASSUME call < u PROVE call \notin Updates
    BY <1>0, <1>1 DEF First
  <1>2. ASSUME call < u PROVE pc \notin InCommand
    BY <1>1, <1>2, Here
  <1>3. CASE Boot
    BY <1>3
  <1>4. CASE StartCall
    <2>1. pc = "call" /\ pc' = "cmd" /\ call' = call
      BY <1>4 DEF StartCall
    <2> QED BY <1>0, <1>4, <2>1 DEF Ahead
  <1>5. CASE Verify
    <2>1. pc = "cmd" /\ call' = call /\ ok' = ok /\ pc' \in {"cmd", "finish"}
          /\ (pc' = "cmd" => idx' = idx + 1)
      BY <1>5 DEF Verify, VerifySkip, VerifyTransfer, VerifyStash, VerifyFree, AtCommand,
                  NextCommand, Unresumable
    <2> QED BY <1>0, <1>5, <2>1 DEF Ahead, Steady
  <1>6. CASE ListEnd
    <2>1. pc = "cmd" /\ pc' = "finish" /\ call' = call
      BY <1>6 DEF ListEnd
    <2> QED BY <1>0, <1>6, <2>1 DEF Ahead
  <1>7. CASE Finish
    <2>1. pc = "finish" /\ pc' = "cleanup" /\ call' = call /\ ok' = ok
      BY <1>7 DEF Finish, proc
    <2> QED BY <1>0, <1>7, <2>1 DEF Ahead
  <1>8. CASE Cleanup
    <2>1. pc = "cleanup" /\ pc' \in {"call", "retry", "abort"} /\ (ok => call' = call + 1)
          /\ (pc' = "call" => ok)
      BY <1>8 DEF Cleanup
    <2>2. pc' = "call" /\ call' <= u
      BY <2>1 DEF Ahead
    <2>3. ok /\ call < u
      BY <1>0, <2>1, <2>2
    <2> QED BY <1>8, <2>1, <2>3 DEF Ahead
  <1>9. CASE CommitCache \/ UNCHANGED vars
    <2>1. UNCHANGED <<pc, call, ok>>
      BY <1>9 DEF CommitCache, vars, proc
    <2>2. Ahead(u) /\ pc \notin InCommand
      BY <2>1 DEF Ahead
    <2> QED BY <1>9, <2>2
  <1>10. CASE Update
    <2>1. call' = call /\ pc \in InCall /\ ok' = ok /\ pc' # "call"
      BY <1>10 DEF Update, UpdateSkip,
             UpdateTransfer, UpdateStash, UpdateFree, UpdateWrite, WritePartial, FsyncPartial,
             RenamePartial, UpdateLastCommandIndex, Discard, WriteBlock, WriteEnd,
             FreeImplicitStash, FsyncPartition, proc, AtCommand, NextCommand, Unresumable
    <2>2. canwrite
      BY <1>10, Here DEF Update, UpdateSkip,
             UpdateTransfer, UpdateStash, UpdateFree, UpdateWrite, WritePartial, FsyncPartial,
             RenamePartial, UpdateLastCommandIndex, Discard, WriteBlock, WriteEnd,
             FreeImplicitStash, FsyncPartition, AtCommand, canwrite
    <2>3. call \in Updates
      BY <2>1, <2>2, AtHead
    <2>4. call < u
      BY <2>1 DEF Ahead
    <2> QED BY <1>1, <2>3, <2>4
  <1>11. CASE ScriptEnd \/ CreateStashFails \/ Retry \/ PowerLoss \/ Terminated
    BY <1>11 DEF ScriptEnd, CreateStashFails, Retry, PowerLoss, Terminated, vars, Ahead
  <1>12. CASE SystemCallFails
    <2>1. pc' = "finish" /\ ok' = ok /\ ~ok
      BY <1>12 DEF SystemCallFails, Steady
    <2> QED BY <2>1 DEF Ahead
  <1> QED BY <1>3, <1>4, <1>5, <1>6, <1>7, <1>8, <1>9, <1>10, <1>11, <1>12 DEF Next, Updater

(* What a dry run does with the index.                                      *)
LEMMA VerifyLast ==
  ASSUME IInv, Verify
  PROVE  /\ pc = "cmd" /\ ~canwrite /\ call' = call /\ idx \in Cmds(part) /\ part \in Parts
         /\ cmd = Lists[part][idx] /\ cacheD' = cacheD /\ disk' = disk /\ platter' = platter
         /\ \/ cache'.last = cache.last /\ saved' = saved
            \/ /\ cache'.last = 0 /\ saved' = 0 /\ idx <= saved
               /\ cmd.op \in Transfer /\ ~TargetDone(cmd)
         /\ pc' = "cmd" /\ cmd.op \in Transfer /\ ~TargetDone(cmd) /\ idx <= saved =>
              cache'.last = 0
  <1>1. /\ pc = "cmd" /\ Script[call].fn = "verify" /\ idx <= Len(list) /\ call' = call
        /\ cacheD' = cacheD /\ disk' = disk /\ platter' = platter
    BY DEF Verify, VerifySkip, VerifyTransfer, VerifyStash, VerifyFree, AtCommand, store
  <1>2. idx \in Cmds(part) /\ cmd = Lists[part][idx] /\ part \in Parts
    BY <1>1, AtHead
  <1>3. CASE VerifyTransfer
    BY <1>1, <1>2, <1>3 DEF VerifyTransfer, AtCommand, canwrite, NextCommand, Unresumable,
          DeleteLastCommandFile, AfterBadStash, DeleteFile, IInv, StoreType, CacheType
  <1>4. CASE VerifySkip \/ VerifyStash \/ VerifyFree
    BY <1>1, <1>2, <1>4 DEF VerifySkip, VerifyStash, VerifyFree, AtCommand, canwrite, Transfer,
          AfterBadStash, DeleteFile, IInv, StoreType, CacheType, store
  <1> QED BY <1>3, <1>4 DEF Verify

LEMMA LagNext ==
  ASSUME RightLists, ILists, [Next]_vars
  PROVE  Lag'
  <1>0. /\ IInv /\ OnlyCurrentTargetAtRisk /\ RightTargets /\ Steady /\ Lag /\ Last
    BY DEF ILists, IBase, ILast, RightLists
  <1>1. pc' = "boot" => cacheD' = cache'
    <2> SUFFICES ASSUME pc' = "boot" PROVE cacheD' = cache'
      OBVIOUS
    <2>1. CASE Retry \/ PowerLoss \/ CommitCache
      BY <2>1 DEF Retry, PowerLoss, CommitCache
    <2>2. CASE UNCHANGED vars
      BY <1>0, <2>2 DEF vars, store, Lag
    <2> QED BY <2>1, <2>2
         DEF Next, Updater, Boot, StartCall, ScriptEnd, CreateStashFails, ListEnd, Verify,
             VerifySkip, VerifyTransfer, VerifyStash, VerifyFree, Update, UpdateSkip,
             UpdateTransfer, UpdateStash, UpdateFree, UpdateWrite, WritePartial, FsyncPartial,
             RenamePartial, UpdateLastCommandIndex, Discard, WriteBlock, WriteEnd,
             FreeImplicitStash, FsyncPartition, Finish, Cleanup, SystemCallFails,
             Terminated, AtCommand, NextCommand, Unresumable
  <1>2. ASSUME NEW u \in Updates, First(u), Ahead(u)', NEW n, n = cacheD'.last
        PROVE  n \in {0, cache'.last} \/ Stale(n, u)'
    <2>0. /\ u \in Nat /\ call \in Nat
      BY UpdateCalls, <1>0 DEF IInv, PlaceType
    <2>1. CASE Boot
      BY <1>0, <1>2, <2>1 DEF Boot, store, Lag
    <2>2. CASE CommitCache
      BY <1>2, <2>2 DEF CommitCache
    <2>3. CASE ~Boot /\ ~CommitCache
      <3>1. Ahead(u) /\ pc \notin InCommand
        BY <1>0, <1>2, <2>3, AheadStep
      <3>2. Stale(n, u) => Stale(n, u)'
        BY <1>0, <3>1, StaleStep
      <3>3. cacheD' = cacheD
        BY <1>0, <1>2, <2>3, AheadStep, VerifyLast
           DEF StartCall, ListEnd, Finish, Cleanup, vars, store
      <3>4. n = cacheD.last /\ (n \in {0, cache.last} \/ Stale(n, u))
        BY <1>0, <1>2, <3>1, <3>3 DEF Lag
      <3>5. CASE cache'.last = cache.last
        BY <3>2, <3>4, <3>5
      <3>6. CASE cache'.last # cache.last
        <4>1. Verify /\ call < u
          <5>1. call < u => ~canwrite
            <6>1. call \in Nat \ {0} /\ u <= Len(Script) /\ Len(Script) \in Nat
              BY <1>0, UpdateCalls, ScriptAssumption DEF IInv, PlaceType
            <6>2. call < u => call \in 1..Len(Script) /\ call \notin Updates
              BY <1>2, <2>0, <6>1 DEF First
            <6> QED BY <6>2 DEF Updates, canwrite
          <5>2. cache \in CacheType
            BY <1>0 DEF IInv, StoreType
          <5>3. ~StartCall
            BY <3>6, <5>2 DEF StartCall, CacheType
          <5>4. ~(ListEnd \/ UNCHANGED vars)
            BY <3>6 DEF ListEnd, vars, store
          <5>5. ~(Finish /\ ok /\ call < u)
            BY <1>0, <3>6, <5>1 DEF Finish, Steady
          <5>6. ~(Cleanup /\ ok /\ call < u)
            BY <1>0, <3>6, <5>1, <5>2 DEF Cleanup, Steady, DeleteStash, CacheType
          <5> QED BY <1>0, <1>2, <2>3, <5>3, <5>4, <5>5, <5>6, AheadStep
        <4>2. /\ pc = "cmd" /\ idx \in Cmds(part) /\ part \in Parts /\ cmd = Lists[part][idx]
              /\ idx <= saved /\ cmd.op \in Transfer /\ ~TargetDone(cmd)
          BY <1>0, <3>6, <4>1, VerifyLast
        <4>3. Clean
          BY <1>0, <4>2, CleanOutsideWrites
        <4>4. Undone(part, idx)
          BY <1>0, <4>2, <4>3, TargetRead DEF Transfer, Writers
        <4>5. saved = cache.last
          BY <1>0, <1>2, <4>1, <4>2 DEF Lag
        <4>6. CASE n = cache.last
          <5>1. CASE part = Script[u].part /\ idx # n
            <6>1. idx < n
              BY <1>0, <4>2, <4>5, <4>6, <5>1 DEF IInv, PlaceType
            <6>2. ~Before(n, u)
              <7> SUFFICES ASSUME Before(n, u) PROVE FALSE
                OBVIOUS
              <7>1. Finished(part, idx)
                BY <4>2, <5>1, <6>1 DEF Before
              <7> QED BY <4>2, <4>4, <7>1, NotBoth DEF Finished, Transfer, Writers
            <6>3. Stale(n, u)
              BY <1>0, <1>2, <4>6, <6>2 DEF Last, LastOK
            <6> QED BY <3>2, <6>3
          <5>2. CASE ~(part = Script[u].part /\ idx # n)
            <6>1. call \in 1..(u - 1)
              BY <1>0, <2>0, <4>1 DEF IInv, PlaceType
            <6>2. Stale(n, u)
              BY <4>2, <4>4, <4>5, <4>6, <5>2, <6>1 DEF Stale, part
            <6> QED BY <3>2, <6>2
          <5> QED BY <5>1, <5>2
        <4> QED BY <3>2, <3>4, <4>6
      <3> QED BY <3>5, <3>6
    <2> QED BY <2>1, <2>2, <2>3
  <1>3. ASSUME NEW u \in Updates, First(u), call' < u, pc' = "cmd"
        PROVE  saved' = cache'.last
    <2>0. Ahead(u)'
      BY <1>3 DEF Ahead
    <2>1. CASE StartCall
      BY <1>0, <2>1 DEF StartCall, IInv, StoreType, CacheType
    <2>2. CASE Verify /\ call < u
      <3>1. saved = cache.last
        BY <1>0, <1>3, <2>2, VerifyLast DEF Lag
      <3> QED BY <1>0, <2>2, <3>1, VerifyLast
    <2>3. CASE CommitCache \/ UNCHANGED vars
      <3>1. UNCHANGED <<pc, call, saved, cache>>
        BY <2>3 DEF CommitCache, vars, proc, store
      <3> QED BY <1>0, <1>3, <3>1 DEF Lag
    <2> QED BY <1>0, <1>3, <2>0, <2>1, <2>2, <2>3, AheadStep
         DEF Boot, ListEnd, Finish, Cleanup
  <1>4. \A u \in Updates : First(u) /\ Ahead(u)' =>
          cacheD'.last \in {0, cache'.last} \/ Stale(cacheD.last, u)'
    <2> SUFFICES ASSUME NEW u \in Updates, First(u), Ahead(u)', NEW n, n = cacheD'.last
                 PROVE  n \in {0, cache'.last} \/ Stale(n, u)'
      BY DEF Stale, Undone
    <2> QED BY <1>2
  <1>5. \A u : First(u)' <=> First(u)
    BY DEF First
  <1> QED BY <1>1, <1>3, <1>4, <1>5 DEF Lag

LEMMA CheckedNext ==
  ASSUME RightLists, ILists, [Next]_vars
  PROVE  Checked'
  <1>0. /\ IInv /\ OnlyCurrentTargetAtRisk /\ RightTargets /\ Steady /\ Lag /\ Checked
    BY DEF ILists, IBase, ILast, RightLists
  <1> SUFFICES ASSUME NEW u \in Updates, First(u), Ahead(u)', NEW v \in 1..(u - 1),
                      NEW i \in Cmds(Script[v].part), Lists[Script[v].part][i].op \in Transfer,
                      i <= cache'.last, Seen(v, i)'
               PROVE  Done(Script[v].part, i)'
    BY DEF Checked, First
  <1>1. u \in Nat /\ v \in Nat \ {0} /\ call \in Nat /\ idx \in Nat /\ i \in Nat \ {0}
        /\ cache.last \in Nat /\ Script[v].part \in Parts
    <2>1. u \in Nat \ {0} /\ u <= Len(Script) /\ Len(Script) \in Nat
      BY UpdateCalls, ScriptAssumption
    <2>2. v \in 1..Len(Script)
      BY <2>1
    <2> QED BY <1>0, <2>1, <2>2, CallParts DEF IInv, PlaceType, StoreType, CacheType, Cmds
  <1>2. ~Boot
    BY <1>1 DEF Boot, Seen
  <1>3. Ahead(u) /\ pc \notin InCommand
    BY <1>0, <1>2, AheadStep
  <1>4. ~Touched(Script[v].part, i)
    BY <1>3 DEF Touched
  <1>5. i <= cache.last
    <2>1. CASE UpdateLastCommandIndex \/ PowerLoss
      BY <1>0, <1>2, <1>3, <2>1, AheadStep DEF UpdateLastCommandIndex, PowerLoss, Ahead
    <2> QED BY <1>0, <1>1, <2>1, LastStep
  <1>6. CASE Seen(v, i)
    <2>1. Done(Script[v].part, i)
      BY <1>0, <1>3, <1>5, <1>6 DEF Checked
    <2> QED BY <1>0, <1>1, <1>4, <2>1, FinishedStays
  <1>7. CASE ~Seen(v, i)
    <2>1. CASE Verify /\ pc' = "cmd" /\ idx' = idx + 1 /\ call < u
      <3>1. /\ pc = "cmd" /\ call' = call /\ part \in Parts /\ idx \in Cmds(part)
            /\ cmd = Lists[part][idx]
        BY <1>0, <2>1, VerifyLast
      <3>2. v = call /\ i = idx
        BY <1>1, <1>7, <2>1, <3>1 DEF Seen
      <3>3. Script[v].part = part /\ cmd.op \in Transfer
        BY <3>1, <3>2 DEF part
      <3>4. saved = cache.last
        BY <1>0, <2>1, <3>1 DEF Lag
      <3>5. TargetDone(cmd)
        BY <1>0, <1>1, <1>5, <2>1, <3>2, <3>3, <3>4, VerifyLast
      <3>6. Done(Script[v].part, i)
        <4>1. Clean
          BY <1>0, <3>1, CleanOutsideWrites
        <4> QED BY <1>0, <3>1, <3>2, <3>3, <3>5, <4>1, TargetRead DEF Transfer, Writers
      <3> QED BY <1>0, <1>1, <1>4, <3>6, FinishedStays
    <2>2. CASE StartCall
      BY <1>1, <1>7, <2>2 DEF StartCall, Seen
    <2>3. CASE ListEnd
      <3>1. pc = "cmd" /\ pc' = "finish" /\ call' = call /\ idx > Len(list)
        BY <2>3 DEF ListEnd
      <3>2. list = Lists[part] /\ Len(list) \in Nat
        BY <1>0, <3>1, AtHead
      <3>3. v = call => i < idx
        BY <1>1, <3>1, <3>2 DEF Cmds, part
      <3> QED BY <1>1, <1>7, <3>1, <3>3 DEF Seen
    <2>4. CASE Finish
      BY <1>7, <2>4 DEF Finish, Seen, proc
    <2>5. CASE Cleanup /\ ok
      <3>1. pc = "cleanup" /\ call' = call + 1 /\ pc' = "call"
        BY <2>5 DEF Cleanup
      <3> QED BY <1>1, <1>7, <3>1 DEF Seen
    <2>6. CASE CommitCache \/ UNCHANGED vars
      <3>1. UNCHANGED <<pc, call, idx>>
        BY <2>6 DEF CommitCache, vars, proc
      <3> QED BY <1>7, <3>1 DEF Seen
    <2> QED BY <1>0, <1>2, <2>1, <2>2, <2>3, <2>4, <2>5, <2>6, AheadStep
  <1> QED BY <1>6, <1>7

LEMMA NoIndexNext ==
  ASSUME RightLists, ILists, [Next]_vars
  PROVE  NoIndex'
  <1>0. IInv /\ Steady /\ NoIndex
    BY DEF ILists, IBase, ILast
  <1> SUFFICES ASSUME NEW u \in Updates, First(u), u < call'
               PROVE  /\ pc' = "call" => cache'.last = 0
                      /\ pc' \in {"cmd", "finish", "cleanup"} /\ ~canwrite' => cache'.last = 0
                      /\ pc' \in InCall => saved' = 0
    BY DEF NoIndex, First
  <1>1. u \in Nat \ {0} /\ call \in Nat
    BY <1>0, UpdateCalls DEF IInv, PlaceType
  <1>2. cache \in CacheType
    BY <1>0 DEF IInv, StoreType
  <1>3. CASE Boot \/ ScriptEnd \/ CreateStashFails \/ Retry \/ PowerLoss
    BY <1>1, <1>3 DEF Boot, ScriptEnd, CreateStashFails, Retry, PowerLoss
  <1>4. CASE StartCall
    <2>1. /\ pc = "call" /\ call' = call /\ saved' = cache.last /\ pc' = "cmd"
          /\ cache'.last = cache.last
      BY <1>2, <1>4 DEF StartCall, CacheType
    <2> QED BY <1>0, <2>1 DEF NoIndex
  <1>5. CASE Verify
    <2>1. /\ pc = "cmd" /\ ~canwrite /\ call' = call /\ cache'.last \in {0, cache.last}
          /\ saved' \in {0, saved}
      BY <1>0, <1>5, VerifyLast
    <2>2. cache.last = 0 /\ saved = 0
      BY <1>0, <2>1 DEF NoIndex
    <2>3. pc' # "call"
      BY <1>5 DEF Verify, VerifySkip, VerifyTransfer, VerifyStash, VerifyFree, NextCommand, Unresumable
    <2> QED BY <2>1, <2>2, <2>3
  <1>6. CASE ListEnd \/ SystemCallFails
    <2>1. /\ pc \in InCall /\ call' = call /\ pc' = "finish" /\ cache' = cache
          /\ ListEnd => pc = "cmd"
      BY <1>6 DEF ListEnd, SystemCallFails, store
    <2>2. canwrite' <=> canwrite
      BY <2>1, SameCall
    <2>3. ~canwrite => pc = "cmd"
      BY <1>0, <2>1, Here
    <2> QED BY <1>0, <2>1, <2>2, <2>3 DEF NoIndex
  <1>7. CASE Update
    <2>1. call' = call /\ pc \in InCall /\ pc' # "call" /\ pc' # "cleanup" /\ saved' = saved
      BY <1>7 DEF Update, UpdateSkip,
             UpdateTransfer, UpdateStash, UpdateFree, UpdateWrite, WritePartial, FsyncPartial,
             RenamePartial, UpdateLastCommandIndex, Discard, WriteBlock, WriteEnd,
             FreeImplicitStash, FsyncPartition, proc, AtCommand, NextCommand, Unresumable
    <2>2. canwrite
      BY <1>0, <1>7, Here DEF Update, UpdateSkip,
             UpdateTransfer, UpdateStash, UpdateFree, UpdateWrite, WritePartial, FsyncPartial,
             RenamePartial, UpdateLastCommandIndex, Discard, WriteBlock, WriteEnd,
             FreeImplicitStash, FsyncPartition, AtCommand, canwrite
    <2>3. canwrite' /\ saved = 0
      BY <1>0, <2>1, <2>2, SameCall DEF NoIndex
    <2> QED BY <2>1, <2>3
  <1>8. CASE Finish
    <2>1. pc = "finish" /\ pc' = "cleanup" /\ call' = call
      BY <1>8 DEF Finish, proc
    <2>2. canwrite' <=> canwrite
      BY <2>1, SameCall
    <2>3. ~canwrite => cache.last = 0
      BY <1>0, <2>1 DEF NoIndex
    <2>4. ~canwrite => cache'.last \in {0, cache.last}
      BY <1>2, <1>8 DEF Finish, DeleteLastCommandFile, CacheType
    <2> QED BY <2>1, <2>2, <2>3, <2>4
  <1>9. CASE Cleanup
    <2>1. pc = "cleanup" /\ pc' \in {"call", "retry", "abort"} /\ (pc' = "call" => ok /\ call' = call + 1)
      BY <1>9 DEF Cleanup
    <2> SUFFICES ASSUME pc' = "call" PROVE cache'.last = 0
      BY <2>1
    <2>2. CASE canwrite
      BY <1>2, <1>9, <2>1, <2>2 DEF Cleanup, DeleteLastCommandFile, CacheType
    <2>3. CASE ~canwrite
      <3>1. u # call
        BY <2>3, UpdateCalls DEF canwrite
      <3>2. u < call
        BY <1>1, <2>1, <3>1
      <3>3. cache.last = 0
        BY <1>0, <2>1, <2>3, <3>2 DEF NoIndex
      <3>4. cache'.last = cache.last
        BY <1>2, <1>9, <2>3 DEF Cleanup, DeleteStash, CacheType
      <3> QED BY <3>3, <3>4
    <2> QED BY <2>2, <2>3
  <1>10. CASE CommitCache \/ Terminated \/ UNCHANGED vars
    <2>1. UNCHANGED <<pc, call, saved, cache>>
      BY <1>10 DEF CommitCache, Terminated, vars, proc, store
    <2>2. canwrite' <=> canwrite
      BY <2>1, SameCall
    <2> QED BY <1>0, <2>1, <2>2 DEF NoIndex
  <1> QED BY <1>3, <1>4, <1>5, <1>6, <1>7, <1>8, <1>9, <1>10 DEF Next, Updater

LEMMA InitILists == Init => ILists
  <1> SUFFICES ASSUME Init PROVE ILists
    OBVIOUS
  <1>1. IBase
    BY InitIInv, RiskInit DEF IBase
  <1>2. /\ pc = "boot" /\ call = 1 /\ saved = 0 /\ cacheD = cache /\ cache.last = 0
    BY DEF Init
  <1>3. Steady /\ IDone /\ Writing /\ Stream
    BY <1>2 DEF Steady, IDone, SavedDone, BelowDone, AllDone, EarlierDone, Writing, Stream
  <1>4. IndexOK
    BY <1>2 DEF IndexOK, NewAfter, Cmds
  <1>5. Last
    <2> SUFFICES ASSUME NEW u \in Updates, First(u) PROVE Before(0, u)
      BY <1>2 DEF Last, LastOK
    <2> QED BY DEF Before, Cmds
  <1>6. \A u : ~Ahead(u)
    BY <1>2 DEF Ahead
  <1>7. Lag /\ Checked /\ InFirst
    BY <1>2, <1>6 DEF Lag, Checked, InFirst
  <1>8. NoIndex
    BY <1>2, UpdateCalls DEF NoIndex
  <1> QED BY <1>1, <1>3, <1>4, <1>5, <1>7, <1>8 DEF ILists, IWrite, ILast

LEMMA NextILists ==
  ASSUME RightLists, ILists, [Next]_vars
  PROVE  ILists'
  <1>1. IBase'
    BY NextIInv, RiskNext DEF ILists, IBase
  <1>2. Steady'
    BY SteadyNext DEF ILists, IBase
  <1>3. IDone'
    BY DoneNext, AllDoneNext, EarlierDoneNext DEF IDone
  <1>4. IWrite'
    BY WritingNext, StreamNext, IndexOKNext DEF IWrite
  <1>5. ILast'
    BY LastNext, LagNext, CheckedNext, InFirstNext, NoIndexNext DEF ILast
  <1> QED BY <1>1, <1>2, <1>3, <1>4, <1>5 DEF ILists

LEMMA ListsInvariance ==
  ASSUME RightLists
  PROVE  Spec => []ILists
  <1>1. ILists /\ [Next]_vars => ILists'
    BY NextILists
  <1> QED BY <1>1, InitILists, PTL DEF Spec

(* Whatever the saved index says after power losses, failing system calls   *)
(* and retries, the update of a right package skips a command only when the *)
(* command has left its target as it should be.                             *)
THEOREM SkipsOnlyFinished ==
  ASSUME RightLists
  PROVE  Spec => []SkippedCommandsAreDone
  <1>1. ASSUME ILists PROVE SkippedCommandsAreDone
    <2> SUFFICES ASSUME pc \in InCall, canwrite, NEW i \in 1..Len(list), i <= saved,
                        list[i].op \in {"move", "diff", "zero", "new"}
                 PROVE  ReadBlocks(list[i].tgt) = list[i].out
      BY DEF SkippedCommandsAreDone
    <2>1. IInv /\ SavedDone
      BY <1>1 DEF ILists, IBase, IDone
    <2>2. part \in Parts /\ list = Lists[part]
      BY <2>1, AtHead
    <2>3. i \in Cmds(part) /\ Lists[part][i].op \in Writers
      BY <2>2 DEF Cmds, Writers
    <2>4. Done(part, i)
      BY <2>1, <2>3 DEF SavedDone, Finished
    <2>5. TargetDone(Lists[part][i])
      BY <2>1, <2>2, <2>3, <2>4, TargetRead
    <2> QED BY <2>2, <2>5 DEF TargetDone
  <1> QED BY <1>1, ListsInvariance, PTL

(* When the script of a right package ends with success, the partitions     *)
(* hold the new image, in the page cache and on the medium.                 *)
THEOREM SuccessMeansTarget ==
  ASSUME RightLists, RightImage
  PROVE  Spec => []EndMeansTarget
  <1>1. ASSUME ILists PROVE EndMeansTarget
    <2> SUFFICES ASSUME pc = "end", NEW b \in DOMAIN Target
                 PROVE  disk[b] = Target[b] /\ platter[b] = Target[b]
      BY DEF EndMeansTarget
    <2>1. IInv /\ Steady /\ EarlierDone
      BY <1>1 DEF ILists, IBase, IDone
    <2>2. PICK u \in Updates : \E i \in Cmds(Script[u].part) :
            /\ Lists[Script[u].part][i].op \in Writers
            /\ \E k \in 1..Len(Lists[Script[u].part][i].tgt) :
                 /\ Lists[Script[u].part][i].tgt[k] = b
                 /\ Lists[Script[u].part][i].out[k] = Target[b]
      BY DEF RightImage
    <2>3. u < call
      BY <2>1, UpdateCalls, ScriptAssumption DEF Steady, IInv, PlaceType
    <2>4. \A i \in Cmds(Script[u].part) : Finished(Script[u].part, i)
      BY <2>1, <2>3 DEF EarlierDone
    <2> QED BY <2>2, <2>4 DEF Finished, Done, ReadsBoth
  <1> QED BY <1>1, ListsInvariance, PTL

-----------------------------------------------------------------------------
(* The data that an interrupted update needs.                               *)

Whole(ca, p, h) == ca.file[p][h] = "whole"
IsStash(p, k)   == Lists[p][k].op = "stash"
IsTransfer(p, i) == Lists[p][i].op \in Transfer
IsFree(p, f, h) == Lists[p][f].op = "free" /\ Lists[p][f].id = h

SrcGood(p, i) == ReadsBoth(Lists[p][i].src, Lists[p][i].want)
SrcKept(p, k) == ReadsBoth(Lists[p][k].src, Content[Lists[p][k].id])
DoneNow(p, i) ==
  \A k \in 1..Len(Lists[p][i].tgt) : disk[Lists[p][i].tgt[k]] = Lists[p][i].out[k]
Saved(ca, p, i) == Overlap(Lists[p][i]) /\ Whole(ca, p, Lists[p][i].id)

(* No command needs what command k stashes any more.                        *)
UsersDone(p, k) == \A i \in Cmds(p) : Uses(p, i, k) => Done(p, i)

(* A new stash file is committed at once; only unlinks can be pending.      *)
FileMono == \A p \in Parts, h \in Ids : Whole(cache, p, h) => Whole(cacheD, p, h)

(* The stash files are in a directory, which a dry run that created it      *)
(* leaves empty.                                                            *)
DirIn(ca) == \A p \in Parts, h \in Ids : Whole(ca, p, h) => ca.dir[p]
Dirs ==
  /\ DirIn(cache) /\ DirIn(cacheD)
  /\ pc \in InCall => cache.dir[part]
  /\ pc \in {"cmd", "finish", "cleanup"} /\ ~canwrite /\ created =>
       \A h \in Ids : ~Whole(cache, part, h)

(* An entry of stash_map is that of a stash command behind, not yet freed.  *)
MapEmpty == \A h \in Ids : stash_map[h] = <<>>
MapEntries ==
  \A h \in Ids : stash_map[h] # <<>> =>
    \E k \in Cmds(part) : /\ IsStash(part, k) /\ Lists[part][k].id = h
                          /\ k < idx \/ (k = idx /\ pc # "cmd")
                          /\ canwrite => saved < k
                          /\ \A f \in Cmds(part) : IsFree(part, f, h) =>
                               f < k \/ idx < f \/ (f = idx /\ pc = "cmd")
MapFound ==
  \A k \in Cmds(part) : LET h == Lists[part][k].id IN
    IsStash(part, k) /\ k < idx /\ (\A f \in Cmds(part) : IsFree(part, f, h) => f < k \/ idx <= f) =>
      IF stash_map[h] = <<>> THEN Whole(cache, part, h)
      ELSE stash_map[h] = Lists[part][k].src /\ ~Whole(cache, part, h)
MapOK ==
  /\ pc = "call" \/ (pc \in {"finish", "cleanup"} /\ ok) => MapEmpty
  /\ pc \in InCall => MapEntries
  /\ pc = "cmd" /\ ~canwrite => MapFound

(* Stashed data is in its file or where it was, until nobody needs it.      *)
KeptIn(ca) == \A p \in Parts : \A k \in Cmds(p) : IsStash(p, k) =>
  Whole(ca, p, Lists[p][k].id) \/ SrcKept(p, k) \/ UsersDone(p, k)
Kept == KeptIn(cache) /\ KeptIn(cacheD)

(* Behind a stash command it is in the file.                                *)
Stashed ==
  pc \in InCall /\ canwrite => \A k \in Cmds(part) :
    IsStash(part, k) /\ (k <= saved \/ k < idx \/ (k = idx /\ pc \in {"index", "sync"})) =>
      Whole(cache, part, Lists[part][k].id) \/ UsersDone(part, k)
LastStashIn(ca) ==
  \A u \in Updates : First(u) => \A k \in Cmds(Script[u].part) :
    IsStash(Script[u].part, k) /\ k <= ca.last =>
      \/ Whole(ca, Script[u].part, Lists[Script[u].part][k].id)
      \/ UsersDone(Script[u].part, k)
LastStash == LastStashIn(cache) /\ LastStashIn(cacheD)

(* An update has not saved an index that it has not reached.                *)
LastHere == pc \in InCall /\ canwrite => cache.last <= saved \/ cache.last <= idx

(* A transfer is done, or its source is in place or saved: now, and after a *)
(* power loss, unless that takes the target of an overlapping one.          *)
SafeNow == \A p \in Parts : \A i \in Cmds(p) : IsTransfer(p, i) =>
  DoneNow(p, i) \/ SrcGood(p, i) \/ Saved(cache, p, i)
SafeLater == \A p \in Parts : \A i \in Cmds(p) : IsTransfer(p, i) =>
  Done(p, i) \/ SrcGood(p, i) \/ Saved(cacheD, p, i) \/ (DoneNow(p, i) /\ Overlap(Lists[p][i]))

(* A command that starts to write has its source.                           *)
AtWrite ==
  /\ pc \in {"index", "discard", "write"} /\ cmd.op \in Transfer =>
       IF Overlap(cmd) THEN Whole(cache, part, cmd.id) ELSE SrcGood(part, idx)
  /\ pc \in {"partial", "fsync", "rename", "index", "discard"} /\ cmd.op \in Transfer =>
       ~TargetDone(cmd)
  /\ pc = "free" => cmd.op # "stash"

(* The implicit stash that the command will free is its own, and no later   *)
(* command counts on it.                                                    *)
FreeOK ==
  pc \in InCall /\ freestash # NoId =>
    /\ pc \in InCommand \ {"sync"} /\ cmd.op \in Transfer /\ Overlap(cmd) /\ freestash = cmd.id
    /\ \A i \in Cmds(part) : idx < i /\ IsTransfer(part, i) /\ Lists[part][i].id = freestash =>
         Done(part, i) \/ SrcGood(part, i)

RightPackage == RightLists /\ RightSources /\ RightStash
IStash ==
  /\ FileMono /\ Dirs /\ MapOK /\ Kept /\ Stashed /\ LastStash /\ LastHere /\ SafeNow /\ SafeLater
  /\ AtWrite /\ FreeOK /\ ~unresumable

USE DEF Whole, IsStash, IsTransfer, IsFree

(* What the operations on /cache do to a file.                              *)
LEMMA FileAfter ==
  ASSUME NEW ca \in CacheType, NEW p \in Parts, NEW h \in Ids, NEW q \in Parts, NEW g \in Ids
  PROVE  /\ Whole(DeleteFile(ca, q, g), p, h) <=> Whole(ca, p, h) /\ ~(p = q /\ h = g)
         /\ Whole(DeleteStash(ca, q), p, h) <=> Whole(ca, p, h) /\ p # q
         /\ Whole(DeleteLastCommandFile(ca), p, h) <=> Whole(ca, p, h)
         /\ DeleteFile(ca, q, g).dir = ca.dir /\ DeleteLastCommandFile(ca).dir = ca.dir
         /\ p # q => DeleteStash(ca, q).dir[p] = ca.dir[p]
  BY DEF DeleteFile, DeleteStash, DeleteLastCommandFile, CacheType

LEMMA NotTorn ==
  ASSUME IInv, part \in Parts, NEW id \in Ids
  PROVE  AfterBadStash(id) = cache
  BY DEF IInv, Tame, AfterBadStash

(* The command at the head of the loop.                                     *)
LEMMA HeadCommand ==
  ASSUME IInv, pc = "cmd", idx <= Len(list)
  PROVE  /\ part \in Parts /\ idx \in Cmds(part) /\ cmd = Lists[part][idx]
         /\ cmd.op \in {"move", "diff", "stash", "free"} => cmd.id \in Ids
  BY AtHead, SiteType

(* What a step does to a stash file.  Files come by the rename, and go when *)
(* they are freed, when the command that made them ends, and with the       *)
(* directory at the end of the update.                                      *)
LEMMA FileStep ==
  ASSUME IInv, Dirs, FileMono, ~unresumable, [Next]_vars, NEW p \in Parts, NEW h \in Ids
  PROVE  /\ Whole(cache, p, h) =>
              \/ Whole(cache', p, h)
              \/ UpdateFree /\ p = part /\ h = cmd.id
              \/ FreeImplicitStash /\ p = part /\ h = freestash
              \/ Finish /\ canwrite /\ ok /\ p = part
         /\ Whole(cache', p, h) =>
              \/ Whole(cache, p, h)
              \/ PowerLoss /\ Whole(cacheD, p, h)
              \/ RenamePartial /\ p = part /\ h = cmd.id
         /\ \/ cacheD' = cacheD
            \/ cacheD' = cache' /\ (RenamePartial \/ UpdateLastCommandIndex \/ CommitCache \/ Retry)
            \/ PowerLoss /\ cacheD' = cache' /\ (Whole(cacheD', p, h) <=> Whole(cacheD, p, h))
  <1>0. cache \in CacheType /\ cacheD \in CacheType
    BY DEF IInv, StoreType
  <1>1. CASE PowerLoss
    <2>1. PICK f \in {"whole", "torn"} :
            cache' = [cacheD EXCEPT !.file =
              [q \in Parts |-> [id \in Ids |->
                IF cacheD.file[q][id] = "dirty" THEN f ELSE cacheD.file[q][id]]]]
      BY <1>1 DEF PowerLoss
    <2>2. cacheD.file[p][h] \in {"absent", "whole"}
      BY DEF IInv, Tame
    <2>3. cache'.file[p][h] = cacheD.file[p][h]
      BY <1>0, <2>1, <2>2 DEF CacheType
    <2>4. cacheD' = cache'
      BY <1>1 DEF PowerLoss
    <2> QED BY <1>1, <2>3, <2>4 DEF FileMono
  <1>2. CASE VerifyTransfer \/ VerifyStash \/ UpdateTransfer \/ UpdateStash
    <2>1. pc = "cmd" /\ idx <= Len(list) /\ cmd.op \in {"move", "diff", "stash"}
      BY <1>2 DEF VerifyTransfer, VerifyStash, UpdateTransfer, UpdateStash, AtCommand, Transfer
    <2>2. AfterBadStash(cmd.id) = cache
      BY <2>1, HeadCommand, NotTorn
    <2>3. cacheD' = cacheD /\ cache' \in {cache, DeleteLastCommandFile(cache)}
      BY <1>2, <2>2 DEF VerifyTransfer, VerifyStash, UpdateTransfer, UpdateStash
    <2>4. Whole(cache', p, h) <=> Whole(cache, p, h)
      BY <1>0, <2>3, FileAfter
    <2> QED BY <2>3, <2>4
  <1>3. CASE VerifyFree
    <2>1. pc = "cmd" /\ idx <= Len(list) /\ cmd.op = "free" /\ Script[call].fn = "verify"
      BY <1>3 DEF VerifyFree, AtCommand
    <2>2. part \in Parts /\ cmd.id \in Ids /\ ~canwrite
      BY <2>1, HeadCommand DEF canwrite
    <2>3. created => \A g \in Ids : ~Whole(cache, part, g)
      BY <2>1, <2>2 DEF Dirs
    <2>4. cacheD' = cacheD /\ cache' = IF created THEN DeleteFile(cache, part, cmd.id) ELSE cache
      BY <1>3 DEF VerifyFree
    <2>5. Whole(cache', p, h) <=> Whole(cache, p, h)
      BY <1>0, <2>2, <2>3, <2>4, FileAfter
    <2> QED BY <2>4, <2>5
  <1>4. CASE UpdateFree
    <2>1. pc = "cmd" /\ idx <= Len(list) /\ cmd.op = "free"
      BY <1>4 DEF UpdateFree, AtCommand
    <2>2. part \in Parts /\ cmd.id \in Ids
      BY <2>1, HeadCommand
    <2>3. cacheD' = cacheD /\ cache' = DeleteFile(cache, part, cmd.id)
      BY <1>4 DEF UpdateFree
    <2> QED BY <1>0, <1>4, <2>2, <2>3, FileAfter
  <1>5. CASE FreeImplicitStash
    <2>1. part \in Parts
      BY <1>5, Here DEF FreeImplicitStash
    <2>2. freestash \in Ids \cup {NoId}
      BY DEF IInv, StashType
    <2>3. cacheD' = cacheD /\ cache' = IF freestash # NoId THEN DeleteFile(cache, part, freestash) ELSE cache
      BY <1>5 DEF FreeImplicitStash
    <2> QED BY <1>0, <1>5, <2>1, <2>2, <2>3, FileAfter
  <1>6. CASE Finish \/ Cleanup
    <2>1. part \in Parts /\ pc \in {"finish", "cleanup"}
      BY <1>6, AtHead DEF Finish, Cleanup
    <2>2. cacheD' = cacheD
      BY <1>6 DEF Finish, Cleanup
    <2>3. CASE Finish
      BY <1>0, <2>1, <2>2, <2>3, FileAfter DEF Finish
    <2>4. CASE Cleanup
      <3>1. ~canwrite /\ created => ~Whole(cache, part, h)
        BY <2>1 DEF Dirs
      <3>2. \/ cache' \in {cache, DeleteLastCommandFile(cache)}
            \/ cache' = DeleteStash(cache, part) /\ ~canwrite /\ created
        BY <2>4 DEF Cleanup
      <3>3. Whole(cache', p, h) <=> Whole(cache, p, h)
        BY <1>0, <2>1, <3>1, <3>2, FileAfter
      <3> QED BY <2>2, <3>3
    <2> QED BY <1>6, <2>3, <2>4
  <1>7. CASE RenamePartial
    <2>1. part \in Parts /\ cmd \in Command /\ pc = "rename"
      BY <1>7, Here, SiteType DEF RenamePartial
    <2>2. cmd.id \in Ids
      BY <2>1, Here, SiteType DEF IInv, Control
    <2>3. /\ cache' = [cache EXCEPT !.file[part][cmd.id] = IF partial = "synced" THEN "whole" ELSE "dirty"]
          /\ cacheD' = cache'
      BY <1>7 DEF RenamePartial
    <2>4. partial = "synced"
      BY <2>1 DEF IInv, Control
    <2> QED BY <1>0, <1>7, <2>1, <2>2, <2>3, <2>4 DEF CacheType
  <1>8. CASE UpdateLastCommandIndex
    BY <1>0, <1>8 DEF UpdateLastCommandIndex, CacheType
  <1>9. CASE StartCall \/ CreateStashFails
    BY <1>0, <1>9 DEF StartCall, CreateStashFails, CacheType
  <1>10. CASE CommitCache \/ Retry
    BY <1>10 DEF CommitCache, Retry
  <1>11. CASE \/ Boot \/ ScriptEnd \/ ListEnd \/ VerifySkip \/ UpdateSkip \/ UpdateWrite
              \/ WritePartial \/ FsyncPartial \/ Discard \/ WriteBlock \/ WriteEnd
              \/ FsyncPartition \/ SystemCallFails \/ Terminated \/ UNCHANGED vars
    BY <1>11 DEF Boot, ScriptEnd, ListEnd, VerifySkip, UpdateSkip, UpdateWrite, WritePartial,
                 FsyncPartial, Discard, WriteBlock, WriteEnd, FsyncPartition, SystemCallFails,
                 Terminated, vars, store
  <1> QED BY <1>1, <1>2, <1>3, <1>4, <1>5, <1>6, <1>7, <1>8, <1>9, <1>10, <1>11
       DEF Next, Updater, Update, Verify

LEMMA FileMonoNext ==
  ASSUME IInv, Dirs, FileMono, ~unresumable, [Next]_vars
  PROVE  FileMono'
  <1> SUFFICES ASSUME NEW p \in Parts, NEW h \in Ids, Whole(cache', p, h)
               PROVE  Whole(cacheD', p, h)
    BY DEF FileMono
  <1>1. Whole(cache, p, h) => Whole(cacheD, p, h)
    BY DEF FileMono
  <1>2. RenamePartial \/ PowerLoss => cacheD' = cache'
    BY DEF RenamePartial, PowerLoss
  <1> QED BY <1>1, <1>2, FileStep

(* The steps that stay within a call, dry run or update.                    *)
LEMMA WithinCall ==
  ASSUME IInv, [Next]_vars, pc' \in InCall \cup {"finish", "cleanup"}, ~StartCall
  PROVE  /\ pc \in InCall \cup {"finish", "cleanup"} /\ call' = call /\ created' = created
         /\ pc' \in InCall => pc \in InCall
         /\ ~PowerLoss /\ ~Cleanup
         /\ Finish => pc' = "cleanup"
  BY DEF Next, Updater, Boot, ScriptEnd, CreateStashFails, ListEnd, Verify,
         VerifySkip, VerifyTransfer, VerifyStash, VerifyFree, Update, UpdateSkip,
         UpdateTransfer, UpdateStash, UpdateFree, UpdateWrite, WritePartial, FsyncPartial,
         RenamePartial, UpdateLastCommandIndex, Discard, WriteBlock, WriteEnd,
         FreeImplicitStash, FsyncPartition, Finish, Cleanup, Retry, SystemCallFails,
         CommitCache, PowerLoss, Terminated, vars, proc, AtCommand, NextCommand, Unresumable

LEMMA DirStep ==
  ASSUME IInv, ~unresumable, [Next]_vars, NEW p \in Parts, cache.dir[p]
  PROVE  \/ cache'.dir[p]
         \/ PowerLoss
         \/ (Finish \/ Cleanup) /\ p = part /\ cache' = DeleteStash(cache, part)
  <1>0. cache \in CacheType
    BY DEF IInv, StoreType
  <1>1. CASE PowerLoss
    BY <1>1
  <1>2. CASE VerifyTransfer \/ VerifyStash \/ UpdateTransfer \/ UpdateStash
    BY <1>0, <1>2 DEF VerifyTransfer, VerifyStash, UpdateTransfer, UpdateStash, CacheType,
          DeleteLastCommandFile, AfterBadStash, DeleteFile
  <1>3. CASE VerifyFree \/ UpdateFree \/ FreeImplicitStash
    BY <1>0, <1>3 DEF VerifyFree, UpdateFree, FreeImplicitStash, CacheType, DeleteFile
  <1>4. CASE Finish \/ Cleanup
    <2>1. part \in Parts
      BY <1>4, AtHead DEF Finish, Cleanup
    <2>2. cache' \in {cache, DeleteLastCommandFile(cache), DeleteStash(cache, part)}
      BY <1>4 DEF Finish, Cleanup
    <2>3. CASE cache' = DeleteStash(cache, part) /\ p # part
      BY <1>0, <2>1, <2>3 DEF DeleteStash, CacheType
    <2>4. CASE cache' = DeleteLastCommandFile(cache)
      BY <1>0, <2>4 DEF DeleteLastCommandFile, CacheType
    <2> QED BY <1>4, <2>2, <2>3, <2>4
  <1>5. CASE RenamePartial \/ UpdateLastCommandIndex \/ StartCall \/ CreateStashFails
    <2>1. part \in Parts
      BY <1>5, CallType, Here DEF RenamePartial, UpdateLastCommandIndex, StartCall, CreateStashFails, IInv
    <2> QED BY <1>0, <1>5, <2>1
           DEF RenamePartial, UpdateLastCommandIndex, StartCall, CreateStashFails, CacheType
  <1>6. CASE \/ Boot \/ ScriptEnd \/ ListEnd \/ VerifySkip \/ UpdateSkip \/ UpdateWrite
             \/ WritePartial \/ FsyncPartial \/ Discard \/ WriteBlock \/ WriteEnd
             \/ FsyncPartition \/ SystemCallFails \/ Terminated \/ UNCHANGED vars
             \/ CommitCache \/ Retry
    BY <1>6 DEF Boot, ScriptEnd, ListEnd, VerifySkip, UpdateSkip, UpdateWrite, WritePartial,
                 FsyncPartial, Discard, WriteBlock, WriteEnd, FsyncPartition, SystemCallFails,
                 Terminated, CommitCache, Retry, vars, store
  <1> QED BY <1>1, <1>2, <1>3, <1>4, <1>5, <1>6 DEF Next, Updater, Update, Verify

LEMMA DirsNext ==
  ASSUME IInv, Dirs, FileMono, ~unresumable, [Next]_vars
  PROVE  Dirs'
  <1>0. cache \in CacheType /\ cacheD \in CacheType
    BY DEF IInv, StoreType
  <1>1. ASSUME NEW p \in Parts, NEW h \in Ids, Whole(cache', p, h) PROVE cache'.dir[p]
    <2>1. CASE PowerLoss
      <3>1. Whole(cacheD, p, h)
        <4>1. Whole(cache, p, h) => Whole(cacheD, p, h)
          BY DEF FileMono
        <4> QED BY <1>1, <2>1, <4>1, FileStep DEF PowerLoss, RenamePartial
      <3>2. cacheD.dir[p]
        BY <3>1 DEF Dirs, DirIn
      <3>3. cache'.dir = cacheD.dir
        BY <1>0, <2>1 DEF PowerLoss, CacheType
      <3> QED BY <3>2, <3>3
    <2>2. CASE ~PowerLoss
      <3>1. cache.dir[p]
        <4>1. CASE Whole(cache, p, h)
          BY <4>1 DEF Dirs, DirIn
        <4>2. CASE RenamePartial /\ p = part
          BY <4>2 DEF Dirs, RenamePartial
        <4> QED BY <1>1, <2>2, <4>1, <4>2, FileStep
      <3>2. ~(p = part /\ cache' = DeleteStash(cache, part))
        BY <1>0, <1>1, FileAfter
      <3> QED BY <2>2, <3>1, <3>2, DirStep
    <2> QED BY <2>1, <2>2
  <1>2. ASSUME NEW p \in Parts, NEW h \in Ids, Whole(cacheD', p, h) PROVE cacheD'.dir[p]
    <2>1. CASE cacheD' = cacheD
      BY <1>2, <2>1 DEF Dirs, DirIn
    <2>2. CASE cacheD' = cache'
      BY <1>1, <1>2, <2>2
    <2> QED BY <2>1, <2>2, FileStep
  <1>3. ASSUME pc' \in InCall, NEW p, p = part' PROVE cache'.dir[p]
    <2>1. CASE StartCall
      <3>1. part' = part /\ part \in Parts
        BY <2>1, StartUpdate
      <3> QED BY <1>0, <1>3, <2>1, <3>1 DEF StartCall, CacheType
    <2>2. CASE ~StartCall
      <3>1. pc \in InCall /\ call' = call /\ ~PowerLoss /\ ~Cleanup /\ ~Finish
        BY <1>3, <2>2, WithinCall
      <3>2. part' = part /\ part \in Parts
        BY <3>1, SameCall, AtHead
      <3> QED BY <1>3, <3>1, <3>2, DirStep DEF Dirs
    <2> QED BY <2>1, <2>2
  <1>4. ASSUME pc' \in {"cmd", "finish", "cleanup"}, ~canwrite', created', NEW h \in Ids,
               NEW p, p = part'
        PROVE  ~Whole(cache', p, h)
    <2>1. CASE StartCall
      <3>1. part' = part /\ part \in Parts
        BY <2>1, StartUpdate
      <3>2. ~cache.dir[part]
        BY <1>4, <2>1 DEF StartCall
      <3>3. ~Whole(cache, part, h)
        BY <3>1, <3>2 DEF Dirs, DirIn
      <3>4. cache'.file = cache.file
        BY <1>0, <2>1 DEF StartCall, CacheType
      <3> QED BY <1>4, <3>1, <3>3, <3>4
    <2>2. CASE ~StartCall
      <3>1. /\ pc \in InCall \cup {"finish", "cleanup"} /\ call' = call /\ created /\ ~PowerLoss
        BY <1>4, <2>2, WithinCall
      <3>2. part' = part /\ part \in Parts /\ ~canwrite
        BY <1>4, <3>1, SameCall, AtHead
      <3>3. pc \notin InCommand
        BY <3>2, Here
      <3>4. ~Whole(cache, part, h)
        BY <3>1, <3>2, <3>3 DEF Dirs
      <3> QED BY <1>4, <3>1, <3>2, <3>3, <3>4, FileStep DEF RenamePartial
    <2> QED BY <2>1, <2>2
  <1> QED BY <1>1, <1>2, <1>3, <1>4 DEF Dirs, DirIn

-----------------------------------------------------------------------------
(* What a step leaves alone on the partitions.                              *)

(* A source is safe from the commands of other partitions and from those    *)
(* before it.                                                               *)
LEMMA SrcStays ==
  ASSUME RightSources, IInv, [Next]_vars, NEW p \in Parts, NEW i \in Cmds(p), NEW v,
         ReadsBoth(Lists[p][i].src, v),
         pc \in {"discard", "write"} => p # part \/ idx < i
  PROVE  ReadsBoth(Lists[p][i].src, v)'
  <1>1. Lists[p][i].src \in Seq(Blocks)
    BY SiteType
  <1>2. ASSUME pc \in {"discard", "write"}
        PROVE  BlocksOf(Lists[p][i].src) \cap BlocksOf(cmd.tgt) = {}
    <2>1. part \in Parts /\ idx \in Cmds(part) /\ cmd = Lists[part][idx]
      BY <1>2, Here
    <2>2. Src(p, i) \cap Tgt(part, idx) = {}
      BY <1>2, <2>1 DEF RightSources
    <2> QED BY <2>1, <2>2 DEF Src, Tgt
  <1> QED BY <1>1, <1>2, ReadsStay

(* Writing what is there already.                                           *)
LEMMA DoneWhileWriting ==
  ASSUME RightLists, ILists, [Next]_vars, pc = "write", NEW p, NEW i, p = part, i = idx, Done(p, i)
  PROVE  Done(p, i)'
  <1>0. IInv /\ RightTargets
    BY DEF ILists, IBase, RightLists
  <1>1. p \in Parts /\ i \in Cmds(p) /\ cmd = Lists[p][i]
    BY <1>0, Here
  <1>2. cmd.tgt \in Seq(Blocks) /\ disk \in [Blocks -> Data] /\ platter \in [Blocks -> Data]
    BY <1>0, <1>1, SiteType DEF IInv, StoreType
  <1>3. CASE WriteBlock
    <2>1. /\ wpos + 1 \in 1..Len(cmd.tgt) /\ platter' = platter
          /\ disk' = [disk EXCEPT ![cmd.tgt[wpos + 1]] = cmd.out[wpos + 1]]
      BY <1>3, WriteBlockGood DEF WriteBlock
    <2>2. \A k \in 1..Len(cmd.tgt), l \in 1..Len(cmd.tgt) : cmd.tgt[k] = cmd.tgt[l] => k = l
      BY <1>0, <1>1 DEF RightTargets
    <2>3. \A k \in 1..Len(cmd.tgt) : disk'[cmd.tgt[k]] = cmd.out[k] /\ platter'[cmd.tgt[k]] = cmd.out[k]
      BY <1>1, <1>2, <2>1, <2>2 DEF Done, ReadsBoth
    <2> QED BY <1>1, <2>3 DEF Done, ReadsBoth
  <1>4. CASE PowerLoss
    <2>1. \A b \in Blocks : disk'[b] \in {disk[b], platter[b]} /\ platter'[b] \in {disk[b], platter[b]}
      BY <1>2, <1>4 DEF PowerLoss
    <2>2. \A k \in 1..Len(cmd.tgt) : cmd.tgt[k] \in Blocks
      BY <1>2
    <2> QED BY <1>1, <2>1, <2>2 DEF Done, ReadsBoth
  <1>5. CASE WriteEnd \/ SystemCallFails \/ CommitCache \/ UNCHANGED vars
    <2>1. disk' = disk /\ platter' = platter
      BY <1>5 DEF WriteEnd, SystemCallFails, CommitCache, vars, store
    <2> QED BY <2>1 DEF Done, ReadsBoth
  <1> QED BY <1>3, <1>4, <1>5
       DEF Next, Updater, Boot, StartCall, ScriptEnd, CreateStashFails, ListEnd, Verify,
           VerifySkip, VerifyTransfer, VerifyStash, VerifyFree, Update, UpdateSkip,
           UpdateTransfer, UpdateStash, UpdateFree, UpdateWrite, WritePartial, FsyncPartial,
           RenamePartial, UpdateLastCommandIndex, Discard, FreeImplicitStash, FsyncPartition,
           Finish, Cleanup, Retry, Terminated, AtCommand

(* A transfer that is done is not undone: it would have been skipped.       *)
LEMMA TransferStays ==
  ASSUME RightLists, ILists, AtWrite, [Next]_vars, NEW p \in Parts, NEW i \in Cmds(p),
         IsTransfer(p, i), Done(p, i)
  PROVE  Done(p, i)'
  <1>0. IInv /\ RightTargets
    BY DEF ILists, IBase, RightLists
  <1>1. CASE ~Touched(p, i)
    BY <1>0, <1>1, FinishedStays
  <1>2. CASE Touched(p, i)
    <2>1. p = part /\ i = idx /\ pc \in {"discard", "write"} /\ cmd = Lists[p][i]
      BY <1>0, <1>2, Here DEF Touched
    <2>2. pc # "discard"
      BY <1>0, <2>1, TargetRead DEF AtWrite, Transfer, Writers
    <2> QED BY <2>1, <2>2, DoneWhileWriting
  <1> QED BY <1>1, <1>2

LEMMA UsersStay ==
  ASSUME RightLists, ILists, AtWrite, [Next]_vars, NEW p \in Parts, NEW k, UsersDone(p, k)
  PROVE  UsersDone(p, k)'
  BY TransferStays DEF UsersDone, Uses

LEMMA ReadsMatch ==
  ASSUME NEW s \in Seq(Blocks), NEW T, NEW v \in Seq(T), ReadsBoth(s, v)
  PROVE  ReadBlocks(s) = v
  <1>1. v = [k \in 1..Len(s) |-> v[k]]
    BY DEF ReadsBoth
  <1> QED BY <1>1 DEF ReadsBoth, ReadBlocks

LEMMA PowerLossFiles ==
  ASSUME IInv, PowerLoss, NEW p \in Parts, NEW h \in Ids
  PROVE  cacheD' = cache' /\ (Whole(cache', p, h) <=> Whole(cacheD, p, h))
  <1>1. PICK f \in {"whole", "torn"} :
          cache' = [cacheD EXCEPT !.file =
            [q \in Parts |-> [id \in Ids |->
              IF cacheD.file[q][id] = "dirty" THEN f ELSE cacheD.file[q][id]]]]
    BY DEF PowerLoss
  <1>2. cacheD.file[p][h] \in {"absent", "whole"} /\ cacheD \in CacheType
    BY DEF IInv, Tame, StoreType
  <1>3. cache'.file[p][h] = cacheD.file[p][h]
    BY <1>1, <1>2 DEF CacheType
  <1> QED BY <1>3 DEF PowerLoss

LEMMA MatchReads ==
  ASSUME NEW s \in Seq(Blocks), NEW T, NEW v \in Seq(T), ReadBlocks(s) = v, Clean
  PROVE  ReadsBoth(s, v)
  <1>1. v = [k \in 1..Len(s) |-> disk[s[k]]]
    BY DEF ReadBlocks
  <1>2. DOMAIN v = 1..Len(s) /\ Len(v) \in Nat /\ DOMAIN v = 1..Len(v) /\ Len(s) \in Nat
    BY <1>1
  <1>3. Len(s) = Len(v)
    BY <1>2
  <1>4. \A k \in 1..Len(s) : s[k] \in Blocks /\ v[k] = disk[s[k]]
    BY <1>1
  <1> QED BY <1>3, <1>4 DEF ReadsBoth, Clean

(* The file of a stash command goes when nobody needs it any more; by a     *)
(* free that precedes the command, when its source is still in place, or    *)
(* with a loss on record.                                                   *)
LEMMA StashFileGone ==
  ASSUME RightPackage, ILists, IStash, [Next]_vars, gone' = {}, NEW p \in Parts, NEW k \in Cmds(p),
         IsStash(p, k), NEW h, h = Lists[p][k].id, Whole(cache, p, h), ~Whole(cache', p, h)
  PROVE  \/ UsersDone(p, k)
         \/ SrcKept(p, k) /\ UpdateFree /\ p = part /\ idx < k
  <1>0. /\ IInv /\ OnlyCurrentTargetAtRisk /\ BelowDone /\ AllDone /\ RightStash /\ Dirs /\ FileMono
        /\ ~unresumable /\ FreeOK
    BY DEF ILists, IBase, IDone, RightPackage, IStash
  <1>1. h \in Ids
    BY SiteType
  <1>2. CASE UpdateFree /\ p = part /\ h = cmd.id
    <2>1. pc = "cmd" /\ idx <= Len(list) /\ cmd.op = "free" /\ canwrite
      BY <1>2 DEF UpdateFree, AtCommand, canwrite
    <2>2. idx \in Cmds(part) /\ cmd = Lists[part][idx] /\ list = Lists[part] /\ k \in Nat /\ idx \in Nat
      BY <1>0, <1>2, <2>1, AtHead DEF Cmds
    <2>3. k # idx
      BY <1>2, <2>1, <2>2
    <2>4. CASE k < idx
      <3>1. ASSUME NEW i \in Cmds(p), Uses(p, i, k) PROVE Done(p, i)
        <4>1. i \in Nat /\ k < i /\ IsTransfer(p, i) /\ i # idx
          BY <1>2, <2>1, <2>2, <3>1 DEF Uses, Cmds, Transfer
        <4>2. i < idx
          <5> SUFFICES ASSUME ~(i < idx) PROVE FALSE
            OBVIOUS
          <5>1. idx \in (k + 1)..(i - 1)
            BY <2>2, <2>4, <4>1
          <5> QED BY <1>2, <2>1, <2>2, <3>1, <5>1 DEF Uses
        <4>3. Finished(p, i)
          BY <1>0, <1>2, <2>1, <4>2 DEF BelowDone
        <4> QED BY <4>1, <4>3 DEF Finished, Transfer, Writers
      <3> QED BY <3>1 DEF UsersDone
    <2>5. CASE idx < k /\ ReadBlocks(Lists[p][k].src) = Content[h]
      <3>1. Clean
        BY <1>0, <2>1, CleanOutsideWrites
      <3>2. Lists[p][k].src \in Seq(Blocks) /\ Content[h] \in Seq(Data)
        BY <1>1, SiteType, IdsAssumption
      <3>3. SrcKept(p, k)
        BY <2>5, <3>1, <3>2, MatchReads DEF SrcKept
      <3> QED BY <1>2, <2>5, <3>3
    <2>6. CASE idx < k /\ ReadBlocks(Lists[p][k].src) # Content[h]
      <3>1. ~Duplicate
        BY <1>2 DEF UpdateFree
      <3>2. k \in (idx + 1)..Len(list) /\ cache.file[part][cmd.id] # "absent"
        BY <1>2, <2>2, <2>6 DEF Cmds
      <3>3. ASSUME NEW i \in Cmds(p), Uses(p, i, k) PROVE TargetDone(Lists[p][i])
        BY <1>2, <2>2, <2>6, <3>1, <3>2, <3>3 DEF Duplicate, Cmds
      <3>4. ASSUME NEW i \in Cmds(p), Uses(p, i, k) PROVE Done(p, i)
        <4>1. Lists[p][i].tgt \in Seq(Blocks) /\ Lists[p][i].out \in Seq(Data)
          BY SiteType
        <4>2. Clean
          BY <1>0, <2>1, CleanOutsideWrites
        <4>3. ReadBlocks(Lists[p][i].tgt) = Lists[p][i].out
          BY <3>3, <3>4 DEF TargetDone
        <4> QED BY <4>1, <4>2, <4>3, MatchReads DEF Done
      <3> QED BY <3>4 DEF UsersDone
    <2> QED BY <2>2, <2>3, <2>4, <2>5, <2>6
  <1>3. CASE FreeImplicitStash /\ p = part /\ h = freestash
    <2>1. pc = "free" /\ freestash # NoId
      BY <1>1, <1>3, IdsAssumption DEF FreeImplicitStash
    <2>2. cmd.op \in Transfer /\ Overlap(cmd) /\ freestash = cmd.id
      BY <1>0, <2>1 DEF FreeOK
    <2>3. idx \in Cmds(part) /\ cmd = Lists[part][idx]
      BY <1>0, <2>1, Here
    <2> QED BY <1>0, <1>3, <2>2, <2>3 DEF RightStash
  <1>4. CASE Finish /\ canwrite /\ ok /\ p = part
    <2>1. \A i \in Cmds(p) : Finished(p, i)
      BY <1>0, <1>4 DEF AllDone, Finish
    <2> QED BY <2>1 DEF UsersDone, Uses, Finished, Transfer, Writers
  <1> QED BY <1>0, <1>1, <1>2, <1>3, <1>4, FileStep

LEMMA KeptNext ==
  ASSUME RightPackage, ILists, IStash, [Next]_vars, gone' = {}
  PROVE  Kept'
  <1>0. /\ IInv /\ Control /\ RightLists /\ RightSources /\ Kept /\ Stashed /\ FileMono /\ Dirs
        /\ AtWrite /\ ~unresumable
    BY DEF ILists, IBase, IInv, RightPackage, IStash
  <1>1. ASSUME NEW p \in Parts, NEW k \in Cmds(p), IsStash(p, k), NEW h, h = Lists[p][k].id
        PROVE  /\ Whole(cache', p, h) \/ SrcKept(p, k)' \/ UsersDone(p, k)'
               /\ Whole(cacheD', p, h) \/ SrcKept(p, k)' \/ UsersDone(p, k)'
    <2>0. h \in Ids
      BY <1>1, SiteType
    <2>1. ASSUME SrcKept(p, k) PROVE SrcKept(p, k)' \/ Whole(cache, p, h) \/ UsersDone(p, k)'
      <3>1. CASE pc \in {"discard", "write"} => p # part \/ idx < k
        BY <1>0, <1>1, <2>1, <3>1, SrcStays DEF SrcKept
      <3>2. CASE pc \in {"discard", "write"} /\ p = part /\ ~(idx < k)
        <4>1. cmd = Lists[part][idx] /\ idx \in Cmds(part) /\ canwrite
          BY <1>0, <3>2, Here
        <4>2. k # idx
          BY <1>0, <1>1, <3>2, <4>1 DEF Control
        <4>3. k < idx
          BY <3>2, <4>1, <4>2 DEF Cmds
        <4>4. Whole(cache, p, h) \/ UsersDone(p, k)
          BY <1>0, <1>1, <3>2, <4>1, <4>3 DEF Stashed
        <4> QED BY <1>0, <4>4, UsersStay
      <3> QED BY <3>1, <3>2
    <2>2. /\ Whole(cache, p, h) \/ SrcKept(p, k)' \/ UsersDone(p, k)'
          /\ Whole(cacheD, p, h) \/ SrcKept(p, k)' \/ UsersDone(p, k)'
      <3>1. Whole(cache, p, h) => Whole(cacheD, p, h)
        BY <1>0, <2>0 DEF FileMono
      <3>2. /\ Whole(cache, p, h) \/ SrcKept(p, k) \/ UsersDone(p, k)
            /\ Whole(cacheD, p, h) \/ SrcKept(p, k) \/ UsersDone(p, k)
        BY <1>0, <1>1 DEF Kept, KeptIn
      <3>3. UsersDone(p, k) => UsersDone(p, k)'
        BY <1>0, UsersStay
      <3> QED BY <2>1, <3>1, <3>2, <3>3
    <2>3. Whole(cache, p, h) => Whole(cache', p, h) \/ SrcKept(p, k)' \/ UsersDone(p, k)'
      <3>1. UpdateFree => disk' = disk /\ platter' = platter
        BY DEF UpdateFree
      <3>2. SrcKept(p, k) /\ UpdateFree => SrcKept(p, k)'
        BY <3>1 DEF SrcKept, ReadsBoth
      <3>3. UsersDone(p, k) => UsersDone(p, k)'
        BY <1>0, UsersStay
      <3>4. ASSUME Whole(cache, p, h), ~Whole(cache', p, h)
            PROVE  UsersDone(p, k) \/ (SrcKept(p, k) /\ UpdateFree)
        BY <1>1, <3>4, StashFileGone
      <3> QED BY <3>2, <3>3, <3>4
    <2>4. cacheD' = cacheD \/ cacheD' = cache'
      BY <1>0, <2>0, FileStep
    <2> QED BY <2>2, <2>3, <2>4
  <1>2. \A p \in Parts : \A k \in Cmds(p) : IsStash(p, k) =>
          /\ Whole(cache', p, Lists[p][k].id) \/ SrcKept(p, k)' \/ UsersDone(p, k)'
          /\ Whole(cacheD', p, Lists[p][k].id) \/ SrcKept(p, k)' \/ UsersDone(p, k)'
    BY <1>1
  <1>3. KeptIn(cache)'
    BY <1>2 DEF KeptIn, UsersDone, Uses, Done, SrcKept, ReadsBoth
  <1>4. KeptIn(cacheD)'
    BY <1>2 DEF KeptIn, UsersDone, Uses, Done, SrcKept, ReadsBoth
  <1> QED BY <1>3, <1>4 DEF Kept

LEMMA StashedNext ==
  ASSUME RightPackage, ILists, IStash, [Next]_vars, gone' = {}
  PROVE  Stashed'
  <1>0. /\ IInv /\ Control /\ OnlyCurrentTargetAtRisk /\ RightLists /\ Kept /\ Stashed /\ FileMono
        /\ Dirs /\ AtWrite /\ ~unresumable /\ LastStash /\ NoIndex /\ Steady
    BY DEF ILists, IBase, IInv, ILast, RightPackage, IStash
  <1> SUFFICES ASSUME pc' \in InCall, canwrite', NEW p, p = part', NEW k \in Cmds(p), IsStash(p, k),
                      k <= saved' \/ k < idx' \/ (k = idx' /\ pc' \in {"index", "sync"}),
                      NEW h, h = Lists[p][k].id
               PROVE  Whole(cache', p, h) \/ UsersDone(p, k)'
    BY DEF Stashed, UsersDone, Done, ReadsBoth
  <1>1. CASE StartCall
    <2>1. /\ part' = part /\ part \in Parts /\ saved' = cache.last /\ idx' = 1 /\ call \in Updates
          /\ pc = "call" /\ pc' = "cmd"
      BY <1>0, <1>1, StartUpdate
    <2>2. k <= cache.last /\ k # 0 /\ h \in Ids /\ p \in Parts
      BY <2>1, SiteType DEF Cmds
    <2>3. PICK u \in Updates : First(u) /\ u <= call
      BY <2>1, FirstExists
    <2>4. CASE u = call
      <3>1. Whole(cache, p, h) \/ UsersDone(p, k)
        BY <1>0, <2>1, <2>2, <2>3, <2>4 DEF LastStash, LastStashIn, part
      <3>2. ~UpdateFree
        BY <2>1 DEF UpdateFree, AtCommand
      <3> QED BY <1>0, <2>2, <3>1, <3>2, StashFileGone, UsersStay
    <2>5. CASE u # call
      <3>1. u < call
        BY <2>1, <2>3, <2>5, UpdateCalls
      <3>2. cache.last = 0
        BY <1>0, <2>1, <2>3, <3>1 DEF NoIndex
      <3> QED BY <2>2, <3>2 DEF Cmds
    <2> QED BY <2>4, <2>5
  <1>2. CASE ~StartCall
    <2>1. /\ pc \in InCall /\ canwrite /\ part' = part /\ saved' = saved
          /\ \/ idx' = idx /\ cmd' = cmd
             \/ UpdateSkip /\ idx' = idx + 1 /\ pc' = "cmd"
             \/ FsyncPartition /\ idx' = idx + 1 /\ pc' = "cmd"
      BY <1>0, <1>2, WithinUpdate
    <2>2. p = part /\ p \in Parts /\ k \in Nat /\ idx \in Nat /\ saved \in Nat /\ h \in Ids
      <3>1. p = part /\ p \in Parts
        BY <1>0, <2>1, AtHead
      <3>2. h \in Ids
        BY <3>1, SiteType
      <3> QED BY <1>0, <3>1, <3>2 DEF Cmds, IInv, PlaceType
    <2>3. CASE k <= saved \/ k < idx \/ (k = idx /\ pc \in {"index", "sync"})
      <3>1. Whole(cache, p, h) \/ UsersDone(p, k)
        BY <1>0, <2>1, <2>2, <2>3 DEF Stashed
      <3>2. UpdateFree => saved < idx /\ pc = "cmd"
        BY <2>2 DEF UpdateFree, AtCommand
      <3>3. ~(UpdateFree /\ idx < k)
        BY <2>2, <2>3, <3>2
      <3> QED BY <1>0, <2>2, <3>1, <3>3, StashFileGone, UsersStay
    <2>4. CASE ~(k <= saved \/ k < idx \/ (k = idx /\ pc \in {"index", "sync"}))
      <3>1. idx' = idx /\ k = idx /\ pc' \in {"index", "sync"} /\ pc \notin {"index", "sync"}
        BY <2>1, <2>2, <2>4 DEF UpdateSkip, FsyncPartition
      <3>2. idx <= Len(list) /\ cmd.op = "stash" /\ cmd.id = h /\ list = Lists[part]
        BY <1>0, <2>1, <2>2, <3>1, AtHead DEF Cmds, cmd
      <3>3. CASE RenamePartial
        <4>1. partial = "synced" /\ cache \in CacheType
          BY <1>0, <3>3 DEF RenamePartial, Control, IInv, StoreType
        <4>2. cache' = [cache EXCEPT !.file[part][cmd.id] = "whole"]
          BY <3>3, <4>1 DEF RenamePartial
        <4> QED BY <2>2, <3>2, <4>1, <4>2 DEF CacheType
      <3>4. CASE UpdateStash
        <4>1. pc = "cmd" /\ ~MapHas(cmd.id)
          BY <2>1, <3>4 DEF UpdateStash, AtCommand, MapHas
        <4>2. cache.file[part][h] \in {"absent", "whole"}
          BY <1>0, <2>2 DEF IInv, Tame
        <4>3. CASE LoadStash(cmd.id)
          <5>1. Whole(cache, p, h)
            BY <2>2, <3>2, <4>1, <4>2, <4>3 DEF LoadStash
          <5> QED BY <3>4, <4>3, <5>1 DEF UpdateStash
        <4>4. CASE ~LoadStash(cmd.id)
          <5>1. ~Whole(cache, p, h)
            BY <2>2, <3>2, <4>1, <4>4 DEF LoadStash
          <5>2. ReadBlocks(cmd.src) # Content[cmd.id]
            BY <3>1, <3>4, <4>4 DEF UpdateStash
          <5>3. ~SrcKept(p, k)
            <6>1. SrcKept(p, k) => ReadBlocks(Lists[p][k].src) = Content[h]
              <7>1. Lists[p][k].src \in Seq(Blocks) /\ Content[h] \in Seq(Data)
                BY <2>2, SiteType, IdsAssumption
              <7> QED BY <7>1, ReadsMatch DEF SrcKept
            <6>2. cmd = Lists[p][k]
              BY <2>2, <3>1, <3>2 DEF cmd
            <6> QED BY <3>2, <5>2, <6>1, <6>2
          <5>4. UsersDone(p, k)
            BY <1>0, <2>2, <5>1, <5>3 DEF Kept, KeptIn
          <5> QED BY <1>0, <2>2, <5>4, UsersStay
        <4> QED BY <4>3, <4>4
      <3>5. CASE ~RenamePartial /\ ~UpdateStash
        <4>1. pc = "free" \/ cmd.op # "stash"
          BY <1>2, <2>1, <3>1, <3>5
             DEF Next, Updater, Boot, ScriptEnd, CreateStashFails, ListEnd, Verify,
                 VerifySkip, VerifyTransfer, VerifyStash, VerifyFree, Update, UpdateSkip,
                 UpdateTransfer, UpdateFree, UpdateWrite, WritePartial, FsyncPartial,
                 UpdateLastCommandIndex, Discard, WriteBlock, WriteEnd,
                 FreeImplicitStash, FsyncPartition, Finish, Cleanup, Retry, SystemCallFails,
                 CommitCache, PowerLoss, Terminated, vars, proc, AtCommand, NextCommand,
                 Unresumable, Transfer
        <4> QED BY <1>0, <3>2, <4>1 DEF AtWrite
      <3> QED BY <3>3, <3>4, <3>5
    <2> QED BY <2>3, <2>4
  <1> QED BY <1>1, <1>2

LEMMA LastStashNext ==
  ASSUME RightPackage, ILists, IStash, [Next]_vars, gone' = {}
  PROVE  LastStash'
  <1>0. /\ IInv /\ RightLists /\ EarlierDone /\ Stashed /\ FileMono
        /\ Dirs /\ AtWrite /\ ~unresumable /\ LastStash /\ LastHere
    BY DEF ILists, IBase, IDone, RightPackage, IStash
  <1>1. ASSUME NEW u \in Updates, First(u), NEW p, p = Script[u].part, NEW k \in Cmds(p),
               IsStash(p, k), NEW h, h = Lists[p][k].id
        PROVE  /\ k <= cache'.last => Whole(cache', p, h) \/ UsersDone(p, k)'
               /\ k <= cacheD'.last => Whole(cacheD', p, h) \/ UsersDone(p, k)'
    <2>1. p \in Parts /\ h \in Ids /\ k \in Nat \ {0}
      <3>1. p \in Parts
        BY <1>1, UpdateCalls
      <3>2. h \in Ids
        BY <1>1, <3>1, SiteType
      <3>3. k \in Nat \ {0}
        BY <1>1 DEF Cmds
      <3> QED BY <3>1, <3>2, <3>3
    <2>2. /\ k <= cache.last => Whole(cache, p, h) \/ UsersDone(p, k)
          /\ k <= cacheD.last => Whole(cacheD, p, h) \/ UsersDone(p, k)
      BY <1>0, <1>1 DEF LastStash, LastStashIn
    <2>3. UsersDone(p, k) => UsersDone(p, k)'
      BY <1>0, <2>1, UsersStay
    <2>4. ASSUME Whole(cache, p, h), k <= cache.last PROVE Whole(cache', p, h) \/ UsersDone(p, k)'
      <3>1. CASE ~(UpdateFree /\ p = part /\ idx < k)
        BY <1>1, <2>1, <2>3, <2>4, <3>1, StashFileGone
      <3>2. CASE UpdateFree /\ p = part /\ idx < k
        <4>1. pc = "cmd" /\ canwrite /\ saved < idx /\ idx \in Nat /\ saved \in Nat /\ cache.last \in Nat
          BY <1>0, <3>2 DEF UpdateFree, AtCommand, canwrite, IInv, PlaceType, StoreType, CacheType
        <4>2. cache.last <= saved \/ cache.last <= idx
          BY <1>0, <4>1 DEF LastHere, InCall
        <4> QED BY <2>1, <2>4, <3>2, <4>1, <4>2
      <3> QED BY <3>1, <3>2
    <2>5. ASSUME UpdateLastCommandIndex, k <= idx PROVE Whole(cache, p, h) \/ UsersDone(p, k)
      <3>1. pc = "index"
        BY <2>5 DEF UpdateLastCommandIndex
      <3>2. call \in Updates /\ part = Script[call].part /\ canwrite /\ idx \in Nat
        BY <1>0, <3>1, Here DEF IInv, PlaceType
      <3>3. u \in Nat /\ call \in Nat /\ u <= call
        BY <1>1, <3>2, UpdateCalls DEF First
      <3>4. CASE u = call
        <4>1. p = part /\ pc \in InCall /\ k \in Cmds(part) /\ IsStash(part, k) /\ h = Lists[part][k].id
          BY <1>1, <3>1, <3>2, <3>4 DEF InCall, InCommand
        <4>2. k < idx \/ (k = idx /\ pc \in {"index", "sync"})
          BY <2>1, <2>5, <3>1, <3>2
        <4> QED BY <1>0, <3>2, <4>1, <4>2, Zenon DEF Stashed
      <3>5. CASE u < call
        <4>1. \A i \in Cmds(p) : Finished(p, i)
          BY <1>0, <1>1, <3>1, <3>5 DEF EarlierDone
        <4> QED BY <4>1 DEF UsersDone, Uses, Finished, Transfer, Writers
      <3> QED BY <3>3, <3>4, <3>5
    <2>6. k <= cache'.last => Whole(cache', p, h) \/ UsersDone(p, k)'
      <3>1. CASE cache'.last = 0
        BY <2>1, <3>1
      <3>2. CASE cache'.last = cache.last
        BY <2>2, <2>3, <2>4, <3>2
      <3>3. CASE PowerLoss /\ cache'.last = cacheD.last
        <4>1. Whole(cacheD, p, h) => Whole(cache', p, h)
          BY <1>0, <2>1, <3>3, PowerLossFiles
        <4> QED BY <2>2, <2>3, <3>3, <4>1
      <3>4. CASE UpdateLastCommandIndex /\ cache'.last = idx
        <4>1. ~UpdateFree
          BY <3>4 DEF UpdateLastCommandIndex, UpdateFree, AtCommand
        <4>2. Whole(cache, p, h) => Whole(cache', p, h) \/ UsersDone(p, k)'
          BY <1>1, <2>1, <2>3, <4>1, StashFileGone
        <4> QED BY <2>3, <2>5, <3>4, <4>2
      <3> QED BY <1>0, <3>1, <3>2, <3>3, <3>4, LastStep
    <2>7. cacheD' = cacheD \/ cacheD' = cache'
      BY <1>0, <2>1, FileStep
    <2> QED BY <2>2, <2>3, <2>6, <2>7
  <1>2. ASSUME NEW u \in Updates, First(u), NEW k \in Cmds(Script[u].part),
               IsStash(Script[u].part, k)
        PROVE  /\ k <= cache'.last =>
                    \/ Whole(cache', Script[u].part, Lists[Script[u].part][k].id)
                    \/ UsersDone(Script[u].part, k)'
               /\ k <= cacheD'.last =>
                    \/ Whole(cacheD', Script[u].part, Lists[Script[u].part][k].id)
                    \/ UsersDone(Script[u].part, k)'
    BY <1>1, <1>2
  <1> QED BY <1>2 DEF LastStash, LastStashIn, First

LEMMA LastHereNext ==
  ASSUME RightPackage, ILists, IStash, [Next]_vars
  PROVE  LastHere'
  <1>0. IInv /\ LastHere
    BY DEF ILists, IBase, IStash
  <1> SUFFICES ASSUME pc' \in InCall, canwrite'
               PROVE  cache'.last <= saved' \/ cache'.last <= idx'
    BY DEF LastHere
  <1>1. idx \in Nat \ {0} /\ saved \in Nat /\ cache.last \in Nat
    BY <1>0 DEF IInv, PlaceType, StoreType, CacheType
  <1>2. CASE StartCall
    <2>1. cache'.last = cache.last /\ saved' = cache.last
      BY <1>0, <1>2 DEF StartCall, IInv, StoreType, CacheType
    <2> QED BY <1>1, <2>1
  <1>3. CASE ~StartCall
    <2>1. /\ pc \in InCall /\ canwrite /\ saved' = saved
          /\ idx' = idx \/ idx' = idx + 1
      BY <1>0, <1>3, WithinUpdate
    <2>2. ~PowerLoss
      BY DEF PowerLoss, InCall, InCommand
    <2>3. cache'.last \in {0, cache.last, idx}
      BY <1>0, <2>2, LastStep
    <2>4. cache.last <= saved \/ cache.last <= idx
      BY <1>0, <2>1 DEF LastHere
    <2> QED BY <1>1, <2>1, <2>3, <2>4
  <1> QED BY <1>2, <1>3

-----------------------------------------------------------------------------
(* No transfer is ever without its source.                                  *)

LEMMA DiskStep ==
  ASSUME IInv, [Next]_vars, ~PowerLoss, NEW b \in Blocks
  PROVE  \/ pc \in {"discard", "write"} /\ b \in BlocksOf(cmd.tgt)
         \/ disk'[b] = disk[b]
  <1>1. CASE Discard
    BY <1>1 DEF Discard, IInv, StoreType
  <1>2. CASE WriteBlock
    <2> USE <1>2 DEF WriteBlock
    <2>1. cmd.tgt \in Seq(Blocks)
      BY Here, SiteType DEF IInv
    <2>2. wpos + 1 \in 1..Len(cmd.tgt)
      BY <2>1 DEF IInv, PlaceType
    <2>3. cmd.tgt[wpos + 1] \in BlocksOf(cmd.tgt)
      BY <2>2 DEF BlocksOf
    <2> QED BY <2>3 DEF IInv, StoreType
  <1>3. CASE ~(Discard \/ WriteBlock)
    <2>1. disk' = disk
      BY <1>3
         DEF Next, Updater, Boot, StartCall, ScriptEnd, CreateStashFails, ListEnd, Verify,
             VerifySkip, VerifyTransfer, VerifyStash, VerifyFree, Update, UpdateSkip,
             UpdateTransfer, UpdateStash, UpdateFree, UpdateWrite, WritePartial, FsyncPartial,
             RenamePartial, UpdateLastCommandIndex, WriteEnd, FreeImplicitStash, FsyncPartition,
             Finish, Cleanup, Retry, SystemCallFails, CommitCache, Terminated, vars, store
    <2> QED BY <2>1
  <1> QED BY <1>1, <1>2, <1>3

(* The command being written keeps its source.                              *)
LEMMA OwnSource ==
  ASSUME RightPackage, ILists, IStash, [Next]_vars, NEW p \in Parts, NEW i \in Cmds(p),
         IsTransfer(p, i), Touched(p, i)
  PROVE  \/ SrcGood(p, i)'
         \/ Saved(cache, p, i) /\ Saved(cacheD, p, i)
  <1>0. IInv /\ AtWrite /\ FileMono
    BY DEF ILists, IBase, IStash
  <1>1. p = part /\ i = idx /\ pc \in {"discard", "write"} /\ cmd = Lists[p][i]
    BY <1>0, Here DEF Touched
  <1>2. Lists[p][i].src \in Seq(Blocks) /\ Lists[p][i].id \in Ids
    BY SiteType DEF Transfer
  <1>3. CASE Overlap(cmd)
    <2>1. Whole(cache, p, Lists[p][i].id)
      BY <1>0, <1>1, <1>3 DEF AtWrite
    <2>2. Whole(cacheD, p, Lists[p][i].id)
      BY <1>0, <1>2, <2>1 DEF FileMono
    <2> QED BY <1>1, <1>3, <2>1, <2>2 DEF Saved
  <1>4. CASE ~Overlap(cmd)
    <2>1. SrcGood(p, i)
      BY <1>0, <1>1, <1>4 DEF AtWrite
    <2>2. BlocksOf(Lists[p][i].src) \cap BlocksOf(cmd.tgt) = {}
      BY <1>1, <1>4 DEF Overlap
    <2> QED BY <1>0, <1>2, <2>1, <2>2, ReadsStay DEF SrcGood
  <1> QED BY <1>3, <1>4

LEMMA SourceStep ==
  ASSUME RightPackage, ILists, IStash, [Next]_vars, NEW p \in Parts, NEW i \in Cmds(p),
         IsTransfer(p, i), SrcGood(p, i)
  PROVE  \/ SrcGood(p, i)'
         \/ Done(p, i)'
         \/ Touched(p, i) /\ Saved(cache, p, i) /\ Saved(cacheD, p, i)
  <1>0. IInv /\ AtWrite /\ BelowDone /\ RightLists /\ RightSources
    BY DEF ILists, IBase, IDone, IStash, RightPackage
  <1>1. CASE pc \in {"discard", "write"} => p # part \/ idx < i
    BY <1>0, <1>1, SrcStays DEF SrcGood
  <1>2. CASE pc \in {"discard", "write"} /\ p = part /\ ~(idx < i)
    <2>1. idx \in Cmds(part) /\ canwrite
      BY <1>0, <1>2, Here
    <2>2. CASE i = idx
      BY <1>2, <2>2, OwnSource DEF Touched
    <2>3. CASE i # idx
      <3>1. i < idx
        BY <1>2, <2>1, <2>3 DEF Cmds
      <3>2. Done(p, i)
        BY <1>0, <1>2, <2>1, <3>1 DEF BelowDone, Finished, Transfer, Writers
      <3> QED BY <1>0, <3>2, TransferStays
    <2> QED BY <2>2, <2>3
  <1> QED BY <1>1, <1>2

(* What is done, and not being written, is not undone by a step.            *)
LEMMA DoneNowStays ==
  ASSUME IInv, RightTargets, [Next]_vars, ~PowerLoss, NEW p \in Parts, NEW i \in Cmds(p),
         ~Touched(p, i), DoneNow(p, i)
  PROVE  DoneNow(p, i)'
  <1>1. Lists[p][i].tgt \in Seq(Blocks)
    BY SiteType
  <1>2. ASSUME NEW k \in 1..Len(Lists[p][i].tgt)
        PROVE  disk'[Lists[p][i].tgt[k]] = disk[Lists[p][i].tgt[k]]
    <2>1. Lists[p][i].tgt[k] \in Blocks /\ Lists[p][i].tgt[k] \in Tgt(p, i)
      BY <1>1 DEF Tgt, BlocksOf
    <2>2. pc \in {"discard", "write"} => Lists[p][i].tgt[k] \notin BlocksOf(cmd.tgt)
      BY <2>1, OtherTarget
    <2> QED BY <2>1, <2>2, DiskStep
  <1> QED BY <1>2 DEF DoneNow

(* Only the command that is being completed is done but not yet safe.       *)
LEMMA DoneAtRisk ==
  ASSUME RightLists, ILists, NEW p \in Parts, NEW i \in Cmds(p), IsTransfer(p, i), DoneNow(p, i),
         ~Done(p, i)
  PROVE  /\ pc \in {"write", "free", "sync", "finish"} /\ canwrite /\ idx <= Len(list)
         /\ p = part /\ i = idx
  <1>0. IInv /\ OnlyCurrentTargetAtRisk /\ RightTargets
    BY DEF ILists, IBase, RightLists
  <1>1. /\ Lists[p][i].tgt \in Seq(Blocks) /\ Len(Lists[p][i].out) = Len(Lists[p][i].tgt)
    BY SiteType DEF Transfer, Writers
  <1>2. PICK k \in 1..Len(Lists[p][i].tgt) : disk[Lists[p][i].tgt[k]] # platter[Lists[p][i].tgt[k]]
    BY <1>1 DEF DoneNow, Done, ReadsBoth
  <1>3. Lists[p][i].tgt[k] \in Blocks /\ Lists[p][i].tgt[k] \in Tgt(p, i)
    BY <1>1 DEF Tgt, BlocksOf
  <1>4. /\ pc \in {"write", "free", "sync", "finish"} /\ canwrite /\ idx <= Len(list)
        /\ Lists[p][i].tgt[k] \in BlocksOf(cmd.tgt)
    BY <1>0, <1>2, <1>3 DEF OnlyCurrentTargetAtRisk
  <1>5. part \in Parts /\ idx \in Cmds(part) /\ cmd = Lists[part][idx]
    BY <1>0, <1>4, AtHead
  <1>6. Lists[p][i].tgt[k] \in Tgt(part, idx)
    BY <1>4, <1>5 DEF Tgt
  <1>7. p = part /\ i = idx
    BY <1>0, <1>3, <1>5, <1>6 DEF RightTargets
  <1> QED BY <1>4, <1>7

(* A power loss that takes blocks of an overlapping command finds its stash *)
(* on the medium, or goes on record.                                        *)
LEMMA LossSpares ==
  ASSUME RightLists, ILists, AtWrite, [Next]_vars, PowerLoss, gone' = {}, NEW p \in Parts,
         NEW i \in Cmds(p), IsTransfer(p, i), DoneNow(p, i), Overlap(Lists[p][i])
  PROVE  Done(p, i)' \/ Saved(cacheD', p, i)
  <1>0. IInv
    BY DEF ILists, IBase
  <1>1. CASE Done(p, i)
    BY <1>1, TransferStays
  <1>2. CASE ~Done(p, i)
    <2>1. /\ pc \in {"write", "free", "sync", "finish"} /\ canwrite /\ idx <= Len(list)
          /\ p = part /\ i = idx
      BY <1>2, DoneAtRisk
    <2>2. cmd = Lists[p][i] /\ Lists[p][i].id \in Ids
      BY <2>1, SiteType DEF cmd, list, Transfer
    <2>3. cacheD.file[p][Lists[p][i].id] \in {"absent", "whole"}
      BY <1>0, <2>2 DEF IInv, Tame
    <2>4. CASE cacheD.file[p][Lists[p][i].id] = "whole"
      BY <1>0, <2>2, <2>4, PowerLossFiles DEF Saved
    <2>5. CASE cacheD.file[p][Lists[p][i].id] = "absent"
      <3>1. Unlinked
        BY <2>1, <2>2, <2>5 DEF Unlinked
      <3>2. disk' = disk /\ platter' = disk'
        BY <3>1 DEF PowerLoss
      <3>3. Len(Lists[p][i].out) = Len(Lists[p][i].tgt)
        BY SiteType DEF Transfer, Writers
      <3> QED BY <3>2, <3>3 DEF DoneNow, Done, ReadsBoth
    <2> QED BY <2>3, <2>4, <2>5
  <1> QED BY <1>1, <1>2

LEMMA SafeLaterNext ==
  ASSUME RightPackage, ILists, IStash, [Next]_vars, gone' = {}
  PROVE  SafeLater'
  <1>0. /\ IInv /\ AtWrite /\ RightLists /\ RightTargets /\ SafeLater /\ SafeNow /\ FileMono
        /\ Dirs /\ ~unresumable
    BY DEF ILists, IBase, IStash, RightPackage, RightLists
  <1> SUFFICES ASSUME NEW p \in Parts, NEW i \in Cmds(p), IsTransfer(p, i)
               PROVE  \/ Done(p, i)' \/ SrcGood(p, i)' \/ Saved(cacheD', p, i)
                      \/ DoneNow(p, i)' /\ Overlap(Lists[p][i])
    BY DEF SafeLater, Saved, SrcGood
  <1> DEFINE h == Lists[p][i].id
  <1>1. h \in Ids
    BY SiteType DEF Transfer
  <1>2. Done(p, i) => Done(p, i)'
    BY <1>0, TransferStays
  <1>3. ASSUME Whole(cache, p, h), cacheD' # cacheD PROVE Whole(cacheD', p, h)
    <2>1. ~UpdateFree /\ ~FreeImplicitStash /\ ~Finish
      BY <1>3 DEF UpdateFree, FreeImplicitStash, Finish
    <2>2. Whole(cache', p, h)
      BY <1>0, <1>1, <1>3, <2>1, FileStep
    <2>3. cacheD' = cache'
      BY <1>0, <1>1, <1>3, FileStep
    <2> QED BY <2>2, <2>3
  <1>4. CASE Saved(cacheD, p, i) /\ Saved(cache, p, i)
    BY <1>3, <1>4 DEF Saved
  <1>5. CASE Done(p, i) \/ SrcGood(p, i)
    BY <1>2, <1>4, <1>5, SourceStep
  <1>6. CASE DoneNow(p, i) /\ Overlap(Lists[p][i])
    <2>1. CASE PowerLoss
      BY <1>0, <1>6, <2>1, LossSpares
    <2>2. CASE Touched(p, i)
      BY <1>4, <2>2, OwnSource
    <2>3. CASE ~PowerLoss /\ ~Touched(p, i)
      BY <1>0, <1>6, <2>3, DoneNowStays
    <2> QED BY <2>1, <2>2, <2>3
  <1>7. CASE Saved(cacheD, p, i) /\ ~(Done(p, i) \/ SrcGood(p, i) \/ Saved(cache, p, i))
    BY <1>0, <1>6, <1>7 DEF SafeNow, Saved
  <1> QED BY <1>0, <1>4, <1>5, <1>6, <1>7 DEF SafeLater

LEMMA SafeNowNext ==
  ASSUME RightPackage, ILists, IStash, [Next]_vars, gone' = {}
  PROVE  SafeNow'
  <1>0. /\ IInv /\ AtWrite /\ RightLists /\ RightStash /\ RightSources /\ SafeNow /\ FileMono /\ FreeOK
        /\ Dirs /\ ~unresumable /\ BelowDone /\ AllDone /\ Writing /\ RightTargets
    BY DEF ILists, IBase, IDone, IWrite, IStash, RightPackage, RightLists
  <1> SUFFICES ASSUME NEW p \in Parts, NEW i \in Cmds(p), IsTransfer(p, i)
               PROVE  DoneNow(p, i)' \/ SrcGood(p, i)' \/ Saved(cache', p, i)
    BY DEF SafeNow, Saved, SrcGood
  <1> DEFINE h == Lists[p][i].id
  <1>1. h \in Ids
    BY SiteType DEF Transfer
  <1>2. Done(p, i)' => DoneNow(p, i)'
    <2>1. Len(Lists[p][i].out) = Len(Lists[p][i].tgt)
      BY SiteType DEF Transfer, Writers
    <2> QED BY <2>1 DEF Done, ReadsBoth, DoneNow
  <1>3. CASE PowerLoss
    <2>1. cacheD' = cache'
      BY <1>3 DEF PowerLoss
    <2>2. \/ Done(p, i)' \/ SrcGood(p, i)' \/ Saved(cacheD', p, i)
          \/ DoneNow(p, i)' /\ Overlap(Lists[p][i])
      BY SafeLaterNext DEF SafeLater, Saved, SrcGood
    <2> QED BY <1>2, <2>1, <2>2
  <1>4. CASE Touched(p, i) /\ ~PowerLoss
    <2>1. ~UpdateFree /\ ~FreeImplicitStash /\ ~Finish
      BY <1>4 DEF Touched, UpdateFree, AtCommand, FreeImplicitStash, Finish
    <2>2. Saved(cache, p, i) => Saved(cache', p, i)
      BY <1>0, <1>1, <2>1, FileStep DEF Saved
    <2> QED BY <1>4, <2>2, OwnSource
  <1>5. CASE ~Touched(p, i) /\ ~PowerLoss
    <2>1. DoneNow(p, i) => DoneNow(p, i)'
      BY <1>0, <1>5, DoneNowStays
    <2>2. CASE DoneNow(p, i) \/ SrcGood(p, i)
      BY <1>2, <1>5, <2>1, <2>2, SourceStep
    <2>3. CASE Saved(cache, p, i)
      <3>1. Overlap(Lists[p][i]) /\ Whole(cache, p, h)
        BY <2>3 DEF Saved
      <3>2. CASE Whole(cache', p, h)
        BY <3>1, <3>2 DEF Saved
      <3>3. CASE UpdateFree /\ p = part /\ h = cmd.id
        <4>1. pc = "cmd" /\ idx <= Len(list) /\ cmd.op = "free"
          BY <3>3 DEF UpdateFree, AtCommand
        <4>2. idx \in Cmds(part) /\ cmd = Lists[part][idx]
          BY <1>0, <4>1, AtHead
        <4> QED BY <1>0, <3>1, <3>3, <4>1, <4>2 DEF RightStash
      <3>4. CASE FreeImplicitStash /\ p = part /\ h = freestash
        <4>1. pc = "free" /\ freestash # NoId
          BY <1>1, <3>4, IdsAssumption DEF FreeImplicitStash
        <4>2. canwrite /\ idx \in Cmds(part) /\ cmd = Lists[part][idx]
          BY <1>0, <4>1, Here
        <4>3. CASE i = idx
          <5>1. DoneNow(p, i)
            BY <1>0, <3>4, <4>1, <4>2, <4>3 DEF Writing, DoneNow, Transfer, Writers
          <5> QED BY <2>1, <5>1
        <4>4. CASE i < idx
          <5>1. Done(p, i)
            BY <1>0, <3>4, <4>1, <4>2, <4>4 DEF BelowDone, Finished, Transfer, Writers
          <5> QED BY <1>0, <1>2, <5>1, TransferStays
        <4>5. CASE idx < i
          <5>1. Done(p, i) \/ SrcGood(p, i)
            BY <1>0, <3>4, <4>1, <4>5 DEF FreeOK
          <5>2. Done(p, i) => Done(p, i)'
            BY <1>0, TransferStays
          <5> QED BY <1>2, <1>5, <5>1, <5>2, SourceStep
        <4> QED BY <4>2, <4>3, <4>4, <4>5 DEF Cmds
      <3>5. CASE Finish /\ canwrite /\ ok /\ p = part
        <4>1. Done(p, i)
          BY <1>0, <3>5 DEF AllDone, Finish, Finished, Transfer, Writers
        <4> QED BY <1>0, <1>2, <4>1, TransferStays
      <3> QED BY <1>0, <1>1, <3>1, <3>2, <3>3, <3>4, <3>5, FileStep
    <2> QED BY <1>0, <2>2, <2>3 DEF SafeNow
  <1> QED BY <1>3, <1>4, <1>5

(* A step that stays within a command of an update.                         *)
LEMMA WithinCommand ==
  ASSUME IInv, [Next]_vars, pc' \in InCommand
  PROVE  /\ pc \in InCall /\ canwrite /\ call' = call /\ part' = part /\ part \in Parts
         /\ idx' = idx /\ cmd' = cmd /\ idx \in Cmds(part) /\ cmd = Lists[part][idx]
  <1>1. IInv'
    BY NextIInv
  <1>2. canwrite' /\ (idx <= Len(list))'
    BY <1>1 DEF IInv, Control
  <1>3. ~StartCall
    BY DEF StartCall
  <1>4. /\ pc \in InCall /\ canwrite /\ part' = part /\ call' = call /\ list' = list
        /\ idx' = idx /\ cmd' = cmd
    BY <1>2, <1>3, WithinUpdate
  <1> QED BY <1>2, <1>4, AtHead

LEMMA AtWriteNext ==
  ASSUME RightPackage, ILists, IStash, [Next]_vars
  PROVE  AtWrite'
  <1>0. /\ IInv /\ Control /\ OnlyCurrentTargetAtRisk /\ Steady /\ AtWrite /\ FileMono
        /\ Dirs /\ ~unresumable
    BY DEF ILists, IBase, IInv, IStash
  <1>1. ASSUME pc' \in {"index", "discard", "write"}, cmd'.op \in Transfer,
               NEW p, p = part', NEW i, i = idx', NEW c, c = cmd'
        PROVE  IF Overlap(c) THEN Whole(cache', p, c.id) ELSE SrcGood(p, i)'
    <2>1. /\ pc \in InCall /\ canwrite /\ p = part /\ p \in Parts /\ i = idx /\ c = cmd
          /\ i \in Cmds(p) /\ c = Lists[p][i]
      BY <1>0, <1>1, WithinCommand
    <2>2. c.src \in Seq(Blocks) /\ c.want \in Seq(Data) /\ c.id \in Ids /\ cache \in CacheType
      BY <1>0, <1>1, <2>1, SiteType DEF Transfer, IInv, StoreType
    <2>3. cache.file[p][c.id] \in {"absent", "whole"}
      BY <1>0, <2>1, <2>2 DEF IInv, Tame
    <2>4. CASE UpdateTransfer
      <3>1. pc = "cmd" /\ disk' = disk /\ platter' = platter /\ cache' = cache
        BY <1>1, <2>4 DEF UpdateTransfer, AtCommand, Unresumable
      <3>2. CASE Overlap(c)
        <4>1. cache.file[part][cmd.id] # "absent" \/ SourceSaved(cmd)
          BY <1>1, <2>1, <2>4, <3>2 DEF UpdateTransfer, Unresumable
        <4>2. SourceSaved(cmd) => cache.file[part][cmd.id] # "absent"
          BY <2>1 DEF SourceSaved, LoadStash, MapHas
        <4> QED BY <2>1, <2>3, <3>1, <3>2, <4>1, <4>2
      <3>3. CASE ~Overlap(c)
        <4>1. ReadBlocks(c.src) = c.want
          BY <1>1, <2>1, <2>4, <3>3 DEF UpdateTransfer, Unresumable, SourceGood, SourceSaved
        <4>2. Clean
          BY <1>0, <3>1, CleanOutsideWrites
        <4>3. SrcGood(p, i)
          BY <2>1, <2>2, <4>1, <4>2, MatchReads DEF SrcGood
        <4> QED BY <3>1, <3>3, <4>3 DEF SrcGood, ReadsBoth
      <3> QED BY <3>2, <3>3
    <2>5. CASE RenamePartial
      <3>1. partial = "synced" /\ Overlap(c)
        BY <1>0, <1>1, <2>1, <2>5 DEF RenamePartial, Control, Steady, SavesIndex, Transfer
      <3>2. cache' = [cache EXCEPT !.file[part][cmd.id] = "whole"]
        BY <2>5, <3>1 DEF RenamePartial
      <3> QED BY <2>1, <2>2, <3>1, <3>2 DEF CacheType
    <2>6. CASE pc \in {"index", "discard", "write"}
      <3>1. IF Overlap(c) THEN Whole(cache, p, c.id) ELSE SrcGood(p, i)
        BY <1>0, <1>1, <2>1, <2>6 DEF AtWrite
      <3>2. CASE Overlap(c)
        BY <1>0, <2>1, <2>2, <2>6, <3>1, <3>2, FileStep
           DEF UpdateFree, AtCommand, FreeImplicitStash, Finish
      <3>3. CASE ~Overlap(c)
        <4>1. BlocksOf(c.src) \cap BlocksOf(cmd.tgt) = {}
          BY <2>1, <3>3 DEF Overlap
        <4> QED BY <1>0, <2>1, <2>2, <3>1, <3>3, <4>1, ReadsStay DEF SrcGood
      <3> QED BY <3>2, <3>3
    <2>7. UpdateTransfer \/ RenamePartial \/ pc \in {"index", "discard", "write"}
      BY <1>1, <2>1
         DEF Next, Updater, Boot, StartCall, ScriptEnd, CreateStashFails, ListEnd, Verify,
             VerifySkip, VerifyTransfer, VerifyStash, VerifyFree, Update, UpdateSkip,
             UpdateStash, UpdateFree, UpdateWrite, WritePartial, FsyncPartial,
             UpdateLastCommandIndex, Discard, WriteBlock, WriteEnd,
             FreeImplicitStash, FsyncPartition, Finish, Cleanup, Retry, SystemCallFails,
             CommitCache, PowerLoss, Terminated, vars, proc, AtCommand, NextCommand,
             Unresumable, Transfer
    <2> QED BY <2>4, <2>5, <2>6, <2>7
  <1>2. ASSUME pc' \in {"partial", "fsync", "rename", "index", "discard"}, cmd'.op \in Transfer,
               NEW c, c = cmd'
        PROVE  ~TargetDone(c)'
    <2>1. c = cmd
      BY <1>0, <1>2, WithinCommand
    <2>2. /\ disk' = disk
          /\ UpdateTransfer \/ pc \in {"partial", "fsync", "rename", "index", "discard"}
      BY <1>2, <2>1
         DEF Next, Updater, Boot, StartCall, ScriptEnd, CreateStashFails, ListEnd, Verify,
             VerifySkip, VerifyTransfer, VerifyStash, VerifyFree, Update, UpdateSkip,
             UpdateTransfer, UpdateStash, UpdateFree, UpdateWrite, WritePartial, FsyncPartial,
             RenamePartial, UpdateLastCommandIndex, Discard, WriteBlock, WriteEnd,
             FreeImplicitStash, FsyncPartition, Finish, Cleanup, Retry, SystemCallFails,
             CommitCache, PowerLoss, Terminated, vars, store, AtCommand, NextCommand,
             Unresumable, Transfer
    <2>3. ~TargetDone(c)
      <3>1. CASE UpdateTransfer
        BY <1>2, <2>1, <3>1 DEF UpdateTransfer
      <3>2. CASE pc \in {"partial", "fsync", "rename", "index", "discard"}
        BY <1>0, <1>2, <2>1, <3>2 DEF AtWrite
      <3> QED BY <2>2, <3>1, <3>2
    <2> QED BY <2>2, <2>3 DEF TargetDone, ReadBlocks
  <1>3. ASSUME pc' = "free" PROVE cmd'.op # "stash"
    <2>1. cmd' = cmd
      BY <1>0, <1>3, WithinCommand
    <2>2. UpdateTransfer \/ pc \in {"discard", "write", "free"}
      BY <1>3
         DEF Next, Updater, Boot, StartCall, ScriptEnd, CreateStashFails, ListEnd, Verify,
             VerifySkip, VerifyTransfer, VerifyStash, VerifyFree, Update, UpdateSkip,
             UpdateStash, UpdateFree, UpdateWrite, WritePartial, FsyncPartial,
             RenamePartial, UpdateLastCommandIndex, Discard, WriteBlock, WriteEnd,
             FreeImplicitStash, FsyncPartition, Finish, Cleanup, Retry, SystemCallFails,
             CommitCache, PowerLoss, Terminated, vars, AtCommand, NextCommand, Unresumable
    <2>3. UpdateTransfer => cmd.op # "stash"
      BY DEF UpdateTransfer, AtCommand, Transfer
    <2> QED BY <1>0, <2>1, <2>2, <2>3 DEF AtWrite, Control
  <1>4. \/ ~(pc' \in {"index", "discard", "write"} /\ cmd'.op \in Transfer)
        \/ IF Overlap(cmd)' THEN Whole(cache', part', cmd'.id) ELSE SrcGood(part, idx)'
    <2> SUFFICES ASSUME pc' \in {"index", "discard", "write"}, cmd'.op \in Transfer,
                        NEW p, p = part', NEW i, i = idx', NEW c, c = cmd'
                 PROVE  IF Overlap(c) THEN Whole(cache', p, c.id) ELSE SrcGood(p, i)'
      BY DEF Overlap, SrcGood, ReadsBoth
    <2> QED BY <1>1
  <1>5. pc' \in {"partial", "fsync", "rename", "index", "discard"} /\ cmd'.op \in Transfer =>
          ~TargetDone(cmd)'
    <2> SUFFICES ASSUME pc' \in {"partial", "fsync", "rename", "index", "discard"},
                        cmd'.op \in Transfer, NEW c, c = cmd'
                 PROVE  ~TargetDone(c)'
      BY DEF TargetDone, ReadBlocks
    <2> QED BY <1>2
  <1> QED BY <1>3, <1>4, <1>5 DEF AtWrite

LEMMA FreeOKNext ==
  ASSUME RightPackage, ILists, IStash, [Next]_vars
  PROVE  FreeOK'
  <1>0. /\ IInv /\ OnlyCurrentTargetAtRisk /\ AtWrite /\ FreeOK /\ SafeNow /\ RightLists /\ RightSources
    BY DEF ILists, IBase, IStash, RightPackage
  <1> SUFFICES ASSUME pc' \in InCall, freestash' # NoId, NEW p, p = part', NEW c, c = cmd',
                      NEW j, j = idx', NEW h, h = freestash'
               PROVE  /\ pc' \in InCommand \ {"sync"} /\ c.op \in Transfer /\ Overlap(c) /\ h = c.id
                      /\ \A i \in Cmds(p) : j < i /\ IsTransfer(p, i) /\ Lists[p][i].id = h =>
                           Done(p, i)' \/ SrcGood(p, i)'
    BY DEF FreeOK, Overlap, Done, SrcGood, ReadsBoth
  <1>1. CASE UpdateTransfer /\ freestash' # freestash
    <2>1. /\ pc = "cmd" /\ pc' = "partial" /\ freestash' = cmd.id /\ cmd.op \in Transfer /\ Overlap(cmd)
          /\ cache.file[part][cmd.id] = "absent" /\ disk' = disk /\ platter' = platter
      BY <1>1 DEF UpdateTransfer, AtCommand
    <2>2. p = part /\ c = cmd /\ j = idx /\ p \in Parts
      BY <1>0, <2>1, WithinCommand
    <2>3. Clean
      BY <1>0, <2>1, CleanOutsideWrites
    <2>4. ASSUME NEW i \in Cmds(p), IsTransfer(p, i), Lists[p][i].id = h
          PROVE  Done(p, i) \/ SrcGood(p, i)
      <3>1. DoneNow(p, i) \/ SrcGood(p, i)
        BY <1>0, <2>1, <2>2, <2>4 DEF SafeNow, Saved
      <3>2. Lists[p][i].tgt \in Seq(Blocks) /\ Len(Lists[p][i].out) = Len(Lists[p][i].tgt)
        BY <2>2, <2>4, SiteType DEF Transfer, Writers
      <3>3. DoneNow(p, i) => Done(p, i)
        BY <2>3, <3>2 DEF DoneNow, Done, ReadsBoth, Clean
      <3> QED BY <3>1, <3>3
    <2>5. ASSUME NEW i \in Cmds(p), Done(p, i) \/ SrcGood(p, i)
          PROVE  Done(p, i)' \/ SrcGood(p, i)'
      BY <2>1, <2>5 DEF Done, SrcGood, ReadsBoth
    <2> QED BY <2>1, <2>2, <2>4, <2>5
  <1>2. CASE ~(UpdateTransfer /\ freestash' # freestash)
    <2>1. pc \in InCall /\ freestash' = freestash
      BY <1>2
         DEF Next, Updater, Boot, StartCall, ScriptEnd, CreateStashFails, ListEnd, Verify,
             VerifySkip, VerifyTransfer, VerifyStash, VerifyFree, Update, UpdateSkip,
             UpdateTransfer, UpdateStash, UpdateFree, UpdateWrite, WritePartial, FsyncPartial,
             RenamePartial, UpdateLastCommandIndex, Discard, WriteBlock, WriteEnd,
             FreeImplicitStash, FsyncPartition, Finish, Cleanup, Retry, SystemCallFails,
             CommitCache, PowerLoss, Terminated, vars, proc, AtCommand
    <2>2. /\ pc \in InCommand \ {"sync"} /\ cmd.op \in Transfer /\ Overlap(cmd) /\ freestash = cmd.id
          /\ \A i \in Cmds(part) : idx < i /\ IsTransfer(part, i) /\ Lists[part][i].id = freestash =>
               Done(part, i) \/ SrcGood(part, i)
      BY <1>0, <2>1 DEF FreeOK
    <2>3. pc' \in InCommand \ {"sync"}
      BY <2>1, <2>2
         DEF Next, Updater, Boot, StartCall, ScriptEnd, CreateStashFails, ListEnd, Verify,
             VerifySkip, VerifyTransfer, VerifyStash, VerifyFree, Update, UpdateSkip,
             UpdateTransfer, UpdateStash, UpdateFree, UpdateWrite, WritePartial, FsyncPartial,
             RenamePartial, UpdateLastCommandIndex, Discard, WriteBlock, WriteEnd,
             FreeImplicitStash, FsyncPartition, Finish, Cleanup, Retry, SystemCallFails,
             CommitCache, PowerLoss, Terminated, vars, AtCommand, Transfer
    <2>4. p = part /\ c = cmd /\ j = idx /\ p \in Parts
      BY <1>0, <2>3, WithinCommand
    <2>5. ASSUME NEW i \in Cmds(p), j < i, IsTransfer(p, i), Lists[p][i].id = h
          PROVE  Done(p, i)' \/ SrcGood(p, i)'
      <3>1. Done(p, i) \/ SrcGood(p, i)
        BY <2>1, <2>2, <2>4, <2>5
      <3>2. Done(p, i) => Done(p, i)'
        BY <1>0, <2>4, <2>5, TransferStays
      <3>3. SrcGood(p, i) => SrcGood(p, i)'
        BY <1>0, <2>4, <2>5, SrcStays DEF SrcGood
      <3> QED BY <3>1, <3>2, <3>3
    <2> QED BY <2>1, <2>2, <2>3, <2>4, <2>5
  <1> QED BY <1>1, <1>2

-----------------------------------------------------------------------------
(* What a step does to stash_map, outside a new process.                    *)
LEMMA MapStep ==
  ASSUME [Next]_vars, ~Boot
  PROVE  \/ stash_map' = stash_map
         \/ /\ (VerifyStash \/ UpdateStash) /\ ~LoadStash(cmd.id)
            /\ stash_map' = [stash_map EXCEPT ![cmd.id] = cmd.src]
         \/ /\ VerifyFree \/ UpdateFree
            /\ stash_map' = [stash_map EXCEPT ![cmd.id] = <<>>]
  <1>1. CASE VerifyStash \/ UpdateStash
    BY <1>1 DEF VerifyStash, UpdateStash
  <1>2. CASE VerifyFree \/ UpdateFree
    BY <1>2 DEF VerifyFree, UpdateFree
  <1>3. CASE ~(VerifyStash \/ UpdateStash \/ VerifyFree \/ UpdateFree)
    BY <1>3
       DEF Next, Updater, StartCall, ScriptEnd, CreateStashFails, ListEnd, Verify,
           VerifySkip, VerifyTransfer, Update, UpdateSkip,
           UpdateTransfer, UpdateWrite, WritePartial, FsyncPartial,
           RenamePartial, UpdateLastCommandIndex, Discard, WriteBlock, WriteEnd,
           FreeImplicitStash, FsyncPartition, Finish, Cleanup, Retry, SystemCallFails,
           CommitCache, PowerLoss, Terminated, vars, proc
  <1> QED BY <1>1, <1>2, <1>3

(* What command k stashes is freed, and its id not stashed again before.    *)
LEMMA StashOrder ==
  ASSUME RightStash, NEW p \in Parts, NEW k \in Cmds(p), IsStash(p, k)
  PROVE  /\ k \in Nat /\ Lists[p][k].id \in Ids
         /\ \E f \in Cmds(p) :
              /\ k < f /\ IsFree(p, f, Lists[p][k].id)
              /\ \A j \in Cmds(p) :
                   IsStash(p, j) /\ Lists[p][j].id = Lists[p][k].id => j <= k \/ f < j
         /\ \A i \in Cmds(p) : IsTransfer(p, i) /\ Overlap(Lists[p][i]) => Lists[p][i].id # Lists[p][k].id
  <1>1. k \in Nat /\ Lists[p][k].id \in Ids
    BY SiteType DEF Cmds
  <1>2. ASSUME NEW i \in Cmds(p), IsTransfer(p, i), Overlap(Lists[p][i])
        PROVE  Lists[p][i].id # Lists[p][k].id
    BY <1>2 DEF RightStash
  <1>3. \E f \in Cmds(p) :
          /\ k < f /\ IsFree(p, f, Lists[p][k].id)
          /\ \A j \in Cmds(p) :
               IsStash(p, j) /\ Lists[p][j].id = Lists[p][k].id => j <= k \/ f < j
    BY DEF RightStash
  <1> QED BY <1>1, <1>2, <1>3

(* No other stash command of the same id is pending.                        *)
LEMMA OneStash ==
  ASSUME RightStash, NEW p \in Parts, NEW k \in Cmds(p), IsStash(p, k), NEW l \in Cmds(p),
         IsStash(p, l), Lists[p][l].id = Lists[p][k].id, k < l
  PROVE  \E f \in Cmds(p) : IsFree(p, f, Lists[p][k].id) /\ k < f /\ f < l
  <1>1. PICK f \in Cmds(p) :
          /\ k < f /\ IsFree(p, f, Lists[p][k].id)
          /\ \A j \in Cmds(p) :
               IsStash(p, j) /\ Lists[p][j].id = Lists[p][k].id => j <= k \/ f < j
    BY StashOrder
  <1>2. f < l
    BY <1>1 DEF Cmds
  <1> QED BY <1>1, <1>2

(* The map is empty between the calls.                                      *)
LEMMA MapEmptyNext ==
  ASSUME RightPackage, ILists, IStash, [Next]_vars,
         pc' = "call" \/ (pc' \in {"finish", "cleanup"} /\ ok')
  PROVE  MapEmpty'
  <1>0. IInv /\ Steady /\ MapOK /\ RightStash
    BY DEF ILists, IBase, IStash, RightPackage
  <1>1. CASE Boot
    BY <1>1 DEF Boot, MapEmpty
  <1>2. CASE ListEnd
    <2>1. pc = "cmd" /\ idx > Len(list) /\ stash_map' = stash_map
      BY <1>2 DEF ListEnd
    <2>2. part \in Parts /\ list = Lists[part] /\ Len(list) \in Nat /\ idx \in Nat
      BY <1>0, <2>1, AtHead DEF IInv, PlaceType
    <2>3. ASSUME NEW h \in Ids, stash_map[h] # <<>> PROVE FALSE
      <3>1. PICK k \in Cmds(part) :
              /\ IsStash(part, k) /\ Lists[part][k].id = h
              /\ \A f \in Cmds(part) : IsFree(part, f, h) => f < k \/ idx < f \/ f = idx
        BY <1>0, <2>1, <2>3 DEF MapOK, MapEntries
      <3>2. PICK f \in Cmds(part) : k < f /\ IsFree(part, f, h)
        BY <1>0, <2>2, <3>1, StashOrder
      <3>3. idx < f \/ f = idx
        BY <3>1, <3>2 DEF Cmds
      <3> QED BY <2>1, <2>2, <3>2, <3>3 DEF Cmds
    <2> QED BY <2>1, <2>3 DEF MapEmpty
  <1>3. CASE ~Boot /\ ~ListEnd
    <2>1. /\ stash_map' = stash_map
          /\ pc = "call" \/ (pc \in {"finish", "cleanup"} /\ ok)
      <3>1. CASE Verify \/ Update
        BY <1>0, <3>1
           DEF Steady, Verify, VerifySkip, VerifyTransfer, VerifyStash, VerifyFree, Update,
               UpdateSkip, UpdateTransfer, UpdateStash, UpdateFree, UpdateWrite, WritePartial,
               FsyncPartial, RenamePartial, UpdateLastCommandIndex, Discard, WriteBlock, WriteEnd,
               FreeImplicitStash, FsyncPartition, proc, AtCommand, NextCommand, Unresumable
      <3>2. CASE ~Verify /\ ~Update
        BY <1>0, <1>3, <3>2
           DEF Steady, Next, Updater, StartCall, ScriptEnd, CreateStashFails, Finish, Cleanup,
               Retry, SystemCallFails, CommitCache, PowerLoss, Terminated, vars, proc, Unresumable
      <3> QED BY <3>1, <3>2
    <2> QED BY <1>0, <2>1 DEF MapOK, MapEmpty
  <1> QED BY <1>1, <1>2, <1>3

(* How a step moves in the list of a call.                                  *)
LEMMA MoveStep ==
  ASSUME IInv, [Next]_vars, pc' \in InCall, ~StartCall
  PROVE  /\ pc \in InCall /\ call' = call /\ part' = part /\ part \in Parts
         /\ canwrite' <=> canwrite
         /\ ~Boot /\ (canwrite => saved' = saved)
         /\ \/ /\ idx' = idx
               /\ pc' = "cmd" => pc = "cmd" /\ stash_map' = stash_map
               /\ pc = "cmd" /\ pc' # "cmd" /\ idx <= Len(list) /\ cmd.op = "free" => UpdateFree
            \/ /\ pc' = "cmd" /\ idx' = idx + 1
               /\ \/ FsyncPartition
                  \/ UpdateSkip
                  \/ Verify
  <1>1. pc \in InCall /\ call' = call
    BY WithinCall
  <1>2. part' = part /\ part \in Parts /\ (canwrite' <=> canwrite)
    BY <1>1, SameCall, AtHead
  <1>3. canwrite => saved' = saved
    BY <1>2, WithinUpdate
  <1>4. ~Boot
    BY DEF Boot
  <1>5. \/ /\ idx' = idx
           /\ pc' = "cmd" => pc = "cmd" /\ stash_map' = stash_map
           /\ pc = "cmd" /\ pc' # "cmd" /\ idx <= Len(list) /\ cmd.op = "free" => UpdateFree
        \/ /\ pc' = "cmd" /\ idx' = idx + 1
           /\ FsyncPartition \/ UpdateSkip \/ Verify
    <2>1. CASE Verify
      BY <2>1 DEF Verify, VerifySkip, VerifyTransfer, VerifyStash, VerifyFree, NextCommand, Unresumable
    <2>2. CASE Update
      BY <2>2
         DEF Update, UpdateSkip, UpdateTransfer, UpdateStash, UpdateWrite,
             WritePartial, FsyncPartial, RenamePartial, UpdateLastCommandIndex, Discard,
             WriteBlock, WriteEnd, FreeImplicitStash, FsyncPartition, UpdateFree, proc, AtCommand,
             NextCommand, Unresumable, Transfer
    <2>3. CASE ~Verify /\ ~Update
      BY <1>1, <2>3
         DEF Next, Updater, Boot, StartCall, ScriptEnd, CreateStashFails, ListEnd, Finish,
             Cleanup, Retry, SystemCallFails, CommitCache, PowerLoss, Terminated, vars, proc
    <2> QED BY <2>1, <2>2, <2>3
  <1> QED BY <1>1, <1>2, <1>3, <1>4, <1>5

LEMMA MapEntriesNext ==
  ASSUME RightPackage, ILists, IStash, [Next]_vars, pc' \in InCall
  PROVE  MapEntries'
  <1>0. IInv /\ Steady /\ MapOK /\ RightStash /\ stash_map \in [Ids -> Seq(Blocks)]
    BY DEF ILists, IBase, IInv, StashType, IStash, RightPackage
  <1> SUFFICES ASSUME NEW p, p = part', NEW j, j = idx', NEW h \in Ids, stash_map'[h] # <<>>
               PROVE  \E k \in Cmds(p) : /\ IsStash(p, k) /\ Lists[p][k].id = h
                                         /\ k < j \/ (k = j /\ pc' # "cmd")
                                         /\ canwrite' => saved' < k
                                         /\ \A f \in Cmds(p) : IsFree(p, f, h) =>
                                              f < k \/ j < f \/ (f = j /\ pc' = "cmd")
    BY DEF MapEntries
  <1>1. CASE StartCall
    <2>1. pc = "call" /\ stash_map' = stash_map
      BY <1>1 DEF StartCall
    <2> QED BY <1>0, <2>1 DEF MapOK, MapEmpty
  <1>2. CASE ~StartCall
    <2>1. /\ pc \in InCall /\ p = part /\ p \in Parts /\ ~Boot
          /\ (canwrite' <=> canwrite) /\ (canwrite => saved' = saved)
          /\ \/ /\ j = idx
                /\ pc' = "cmd" => pc = "cmd" /\ stash_map' = stash_map
                /\ pc = "cmd" /\ pc' # "cmd" /\ idx <= Len(list) /\ cmd.op = "free" => UpdateFree
             \/ /\ pc' = "cmd" /\ j = idx + 1
                /\ FsyncPartition \/ UpdateSkip \/ Verify
      BY <1>0, <1>2, MoveStep
    <2>2. idx \in Nat /\ saved \in Nat
      BY <1>0 DEF IInv, PlaceType
    <2>3. \A i \in Cmds(p) : i \in Nat
      BY DEF Cmds
    <2>4. CASE (VerifyStash \/ UpdateStash) /\ h = cmd.id
      <3>1. /\ pc = "cmd" /\ idx <= Len(list) /\ cmd.op = "stash" /\ (UpdateStash => pc' # "cmd" /\ saved < idx)
            /\ VerifyStash => ~canwrite
        BY <2>2, <2>4 DEF VerifyStash, UpdateStash, AtCommand, canwrite
      <3>2. idx \in Cmds(p) /\ IsStash(p, idx) /\ Lists[p][idx].id = h
        BY <1>0, <2>1, <2>4, <3>1, HeadCommand
      <3>3. \A f \in Cmds(p) : IsFree(p, f, h) => f < idx \/ idx < f
        BY <2>2, <2>3, <3>2
      <3>4. idx < j \/ (idx = j /\ pc' # "cmd")
        BY <2>1, <2>2, <2>4, <3>1 DEF VerifyStash, NextCommand
      <3>5. j = idx \/ (j = idx + 1 /\ pc' = "cmd")
        BY <2>1
      <3>6. canwrite' => saved' < idx
        BY <2>1, <2>4, <3>1
      <3>7. \A f \in Cmds(p) : IsFree(p, f, h) => f < idx \/ j < f \/ (f = j /\ pc' = "cmd")
        <4> SUFFICES ASSUME NEW f \in Cmds(p), IsFree(p, f, h), ~(f < idx)
                     PROVE  j < f \/ (f = j /\ pc' = "cmd")
          OBVIOUS
        <4>1. f \in Nat /\ idx < f
          BY <2>3, <3>3
        <4>2. j = idx \/ j = idx + 1
          BY <3>5
        <4>3. j < f \/ f = idx + 1
          BY <2>2, <4>1, <4>2
        <4> QED BY <2>2, <3>5, <4>1, <4>3
      <3> QED BY <3>2, <3>4, <3>6, <3>7
    <2>5. CASE ~((VerifyStash \/ UpdateStash) /\ h = cmd.id)
      <3>0. VerifyStash \/ UpdateStash \/ VerifyFree \/ UpdateFree =>
              pc = "cmd" /\ idx <= Len(list) /\ cmd.op \in {"stash", "free"}
        BY DEF VerifyStash, UpdateStash, VerifyFree, UpdateFree, AtCommand
      <3>00. VerifyStash \/ UpdateStash \/ VerifyFree \/ UpdateFree => cmd.id \in Ids
        BY <1>0, <3>0, HeadCommand
      <3>1. stash_map[h] # <<>> /\ ~((VerifyFree \/ UpdateFree) /\ h = cmd.id)
        <4>1. CASE stash_map' = stash_map
          <5>1. VerifyFree \/ UpdateFree => stash_map' = [stash_map EXCEPT ![cmd.id] = <<>>]
            BY DEF VerifyFree, UpdateFree
          <5> QED BY <1>0, <4>1, <5>1
        <4>2. CASE (VerifyStash \/ UpdateStash) /\ stash_map' = [stash_map EXCEPT ![cmd.id] = cmd.src]
          <5>1. ~VerifyFree /\ ~UpdateFree
            BY <4>2 DEF VerifyStash, UpdateStash, VerifyFree, UpdateFree, AtCommand
          <5> QED BY <1>0, <2>5, <3>00, <4>2, <5>1
        <4>3. CASE (VerifyFree \/ UpdateFree) /\ stash_map' = [stash_map EXCEPT ![cmd.id] = <<>>]
          BY <1>0, <4>3
        <4> QED BY <2>1, <4>1, <4>2, <4>3, MapStep
      <3>2. PICK k \in Cmds(p) : /\ IsStash(p, k) /\ Lists[p][k].id = h
                                 /\ k < idx \/ (k = idx /\ pc # "cmd")
                                 /\ canwrite => saved < k
                                 /\ \A f \in Cmds(p) : IsFree(p, f, h) =>
                                      f < k \/ idx < f \/ (f = idx /\ pc = "cmd")
        BY <1>0, <2>1, <3>1 DEF MapOK, MapEntries
      <3>4. k < j \/ (k = j /\ pc' # "cmd")
        <4>1. CASE j = idx
          BY <2>1, <2>2, <2>3, <3>2, <4>1
        <4>2. CASE j = idx + 1
          BY <2>2, <2>3, <3>2, <4>2
        <4> QED BY <2>1, <4>1, <4>2
      <3>5. ASSUME NEW f \in Cmds(p), IsFree(p, f, h), ~(f < k)
            PROVE  j < f \/ (f = j /\ pc' = "cmd")
        <4>1. f \in Nat /\ (idx < f \/ (f = idx /\ pc = "cmd"))
          BY <2>3, <3>2, <3>5
        <4>2. CASE f = idx /\ pc = "cmd" /\ ~(pc' = "cmd" /\ j = idx)
          <5>1. f <= Len(list) /\ cmd.op = "free" /\ cmd.id = h
            BY <1>0, <2>1, <3>5, <4>2, AtHead DEF Cmds, cmd
          <5>2. CASE j = idx
            BY <2>1, <3>1, <4>2, <5>1, <5>2
          <5>3. CASE FsyncPartition
            BY <4>2, <5>3 DEF FsyncPartition
          <5>4. CASE UpdateSkip
            <6>1. idx <= saved /\ canwrite
              BY <5>4 DEF UpdateSkip, AtCommand, canwrite
            <6>2. k \in Nat /\ saved < k /\ k < idx
              BY <2>3, <3>2, <4>2, <6>1
            <6> QED BY <2>2, <6>1, <6>2
          <5>5. CASE Verify
            <6>1. VerifyFree
              BY <5>1, <5>5 DEF Verify, VerifySkip, VerifyTransfer, VerifyStash, AtCommand, Transfer
            <6> QED BY <3>1, <5>1, <6>1
          <5> QED BY <2>1, <5>2, <5>3, <5>4, <5>5
        <4>3. CASE idx < f
          <5>1. CASE j = idx
            BY <4>3, <5>1
          <5>2. CASE j = idx + 1 /\ pc' = "cmd"
            BY <2>2, <4>1, <4>3, <5>2
          <5> QED BY <2>1, <5>1, <5>2
        <4> QED BY <4>1, <4>2, <4>3
      <3>6. canwrite' => saved' < k
        BY <2>1, <3>2
      <3> QED BY <3>2, <3>4, <3>5, <3>6
    <2> QED BY <2>4, <2>5
  <1> QED BY <1>1, <1>2

LEMMA MapFoundNext ==
  ASSUME RightPackage, ILists, IStash, [Next]_vars, pc' = "cmd", ~canwrite'
  PROVE  MapFound'
  <1>0. /\ IInv /\ Dirs /\ FileMono /\ ~unresumable /\ MapOK /\ RightStash /\ RightSources
        /\ stash_map \in [Ids -> Seq(Blocks)]
    BY DEF ILists, IBase, IInv, StashType, IStash, RightPackage
  <1> SUFFICES ASSUME NEW p, p = part', NEW j, j = idx', NEW k \in Cmds(p), IsStash(p, k), k < j,
                      \A f \in Cmds(p) : IsFree(p, f, Lists[p][k].id) => f < k \/ j <= f
               PROVE  IF stash_map'[Lists[p][k].id] = <<>> THEN Whole(cache', p, Lists[p][k].id)
                      ELSE /\ stash_map'[Lists[p][k].id] = Lists[p][k].src
                           /\ ~Whole(cache', p, Lists[p][k].id)
    BY DEF MapFound
  <1> DEFINE h == Lists[p][k].id
  <1>1. k \in Nat \ {0}
    BY DEF Cmds
  <1>2. CASE StartCall
    <2>1. j = 1
      BY <1>2 DEF StartCall
    <2> QED BY <1>1, <2>1
  <1>3. CASE ~StartCall
    <2>1. /\ pc \in InCall /\ p = part /\ p \in Parts /\ ~canwrite /\ ~Boot
          /\ \/ j = idx /\ stash_map' = stash_map
             \/ j = idx + 1 /\ (FsyncPartition \/ UpdateSkip \/ Verify)
      BY <1>0, <1>3, MoveStep
    <2>2. pc = "cmd"
      BY <1>0, <2>1, Here
    <2>3. j = idx + 1 => Verify
      <3>1. j # idx \/ j # idx + 1
        BY <1>0 DEF IInv, PlaceType
      <3> QED BY <2>1, <2>2, <3>1 DEF FsyncPartition, UpdateSkip, AtCommand, canwrite
    <2>4. idx \in Nat \ {0} /\ h \in Ids
      <3>1. idx \in Nat \ {0}
        BY <1>0 DEF IInv, PlaceType
      <3> QED BY <1>0, <2>1, <3>1, StashOrder
    <2>5. Whole(cache', p, h) <=> Whole(cache, p, h)
      <3>1. ~UpdateFree /\ ~FreeImplicitStash /\ ~Finish /\ ~PowerLoss /\ ~RenamePartial
        BY <2>1, <2>2 DEF UpdateFree, AtCommand, canwrite, FreeImplicitStash, Finish, PowerLoss, RenamePartial
      <3> QED BY <1>0, <2>1, <2>4, <3>1, FileStep
    <2>6. CASE k < idx
      <3>1. \A f \in Cmds(p) : IsFree(p, f, h) => f < k \/ (idx <= f /\ (j = idx + 1 => idx < f))
        <4> SUFFICES ASSUME NEW f \in Cmds(p), IsFree(p, f, h), ~(f < k)
                     PROVE  idx <= f /\ (j = idx + 1 => idx < f)
          OBVIOUS
        <4>1. f \in Nat /\ j <= f
          BY DEF Cmds
        <4>2. j = idx \/ j = idx + 1
          BY <2>1
        <4> QED BY <2>4, <4>1, <4>2
      <3>2. IF stash_map[h] = <<>> THEN Whole(cache, p, h)
            ELSE stash_map[h] = Lists[p][k].src /\ ~Whole(cache, p, h)
        BY <1>0, <2>1, <2>2, <2>6, <3>1 DEF MapOK, MapFound
      <3>3. stash_map'[h] = stash_map[h]
        <4>1. CASE VerifyStash \/ VerifyFree
          <5>1. idx <= Len(list) /\ j = idx + 1 /\ cmd.op \in {"stash", "free"}
            BY <4>1 DEF VerifyStash, VerifyFree, AtCommand, NextCommand
          <5>2. idx \in Cmds(p) /\ cmd = Lists[p][idx] /\ cmd.id \in Ids
            BY <1>0, <2>1, <2>2, <5>1, HeadCommand
          <5>3. idx # k
            BY <1>1, <2>4, <2>6
          <5>4. CASE cmd.id = h
            <6>1. CASE cmd.op = "stash"
              <7>1. PICK f \in Cmds(p) : IsFree(p, f, h) /\ k < f /\ f < idx
                BY <1>0, <2>1, <2>6, <5>2, <5>4, <6>1, OneStash
              <7>2. f < k \/ idx <= f
                BY <3>1, <7>1
              <7> QED BY <1>1, <2>4, <7>1, <7>2 DEF Cmds
            <6>2. CASE cmd.op = "free"
              <7>1. idx < k \/ idx < idx
                BY <3>1, <5>1, <5>2, <5>4, <6>2
              <7> QED BY <1>1, <2>4, <2>6, <7>1
            <6> QED BY <5>1, <6>1, <6>2
          <5>5. CASE cmd.id # h
            <6>1. \/ stash_map' = stash_map
                  \/ stash_map' = [stash_map EXCEPT ![cmd.id] = cmd.src]
                  \/ stash_map' = [stash_map EXCEPT ![cmd.id] = <<>>]
              BY <4>1 DEF VerifyStash, VerifyFree
            <6> QED BY <1>0, <2>4, <5>2, <5>5, <6>1
          <5> QED BY <5>4, <5>5
        <4>2. CASE ~(VerifyStash \/ VerifyFree)
          <5>1. ~UpdateStash /\ ~UpdateFree
            BY <2>1 DEF UpdateStash, UpdateFree, AtCommand, canwrite
          <5> QED BY <2>1, <4>2, <5>1, MapStep
        <4> QED BY <4>1, <4>2
      <3> QED BY <2>5, <3>2, <3>3
    <2>7. CASE k = idx
      <3>1. j = idx + 1 /\ Verify
        BY <1>1, <2>1, <2>3, <2>4, <2>7
      <3>2. cmd = Lists[p][k]
        BY <2>1, <2>7 DEF cmd, list
      <3>3. VerifyStash
        BY <3>1, <3>2 DEF Verify, VerifySkip, VerifyTransfer, VerifyFree, AtCommand, Transfer
      <3>4. stash_map[h] = <<>>
        <4> SUFFICES ASSUME stash_map[h] # <<>> PROVE FALSE
          OBVIOUS
        <4>1. PICK l \in Cmds(p) : /\ IsStash(p, l) /\ Lists[p][l].id = h /\ l < idx
                                   /\ \A f \in Cmds(p) : IsFree(p, f, h) => f < l \/ idx <= f
          <5>1. MapEntries
            BY <1>0, <2>2 DEF MapOK, InCall
          <5>2. PICK l \in Cmds(p) : /\ IsStash(p, l) /\ Lists[p][l].id = h /\ l < idx
                                     /\ \A f \in Cmds(p) : IsFree(p, f, h) => f < l \/ idx < f \/ f = idx
            BY <2>1, <2>2, <2>4, <5>1 DEF MapEntries
          <5>3. \A f \in Cmds(p) : idx < f \/ f = idx => idx <= f
            BY <2>4 DEF Cmds
          <5> QED BY <5>2, <5>3
        <4>2. PICK f \in Cmds(p) : IsFree(p, f, h) /\ l < f /\ f < k
          BY <1>0, <2>1, <2>7, <4>1, OneStash
        <4>3. f < l \/ idx <= f
          BY <4>1, <4>2
        <4> QED BY <1>1, <2>7, <4>1, <4>2, <4>3 DEF Cmds
      <3>5. LoadStash(h) <=> Whole(cache, p, h)
        <4>1. cache.file[p][h] \in {"absent", "whole"}
          BY <1>0, <2>1, <2>4 DEF IInv, Tame
        <4> QED BY <2>1, <3>4, <4>1 DEF LoadStash, MapHas
      <3>6. IF LoadStash(h) THEN stash_map' = stash_map
            ELSE stash_map' = [stash_map EXCEPT ![h] = Lists[p][k].src]
        BY <3>2, <3>3 DEF VerifyStash
      <3>7. Lists[p][k].src # <<>>
        BY <1>0, <2>1 DEF RightSources
      <3>8. CASE LoadStash(h)
        BY <2>5, <3>4, <3>5, <3>6, <3>8
      <3>9. CASE ~LoadStash(h)
        <4>1. stash_map'[h] = Lists[p][k].src
          BY <1>0, <2>4, <3>6, <3>9
        <4> QED BY <2>5, <3>5, <3>7, <3>9, <4>1
      <3> QED BY <3>8, <3>9
    <2>8. k < idx \/ k = idx
      <3>1. j = idx \/ j = idx + 1
        BY <2>1
      <3> QED BY <1>1, <2>4, <3>1
    <2> QED BY <2>6, <2>7, <2>8
  <1> QED BY <1>2, <1>3

LEMMA MapOKNext ==
  ASSUME RightPackage, ILists, IStash, [Next]_vars
  PROVE  MapOK'
  BY MapEmptyNext, MapEntriesNext, MapFoundNext DEF MapOK

-----------------------------------------------------------------------------
(* A transfer at the head of the loop finds its target done or its source.  *)
LEMMA HasData ==
  ASSUME RightPackage, ILists, IStash, pc = "cmd", idx <= Len(list), cmd.op \in Transfer
  PROVE  TargetDone(cmd) \/ SourceGood(cmd) \/ SourceSaved(cmd)
  <1>0. /\ IInv /\ SafeNow /\ MapOK /\ Stashed /\ Kept /\ RightStash /\ RightSources
    BY DEF ILists, IBase, IStash, RightPackage
  <1>1. /\ part \in Parts /\ idx \in Cmds(part) /\ cmd = Lists[part][idx] /\ cmd.id \in Ids
        /\ IsTransfer(part, idx)
    BY <1>0, HeadCommand DEF Transfer
  <1>2. Lists[part][idx].op \in Writers
    BY <1>1 DEF Writers, Transfer
  <1>3. CASE DoneNow(part, idx)
    BY <1>0, <1>1, <1>2, <1>3, TargetRead DEF DoneNow
  <1>4. CASE Saved(cache, part, idx)
    <2>1. Overlap(cmd) /\ Whole(cache, part, cmd.id)
      BY <1>1, <1>4 DEF Saved
    <2>2. stash_map[cmd.id] = <<>>
      <3> SUFFICES ASSUME stash_map[cmd.id] # <<>> PROVE FALSE
        OBVIOUS
      <3>1. PICK k \in Cmds(part) : IsStash(part, k) /\ Lists[part][k].id = cmd.id
        BY <1>0, <1>1 DEF MapOK, MapEntries
      <3> QED BY <1>0, <1>1, <2>1, <3>1, StashOrder
    <2> QED BY <2>1, <2>2 DEF SourceSaved, LoadStash, MapHas
  <1>5. CASE SrcGood(part, idx)
    <2>1. ReadBlocks(cmd.src) = cmd.want
      BY <1>1, <1>5, SiteType, ReadsMatch DEF SrcGood
    <2>2. ASSUME NEW h \in cmd.use, ~LoadStash(h) PROVE TargetDone(cmd)
      <3>1. PICK k \in Cmds(part) : IsStash(part, k) /\ Lists[part][k].id = h /\ Uses(part, idx, k)
        BY <1>0, <1>1, <2>2 DEF RightStash
      <3>11. k < idx /\ k \in Nat /\ idx \in Nat
        BY <1>1, <3>1 DEF Uses, Cmds
      <3>2. h \in Ids /\ (canwrite => cache.file[part][h] # "whole")
        BY <1>0, <1>1, <2>2, <3>1, StashOrder DEF LoadStash, MapHas
      <3>3. SUFFICES UsersDone(part, k)
        <4>1. Done(part, idx)
          BY <1>1, <3>1, <3>3 DEF UsersDone
        <4> QED BY <1>0, <1>1, <1>2, <4>1, TargetRead
      <3>4. CASE canwrite
        BY <1>0, <3>1, <3>11, <3>2, <3>4 DEF Stashed
      <3>5. CASE ~canwrite
        <4>1. \A f \in Cmds(part) : IsFree(part, f, h) => f < k \/ idx <= f
          <5> SUFFICES ASSUME NEW f \in Cmds(part), IsFree(part, f, h), ~(f < k), ~(idx <= f)
                       PROVE  FALSE
            OBVIOUS
          <5>1. f \in Nat /\ f # k
            BY <3>1 DEF Cmds
          <5>2. f \in (k + 1)..(idx - 1)
            BY <3>11, <5>1
          <5> QED BY <3>1, <5>2 DEF Uses
        <4>2. IF stash_map[h] = <<>> THEN Whole(cache, part, h)
              ELSE stash_map[h] = Lists[part][k].src /\ ~Whole(cache, part, h)
          BY <1>0, <3>1, <3>11, <3>5, <4>1 DEF MapOK, MapFound
        <4>3. stash_map[h] = Lists[part][k].src /\ ~Whole(cache, part, h) /\ MapHas(h)
          BY <2>2, <3>5, <4>2 DEF LoadStash, MapHas
        <4>4. ~SrcKept(part, k)
          <5> SUFFICES ASSUME SrcKept(part, k) PROVE FALSE
            OBVIOUS
          <5>1. ReadsBoth(Lists[part][k].src, Content[h])
            BY <3>1 DEF SrcKept
          <5>2. Lists[part][k].src \in Seq(Blocks) /\ Content[h] \in Seq(Data)
            BY <1>0, <1>1, <3>1, SiteType, StashOrder, IdsAssumption
          <5>3. ReadBlocks(Lists[part][k].src) = Content[h]
            BY <5>1, <5>2, ReadsMatch
          <5> QED BY <2>2, <4>3, <5>3 DEF LoadStash
        <4> QED BY <1>0, <1>1, <3>1, <4>3, <4>4 DEF Kept, KeptIn
      <3> QED BY <3>4, <3>5
    <2> QED BY <2>1, <2>2 DEF SourceGood
  <1> QED BY <1>0, <1>1, <1>3, <1>4, <1>5 DEF SafeNow

LEMMA ResumableNext ==
  ASSUME RightPackage, ILists, IStash, [Next]_vars
  PROVE  ~unresumable'
  <1>0. ~unresumable
    BY DEF IStash
  <1>1. CASE VerifyTransfer \/ UpdateTransfer
    <2>1. pc = "cmd" /\ idx <= Len(list) /\ cmd.op \in Transfer
      BY <1>1 DEF VerifyTransfer, UpdateTransfer, AtCommand
    <2>2. TargetDone(cmd) \/ SourceGood(cmd) \/ SourceSaved(cmd)
      BY <2>1, HasData
    <2> QED BY <1>0, <1>1, <2>2 DEF VerifyTransfer, UpdateTransfer
  <1>2. CASE ~(VerifyTransfer \/ UpdateTransfer)
    BY <1>0, <1>2
       DEF Next, Updater, Boot, StartCall, ScriptEnd, CreateStashFails, ListEnd, Verify,
           VerifySkip, VerifyStash, VerifyFree, Update, UpdateSkip,
           UpdateStash, UpdateFree, UpdateWrite, WritePartial, FsyncPartial,
           RenamePartial, UpdateLastCommandIndex, Discard, WriteBlock, WriteEnd,
           FreeImplicitStash, FsyncPartition, Finish, Cleanup, Retry, SystemCallFails,
           CommitCache, PowerLoss, Terminated, vars, proc
  <1> QED BY <1>1, <1>2

LEMMA InitIStash ==
  ASSUME RightPackage, Init
  PROVE  IStash
  <1>1. /\ disk = Source /\ platter = Source /\ cacheD = cache /\ cache.last = 0
        /\ \A p \in Parts, h \in Ids : ~Whole(cache, p, h)
        /\ pc = "boot" /\ ~unresumable
    BY DEF Init
  <1>2. RightSources
    BY DEF RightPackage
  <1>3. ASSUME NEW p \in Parts, NEW i \in Cmds(p), IsTransfer(p, i) PROVE SrcGood(p, i)
    BY <1>1, <1>2, <1>3 DEF RightSources, SrcGood, ReadsBoth
  <1>4. ASSUME NEW p \in Parts, NEW k \in Cmds(p), IsStash(p, k) PROVE SrcKept(p, k)
    BY <1>1, <1>2, <1>4 DEF RightSources, SrcKept, ReadsBoth
  <1>5. FileMono /\ Dirs
    BY <1>1 DEF FileMono, Dirs, DirIn
  <1>6. MapOK /\ Stashed /\ AtWrite /\ FreeOK /\ LastHere
    BY <1>1 DEF MapOK, Stashed, AtWrite, FreeOK, LastHere
  <1>7. Kept
    BY <1>4 DEF Kept, KeptIn
  <1>8. LastStash
    <2>1. ASSUME NEW p, NEW k \in Cmds(p) PROVE ~(k <= cache.last) /\ ~(k <= cacheD.last)
      BY <1>1 DEF Cmds
    <2> QED BY <2>1 DEF LastStash, LastStashIn
  <1>9. SafeNow /\ SafeLater
    BY <1>3 DEF SafeNow, SafeLater
  <1> QED BY <1>1, <1>5, <1>6, <1>7, <1>8, <1>9 DEF IStash

LEMMA NextIStash ==
  ASSUME RightPackage, ILists, IStash, [Next]_vars, gone' = {}
  PROVE  IStash'
  <1>1. IInv /\ Dirs /\ FileMono /\ ~unresumable
    BY DEF ILists, IBase, IStash
  <1>2. FileMono' /\ Dirs'
    BY <1>1, FileMonoNext, DirsNext
  <1>3. MapOK' /\ Kept' /\ Stashed' /\ LastStash' /\ LastHere'
    BY MapOKNext, KeptNext, StashedNext, LastStashNext, LastHereNext
  <1>4. SafeNow' /\ SafeLater'
    BY SafeNowNext, SafeLaterNext
  <1>5. AtWrite' /\ FreeOK' /\ ~unresumable'
    BY AtWriteNext, FreeOKNext, ResumableNext
  <1> QED BY <1>2, <1>3, <1>4, <1>5 DEF IStash

(* A loss stays on record.                                                  *)
LEMMA GoneStays ==
  ASSUME [Next]_vars, gone' = {}
  PROVE  gone = {}
  <1>1. CASE PowerLoss
    BY <1>1 DEF PowerLoss
  <1>2. CASE UpdateFree
    BY <1>2 DEF UpdateFree
  <1>3. CASE ~PowerLoss /\ ~UpdateFree
    BY <1>3
       DEF Next, Updater, Boot, StartCall, ScriptEnd, CreateStashFails, ListEnd, Verify,
           VerifySkip, VerifyTransfer, VerifyStash, VerifyFree, Update, UpdateSkip,
           UpdateTransfer, UpdateStash, UpdateWrite, WritePartial, FsyncPartial,
           RenamePartial, UpdateLastCommandIndex, Discard, WriteBlock, WriteEnd,
           FreeImplicitStash, FsyncPartition, Finish, Cleanup, Retry, SystemCallFails,
           CommitCache, Terminated, vars, faults
  <1> QED BY <1>1, <1>2, <1>3

(* A right package, also one that stashes an id again after freeing it,     *)
(* never leaves an update without the data it needs: at no power loss,      *)
(* failing system call or retry, except where the code has deleted that     *)
(* data in one of the two ways AlwaysResumable names.                       *)
THEOREM NeverStuck ==
  ASSUME RightLists, RightSources, RightStash
  PROVE  Spec => []AlwaysResumable
  <1> DEFINE Inv == gone = {} => IStash
  <1>1. RightPackage
    BY DEF RightPackage
  <1>2. Init => Inv
    BY <1>1, InitIStash
  <1>3. ILists /\ Inv /\ [Next]_vars => Inv'
    <2> SUFFICES ASSUME ILists, Inv, [Next]_vars, gone' = {} PROVE IStash'
      OBVIOUS
    <2> QED BY <1>1, GoneStays, NextIStash
  <1>4. Inv => AlwaysResumable
    BY DEF IStash, AlwaysResumable
  <1> QED BY <1>2, <1>3, <1>4, ListsInvariance, PTL DEF Spec
=============================================================================
