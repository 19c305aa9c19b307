------------------------------ MODULE BootControl ------------------------------
(***************************************************************************)
(* boot_control/boot_control.cpp and update_verifier/update_verifier.cpp:  *)
(* a device with two or more copies (slots) of its system.  An update      *)
(* writes a slot that does not run and makes it the active one; on the     *)
(* next boot update_verifier reads every block that the update has         *)
(* written, through dm-verity, and only then marks the slot as good; if it *)
(* cannot, the bootloader uses up the tries of the slot and goes back.     *)
(*                                                                         *)
(* The bootloader and the update engine are external; they use the slot    *)
(* metadata in misc as boot_control.cpp describes it.  A read through      *)
(* dm-verity of a block in bad[s] fails.                                   *)
(***************************************************************************)
EXTENDS RangeSets

CONSTANTS
  BootPartitions, \* the slots whose boot partition exists
  Blocks,         \* the blocks of a slot, <<partition, number>>
  Flaws,          \* the sets of blocks an update may leave unreadable; all: it does not start
  CareMaps,       \* care_map.txt: its lines, or None or Unreadable
  VerityModes,    \* values of ro.boot.veritymode
  Build,          \* "avb", "verity" or "none"
  DmNames,        \* the contents of the files /sys/block/dm-X/dm/name
  Concurrency,    \* hardware_concurrency
  Damages,        \* the slots whose entry may be damaged, and what it then reads as
  None, Unreadable,
  MaxUpdates,     \* bound: updates
  MaxLosses,      \* bound: power losses
  MaxErrors       \* bound: failing system calls and corruptions of misc

kMaxNumSlots         == 4
kDefaultBootAttempts == 7
kActivePriority      == 15
kActiveTries         == 6
Slots                == 0..(kMaxNumSlots - 1)

ASSUME SlotAssumption ==
  /\ BootPartitions \subseteq Slots /\ BootPartitions # {}
  /\ Flaws \subseteq SUBSET Blocks
  /\ Concurrency \in Nat
  /\ MaxUpdates \in Nat /\ MaxLosses \in Nat /\ MaxErrors \in Nat
(* pairs are the complete pairs of lines. *)
ASSUME CareMapAssumption ==
  /\ None \notin {"true", "false"}
  /\ \A map \in CareMaps \ {None, Unreadable} :
       map.lines \in Nat /\ DOMAIN map.pairs = 1..(map.lines \div 2)

VARIABLES
  misc,         \* the bootloader_control in misc; ok: does its CRC match?
  bad,          \* bad[s]: the unreadable blocks of slot s
  care_map,
  current_slot, num_slots,
  verity_mode,
  pc,           \* where update_verifier is; "off", or "up" when it has left
  pair,         \* the pair of lines of the care map it is at
  threads,      \* the reading threads: ranges left and the result, None while it reads
  vouched,      \* vouched[s]: the blocks that were to be read before s was marked
  damage,       \* history: slot_info is "none", "damaged", or "sealed" by a new CRC
  target,       \* the slot an update writes, or None
  updates, losses, errors

bootVars == <<misc, bad, care_map, current_slot, num_slots, verity_mode, pc, pair, threads, vouched,
              damage, target, updates, losses, errors>>

SlotInfo == [priority : 0..15, tries : 0..7, successful : BOOLEAN, corrupted : BOOLEAN]
ASSUME DamageAssumption == Damages \subseteq Slots \X SlotInfo
Places   == {"off", "init", "check", "mode", "open", "pair", "join", "mark", "reboot", "up"}

(* The state is well typed: tries_remaining stays within its three bits and *)
(* priority within its four.                                                *)
BootTypeOK ==
  /\ misc \in [ok : BOOLEAN, nb_slot : 0..kMaxNumSlots, slot_info : [Slots -> SlotInfo]]
  /\ bad \in [Slots -> SUBSET Blocks] /\ vouched \in [Slots -> SUBSET Blocks]
  /\ current_slot \in Slots /\ num_slots \in 0..kMaxNumSlots
  /\ pc \in Places /\ pair \in Nat
  /\ target \in Slots \cup {None} /\ damage \in {"none", "damaged", "sealed"}
  /\ updates \in 0..MaxUpdates /\ losses \in 0..MaxLosses /\ errors \in 0..MaxErrors

-----------------------------------------------------------------------------
(* boot_control.cpp *)

(* The number of slots, if boot partitions exist up to it and none after.   *)
nb_slot ==
  LET last == Max(BootPartitions \cup {-1})
      gaps == Slots \ BootPartitions
  IN  IF last # -1 /\ (IF gaps = {} THEN last + 1 = kMaxNumSlots ELSE last + 1 = Min(gaps))
      THEN last + 1 ELSE kMaxNumSlots

(* InitDefaultBootloaderControl *)
MutInitDefault(slot) ==
  [ok |-> TRUE, nb_slot |-> nb_slot,
   slot_info |-> [s \in Slots |->
     [priority   |-> IF s < nb_slot THEN 7 ELSE 0,
      tries      |-> 0,
      successful |-> s = slot,
      corrupted  |-> FALSE]]]
InitDefault(slot) ==
  [ok |-> TRUE, nb_slot |-> nb_slot,
   slot_info |-> [s \in Slots |->
     [priority   |-> IF s < nb_slot THEN 7 ELSE 0,
      tries      |-> IF s < nb_slot THEN kDefaultBootAttempts ELSE 0,
      successful |-> s = slot,
      corrupted  |-> FALSE]]]

(* UpdateAndSaveBootloaderControl computes a new CRC, whatever was loaded:  *)
(* of the operations only LazyInitialization looks at the CRC.              *)
Save(info) ==
  /\ misc' = [misc EXCEPT !.ok = TRUE, !.slot_info = info]
  /\ damage' = IF damage = "damaged" THEN "sealed" ELSE damage

IsSlotBootable(s)         == misc.slot_info[s].tries # 0
IsSlotMarkedSuccessful(s) == misc.slot_info[s].successful /\ misc.slot_info[s].tries # 0

MarkBootSuccessful(slot) ==
  Save([misc.slot_info EXCEPT ![slot].successful = TRUE, ![slot].tries = 1])

SetActiveBootSlot(slot) ==
  /\ slot < num_slots
  /\ Save([s \in Slots |->
       LET info == misc.slot_info[s]
       IN  IF s = slot
           THEN [info EXCEPT !.priority = kActivePriority, !.tries = kActiveTries,
                             !.corrupted = @ /\ slot = current_slot]
           ELSE IF s < num_slots /\ info.priority >= kActivePriority
           THEN [info EXCEPT !.priority = kActivePriority - 1]
           ELSE info])

SetSlotAsUnbootable(slot) ==
  /\ slot < num_slots
  /\ Save([misc.slot_info EXCEPT ![slot].successful = FALSE, ![slot].tries = 0])

Fails == errors < MaxErrors /\ errors' = errors + 1

(* The first call in a process.  A load that fails leaves num_slots 0; the  *)
(* result of the save is not looked at.                                     *)
LazyInitialization ==
  /\ pc = "init" /\ pc' = "check"
  /\ \/ /\ misc.ok /\ num_slots' = misc.nb_slot
        /\ UNCHANGED <<misc, damage, errors>>
     \/ /\ ~misc.ok /\ num_slots' = nb_slot
        /\ \/ misc' = InitDefault(current_slot) /\ damage' = "none"
           \/ UNCHANGED <<misc, damage>>
        /\ UNCHANGED errors
     \/ /\ Fails /\ num_slots' = 0
        /\ UNCHANGED <<misc, damage>>
  /\ vouched' = IF misc'.ok = misc.ok THEN vouched ELSE [vouched EXCEPT ![current_slot] = {}]
  /\ UNCHANGED <<bad, care_map, current_slot, verity_mode, pair, threads, target, updates, losses>>

-----------------------------------------------------------------------------
(* update_verifier.cpp *)

Stays == UNCHANGED <<misc, bad, care_map, current_slot, num_slots, verity_mode, vouched, damage,
                     target, updates, losses>>

(* The HAL's service is not there: before anything is looked at.            *)
GetService ==
  /\ pc = "init" /\ pc' = "reboot" /\ Fails
  /\ UNCHANGED <<pair, threads>> /\ Stays

(* Anything but a plain "not successful", an error included, leaves.        *)
CheckSlot ==
  /\ pc = "check"
  /\ \/ /\ pc' = IF current_slot < num_slots /\ ~IsSlotMarkedSuccessful(current_slot)
                 THEN "mode" ELSE "up"
        /\ UNCHANGED errors
     \/ pc' = "up" /\ Fails
  /\ UNCHANGED <<pair, threads>> /\ Stays

Skips == \/ Build = "none"
         \/ verity_mode = "disabled"
         \/ verity_mode = "" /\ Build = "avb"
CheckVerityMode ==
  /\ pc = "mode"
  /\ pc' = IF Skips THEN "mark"
           ELSE IF verity_mode \in {"eio", "enforcing"} THEN "open" ELSE "reboot"
  /\ UNCHANGED <<pair, threads, errors>> /\ Stays

(* verify_image up to the loop over the pairs of lines.                     *)
OpenCareMap ==
  /\ pc = "open" /\ pair' = 1
  /\ pc' = IF care_map = None THEN "mark"
           ELSE IF care_map # Unreadable /\ care_map.lines \in {2, 4, 6} THEN "pair" ELSE "reboot"
  /\ UNCHANGED <<threads, errors>> /\ Stays

Line == care_map.pairs[pair]
HasDevice(partition) ==
  partition \in (IF Build = "avb" /\ "vroot" \in DmNames THEN DmNames \cup {"system"} ELSE DmNames)

Groups(ranges) == Split(ranges, IF Concurrency = 0 THEN 4 ELSE Concurrency)
Start(ranges) == [t \in DOMAIN Groups(ranges) |-> [left |-> Groups(ranges)[t], result |-> None]]

(* The head of read_blocks: the threads are started on their groups.  The   *)
(* directory of the devices, or the name of the right one, may not be read. *)
ReadBlocks ==
  LET ranges == Parse(Line.text)
  IN  /\ pc = "pair" /\ pair <= care_map.lines \div 2
      /\ Line.name # "/dev/block/"
      /\ \/ /\ IF /\ Line.name \in {"system", "vendor", "product"} /\ HasDevice(Line.name)
                  /\ ranges # <<>>
               THEN pc' = "join" /\ threads' = Start(ranges)
               ELSE pc' = "reboot" /\ UNCHANGED threads
            /\ UNCHANGED errors
         \/ /\ Line.name \in {"system", "vendor", "product"} /\ Fails
            /\ pc' = "reboot" /\ UNCHANGED threads
      /\ UNCHANGED pair /\ Stays

(* All pairs are read, or this is a care map of the old format.             *)
EndOfCareMap ==
  /\ pc = "pair"
  /\ pair <= care_map.lines \div 2 => Line.name = "/dev/block/"
  /\ pc' = "mark"
  /\ UNCHANGED <<pair, threads, errors>> /\ Stays

Reading(t) == threads[t].result = None
ThreadReads ==
  /\ pc = "join"
  /\ \E t \in DOMAIN threads :
       LET left == threads[t].left
           end(r) == threads' = [threads EXCEPT ![t] = [left |-> <<>>, result |-> r]]
           read == {<<Line.name, k>> : k \in ToSet(RangeBlocks(left[1]))}
       IN  /\ Reading(t)
           /\ \/ left = <<>> /\ end("true") /\ UNCHANGED errors
              \/ /\ left # <<>> /\ UNCHANGED errors
                 /\ IF read \subseteq Blocks \ bad[current_slot]
                    THEN threads' = [threads EXCEPT ![t].left = Tail(@)] ELSE end("false")
              \/ Fails /\ end("false")
  /\ UNCHANGED <<pc, pair>> /\ Stays

(* Every future is waited for, and all of them have to be true.             *)
MutJoin ==
  /\ pc = "join" /\ \A t \in DOMAIN threads : ~Reading(t)
  /\ IF threads[Len(threads)].result = "true"
     THEN pc' = "pair" /\ pair' = pair + 1 ELSE pc' = "reboot" /\ UNCHANGED pair
  /\ threads' = <<>>
  /\ UNCHANGED errors /\ Stays
Join ==
  /\ pc = "join" /\ \A t \in DOMAIN threads : ~Reading(t)
  /\ IF \A t \in DOMAIN threads : threads[t].result = "true"
     THEN pc' = "pair" /\ pair' = pair + 1 ELSE pc' = "reboot" /\ UNCHANGED pair
  /\ threads' = <<>>
  /\ UNCHANGED errors /\ Stays

(* What the care map asks to be read; nothing if it was not looked at.      *)
Mapped ==
  IF Skips \/ care_map = None THEN {}
  ELSE UNION {LET l == care_map.pairs[i] IN {<<l.name, b>> : b \in ToSet(BlockNumbers(Parse(l.text)))} :
                i \in {j \in DOMAIN care_map.pairs : \A k \in 1..j : care_map.pairs[k].name # "/dev/block/"}}

MarkSlot ==
  /\ pc = "mark"
  /\ \/ /\ MarkBootSuccessful(current_slot) /\ pc' = "up"
        /\ vouched' = [vouched EXCEPT ![current_slot] = Mapped]
        /\ UNCHANGED errors
     \/ pc' = "reboot" /\ Fails /\ UNCHANGED <<misc, vouched, damage>>
  /\ UNCHANGED <<bad, care_map, current_slot, num_slots, verity_mode, pair, threads, target, updates,
                 losses>>

(* The verifier waits for the reboot, or leaves when it was refused.        *)
RebootDevice ==
  /\ pc = "reboot"
  /\ \/ pc' = "off" /\ UNCHANGED errors
     \/ pc' = "up" /\ Fails
  /\ UNCHANGED <<pair, threads>> /\ Stays

-----------------------------------------------------------------------------
(* The bootloader and the update engine. *)

Bootable(s) == misc.slot_info[s].priority > 0 /\ IsSlotBootable(s)
Boots(s)    == s \in BootPartitions /\ bad[s] # Blocks

(* The bootable slot with the highest priority is tried; a slot that has    *)
(* not been marked loses a try.  An image that does not start resets.       *)
Boot ==
  /\ pc = "off" /\ misc.ok
  /\ \E s \in Slots :
       /\ Bootable(s)
       /\ \A o \in Slots : Bootable(o) => misc.slot_info[o].priority <= misc.slot_info[s].priority
       /\ IF misc.slot_info[s].successful THEN UNCHANGED misc
          ELSE misc' = [misc EXCEPT !.slot_info[s].tries = @ - 1]
       /\ pc' = IF Boots(s) THEN "init" ELSE "off"
       /\ current_slot' = IF Boots(s) THEN s ELSE current_slot
  /\ verity_mode' \in VerityModes
  /\ num_slots' = 0 /\ pair' = 1 /\ threads' = <<>> /\ target' = None
  /\ UNCHANGED <<bad, care_map, vouched, damage, updates, losses, errors>>
(* No slot is left to try: the bootloader waits for fastboot.               *)
NothingToBoot == pc = "off" /\ misc.ok /\ (\A s \in Slots : ~Bootable(s)) /\ UNCHANGED bootVars
(* A damaged misc is repaired like in the HAL, in favour of the slot that   *)
(* ran last.                                                                *)
BootloaderRepairs ==
  /\ pc = "off" /\ ~misc.ok
  /\ misc' = InitDefault(current_slot) /\ damage' = "none"
  /\ vouched' = [vouched EXCEPT ![current_slot] = {}]
  /\ UNCHANGED <<bad, care_map, current_slot, num_slots, verity_mode, pc, pair, threads, target,
                 updates, losses, errors>>

EngineLeaves == UNCHANGED <<current_slot, num_slots, verity_mode, pc, pair, threads, losses, errors>>
BeginUpdate ==
  /\ pc = "up" /\ target = None /\ updates < MaxUpdates
  /\ current_slot < num_slots /\ IsSlotMarkedSuccessful(current_slot)
  /\ \E s \in Slots \ {current_slot} :
       /\ SetSlotAsUnbootable(s)
       /\ target' = s
       /\ bad' = [bad EXCEPT ![s] = Blocks]
       /\ vouched' = [vouched EXCEPT ![s] = {}]
  /\ updates' = updates + 1
  /\ UNCHANGED care_map /\ EngineLeaves
EndUpdate ==
  /\ pc = "up" /\ target # None
  /\ SetActiveBootSlot(target)
  /\ \E flaw \in Flaws, map \in CareMaps : bad' = [bad EXCEPT ![target] = flaw] /\ care_map' = map
  /\ target' = None
  /\ UNCHANGED <<vouched, updates>> /\ EngineLeaves
CancelUpdate ==
  /\ pc = "up" /\ current_slot < num_slots
  /\ IsSlotMarkedSuccessful(current_slot)
  /\ SetActiveBootSlot(current_slot)
  /\ target' = None
  /\ UNCHANGED <<bad, care_map, vouched, updates>> /\ EngineLeaves

UserReboots == pc = "up" /\ pc' = "off" /\ UNCHANGED <<pair, threads, errors>> /\ Stays
PowerLoss ==
  /\ pc # "off" /\ losses < MaxLosses /\ losses' = losses + 1
  /\ pc' = "off" /\ threads' = <<>>
  /\ UNCHANGED <<misc, bad, care_map, current_slot, num_slots, verity_mode, pair, vouched, damage,
                 target, updates, errors>>
(* misc is damaged, by a write that was cut off or from outside: its CRC,   *)
(* or the entry of a slot too.                                              *)
Corrupt ==
  /\ pc \in {"init", "up"} /\ misc.ok /\ Fails
  /\ \/ misc' = [misc EXCEPT !.ok = FALSE] /\ UNCHANGED damage
     \/ /\ \E d \in Damages : misc' = [misc EXCEPT !.ok = FALSE, !.slot_info[d[1]] = d[2]]
        /\ damage' = "damaged"
  /\ UNCHANGED <<bad, care_map, current_slot, num_slots, verity_mode, pc, pair, threads, vouched,
                 target, updates, losses>>

-----------------------------------------------------------------------------
BootInit ==
  /\ misc = [InitDefault(0) EXCEPT !.slot_info[0].tries = 1]
  /\ bad = [s \in Slots |-> IF s = 0 THEN {} ELSE Blocks]
  /\ vouched = [s \in Slots |-> {}] /\ damage = "none"
  /\ care_map = None
  /\ current_slot = 0 /\ num_slots = 0 /\ verity_mode = "enforcing"
  /\ pc = "off" /\ pair = 1 /\ threads = <<>> /\ target = None
  /\ updates = 0 /\ losses = 0 /\ errors = 0

Verifier == \/ GetService \/ LazyInitialization \/ CheckSlot \/ CheckVerityMode \/ OpenCareMap
            \/ ReadBlocks \/ EndOfCareMap \/ ThreadReads \/ Join \/ MarkSlot \/ RebootDevice
Bootloader == Boot \/ BootloaderRepairs \/ NothingToBoot

BootNext == \/ Verifier \/ Bootloader \/ BeginUpdate \/ EndUpdate \/ CancelUpdate \/ UserReboots
            \/ PowerLoss \/ Corrupt
BootSpec == BootInit /\ [][BootNext]_bootVars /\ WF_bootVars(Verifier) /\ WF_bootVars(Bootloader)

-----------------------------------------------------------------------------
(* What the threads get to read is what the care map lists.                 *)
SplitCovers ==
  \A map \in CareMaps \ {None, Unreadable} : \A i \in DOMAIN map.pairs :
    LET ranges == Parse(map.pairs[i].text)
        groups == Groups(ranges)
    IN  /\ groups \in Seq(Seq(Int \X Int))
        /\ \A b \in ToSet(BlockNumbers(ranges)) :
             \E t \in DOMAIN groups : \E j \in DOMAIN groups[t] : b \in ToSet(RangeBlocks(groups[t][j]))

(* A slot that is marked as good after its care map was read has no         *)
(* unreadable block among those that the care map lists: whichever thread   *)
(* met it, over reboots, cancelled and repeated updates.                    *)
MarkedMeansRead ==
  \A s \in Slots : misc.slot_info[s].successful => bad[s] \cap vouched[s] = {}

(* A device that goes down comes up again: a slot that does not start or    *)
(* does not verify uses up its tries, and the bootloader goes back.  Except *)
(* after a damage that was sealed: markBootSuccessful and setActiveBootSlot *)
(* compute a new CRC over contents they have not checked                    *)
(* (boot_control.cpp 256-306), and the bootloader then believes a slot with *)
(* no priority, or a mark on an image that does not start.                  *)
ComesUp == []<>(pc = "up" \/ damage = "sealed")

=============================================================================
