---------------------------- MODULE RecoveryProofs ----------------------------
(***************************************************************************)
(* Theorems about Recovery, for every retry limit, every set of commands   *)
(* and menu entries, with and without /cache, and any number of power      *)
(* losses and failures.                                                    *)
(*                                                                         *)
(* The argument is about what the BCB says.  While no access to it has     *)
(* failed, it names the pending command from get_args until                *)
(* finish_recovery clears it (Message), so whoever left a volume half      *)
(* written is still named by it (Owned), and its retry count accounts for  *)
(* every start of the update binary except those a power loss cut short    *)
(* (Counted).                                                              *)
(***************************************************************************)
EXTENDS Recovery, TLAPS

(* Which command can be at which point. *)
Installing == {"update_package", "sideload", "menu_adb", "menu_storage"}
Control ==
  /\ pc \in {"fresh", "retry"} => op = "update_package"
  /\ pc \in {"install", "updating", "wipe_cache"} => op \in Installing
  /\ pc = "script" => op = "update-ubuntu"
  /\ pc = "prompt" => op = "prompt_and_wipe_data"
  /\ pc = "wipe_ab" => op = "wipe_ab"
  /\ pc = "erase_system" => op = "menu_wipe_system"
  /\ pc = "erase_data" => op \in {"wipe_data", "prompt_and_wipe_data", "menu_wipe_data"}
  /\ pc = "menu" => op = None
  /\ pc = "retry" => retry_count < RetryLimit
  /\ pc = "fresh" => retry_count = 0
  /\ pc # "off" => interrupted = None

(* The BCB names the pending command. *)
Named(o) == bcb.boot /\ bcb.op = o
Message ==
  /\ ~bcb.boot => bcb.op = None
  /\ errors = 0 =>
       /\ (pc \in Pending /\ op \in Commands) => (Named(op) /\ retry_count <= bcb.retry)
       /\ (pc \in Pending /\ op = "menu_storage") => bcb.boot
       /\ (pc = "off" /\ interrupted \in Commands \cup {"menu_storage"}) => bcb.boot

(* The retry count accounts for the attempts. *)
Before == {"run", "fresh", "install"}
Counted ==
  errors = 0 =>
    /\ (pc \in {"off", "args", "main"} /\ bcb.op = "update_package")
         => attempts <= bcb.retry + crashes
    /\ (pc \in {"off", "args", "main"} /\ bcb.op # "update_package") => attempts = 0
    /\ (pc \in Before /\ op = "update_package") => attempts <= retry_count + crashes
    /\ (pc \in Pending /\ op = "update_package") => attempts <= retry_count + 1 + crashes
    /\ (pc \in Pending /\ op # "update_package") => attempts = 0
    /\ pc \in {"unlink", "reboot", "menu"} => attempts = 0

(* A half-written volume belongs to the command that the BCB names. *)
Owner(o, at) == (pc \in {"off", "args"} /\ bcb.op = o) \/ (pc \in at /\ op = o)
Owned ==
  errors = 0 =>
    /\ flash.system = "update_package"
         => Owner("update_package", {"run", "fresh", "install", "updating", "retry"})
    /\ flash.system = "wipe_ab" => Owner("wipe_ab", {"run", "wipe_ab"})
    /\ flash.data = "wipe_data" => Owner("wipe_data", {"run", "erase_data"})

IInv == TypeOK /\ Control /\ Message /\ Counted /\ Owned


-----------------------------------------------------------------------------
USE LimitAssumption, CacheAssumption
    DEF None, Commands, MenuCommands, Points, Writing, Waiting, Pending, Marks, Status, run,
        history, bounds

(* The records that the actions build. *)
LEMMA MessageIsBcb ==
  ASSUME NEW o \in Commands \cup {None}, NEW n \in 0..RetryLimit
  PROVE  [boot |-> TRUE, op |-> o, retry |-> n] \in BcbType
  BY DEF BcbType

LEMMA NoMessageIsBcb == NoMessage \in BcbType
  BY DEF BcbType, NoMessage

LEMMA BcbFields ==
  ASSUME NEW b \in BcbType
  PROVE  b.op \in Commands \cup {None} /\ b.retry \in 0..RetryLimit
  BY DEF BcbType

LEMMA FilesShape ==
  ASSUME NEW f \in FilesType, NEW c \in Commands \cup {None}, NEW u \in BOOLEAN, NEW p \in BOOLEAN
  PROVE  /\ [command |-> c, ubuntu |-> u, package |-> p] \in FilesType
         /\ [f EXCEPT !.ubuntu = u] \in FilesType
         /\ [f EXCEPT !.ubuntu = u, !.package = p] \in FilesType
         /\ [f EXCEPT !.command = c] \in FilesType
         /\ f.command \in Commands \cup {None}
         /\ f.ubuntu \in BOOLEAN /\ f.package \in BOOLEAN
  BY DEF FilesType

LEMMA EmptyCacheIsFiles == EmptyCache \in FilesType
  BY FilesShape DEF FilesType, EmptyCache

(* A message that is sent is one, or the BCB is as it was. *)
LEMMA UpdateType ==
  ASSUME bcb \in BcbType, NEW o \in Commands \cup {None}, NEW n \in 0..RetryLimit,
         update_bootloader_message(o, n)
  PROVE  bcb' \in BcbType
  BY MessageIsBcb DEF update_bootloader_message

(* The store keeps its type.  The actions that touch it, one by one. *)
LEMMA StoreStep ==
  ASSUME IInv, Next
  PROVE  StoreType'
<1> USE DEF IInv, TypeOK, StoreType, PlaceType
<1>1. CASE get_args
  <2>1. FromFiles \in Commands \cup {None}
    BY FilesShape DEF FromFiles
  <2>2. op' \in Commands \cup {None} /\ retry_count' \in 0..RetryLimit
    BY <1>1, <2>1, BcbFields DEF get_args
  <2>3. bcb' \in BcbType
    <3>1. CASE update_bootloader_message(op', retry_count')
      BY <2>2, <3>1, UpdateType
    <3>2. CASE bcb' \in {bcb, [boot |-> TRUE, op |-> op', retry |-> 0]}
      BY <2>2, <3>2, MessageIsBcb
    <3>3. QED
      BY <1>1, <3>1, <3>2 DEF get_args
  <2>4. QED
    BY <1>1, <2>3 DEF get_args
<1>2. CASE SkipPackage
  BY <1>2
     DEF FlashType, SkipPackage, Report
<1>3. CASE SetFirstRetry
  BY <1>3, UpdateType
     DEF SetFirstRetry, Control, Installing
<1>4. CASE InstallRefused
  BY <1>4
     DEF FlashType, InstallRefused, Report
<1>5. CASE InstallStarts
  BY <1>5
     DEF FlashType, InstallStarts, Control, Installing
<1>6. CASE InstallSucceeds
  BY <1>6
     DEF FlashType, InstallSucceeds
<1>7. CASE InstallFails
  BY <1>7
     DEF FlashType, InstallFails
<1>8. CASE RetryReboots
  BY <1>8, UpdateType
     DEF RetryReboots, Control, Installing
<1>9. CASE RetryRebootRefused
  <2>1. retry_count' \in 0..RetryLimit /\ op \in Commands
    BY <1>9 DEF RetryRebootRefused, Control
  <2>2. bcb' \in BcbType
    BY <1>9, <2>1, UpdateType DEF RetryRebootRefused
  <2>3. flash' \in FlashType /\ files' \in FilesType
    BY <1>9 DEF RetryRebootRefused, FlashType
  <2>4. QED
    BY <2>2, <2>3
<1>10. CASE WipeCacheAfterInstall
  BY <1>10, EmptyCacheIsFiles
     DEF WipeCacheAfterInstall
<1>11. CASE StartUbuntu
  BY <1>11, FilesShape
     DEF FlashType, StartUbuntu
<1>12. CASE UbuntuEnds
  BY <1>12
     DEF FlashType, UbuntuEnds
<1>13. CASE StartWipeData
  BY <1>13
     DEF FlashType, StartWipeData
<1>14. CASE DataErased
  BY <1>14
     DEF FlashType, DataErased
<1>15. CASE CacheErased
  BY <1>15, EmptyCacheIsFiles
     DEF CacheErased
<1>16. CASE TryAgain
  BY <1>16
     DEF FlashType, TryAgain, Report
<1>17. CASE FactoryReset
  BY <1>17
     DEF FlashType, FactoryReset, Control, Installing
<1>18. CASE RefuseWipeAb
  BY <1>18
     DEF FlashType, RefuseWipeAb, Report
<1>19. CASE StartWipeAb
  BY <1>19
     DEF FlashType, StartWipeAb
<1>20. CASE WipeAbEnds
  BY <1>20
     DEF FlashType, WipeAbEnds
<1>21. CASE Sideload
  BY <1>21
     DEF FlashType, Sideload, Report
<1>22. CASE FinishClears
  BY <1>22, NoMessageIsBcb
     DEF FinishClears, clear_bootloader_message
<1>23. CASE FinishUnlinks
  BY <1>23
     DEF FilesType, FinishUnlinks
<1>24. CASE MenuWipeData
  BY <1>24
     DEF FlashType, MenuWipeData
<1>25. CASE MenuWipeSystem
  BY <1>25
     DEF FlashType, MenuWipeSystem
<1>26. CASE SystemErased
  BY <1>26
     DEF FlashType, SystemErased
<1>27. CASE MenuStorage
  BY <1>27, UpdateType
     DEF MenuStorage
<1>28. ASSUME NEW o \in Requests, MainRequests(o) PROVE StoreType'
  <2>1. o \in Commands
    BY WorkAssumption
  <2>2. bcb' \in BcbType
    BY <1>28, <2>1, MessageIsBcb DEF MainRequests
  <2>3. files' \in FilesType
    <3> DEFINE u == files.ubuntu \/ o = "update-ubuntu"
               p == files.package \/ o = "update_package"
               c == IF o = "update-ubuntu" THEN files.command ELSE o
    <3>1. u \in BOOLEAN /\ p \in BOOLEAN
      OBVIOUS
    <3>2. c \in Commands \cup {None}
      BY <2>1, FilesShape
    <3>3. files' = [command |-> c, ubuntu |-> u, package |-> p]
            \/ files' = [files EXCEPT !.ubuntu = u, !.package = p]
      BY <1>28, Zenon DEF MainRequests, FilesType
    <3> HIDE DEF u, p, c
    <3>4. files \in FilesType
      OBVIOUS
    <3>5. /\ [command |-> c, ubuntu |-> u, package |-> p] \in FilesType
          /\ [files EXCEPT !.ubuntu = u, !.package = p] \in FilesType
      BY <3>1, <3>2, <3>4, FilesShape, Zenon
    <3>6. QED
      BY <3>3, <3>5, Zenon
  <2>4. QED
    BY <1>28, <2>2, <2>3 DEF MainRequests
<1>29. CASE UNCHANGED <<bcb, files, flash>>
  BY <1>29
<1>30. QED
  BY <1>1, <1>2, <1>3, <1>4, <1>5, <1>6, <1>7, <1>8, <1>9, <1>10, <1>11, <1>12,
      <1>13, <1>14, <1>15, <1>16, <1>17, <1>18, <1>19, <1>20, <1>21, <1>22, <1>23,
      <1>24, <1>25, <1>26, <1>27, <1>28, <1>29
     DEF Next, System, User, Package, Ubuntu, Wipe, Finish, Idle, vars, BootMain,
      BootRecovery, UserEntersRecovery, StartPackage, InstallAsksForRetry,
      NoUbuntuCommand, StartPrompt, StartWipeCache, NothingToDo, AfterCommand,
      Reboot, MenuReboot, MenuWipeCache, MenuAdb, PowerLoss

(* So do the control state and the counters. *)
LEMMA PlaceStep ==
  ASSUME IInv, Next
  PROVE  (PlaceType /\ CountType)'
<1> USE DEF IInv, TypeOK, StoreType, BcbType, FilesType, PlaceType, CountType, Control
<1>1. CASE Package
  BY <1>1 DEF Package, SkipPackage, Report, StartPackage, SetFirstRetry,
         update_bootloader_message, InstallRefused, HasPackage, InstallStarts,
         InstallSucceeds, InstallFails, CanRetry, InstallAsksForRetry, RetryReboots,
         RetryRebootRefused, WipeCacheAfterInstall, EmptyCache
<1>2. CASE Ubuntu
  BY <1>2 DEF Ubuntu, NoUbuntuCommand, StartUbuntu, UbuntuEnds
<1>3. CASE Wipe
  BY <1>3 DEF Wipe, StartWipeData, DataErased, CacheErased, EmptyCache, StartPrompt,
         StartWipeCache, RefuseWipeAb, Report, StartWipeAb, WipeAbEnds, SystemErased
<1>4. CASE AfterCommand
  BY <1>4 DEF AfterCommand, MustPrompt
<1>5. CASE FinishClears
  BY <1>5 DEF FinishClears, clear_bootloader_message, NoMessage
<1>6. CASE FinishUnlinks
  BY <1>6 DEF FinishUnlinks
<1>7. CASE Reboot
  BY <1>7 DEF Reboot
<1>8. CASE BootMain \/ BootRecovery \/ get_args \/ Sideload \/ NothingToDo
  BY <1>8 DEF BootMain, BootRecovery, get_args, FromFiles, update_bootloader_message,
         Sideload, Report, NothingToDo
<1>9. CASE User
  BY <1>9 DEF User, UserEntersRecovery, TryAgain, Report, FactoryReset, MenuReboot,
         MenuWipeData, MenuWipeCache, MenuWipeSystem, MenuAdb, MenuStorage,
         update_bootloader_message
<1>10. CASE PowerLoss
  BY <1>10 DEF PowerLoss
<1>11. ASSUME NEW o \in Requests, MainRequests(o) PROVE (PlaceType /\ CountType)'
  BY <1>11, WorkAssumption DEF MainRequests
<1>12. CASE Idle
  BY <1>12 DEF Idle, vars
<1>13. QED
  BY <1>1, <1>2, <1>3, <1>4, <1>5, <1>6, <1>7, <1>8, <1>9, <1>10, <1>11, <1>12 DEF Next, System, Finish

(* And the flags. *)
LEMMA FlagStep ==
  ASSUME IInv, Next
  PROVE  FlagType'
<1> USE DEF IInv, TypeOK, FlagType
<1>1. CASE Package
  BY <1>1 DEF Package, SkipPackage, Report, StartPackage, SetFirstRetry,
         update_bootloader_message, InstallRefused, HasPackage, InstallStarts,
         InstallSucceeds, InstallFails, CanRetry, InstallAsksForRetry, RetryReboots,
         RetryRebootRefused, WipeCacheAfterInstall, EmptyCache
<1>2. CASE Ubuntu
  BY <1>2 DEF Ubuntu, NoUbuntuCommand, StartUbuntu, UbuntuEnds
<1>3. CASE Wipe
  BY <1>3 DEF Wipe, StartWipeData, DataErased, CacheErased, EmptyCache, StartPrompt,
         StartWipeCache, RefuseWipeAb, Report, StartWipeAb, WipeAbEnds, SystemErased
<1>4. CASE AfterCommand
  BY <1>4 DEF AfterCommand, MustPrompt
<1>5. CASE FinishClears
  BY <1>5 DEF FinishClears, clear_bootloader_message, NoMessage
<1>6. CASE FinishUnlinks
  BY <1>6 DEF FinishUnlinks
<1>7. CASE Reboot
  BY <1>7 DEF Reboot
<1>8. CASE BootMain \/ BootRecovery \/ get_args \/ Sideload \/ NothingToDo
  BY <1>8 DEF BootMain, BootRecovery, get_args, FromFiles, update_bootloader_message,
         Sideload, Report, NothingToDo
<1>9. CASE User
  BY <1>9 DEF User, UserEntersRecovery, TryAgain, Report, FactoryReset, MenuReboot,
         MenuWipeData, MenuWipeCache, MenuWipeSystem, MenuAdb, MenuStorage,
         update_bootloader_message
<1>10. CASE PowerLoss
  BY <1>10 DEF PowerLoss
<1>11. ASSUME NEW o \in Requests, MainRequests(o) PROVE FlagType'
  BY <1>11, WorkAssumption DEF MainRequests
<1>12. CASE Idle
  BY <1>12 DEF Idle, vars
<1>13. QED
  BY <1>1, <1>2, <1>3, <1>4, <1>5, <1>6, <1>7, <1>8, <1>9, <1>10, <1>11, <1>12 DEF Next, System, Finish

(* Which command is at which point. *)
LEMMA ControlStep ==
  ASSUME IInv, Next
  PROVE  Control'
<1> USE DEF IInv, TypeOK, Control, Installing, PlaceType
<1>1. CASE Package
  BY <1>1 DEF Package, SkipPackage, Report, StartPackage, SetFirstRetry,
         update_bootloader_message, InstallRefused, HasPackage, InstallStarts,
         InstallSucceeds, InstallFails, CanRetry, InstallAsksForRetry, RetryReboots,
         RetryRebootRefused, WipeCacheAfterInstall, EmptyCache
<1>2. CASE Ubuntu
  BY <1>2 DEF Ubuntu, NoUbuntuCommand, StartUbuntu, UbuntuEnds
<1>3. CASE Wipe
  BY <1>3 DEF Wipe, StartWipeData, DataErased, CacheErased, EmptyCache, StartPrompt,
         StartWipeCache, RefuseWipeAb, Report, StartWipeAb, WipeAbEnds, SystemErased
<1>4. CASE AfterCommand
  BY <1>4 DEF AfterCommand, MustPrompt
<1>5. CASE FinishClears
  BY <1>5 DEF FinishClears, clear_bootloader_message, NoMessage
<1>6. CASE FinishUnlinks
  BY <1>6 DEF FinishUnlinks
<1>7. CASE Reboot
  BY <1>7 DEF Reboot
<1>8. CASE BootMain \/ BootRecovery \/ get_args \/ Sideload \/ NothingToDo
  BY <1>8 DEF BootMain, BootRecovery, get_args, FromFiles, update_bootloader_message,
         Sideload, Report, NothingToDo
<1>9. CASE User
  BY <1>9 DEF User, UserEntersRecovery, TryAgain, Report, FactoryReset, MenuReboot,
         MenuWipeData, MenuWipeCache, MenuWipeSystem, MenuAdb, MenuStorage,
         update_bootloader_message
<1>10. CASE PowerLoss
  BY <1>10 DEF PowerLoss
<1>11. ASSUME NEW o \in Requests, MainRequests(o) PROVE Control'
  BY <1>11, WorkAssumption DEF MainRequests
<1>12. CASE Idle
  BY <1>12 DEF Idle, vars
<1>13. QED
  BY <1>1, <1>2, <1>3, <1>4, <1>5, <1>6, <1>7, <1>8, <1>9, <1>10, <1>11, <1>12 DEF Next, System, Finish

(* The BCB keeps naming the pending command. *)
LEMMA MessageStep ==
  ASSUME IInv, Next
  PROVE  Message'
<1> USE DEF IInv, TypeOK, Message, Named, Control, Installing, StoreType, BcbType,
         PlaceType, CountType
<1>1. CASE Package
  BY <1>1 DEF Package, SkipPackage, Report, StartPackage, SetFirstRetry,
         update_bootloader_message, InstallRefused, HasPackage, InstallStarts,
         InstallSucceeds, InstallFails, CanRetry, InstallAsksForRetry, RetryReboots,
         RetryRebootRefused, WipeCacheAfterInstall, EmptyCache
<1>2. CASE Ubuntu
  BY <1>2 DEF Ubuntu, NoUbuntuCommand, StartUbuntu, UbuntuEnds
<1>3. CASE Wipe
  BY <1>3 DEF Wipe, StartWipeData, DataErased, CacheErased, EmptyCache, StartPrompt,
         StartWipeCache, RefuseWipeAb, Report, StartWipeAb, WipeAbEnds, SystemErased
<1>4. CASE AfterCommand
  BY <1>4 DEF AfterCommand, MustPrompt
<1>5. CASE FinishClears
  BY <1>5 DEF FinishClears, clear_bootloader_message, NoMessage
<1>6. CASE FinishUnlinks
  BY <1>6 DEF FinishUnlinks
<1>7. CASE Reboot
  BY <1>7 DEF Reboot
<1>8. CASE BootMain \/ BootRecovery \/ get_args \/ Sideload \/ NothingToDo
  BY <1>8 DEF BootMain, BootRecovery, get_args, FromFiles, update_bootloader_message,
         Sideload, Report, NothingToDo
<1>9. CASE User
  BY <1>9 DEF User, UserEntersRecovery, TryAgain, Report, FactoryReset, MenuReboot,
         MenuWipeData, MenuWipeCache, MenuWipeSystem, MenuAdb, MenuStorage,
         update_bootloader_message
<1>10. CASE PowerLoss
  BY <1>10 DEF PowerLoss
<1>11. ASSUME NEW o \in Requests, MainRequests(o) PROVE Message'
  BY <1>11, WorkAssumption DEF MainRequests
<1>12. CASE Idle
  BY <1>12 DEF Idle, vars
<1>13. QED
  BY <1>1, <1>2, <1>3, <1>4, <1>5, <1>6, <1>7, <1>8, <1>9, <1>10, <1>11, <1>12 DEF Next, System, Finish

(* The retry count keeps accounting for the attempts. *)
LEMMA CountedStep ==
  ASSUME IInv, Next
  PROVE  Counted'
<1> USE DEF IInv, TypeOK, Counted, Before, Message, Named, Control, Installing,
         StoreType, BcbType, PlaceType, CountType
<1>1. CASE Package
  BY <1>1 DEF Package, SkipPackage, Report, StartPackage, SetFirstRetry,
         update_bootloader_message, InstallRefused, HasPackage, InstallStarts,
         InstallSucceeds, InstallFails, CanRetry, InstallAsksForRetry, RetryReboots,
         RetryRebootRefused, WipeCacheAfterInstall, EmptyCache
<1>2. CASE Ubuntu
  BY <1>2 DEF Ubuntu, NoUbuntuCommand, StartUbuntu, UbuntuEnds
<1>3. CASE Wipe
  BY <1>3 DEF Wipe, StartWipeData, DataErased, CacheErased, EmptyCache, StartPrompt,
         StartWipeCache, RefuseWipeAb, Report, StartWipeAb, WipeAbEnds, SystemErased
<1>4. CASE AfterCommand
  BY <1>4 DEF AfterCommand, MustPrompt
<1>5. CASE FinishClears
  BY <1>5 DEF FinishClears, clear_bootloader_message, NoMessage
<1>6. CASE FinishUnlinks
  BY <1>6 DEF FinishUnlinks
<1>7. CASE Reboot
  BY <1>7 DEF Reboot
<1>8. CASE BootMain \/ BootRecovery \/ get_args \/ Sideload \/ NothingToDo
  BY <1>8 DEF BootMain, BootRecovery, get_args, FromFiles, update_bootloader_message,
         Sideload, Report, NothingToDo
<1>9. CASE User
  BY <1>9 DEF User, UserEntersRecovery, TryAgain, Report, FactoryReset, MenuReboot,
         MenuWipeData, MenuWipeCache, MenuWipeSystem, MenuAdb, MenuStorage,
         update_bootloader_message
<1>10. CASE PowerLoss
  BY <1>10 DEF PowerLoss
<1>11. ASSUME NEW o \in Requests, MainRequests(o) PROVE Counted'
  BY <1>11, WorkAssumption DEF MainRequests
<1>12. CASE Idle
  BY <1>12 DEF Idle, vars
<1>13. QED
  BY <1>1, <1>2, <1>3, <1>4, <1>5, <1>6, <1>7, <1>8, <1>9, <1>10, <1>11, <1>12 DEF Next, System, Finish

(* A half-written volume keeps its owner. *)
LEMMA OwnedStep ==
  ASSUME IInv, Next
  PROVE  Owned'
<1> USE DEF IInv, TypeOK, Owned, Owner, Message, Named, Control, Installing, StoreType,
         BcbType, FlashType, PlaceType, CountType
<1>1. CASE Package
  BY <1>1 DEF Package, SkipPackage, Report, StartPackage, SetFirstRetry,
         update_bootloader_message, InstallRefused, HasPackage, InstallStarts,
         InstallSucceeds, InstallFails, CanRetry, InstallAsksForRetry, RetryReboots,
         RetryRebootRefused, WipeCacheAfterInstall, EmptyCache
<1>2. CASE Ubuntu
  BY <1>2 DEF Ubuntu, NoUbuntuCommand, StartUbuntu, UbuntuEnds
<1>3. CASE Wipe
  BY <1>3 DEF Wipe, StartWipeData, DataErased, CacheErased, EmptyCache, StartPrompt,
         StartWipeCache, RefuseWipeAb, Report, StartWipeAb, WipeAbEnds, SystemErased
<1>4. CASE AfterCommand
  BY <1>4 DEF AfterCommand, MustPrompt
<1>5. CASE FinishClears
  BY <1>5 DEF FinishClears, clear_bootloader_message, NoMessage
<1>6. CASE FinishUnlinks
  BY <1>6 DEF FinishUnlinks
<1>7. CASE Reboot
  BY <1>7 DEF Reboot
<1>8. CASE BootMain \/ BootRecovery \/ get_args \/ Sideload \/ NothingToDo
  BY <1>8 DEF BootMain, BootRecovery, get_args, FromFiles, update_bootloader_message,
         Sideload, Report, NothingToDo
<1>9. CASE User
  BY <1>9 DEF User, UserEntersRecovery, TryAgain, Report, FactoryReset, MenuReboot,
         MenuWipeData, MenuWipeCache, MenuWipeSystem, MenuAdb, MenuStorage,
         update_bootloader_message
<1>10. CASE PowerLoss
  BY <1>10 DEF PowerLoss
<1>11. ASSUME NEW o \in Requests, MainRequests(o) PROVE Owned'
  BY <1>11, WorkAssumption DEF MainRequests
<1>12. CASE Idle
  BY <1>12 DEF Idle, vars
<1>13. QED
  BY <1>1, <1>2, <1>3, <1>4, <1>5, <1>6, <1>7, <1>8, <1>9, <1>10, <1>11, <1>12 DEF Next, System, Finish

-----------------------------------------------------------------------------
LEMMA InitIInv == Init => IInv
<1> SUFFICES ASSUME Init PROVE IInv
  OBVIOUS
<1>1. StoreType
  BY NoMessageIsBcb, EmptyCacheIsFiles DEF Init, StoreType, FlashType
<1>2. PlaceType /\ CountType
  BY DEF Init, PlaceType, CountType
<1>3. FlagType
  BY DEF Init, FlagType
<1>4. Control /\ Message
  BY DEF Init, Control, Message, Named, NoMessage
<1>5. Counted /\ Owned
  BY DEF Init, Counted, Before, Owned, Owner, NoMessage
<1>6. QED
  BY <1>1, <1>2, <1>3, <1>4, <1>5 DEF IInv, TypeOK

LEMMA NextIInv == IInv /\ [Next]_vars => IInv'
<1>1. ASSUME IInv, Next PROVE IInv'
  BY <1>1, StoreStep, PlaceStep, FlagStep, ControlStep, MessageStep, CountedStep, OwnedStep
     DEF IInv, TypeOK
<1>2. ASSUME IInv, UNCHANGED vars PROVE IInv'
  BY <1>2 DEF IInv, TypeOK, StoreType, PlaceType, CountType, FlagType, Control, Message, Named,
              Counted, Owned, Owner, vars
<1>3. QED
  BY <1>1, <1>2

LEMMA Invariance == Spec => []IInv
  BY InitIInv, NextIInv, PTL DEF Spec

(* Every variable keeps its type; in particular the retry count in the BCB  *)
(* never exceeds RETRY_LIMIT.                                               *)
THEOREM TypeCorrect == Spec => []TypeOK
<1>1. IInv => TypeOK
  BY DEF IInv
<1>2. QED
  BY <1>1, Invariance, PTL

(* After a power loss with a command pending, the device comes back into    *)
(* recovery.                                                                *)
THEOREM ComesBack == Spec => BackToRecovery
<1>1. ASSUME IInv, [Next]_vars
      PROVE  [(pc = "off" /\ pc' = "main" /\ errors = 0)
                => interrupted \notin Commands \cup {"menu_storage"}]_vars
  <2>1. SUFFICES ASSUME Next, pc = "off", pc' = "main", errors = 0
                 PROVE  interrupted \notin Commands \cup {"menu_storage"}
    BY <1>1
  <2>2. BootMain
    BY <2>1 DEF Next, System, User, Package, Ubuntu, Wipe, Finish, Idle, vars, MainRequests,
      BootRecovery, UserEntersRecovery, get_args, SkipPackage, StartPackage, SetFirstRetry,
      InstallRefused, InstallStarts, InstallSucceeds, InstallFails, InstallAsksForRetry,
      RetryReboots, RetryRebootRefused, WipeCacheAfterInstall, NoUbuntuCommand, StartUbuntu,
      UbuntuEnds, StartWipeData, DataErased, CacheErased, StartPrompt, TryAgain, FactoryReset,
      StartWipeCache, RefuseWipeAb, StartWipeAb, WipeAbEnds, Sideload, NothingToDo,
      AfterCommand, FinishClears, FinishUnlinks, Reboot, MenuReboot, MenuWipeData,
      MenuWipeCache, MenuWipeSystem, SystemErased, MenuAdb, MenuStorage, PowerLoss
  <2>3. QED
    BY <1>1, <2>1, <2>2 DEF BootMain, IInv, Message
<1>2. QED
  BY <1>1, Invariance, PTL DEF Spec, BackToRecovery

(* A package is tried at most RETRY_LIMIT + 1 times, plus once per power    *)
(* loss.                                                                    *)
THEOREM RetriesEnd == Spec => []AttemptsBounded
<1>1. IInv => AttemptsBounded
  <2>1. SUFFICES ASSUME IInv, errors = 0 PROVE attempts <= RetryLimit + 1 + crashes
    BY DEF AttemptsBounded
  <2>2. /\ retry_count \in 0..RetryLimit /\ bcb.retry \in 0..RetryLimit
        /\ attempts \in Nat /\ crashes \in Nat /\ pc \in Points
    BY <2>1, BcbFields DEF IInv, TypeOK, StoreType, PlaceType, CountType
  <2>3. CASE pc \in {"off", "args", "main"}
    BY <2>1, <2>2, <2>3 DEF IInv, Counted
  <2>4. CASE pc \in Pending
    BY <2>1, <2>2, <2>4 DEF IInv, Counted
  <2>5. CASE pc \in {"unlink", "reboot", "menu"}
    BY <2>1, <2>2, <2>5 DEF IInv, Counted
  <2>6. QED
    BY <2>2, <2>3, <2>4, <2>5
<1>2. QED
  BY <1>1, Invariance, PTL

-----------------------------------------------------------------------------
(* Unless the last finish_recovery left it behind, a command that has ended *)
(* is in neither place where the next get_args looks: it is removed in two  *)
(* steps, at "clear" and "unlink", and nothing writes it back.  The Ubuntu  *)
(* command has a file of its own, which goes before its work begins.        *)
Gone == bcb.op # finished /\ (HasCache => files.command # finished)
UbuntuGone ==
  /\ finished = "update-ubuntu" => ~files.ubuntu
  /\ (op = "update-ubuntu" /\ pc \in Pending \ {"run"}) => ~files.ubuntu
Once ==
  /\ UbuntuGone
  /\ (~left /\ finished \in Commands) =>
       /\ pc \notin {"clear", "unlink"} => Gone
       /\ pc \in Pending \ {"clear"} => op # finished
       /\ pc = "clear" => (op = finished \/ Gone)
       /\ pc = "unlink" => bcb.op = None

LEMMA OnceStep ==
  ASSUME IInv, Once, Next
  PROVE  Once'
<1> USE DEF IInv, TypeOK, Once, UbuntuGone, Gone, Control, Installing, StoreType, BcbType,
         FilesType, PlaceType, CountType, FlagType
<1>1. CASE Package
  BY <1>1 DEF Package, SkipPackage, StartPackage, SetFirstRetry,
         update_bootloader_message, InstallRefused, InstallStarts,
         InstallSucceeds, InstallFails, CanRetry, InstallAsksForRetry, RetryReboots,
         RetryRebootRefused, WipeCacheAfterInstall, EmptyCache
<1>2. CASE Ubuntu
  BY <1>2 DEF Ubuntu, NoUbuntuCommand, StartUbuntu, UbuntuEnds
<1>3. CASE Wipe
  BY <1>3 DEF Wipe, StartWipeData, DataErased, CacheErased, EmptyCache, StartPrompt,
         StartWipeCache, RefuseWipeAb, StartWipeAb, WipeAbEnds, SystemErased
<1>4. CASE AfterCommand
  BY <1>4 DEF AfterCommand
<1>5. CASE FinishClears
  <2>1. UbuntuGone'
    BY <1>5 DEF FinishClears
  <2>2. ASSUME ~left' PROVE bcb'.op = None
    <3>1. errors' = errors
      BY <1>5, <2>2 DEF FinishClears
    <3>2. bcb' = NoMessage
      BY <1>5, <3>1 DEF FinishClears, clear_bootloader_message
    <3>3. QED
      BY <3>2 DEF NoMessage
  <2>3. pc' = "unlink"
    BY <1>5 DEF FinishClears
  <2>4. QED
    BY <2>1, <2>2, <2>3
<1>6. CASE FinishUnlinks
  BY <1>6 DEF FinishUnlinks
<1>7. CASE Reboot
  BY <1>7 DEF Reboot
<1>8. CASE BootMain \/ BootRecovery
  BY <1>8 DEF BootMain, BootRecovery
<1>9. CASE get_args
  BY <1>9 DEF get_args, FromFiles, update_bootloader_message
<1>10. CASE Sideload \/ NothingToDo
  BY <1>10 DEF Sideload, NothingToDo
<1>11. CASE User
  BY <1>11 DEF User, UserEntersRecovery, TryAgain, FactoryReset, MenuReboot,
         MenuWipeData, MenuWipeCache, MenuWipeSystem, MenuAdb, MenuStorage,
         update_bootloader_message
<1>12. CASE PowerLoss
  BY <1>12 DEF PowerLoss, Unremoved
<1>13. ASSUME NEW o \in Requests, MainRequests(o) PROVE Once'
  BY <1>13 DEF MainRequests
<1>14. CASE Idle
  BY <1>14 DEF Idle, vars
<1>15. QED
  BY <1>1, <1>2, <1>3, <1>4, <1>5, <1>6, <1>7, <1>8, <1>9, <1>10, <1>11, <1>12, <1>13, <1>14
     DEF Next, System, Finish

(* A command that has ended does not run again, whatever is lost and        *)
(* whichever access fails, unless the last finish_recovery was cut off, or  *)
(* failed, before it had removed the command from the BCB and the file.     *)
THEOREM CommandsRunOnce == Spec => []RunsOnce
<1>1. Init => Once
  BY DEF Init, Once, UbuntuGone
<1>2. IInv /\ Once /\ [Next]_vars => Once'
  <2>1. ASSUME Once, UNCHANGED vars PROVE Once'
    BY <2>1 DEF Once, UbuntuGone, Gone, vars
  <2>2. QED
    BY <2>1, OnceStep
<1>3. Once => RunsOnce
  BY DEF Once, RunsOnce
<1>4. QED
  BY <1>1, <1>2, <1>3, Invariance, PTL DEF Spec

(* The main system never starts on a volume that a package install, a data  *)
(* wipe or an A/B wipe left half written, unless that command reported a    *)
(* failure.                                                                 *)
THEOREM CommandsAreCompleted == Spec => []WholeBeforeMain
<1>1. IInv => WholeBeforeMain
  BY DEF IInv, Owned, Owner, WholeBeforeMain
<1>2. QED
  BY <1>1, Invariance, PTL

=============================================================================
