------------------------------- MODULE Recovery -------------------------------
(***************************************************************************)
(* The recovery program (recovery.cpp, with install.cpp, ubupdater.cpp and *)
(* bootloader_message.cpp): from the command it finds at boot to the       *)
(* reboot that leaves it, with power losses anywhere in between.           *)
(*                                                                         *)
(* What survives a power loss is                                           *)
(*   - bcb  : the bootloader control block on the misc partition; with     *)
(*            boot set, the bootloader starts recovery, not the system,    *)
(*   - files: on /cache, the command file of the main system, the command  *)
(*            file of the Ubuntu updater and the update package,           *)
(*   - flash: whether the volumes are whole, or else who left them half    *)
(*            written.                                                     *)
(* A write of the BCB is one fsynced write of 2 KB and so one step.  Logs, *)
(* locale and screen are left out; text visibility, which the user can     *)
(* toggle at any time, is a free choice where the code reads it.           *)
(***************************************************************************)
EXTENDS Naturals

CONSTANTS
  RetryLimit,    \* RETRY_LIMIT
  HasCache,      \* is there a /cache partition?
  Requests,      \* the commands that the main system asks for
  MenuWork,      \* the work that a user starts from the menu
  MaxRequests,   \* bound: commands asked for
  MaxCrashes,    \* bound: power losses
  MaxErrors      \* bound: failures the code only logs

None == "none"

Commands == {"update_package", "update-ubuntu", "wipe_data", "prompt_and_wipe_data",
             "wipe_cache", "wipe_ab", "sideload", "just_exit"}
MenuCommands == {"menu_wipe_data", "menu_wipe_cache", "menu_wipe_system", "menu_adb",
                 "menu_storage"}

ASSUME LimitAssumption  == RetryLimit \in Nat \ {0}
ASSUME CacheAssumption  == HasCache \in BOOLEAN
ASSUME WorkAssumption   == Requests \subseteq Commands /\ MenuWork \subseteq MenuCommands
ASSUME BoundsAssumption == MaxRequests \in Nat /\ MaxCrashes \in Nat /\ MaxErrors \in Nat

VARIABLES
  bcb,           \* [boot, op, retry]: the bootloader message
  files,         \* [command, ubuntu, package]: the files on /cache
  flash,         \* [system, data]: "whole", or who left the volume half written
  pc,            \* where the device is
  op,            \* the command that recovery executes
  retry_count,   \* --retry_count of this run
  status,        \* the install status
  prompting,     \* inside prompt_and_wait
  interrupted,   \* the work that the last power loss cut short
  attempts,      \* starts of the update binary for the pending command
  finished,      \* the requested command, once it has run to its end
  left,          \* the last finish_recovery left the command where it was
  requests, crashes, errors

run == <<op, retry_count, status, prompting>>
history == <<interrupted, attempts, finished, left>>
bounds == <<requests, crashes, errors>>
vars == <<bcb, files, flash, pc, run, history, bounds>>

(* Points at which a volume is being written. *)
Writing == {"updating", "script", "erase_data", "erase_system", "wipe_ab"}
(* Points inside recovery that wait for the user. *)
Waiting == {"menu", "prompt"}
Points  == {"off", "main", "args", "run", "fresh", "install", "retry", "wipe_cache",
            "erase_cache", "after", "clear", "unlink", "reboot"} \cup Writing \cup Waiting

Marks == {"whole", "failed", "skipped"} \cup Commands \cup MenuCommands
Status == {"SUCCESS", "ERROR", "CORRUPT", "NONE", "SKIPPED", "RETRY", "UNVERIFIED"}

BcbType   == [boot : BOOLEAN, op : Commands \cup {None}, retry : 0..RetryLimit]
FilesType == [command : Commands \cup {None}, ubuntu : BOOLEAN, package : BOOLEAN]
FlashType == [system : Marks, data : Marks]

StoreType == bcb \in BcbType /\ files \in FilesType /\ flash \in FlashType
PlaceType ==
  /\ pc \in Points
  /\ op \in Commands \cup MenuCommands \cup {None}
  /\ retry_count \in 0..RetryLimit
  /\ status \in Status
  /\ interrupted \in Commands \cup MenuCommands \cup {None}
  /\ finished \in Commands \cup {None}
CountType ==
  /\ attempts \in Nat /\ requests \in Nat /\ crashes \in Nat /\ errors \in Nat
FlagType == prompting \in BOOLEAN /\ left \in BOOLEAN

TypeOK == StoreType /\ PlaceType /\ CountType /\ FlagType

-----------------------------------------------------------------------------
(* bootloader_message.cpp.  A failing read or write leaves the message as   *)
(* it is, and recovery only logs it.                                        *)
NoMessage == [boot |-> FALSE, op |-> None, retry |-> 0]

update_bootloader_message(o, n) ==
  \/ bcb' = [boot |-> TRUE, op |-> o, retry |-> n] /\ UNCHANGED errors
  \/ errors < MaxErrors /\ errors' = errors + 1 /\ UNCHANGED bcb

clear_bootloader_message ==
  \/ bcb' = NoMessage /\ UNCHANGED errors
  \/ errors < MaxErrors /\ errors' = errors + 1 /\ UNCHANGED bcb

(* erase_volume("/cache") keeps the logs and drops everything else. *)
EmptyCache == [command |-> None, ubuntu |-> FALSE, package |-> FALSE]

(* A work that ends without success leaves its volume known to be bad. *)
Report(v, s) == IF v = "whole" THEN v ELSE s

-----------------------------------------------------------------------------
(* External: the main system leaves a command in the command file or in the *)
(* BCB and reboots into recovery.  A system that is half written cannot.    *)
MainRequests(o) ==
  /\ pc = "main" /\ requests < MaxRequests
  /\ flash.system = "whole" /\ flash.data = "whole"
  /\ \/ /\ files' = [command |-> IF o = "update-ubuntu" THEN files.command ELSE o,
                     ubuntu |-> (files.ubuntu \/ o = "update-ubuntu"),
                     package |-> (files.package \/ o = "update_package")]
        /\ UNCHANGED bcb
     \/ /\ bcb' = [boot |-> TRUE, op |-> o, retry |-> 0]
        /\ files' = [files EXCEPT !.ubuntu = (@ \/ o = "update-ubuntu"),
                                  !.package = (@ \/ o = "update_package")]
  /\ pc' = "args" /\ requests' = requests + 1
  /\ finished' = None /\ attempts' = 0
  /\ UNCHANGED <<flash, run, interrupted, left, crashes, errors>>

(* External: the bootloader. *)
BootMain ==
  /\ pc = "off" /\ ~bcb.boot
  /\ pc' = "main" /\ interrupted' = None
  /\ UNCHANGED <<bcb, files, flash, run, attempts, finished, left, bounds>>

BootRecovery ==
  /\ pc = "off" /\ bcb.boot
  /\ pc' = "args" /\ interrupted' = None
  /\ UNCHANGED <<bcb, files, flash, run, attempts, finished, left, bounds>>

(* External: the key combination, or a reboot to recovery without command.  *)
UserEntersRecovery ==
  /\ pc = "off" /\ ~bcb.boot
  /\ pc' = "args" /\ interrupted' = None
  /\ UNCHANGED <<bcb, files, flash, run, attempts, finished, left, bounds>>

(* get_args: the BCB, then the Ubuntu command file, then the command file;  *)
(* whatever was found goes back into the BCB.  A message that cannot be     *)
(* read counts as an empty one.                                             *)
FromFiles ==
  IF files.ubuntu THEN "update-ubuntu" ELSE IF HasCache THEN files.command ELSE None

(* Mutants: a definition named Mut... is the definition that follows with   *)
(* one fault planted in it.  No specification uses them.                    *)
MutGetArgs ==
  /\ pc = "args"
  /\ op' = IF bcb.op # None THEN bcb.op ELSE FromFiles
  /\ retry_count' = IF bcb.op # None THEN bcb.retry ELSE 0
  /\ pc' = "run" /\ status' = "SUCCESS" /\ prompting' = FALSE
  /\ UNCHANGED <<bcb, errors, files, flash, history, requests, crashes>>

get_args ==
  /\ pc = "args"
  /\ \/ /\ op' = IF bcb.op # None THEN bcb.op ELSE FromFiles
        /\ retry_count' = IF bcb.op # None THEN bcb.retry ELSE 0
        /\ update_bootloader_message(op', retry_count')
     \/ /\ op' = FromFiles /\ retry_count' = 0
        /\ errors < MaxErrors /\ errors' = errors + 1
        /\ bcb' \in {bcb, [boot |-> TRUE, op |-> op', retry |-> 0]}
  /\ pc' = "run" /\ status' = "SUCCESS" /\ prompting' = FALSE
  /\ UNCHANGED <<files, flash, history, requests, crashes>>

-----------------------------------------------------------------------------
(* main: the branch that the command selects. *)

(* Low battery, or a boot reason in the blacklist: the update is not tried. *)
SkipPackage ==
  /\ pc = "run" /\ op = "update_package"
  /\ status' = "SKIPPED" /\ pc' = "after"
  /\ flash' = [flash EXCEPT !.system = Report(@, "skipped")]
  /\ UNCHANGED <<bcb, files, op, retry_count, prompting, history, bounds>>

StartPackage ==
  /\ pc = "run" /\ op = "update_package"
  /\ pc' = IF retry_count = 0 THEN "fresh" ELSE "install"
  /\ UNCHANGED <<bcb, files, flash, run, history, bounds>>

MutSetFirstRetry ==
  /\ pc = "fresh"
  /\ update_bootloader_message(None, retry_count + 1)
  /\ pc' = "install"
  /\ UNCHANGED <<files, flash, run, history, requests, crashes>>

(* A fresh update: retry_count=1 in the BCB marks an interrupted one. *)
SetFirstRetry ==
  /\ pc = "fresh"
  /\ update_bootloader_message(op, retry_count + 1)
  /\ pc' = "install"
  /\ UNCHANGED <<files, flash, run, history, requests, crashes>>

(* install_package gives up before the update binary runs: no mounts, no    *)
(* package, a package that does not verify or cannot be opened.  (A user    *)
(* who insists on an unverified package makes a second call, which is       *)
(* InstallStarts.)                                                          *)
HasPackage == op = "update_package" => files.package

InstallRefused ==
  /\ pc = "install"
  /\ status' \in IF HasPackage THEN {"ERROR", "CORRUPT", "UNVERIFIED"} ELSE {"ERROR", "CORRUPT"}
  /\ flash' = [flash EXCEPT !.system = Report(@, "failed")]
  /\ pc' = "after"
  /\ UNCHANGED <<bcb, files, op, retry_count, prompting, history, bounds>>

InstallStarts ==
  /\ pc = "install" /\ HasPackage
  /\ flash' = [flash EXCEPT !.system = op]
  /\ attempts' = IF op = "update_package" THEN attempts + 1 ELSE attempts
  /\ pc' = "updating"
  /\ UNCHANGED <<bcb, files, run, interrupted, finished, left, bounds>>

(* try_update_binary returns, after which main may wipe /cache or retry.    *)
(* Only --update_package is retried.                                        *)
InstallSucceeds ==
  /\ pc = "updating"
  /\ flash' = [flash EXCEPT !.system = "whole"]
  /\ status' = "SUCCESS"
  /\ pc' \in {"after", "wipe_cache"}
  /\ UNCHANGED <<bcb, files, op, retry_count, prompting, history, bounds>>

CanRetry == op = "update_package" /\ retry_count < RetryLimit

InstallFails ==
  /\ pc = "updating"
  /\ status' \in IF CanRetry THEN {"ERROR"} ELSE {"ERROR", "RETRY"}
  /\ flash' = [flash EXCEPT !.system = "failed"]
  /\ pc' = "after"
  /\ UNCHANGED <<bcb, files, op, retry_count, prompting, history, bounds>>

InstallAsksForRetry ==
  /\ pc = "updating" /\ CanRetry
  /\ status' = "RETRY" /\ pc' = "retry"
  /\ UNCHANGED <<bcb, files, flash, op, retry_count, prompting, history, bounds>>

MutRetryReboots ==
  /\ pc = "retry"
  /\ update_bootloader_message(op, retry_count)
  /\ pc' = "off"
  /\ op' = None /\ retry_count' = 0 /\ status' = "NONE" /\ prompting' = FALSE
  /\ UNCHANGED <<files, flash, history, requests, crashes>>

(* The next retry count goes into the BCB and the device reboots.  When the *)
(* reboot is refused, recovery carries on and finishes.                     *)
RetryReboots ==
  /\ pc = "retry"
  /\ update_bootloader_message(op, retry_count + 1)
  /\ pc' = "off"
  /\ op' = None /\ retry_count' = 0 /\ status' = "NONE" /\ prompting' = FALSE
  /\ UNCHANGED <<files, flash, history, requests, crashes>>

RetryRebootRefused ==
  /\ pc = "retry"
  /\ retry_count' = retry_count + 1
  /\ update_bootloader_message(op, retry_count')
  /\ pc' = "after"
  /\ flash' = [flash EXCEPT !.system = "failed"]
  /\ UNCHANGED <<files, op, status, prompting, history, requests, crashes>>

(* do_ubuntu_update: the script first renames its command file.  Without    *)
(* that file there is nothing to do, and that is a success.                 *)
NoUbuntuCommand ==
  /\ pc = "run" /\ op = "update-ubuntu" /\ ~files.ubuntu
  /\ pc' = "after"
  /\ UNCHANGED <<bcb, files, flash, run, history, bounds>>

StartUbuntu ==
  /\ pc = "run" /\ op = "update-ubuntu" /\ files.ubuntu
  /\ files' = [files EXCEPT !.ubuntu = FALSE]
  /\ flash' = [flash EXCEPT !.system = op]
  /\ pc' = "script"
  /\ UNCHANGED <<bcb, run, history, bounds>>

UbuntuEnds ==
  /\ pc = "script"
  /\ \/ flash' = [flash EXCEPT !.system = "whole"] /\ status' = "SUCCESS"
     \/ flash' = [flash EXCEPT !.system = "failed"] /\ status' = "ERROR"
  /\ pc' = "after"
  /\ UNCHANGED <<bcb, files, op, retry_count, prompting, history, bounds>>

(* wipe_data: /data, then /cache, then /metadata.  An erase that fails does *)
(* not stop the next one.                                                   *)
StartWipeData ==
  /\ pc = "run" /\ op = "wipe_data"
  /\ flash' = [flash EXCEPT !.data = op]
  /\ pc' = "erase_data"
  /\ UNCHANGED <<bcb, files, run, history, bounds>>

DataErased ==
  /\ pc = "erase_data"
  /\ \/ flash' = [flash EXCEPT !.data = "whole"] /\ UNCHANGED status
     \/ flash' = [flash EXCEPT !.data = "failed"] /\ status' = "ERROR"
  /\ pc' = IF HasCache THEN "erase_cache" ELSE "after"
  /\ UNCHANGED <<bcb, files, op, retry_count, prompting, history, bounds>>

(* erase_volume(CACHE_ROOT), and the volumes that follow it. *)
CacheErased ==
  /\ pc = "erase_cache"
  /\ \/ files' = EmptyCache /\ status' \in {status, "ERROR"}
     \/ UNCHANGED files /\ status' = "ERROR"
  /\ pc' = "after"
  /\ UNCHANGED <<bcb, flash, op, retry_count, prompting, history, bounds>>

(* prompt_and_wipe_data: the user decides. *)
StartPrompt ==
  /\ pc = "run" /\ op = "prompt_and_wipe_data"
  /\ pc' = "prompt"
  /\ UNCHANGED <<bcb, files, flash, run, history, bounds>>

TryAgain ==
  /\ pc = "prompt"
  /\ pc' = "after"
  /\ flash' = [flash EXCEPT !.data = Report(@, "failed")]
  /\ UNCHANGED <<bcb, files, run, history, bounds>>

FactoryReset ==
  /\ pc = "prompt"
  /\ flash' = [flash EXCEPT !.data = op]
  /\ pc' = "erase_data"
  /\ UNCHANGED <<bcb, files, run, history, bounds>>

StartWipeCache ==
  /\ pc = "run" /\ op = "wipe_cache"
  /\ IF HasCache THEN pc' = "erase_cache" /\ UNCHANGED status
                 ELSE pc' = "after" /\ status' = "ERROR"
  /\ UNCHANGED <<bcb, files, flash, op, retry_count, prompting, history, bounds>>

(* The wipe that a package asked for; only for --update_package its result  *)
(* does not count.                                                          *)
WipeCacheAfterInstall ==
  /\ pc = "wipe_cache"
  /\ \/ HasCache /\ files' = EmptyCache /\ UNCHANGED status
     \/ UNCHANGED files /\ status' = IF op = "update_package" THEN status ELSE "ERROR"
  /\ pc' = "after"
  /\ UNCHANGED <<bcb, flash, op, retry_count, prompting, history, bounds>>

(* wipe_ab_device: a package that is refused, or one pass over the listed   *)
(* partitions that ignores failures.                                        *)
RefuseWipeAb ==
  /\ pc = "run" /\ op = "wipe_ab"
  /\ status' = "ERROR" /\ pc' = "after"
  /\ flash' = [flash EXCEPT !.system = Report(@, "failed")]
  /\ UNCHANGED <<bcb, files, op, retry_count, prompting, history, bounds>>

StartWipeAb ==
  /\ pc = "run" /\ op = "wipe_ab"
  /\ flash' = [flash EXCEPT !.system = op]
  /\ pc' = "wipe_ab"
  /\ UNCHANGED <<bcb, files, run, history, bounds>>

WipeAbEnds ==
  /\ pc = "wipe_ab"
  /\ flash' = [flash EXCEPT !.system = "whole"]
  /\ pc' = "after"
  /\ UNCHANGED <<bcb, files, run, history, bounds>>

(* --sideload: the host may never send a package. *)
Sideload ==
  /\ pc = "run" /\ op = "sideload"
  /\ \/ pc' = "install" /\ UNCHANGED <<status, flash>>
     \/ /\ pc' = "after" /\ status' = "ERROR"
        /\ flash' = [flash EXCEPT !.system = Report(@, "failed")]
  /\ UNCHANGED <<bcb, files, op, retry_count, prompting, history, bounds>>

(* --just_exit, and no command at all. *)
NothingToDo ==
  /\ pc = "run" /\ op \in {"just_exit", None}
  /\ status' = IF op = None THEN "NONE" ELSE "SUCCESS"
  /\ pc' = "after"
  /\ UNCHANGED <<bcb, files, flash, op, retry_count, prompting, history, bounds>>

-----------------------------------------------------------------------------
(* The work is done: the menu appears without a command, when the text is   *)
(* visible, and again after an installation from the menu that failed.      *)
MustPrompt == status = "NONE" \/ (op \in {"menu_adb", "menu_storage"} /\ status # "SUCCESS")

AfterCommand ==
  /\ pc = "after"
  /\ prompting' \in IF MustPrompt THEN {TRUE} ELSE BOOLEAN
  /\ finished' = IF op \in Commands THEN op ELSE finished
  /\ pc' = "clear"
  /\ UNCHANGED <<bcb, files, flash, op, retry_count, status, interrupted, attempts, left, bounds>>

MutFinishClears ==
  /\ pc = "clear"
  /\ attempts' = 0 /\ left' = FALSE
  /\ pc' = "unlink"
  /\ UNCHANGED <<bcb, errors, files, flash, run, interrupted, finished, requests, crashes>>

(* finish_recovery: the BCB is cleared, then the command file goes. *)
FinishClears ==
  /\ pc = "clear"
  /\ clear_bootloader_message
  /\ left' = (errors' # errors)
  /\ attempts' = 0
  /\ pc' = "unlink"
  /\ UNCHANGED <<files, flash, run, interrupted, finished, requests, crashes>>

MutFinishUnlinks ==
  /\ pc = "unlink"
  /\ pc' = IF prompting THEN "menu" ELSE "reboot"
  /\ op' = None /\ retry_count' = 0
  /\ UNCHANGED <<bcb, files, errors, flash, status, prompting, history, requests, crashes>>

FinishUnlinks ==
  /\ pc = "unlink"
  /\ \/ /\ files' = IF HasCache THEN [files EXCEPT !.command = None] ELSE files
        /\ UNCHANGED <<errors, left>>
     \/ /\ HasCache /\ errors < MaxErrors /\ errors' = errors + 1
        /\ left' = TRUE /\ UNCHANGED files
  /\ pc' = IF prompting THEN "menu" ELSE "reboot"
  /\ op' = None /\ retry_count' = 0
  /\ UNCHANGED <<bcb, flash, status, prompting, interrupted, attempts, finished, requests, crashes>>

Reboot ==
  /\ pc = "reboot"
  /\ pc' = "off" /\ status' = "NONE"
  /\ UNCHANGED <<bcb, files, flash, op, retry_count, prompting, history, bounds>>

-----------------------------------------------------------------------------
(* prompt_and_wait: what the user chooses. *)
MenuReboot ==
  /\ pc = "menu"
  /\ prompting' = FALSE /\ pc' = "clear"
  /\ UNCHANGED <<bcb, files, flash, op, retry_count, status, history, bounds>>

MenuWipeData ==
  /\ pc = "menu" /\ "menu_wipe_data" \in MenuWork
  /\ op' = "menu_wipe_data" /\ status' = "SUCCESS"
  /\ flash' = [flash EXCEPT !.data = op']
  /\ pc' = "erase_data"
  /\ UNCHANGED <<bcb, files, retry_count, prompting, history, bounds>>

MenuWipeCache ==
  /\ pc = "menu" /\ "menu_wipe_cache" \in MenuWork
  /\ op' = "menu_wipe_cache" /\ status' = "SUCCESS"
  /\ pc' = IF HasCache THEN "erase_cache" ELSE "after"
  /\ UNCHANGED <<bcb, files, flash, retry_count, prompting, history, bounds>>

MenuWipeSystem ==
  /\ pc = "menu" /\ "menu_wipe_system" \in MenuWork
  /\ op' = "menu_wipe_system" /\ status' = "SUCCESS"
  /\ flash' = [flash EXCEPT !.system = op']
  /\ pc' = "erase_system"
  /\ UNCHANGED <<bcb, files, retry_count, prompting, history, bounds>>

(* An erased system volume is whole, though it does not boot. *)
SystemErased ==
  /\ pc = "erase_system"
  /\ flash' \in {[flash EXCEPT !.system = "whole"], [flash EXCEPT !.system = "failed"]}
  /\ pc' = "after"
  /\ UNCHANGED <<bcb, files, run, history, bounds>>

MenuAdb ==
  /\ pc = "menu" /\ "menu_adb" \in MenuWork
  /\ \/ op' = "menu_adb" /\ pc' = "install" /\ status' = "SUCCESS"
     \/ UNCHANGED op /\ pc' = "clear" /\ status' \in {"NONE", "ERROR"}
  /\ UNCHANGED <<bcb, files, flash, retry_count, prompting, history, bounds>>

(* apply_from_storage brings the device back to recovery after a power      *)
(* loss: set_sdcard_update_bootloader_message.                              *)
MenuStorage ==
  /\ pc = "menu" /\ "menu_storage" \in MenuWork
  /\ \/ /\ op' = "menu_storage"
        /\ update_bootloader_message(None, 0)
        /\ \/ pc' = "install" /\ status' = "SUCCESS"
           \/ pc' = "after" /\ status' = "ERROR"
     \/ /\ pc' = "clear" /\ status' \in {"NONE", "ERROR"} /\ UNCHANGED <<bcb, errors, op>>
  /\ UNCHANGED <<files, flash, retry_count, prompting, history, requests, crashes>>

-----------------------------------------------------------------------------
(* From get_args to the end of clear_bootloader_message a command is        *)
(* pending.                                                                 *)
Pending == Points \ {"off", "main", "args", "unlink", "reboot", "menu"}

(* A power loss now leaves an ended command behind: finish_recovery has     *)
(* cleared neither place, or the BCB but not yet the command file.          *)
Unremoved ==
  \/ pc = "clear" /\ (bcb.op # None \/ files.command # None)
  \/ pc = "unlink" /\ files.command # None

PowerLoss ==
  /\ pc \notin {"off", "main"} /\ crashes < MaxCrashes
  /\ crashes' = crashes + 1
  /\ interrupted' = IF pc \in Pending THEN op ELSE None
  /\ pc' = "off"
  /\ op' = None /\ retry_count' = 0 /\ status' = "NONE" /\ prompting' = FALSE
  /\ left' = (left \/ Unremoved)
  /\ UNCHANGED <<bcb, files, flash, attempts, finished, requests, errors>>

Init ==
  /\ bcb = NoMessage /\ files = EmptyCache
  /\ flash = [system |-> "whole", data |-> "whole"]
  /\ pc = "main" /\ op = None /\ retry_count = 0 /\ status = "NONE" /\ prompting = FALSE
  /\ interrupted = None /\ attempts = 0 /\ finished = None /\ left = FALSE
  /\ requests = 0 /\ crashes = 0 /\ errors = 0

(* The steps that nothing but the program and the hardware it drives decides. *)
Package == SkipPackage \/ StartPackage \/ SetFirstRetry \/ InstallRefused \/ InstallStarts
           \/ InstallSucceeds \/ InstallFails \/ InstallAsksForRetry \/ RetryReboots
           \/ RetryRebootRefused \/ WipeCacheAfterInstall
Ubuntu  == NoUbuntuCommand \/ StartUbuntu \/ UbuntuEnds
Wipe    == StartWipeData \/ DataErased \/ CacheErased \/ StartPrompt \/ StartWipeCache
           \/ RefuseWipeAb \/ StartWipeAb \/ WipeAbEnds \/ SystemErased
Finish  == AfterCommand \/ FinishClears \/ FinishUnlinks \/ Reboot
System  == BootMain \/ BootRecovery \/ get_args \/ Package \/ Ubuntu \/ Wipe \/ Sideload
           \/ NothingToDo \/ Finish
(* The user's decisions. *)
User    == UserEntersRecovery \/ TryAgain \/ FactoryReset \/ MenuReboot \/ MenuWipeData
           \/ MenuWipeCache \/ MenuWipeSystem \/ MenuAdb \/ MenuStorage

Idle == pc = "main" /\ UNCHANGED vars

Next == System \/ User \/ PowerLoss \/ Idle \/ (\E o \in Requests : MainRequests(o))

Spec == Init /\ [][Next]_vars
(* init restarts recovery's machine and recovery is one process that runs   *)
(* whenever it can; the user owes nothing.                                  *)
FairSpec == Spec /\ WF_vars(System)

-----------------------------------------------------------------------------
(* A power loss while a command, or an installation from storage, is        *)
(* pending brings the device back into recovery and never into the main     *)
(* system (recovery.cpp 247-248, 259-260, 497-499, 508-509), unless a BCB   *)
(* access failed.                                                           *)
BackToRecovery ==
  [][(pc = "off" /\ pc' = "main" /\ errors = 0)
       => interrupted \notin Commands \cup {"menu_storage"}]_vars

(* The main system never starts on a volume that a command left half        *)
(* written, except after the command has ended with a status other than     *)
(* INSTALL_SUCCESS: restarts finish the package install and the data wipe   *)
(* that a power loss interrupted, unless an access to the BCB or the        *)
(* command file failed.                                                     *)
WholeBeforeMain ==
  (pc = "main" /\ errors = 0) =>
    /\ flash.system \notin {"update_package", "wipe_ab"}
    /\ flash.data # "wipe_data"

(* However often the updater asks for a retry, the update binary starts at  *)
(* most RETRY_LIMIT + 1 times for one command, and once more for each power *)
(* loss, which the counter in the BCB does not see; unless an access to the *)
(* BCB or the command file failed, and the counter with it.                 *)
AttemptsBounded == errors = 0 => attempts <= RetryLimit + 1 + crashes

(* A command that has ended does not run again, whatever is lost and        *)
(* whichever access fails, with four exceptions, all inside the last        *)
(* finish_recovery: power was lost before clear_bootloader_message returned *)
(* (recovery.cpp 633), or between it and the unlink of the command file     *)
(* (639); or the one or the other failed, which the code only logs.         *)
RunsOnce == (pc = "run" /\ op \in Commands /\ op = finished) => left

(* Recovery does not cycle: again and again the device reaches the main     *)
(* system or a point that waits for the user, whatever the updater asks for. *)
LeavesRecovery == []<>(pc = "main" \/ pc \in Waiting)

(* get_args 497-499: "the device will always boot into recovery to finish   *)
(* the pending work, until finish_recovery() is called".  For an Ubuntu     *)
(* update: the main system does not start on what it left half written.     *)
UbuntuFinished == (pc = "main" /\ errors = 0) => flash.system # "update-ubuntu"
=============================================================================
