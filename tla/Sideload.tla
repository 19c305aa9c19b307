------------------------------- MODULE Sideload -------------------------------
(***************************************************************************)
(* Applying a package that is served through FUSE, from adb or from a      *)
(* volume: show_apply_update_menu, apply_from_storage and the sideload     *)
(* branch of main() in recovery.cpp, adb_install.cpp, the service of       *)
(* minadbd and the sdcard provider.                                        *)
(*                                                                         *)
(*   main thread      the menu, the install, the end of the session;       *)
(*   sideload thread  polls once a second for the package's file;          *)
(*   server           the child process: minadbd, or the sdcard provider,  *)
(*                    which mounts the FUSE file system;                   *)
(*   host, user, volumes: connect and disconnect, press keys, come and go. *)
(*                                                                         *)
(* The threads share sideload_cancelled and sideload_started without a     *)
(* lock, and the event queue of the user interface, of which only the      *)
(* KEY_REFRESH entries and the number of others matter here.               *)
(***************************************************************************)
EXTENDS Naturals, Sequences

CONSTANTS MaxSessions,   \* bound: packages applied in a row
          MaxDepth,      \* bound: directories below the root of the volume
          Timeout,       \* polls before the sideload thread gives up, 300 in the code
          SdTimeout,     \* polls before start_sdcard_fuse gives up, 10 in the code
          MaxErrors      \* bound: calls that fail

ASSUME SideloadAssumption ==
  /\ MaxSessions \in Nat /\ MaxDepth \in Nat /\ MaxErrors \in Nat
  /\ Timeout \in Nat \ {0} /\ SdTimeout \in Nat \ {0}

VARIABLES
  at,         \* where the main thread is
  flow,       \* "arg": started with --sideload, "menu": from the menu
  session,    \* number of the package being applied
  server,     \* the child: [kind, state, session]
  mount,      \* the session whose package is at FUSE_SIDELOAD_HOST_PATHNAME, 0 if none
  orphans,    \* the sessions of the providers that were forgotten and live on
  thread,     \* "none", "polling", "signal", "ended"; "uncreated": there is only its id
  polls,      \* seconds the poller has waited
  cancelled, started,   \* sideload_cancelled, sideload_started
  queue,      \* event_queue
  text,       \* show_text
  volume,     \* the volume is mounted
  depth,      \* directories browse_directory has gone down
  installed,  \* sessions whose package was installed, with the session it was taken for
  lost,       \* history: the thread's KEY_REFRESH was thrown away
  forgotten,  \* history: the sessions of all providers that were ever forgotten
  errors

sideloadVars == <<at, flow, session, server, mount, orphans, thread, polls, cancelled, started,
          queue, text, volume, depth, installed, lost, forgotten, errors>>
sideload == <<thread, polls, cancelled, started>>
storage == <<volume, depth>>
process == <<server, mount, orphans>>
history == <<installed, forgotten>>

None == [kind |-> "none", state |-> "none", session |-> 0]
Answers ==                    \* the file is there, and reading it succeeds
  mount # 0 /\ (mount = server.session => server.state \in {"serving", "replaced"})
Fails == errors < MaxErrors /\ errors' = errors + 1
Works == UNCHANGED errors

-----------------------------------------------------------------------------
(* The menu: adb, a volume, or back.                                         *)

(* sideload_start: adbd is stopped, minadbd forked, the flags reset and the  *)
(* thread created.  main() waits at once, the menu first shows itself.       *)
(* Neither call is checked: a failed fork leaves the pid -1, a failed        *)
(* pthread_create the id of some earlier thread, or 0.                       *)
sideload_start ==
  /\ at \in {"choose", "argument"} /\ session < MaxSessions
  /\ session' = session + 1
  /\ cancelled' = FALSE /\ started' = FALSE /\ polls' = 0 /\ lost' = FALSE
  /\ \E forked \in {"running", "unforked"}, created \in {"polling", "uncreated"} :
       /\ server' = [kind |-> "adb", state |-> forked, session |-> session + 1]
       /\ thread' = created
       /\ IF forked = "running" /\ created = "polling" THEN Works ELSE Fails
  /\ at' = IF at = "argument" THEN "join" ELSE "open"
  /\ flow' = IF at = "argument" THEN "arg" ELSE "menu"
  /\ UNCHANGED <<mount, orphans, queue, text, storage, history>>

Leave ==
  /\ at = "choose" /\ at' = "done"
  /\ UNCHANGED <<flow, session, process, sideload, queue, text, storage, history, lost, errors>>

(* get_menu_selection of "Cancel sideload" starts by flushing the queue.     *)
CancelMenu ==
  /\ at = "open" /\ at' = "menu"
  /\ lost' = (\E i \in DOMAIN queue : queue[i] = "REFRESH")
  /\ queue' = <<>>
  /\ UNCHANGED <<flow, session, process, sideload, text, storage, history, errors>>

(* An event in that menu: a refresh is taken for the thread's signal if the  *)
(* text is visible; a key on the only item cancels if the text is visible, a *)
(* touch on it always, for SelectMenu looks at the menu alone.               *)
TakeEvent ==
  /\ at = "menu" /\ queue # <<>>
  /\ queue' = Tail(queue)
  /\ \/ /\ Head(queue) = "REFRESH" /\ text
        /\ at' = "join" /\ UNCHANGED <<cancelled, lost>>
     \/ /\ Head(queue) = "REFRESH" /\ ~text
        /\ lost' = TRUE /\ UNCHANGED <<at, cancelled>>
     \/ /\ Head(queue) = "TOUCH" \/ (Head(queue) = "KEY" /\ text)
        /\ cancelled' = TRUE /\ at' = "cancel" /\ UNCHANGED lost
     \/ /\ Head(queue) = "KEY" /\ ~text
        /\ UNCHANGED <<at, cancelled, lost>>
  /\ UNCHANGED <<flow, session, process, thread, polls, started, text, storage, history, errors>>

-----------------------------------------------------------------------------
(* The sideload thread.                                                      *)

ThreadEnds == thread' = "ended" /\ UNCHANGED polls

(* One turn of the loop.  kill(pid, 0) succeeds for a child that has died    *)
(* and was not waited for, and for the pid -1 of a failed fork, so only the  *)
(* timeout, the cancel flag, the file or an unexpected error end it.         *)
Poll ==
  /\ thread = "polling"
  /\ \/ /\ polls >= Timeout \/ cancelled
        /\ ThreadEnds /\ Works /\ UNCHANGED <<started, queue>>
     \/ /\ polls < Timeout /\ ~cancelled /\ mount # 0
        /\ started' = TRUE /\ thread' = "signal" /\ Works /\ UNCHANGED <<polls, queue>>
     \/ /\ polls < Timeout /\ ~cancelled /\ mount = 0
        /\ polls' = polls + 1 /\ Works /\ UNCHANGED <<thread, started, queue>>
     \/ /\ polls < Timeout /\ ~cancelled
        /\ ThreadEnds /\ Fails /\ UNCHANGED <<started, queue>>
  /\ UNCHANGED <<at, flow, session, process, cancelled, text, storage, history, lost>>

(* A mistake: the user interface is not told. *)
MutCancelWaitKey ==
  /\ thread = "signal" /\ thread' = "ended"
  /\ UNCHANGED <<at, flow, session, process, polls, cancelled, started, queue, text, storage, history, lost, errors>>

(* CancelWaitKey: no test of the queue's length.                             *)
CancelWaitKey ==
  /\ thread = "signal" /\ thread' = "ended"
  /\ queue' = Append(queue, "REFRESH")
  /\ UNCHANGED <<at, flow, session, process, polls, cancelled, started, text, storage, history, lost, errors>>

(* sideload_wait: pthread_join.  Without a thread the id is stale: the call  *)
(* returns an error that nobody looks at, or the C library ends the process. *)
Joined ==
  /\ at \in {"join", "cancel"} /\ thread \in {"ended", "uncreated"}
  /\ thread' = "none"
  /\ \/ at' = IF at = "join" THEN "install" ELSE "stop"
     \/ thread = "uncreated" /\ at' = "aborted"
  /\ UNCHANGED <<flow, session, process, polls, cancelled, started, queue, text, storage, history, lost, errors>>

-----------------------------------------------------------------------------
(* The install.                                                              *)

(* sideload_install and install_package: nothing is installed unless the     *)
(* thread saw the file; a package whose signature is wrong may be asked for. *)
Install ==
  /\ at \in {"install", "unverified", "sdinstall", "sdunverified"}
  /\ \/ /\ at \in {"sdinstall", "sdunverified"} \/ started
        /\ Answers
        /\ installed' = installed \cup {<<mount, session>>}
        /\ at' = IF at \in {"install", "unverified"} THEN "stop" ELSE "sdstop"
     \/ /\ UNCHANGED installed                               \* refused, or not there any more
        /\ at' = IF at \in {"install", "unverified"} THEN "stop" ELSE "sdstop"
     \/ /\ at \in {"install", "sdinstall"} /\ Answers   \* INSTALL_UNVERIFIED
        /\ at = "sdinstall" \/ started
        /\ at' = IF at = "install" THEN "ask" ELSE "sdask"
        /\ UNCHANGED installed
  /\ UNCHANGED <<flow, session, process, sideload, queue, text, storage, forgotten, lost, errors>>

(* ask_to_continue_unverified_install: a menu, so the queue is flushed.      *)
AskUnverified ==
  /\ at \in {"ask", "sdask"} /\ queue' = <<>>
  /\ at' \in IF at = "ask" THEN {"unverified", "stop"} ELSE {"sdunverified", "sdstop"}
  /\ UNCHANGED <<flow, session, process, sideload, text, storage, history, lost, errors>>

(* A mistake: the child is not told to end. *)
Mutsideload_stop ==
  /\ at = "stop"
  /\ at' = IF flow = "arg" THEN "done" ELSE "choose"
  /\ started' = FALSE /\ queue' = <<>>
  /\ UNCHANGED <<flow, session, process, thread, polls, cancelled, text, storage, history, lost, errors>>

(* sideload_stop: SIGTERM, after which the server takes its mount down, and  *)
(* waitpid; the queue is flushed and adbd restarted.  The pid of a failed    *)
(* fork is -1, and kill(-1, SIGTERM) ends every process there is but init    *)
(* and recovery itself, the forgotten providers too.                         *)
sideload_stop ==
  /\ at = "stop"
  /\ server' = None
  /\ IF server.state = "unforked"
       THEN orphans' = {} /\ mount' = 0
       ELSE UNCHANGED orphans /\ mount' = IF mount = server.session THEN 0 ELSE mount
  /\ at' = IF flow = "arg" THEN "done" ELSE "choose"
  /\ started' = FALSE /\ queue' = <<>>
  /\ UNCHANGED <<flow, session, thread, polls, cancelled, text, storage, history, lost, errors>>

-----------------------------------------------------------------------------
(* The host and minadbd.                                                     *)

(* sideload-host: the file system is mounted, after whatever was mounted     *)
(* there has been taken down; bad arguments or a failed mount end the        *)
(* process.  A host that has gone away leaves the file system mounted, its   *)
(* reads failing; when it comes back, the new service thread's umount2 stops *)
(* the old one, which takes the new mount down and ends the process.         *)
sideload_host_service ==
  /\ server.kind = "adb"
  /\ \/ /\ server.state = "running"
        /\ server' = [server EXCEPT !.state = "serving"] /\ mount' = server.session
     \/ /\ server.state = "running"
        /\ server' = [server EXCEPT !.state = "zombie"] /\ UNCHANGED mount
     \/ /\ server.state = "deaf"
        /\ server' = [server EXCEPT !.state = "replaced"] /\ mount' = server.session
     \/ /\ server.state = "replaced"
        /\ server' = [server EXCEPT !.state = "zombie"] /\ mount' = 0
  /\ UNCHANGED <<at, flow, session, orphans, sideload, queue, text, storage, history, lost, errors>>

(* An adb that only knows "sideload:" ends the process.                      *)
service_to_fd ==
  /\ server.kind = "adb" /\ server.state = "running"
  /\ server' = [server EXCEPT !.state = "zombie"]
  /\ UNCHANGED <<at, flow, session, mount, orphans, sideload, queue, text, storage, history, lost, errors>>

(* The host is gone: read_block_adb fails with EIO, nothing else notices.    *)
read_block_adb ==
  /\ server.kind = "adb" /\ server.state = "serving" /\ Fails
  /\ server' = [server EXCEPT !.state = "deaf"]
  /\ UNCHANGED <<at, flow, session, mount, orphans, sideload, queue, text, storage, history, lost>>

-----------------------------------------------------------------------------
(* A package on a volume.                                                    *)

apply_from_storage ==
  /\ at = "choose" /\ session < MaxSessions
  /\ session' = session + 1 /\ depth' = 0
  /\ \/ volume' = TRUE /\ at' = "browse" /\ Works
     \/ UNCHANGED <<volume, at>> /\ Fails
  /\ UNCHANGED <<flow, process, sideload, queue, text, history, lost>>

(* browse_directory: down into a directory, up out of it, home, or a zip.    *)
(* Only going up out of the root unmounts the volume.                        *)
browse_directory ==
  /\ at = "browse" /\ queue' = <<>>
  /\ \/ depth < MaxDepth /\ depth' = depth + 1 /\ UNCHANGED <<at, volume>>
     \/ depth > 0 /\ depth' = depth - 1 /\ UNCHANGED <<at, volume>>
     \/ depth = 0 /\ at' = "choose" /\ volume' = FALSE /\ UNCHANGED depth
     \/ at' = "choose" /\ depth' = 0 /\ UNCHANGED volume
     \/ at' = "sdstart" /\ UNCHANGED <<depth, volume>>
  /\ UNCHANGED <<flow, session, process, sideload, text, history, lost, errors>>

(* start_sdcard_fuse: fork, then wait for the file.  After the timeout the   *)
(* token is returned all the same; on an unexpected error it is not, and the *)
(* child is forgotten.                                                       *)
start_sdcard_fuse ==
  /\ at = "sdstart"
  /\ \/ /\ server' = [kind |-> "sdcard", state |-> "running", session |-> session]
        /\ at' = "sdwait" /\ polls' = 0 /\ Works
     \/ at' = "choose" /\ Fails /\ UNCHANGED <<server, polls>>
  /\ UNCHANGED <<flow, session, mount, orphans, thread, cancelled, started, queue, text, storage, history, lost>>

SdPoll ==
  /\ at = "sdwait"
  /\ \/ /\ mount # 0 \/ polls >= SdTimeout
        /\ at' = "sdinstall" /\ volume' = FALSE /\ depth' = 0 /\ Works
        /\ UNCHANGED <<polls, server, orphans, forgotten>>
     \/ /\ mount = 0 /\ polls < SdTimeout
        /\ polls' = polls + 1 /\ Works
        /\ UNCHANGED <<at, storage, server, orphans, forgotten>>
     \/ /\ polls < SdTimeout /\ Fails
        /\ orphans' = orphans \cup {server.session} /\ forgotten' = forgotten \cup {server.session}
        /\ server' = None /\ at' = "choose"
        /\ UNCHANGED <<polls, storage>>
  /\ UNCHANGED <<flow, session, mount, thread, cancelled, started, queue, text, installed, lost>>

(* The provider opens the package, for which the volume must still be        *)
(* mounted, and mounts the file system; a forgotten one does so too, and a   *)
(* file system it has mounted already stays.                                 *)
run_sdcard_fuse ==
  /\ \/ /\ server.kind = "sdcard" /\ server.state = "running"
        /\ IF volume THEN server' = [server EXCEPT !.state = "serving"] /\ mount' = server.session
                     ELSE server' = [server EXCEPT !.state = "zombie"] /\ UNCHANGED mount
     \/ \E o \in orphans : volume /\ mount' = o /\ UNCHANGED server
  /\ UNCHANGED <<at, flow, session, orphans, sideload, queue, text, storage, history, lost, errors>>

(* A mistake: the provider is left running. *)
Mutfinish_sdcard_fuse ==
  /\ at = "sdstop" /\ at' = "choose"
  /\ UNCHANGED <<flow, session, process, sideload, queue, text, storage, history, lost, errors>>

finish_sdcard_fuse ==
  /\ at = "sdstop" /\ at' = "choose"
  /\ server' = None /\ mount' = IF mount = server.session THEN 0 ELSE mount
  /\ UNCHANGED <<flow, session, orphans, sideload, queue, text, storage, history, lost, errors>>

-----------------------------------------------------------------------------
(* The user and the volumes.                                                 *)

PressKey ==
  /\ at \in {"open", "menu", "join"} /\ Len(queue) < 1
  /\ \E e \in {"KEY", "TOUCH"} : queue' = Append(queue, e)
  /\ UNCHANGED <<at, flow, session, process, sideload, text, storage, history, lost, errors>>

ToggleText ==
  /\ at = "menu" /\ text /\ text' = FALSE
  /\ UNCHANGED <<at, flow, session, process, sideload, queue, storage, history, lost, errors>>

(* A volume came or went: WaitInputEvent returns KEY_REFRESH by itself.      *)
VolumesChange ==
  /\ at = "menu" /\ queue = <<>> /\ text
  /\ at' = "join"
  /\ UNCHANGED <<flow, session, process, sideload, queue, text, storage, history, lost, errors>>

Done == at \in {"done", "aborted"} /\ UNCHANGED sideloadVars

(* The states of the main thread: in an adb session, with a provider of a    *)
(* volume, between sessions, and on the way to a provider.                   *)
AdbStates == {"open", "menu", "join", "cancel", "install", "ask", "unverified", "stop"}
SdStates == {"sdwait", "sdinstall", "sdask", "sdunverified", "sdstop"}
PathStates == {"browse", "sdstart"}
IdleStates == {"choose", "argument", "done"} \cup PathStates
Queued == {"REFRESH", "KEY", "TOUCH"}

Servers == [kind : {"none", "adb", "sdcard"}, session : 0..MaxSessions,
            state : {"none", "unforked", "running", "serving", "deaf", "replaced", "zombie"}]

(* The state is well typed: sessions, directories and failures stay within   *)
(* their bounds, and only refreshes, keys and touches are queued.            *)
SideloadTypeOK ==
  /\ at \in AdbStates \cup SdStates \cup IdleStates \cup {"aborted"} /\ flow \in {"arg", "menu"}
  /\ session \in 0..MaxSessions /\ mount \in 0..MaxSessions
  /\ orphans \subseteq 1..MaxSessions /\ forgotten \subseteq 1..MaxSessions
  /\ server \in Servers
  /\ thread \in {"none", "uncreated", "polling", "signal", "ended"} /\ polls \in Nat
  /\ cancelled \in BOOLEAN /\ started \in BOOLEAN /\ text \in BOOLEAN
  /\ volume \in BOOLEAN /\ lost \in BOOLEAN
  /\ queue \in Seq(Queued) /\ depth \in 0..MaxDepth
  /\ installed \subseteq (1..MaxSessions) \X (1..MaxSessions) /\ errors \in 0..MaxErrors

SideloadInit ==
  /\ at \in {"choose", "argument"} /\ flow = "menu" /\ session = 0
  /\ server = None /\ mount = 0 /\ orphans = {}
  /\ thread = "none" /\ polls = 0 /\ cancelled = FALSE /\ started = FALSE
  /\ queue = <<>> /\ text = TRUE /\ volume = FALSE /\ depth = 0
  /\ installed = {} /\ forgotten = {} /\ lost = FALSE /\ errors = 0

MainThread == CancelMenu \/ TakeEvent \/ Joined \/ Install \/ AskUnverified \/ sideload_stop
              \/ start_sdcard_fuse \/ SdPoll \/ finish_sdcard_fuse
SideloadThread == Poll \/ CancelWaitKey
Environment == sideload_host_service \/ service_to_fd \/ read_block_adb \/ run_sdcard_fuse
               \/ PressKey \/ ToggleText \/ VolumesChange

SideloadNext == \/ sideload_start \/ apply_from_storage \/ browse_directory \/ Leave
        \/ MainThread \/ SideloadThread \/ Environment \/ Done

SideloadSpec == SideloadInit /\ [][SideloadNext]_sideloadVars /\ WF_sideloadVars(MainThread) /\ WF_sideloadVars(SideloadThread)

-----------------------------------------------------------------------------
(* What is installed is the package this session was started for: no file    *)
(* that an earlier server left behind is taken for it (adb_install.cpp,      *)
(* sideload_stop; fuse_sdcard_provider.cpp, finish_sdcard_fuse), except that *)
(* of a provider whose start_sdcard_fuse failed to stat the file and freed   *)
(* its token (fuse_sdcard_provider.cpp 121-124): that child is never ended.  *)
InstallsWhatWasOffered == \A i \in installed : i[1] = i[2] \/ i[1] \in forgotten

(* Between two sessions the code has no child, no thread, no flag and no     *)
(* queued signal left of the last one that the next could take for its own,  *)
(* and the package's file is gone, unless a forgotten provider (see above)   *)
(* still lives: it keeps its file, or mounts it in the middle of a later     *)
(* session.                                                                  *)
NothingLeftBehind ==
  at \in {"choose", "done"} =>
    /\ server.state = "none" /\ thread = "none" /\ ~started
    /\ mount # 0 => mount \in orphans
    /\ \A i \in DOMAIN queue : queue[i] # "REFRESH"

(* A package the thread has found is taken up: the session goes on to the    *)
(* install or is ended by the user, if the signal was not flushed by the     *)
(* opening menu and the text is visible (adb_install.cpp, CancelWaitKey).    *)
OfferIsTaken == started /\ at = "menu" /\ ~lost ~> at # "menu" \/ lost \/ ~text
=============================================================================
