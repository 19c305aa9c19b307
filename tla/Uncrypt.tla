-------------------------------- MODULE Uncrypt --------------------------------
(***************************************************************************)
(* uncrypt/uncrypt.cpp: the service of the main system that prepares a     *)
(* package on /data for recovery, which has no key of /data.  It rewrites  *)
(* an encrypted file in place, as plain data on the raw block device, and  *)
(* leaves the list of its blocks in block.map, which recovery maps with    *)
(* MemMapping::MapBlockFile (otautil/SysUtil.cpp).  It also sets and       *)
(* clears the BCB.                                                         *)
(*                                                                         *)
(* init starts one process per request.  It talks over a socket to its     *)
(* caller, which is external and keeps the protocol of uncrypt.cpp 51-85.  *)
(* raw and cache are the block device and the files on /cache as the       *)
(* kernel shows them, rawD and cacheD what a power loss leaves of them.    *)
(*                                                                         *)
(* Data is a block of a package, <<p, k>>, or Cipher (encrypted) or Junk.  *)
(* Of block.map and block.map.tmp the model keeps the lines that the last  *)
(* run wrote and the length of the file, which an older, longer text makes *)
(* longer than these lines are.                                            *)
(***************************************************************************)
EXTENDS Naturals, Sequences

CONSTANTS
  Packages,     \* the packages on /data
  Layout,       \* Layout[p]: the device blocks of p, which FIBMAP returns
  Crypto,       \* may /data be encrypted, or not?
  HeaderLength, \* HeaderLength[p]: bytes of the first two lines of p's map
  MapLength,    \* MapLength[p]: bytes of all its lines
  Window,       \* WINDOW_SIZE
  Requests,     \* what the caller asks for: a set of [op, pkg]
  None, Cipher, Junk,
  MaxRequests,  \* bound: requests
  MaxCrashes,   \* bound: power losses
  MaxErrors     \* bound: failing system calls and dying callers

Ops == {"uncrypt", "setup_bcb", "setup_wipe", "setup_missing", "clear_bcb"}

BlocksOf(p) == {Layout[p][k] : k \in 1..Len(Layout[p])}
Blocks      == UNION {BlocksOf(p) : p \in Packages}
Places      == UNION {{p} \X (1..Len(Layout[p])) : p \in Packages}
Data        == Places \cup {Cipher, Junk}

BlockRange == Nat \X Nat
File == [pkg : Packages \cup {None}, count : Nat, ranges : Seq(BlockRange), size : Nat,
         synced : BOOLEAN]

ASSUME LayoutAssumption ==
  /\ Layout \in [Packages -> Seq(Nat \ {0})]
  /\ \A p \in Packages : Layout[p] # <<>>
  /\ \A x, y \in Places : Layout[x[1]][x[2]] = Layout[y[1]][y[2]] => x = y
ASSUME LengthAssumption ==
  /\ HeaderLength \in [Packages -> Nat] /\ MapLength \in [Packages -> Nat]
  /\ \A p \in Packages : HeaderLength[p] < MapLength[p]
ASSUME NullAssumption ==
  /\ None \notin Packages \cup File
  /\ {Cipher, Junk} \cap Places = {} /\ Cipher # Junk
ASSUME RequestsAssumption ==
  /\ Requests \subseteq [op : Ops, pkg : Packages \cup {None}]
  /\ Crypto \subseteq BOOLEAN
ASSUME BoundsAssumption ==
  /\ Window \in Nat \ {0, 1}
  /\ MaxRequests \in Nat /\ MaxCrashes \in Nat /\ MaxErrors \in Nat

VARIABLES
  client,       \* the caller: "idle", "connect", "length", "message", "waiting" or "ack"
  request,      \* its request
  answer,       \* how its last request ended: "none", "100", "-1" or "broken"
  server,       \* where the service is, "gone" when it does not run
  status,       \* the status it is going to report
  open,         \* the caller's end of the socket is open
  toServer, toClient,
  buffers, head, tail, head_block, pos, ranges,  \* the locals of produce_block_map
  raw, rawD,
  cache, cacheD,  \* [map, tmp]: block.map and block.map.tmp, or None
  bcb,          \* the command that was set up, or "none"
  wipe,         \* is the wipe package in misc the one of that command?
  encrypted,
  paged,        \* blocks of packages that may be in the page cache
  spoilt,       \* packages that were read back after they had been rewritten
  requests, crashes, errors

caller  == <<client, request, answer>>
socket  == <<open, toServer, toClient>>
ring    == <<buffers, head, tail, head_block, pos, ranges>>
device  == <<raw, rawD, paged, spoilt>>
files   == <<cache, cacheD>>
misc    == <<bcb, wipe>>
bounds  == <<requests, crashes, errors>>
vars == <<caller, server, status, socket, ring, device, files, misc, encrypted, bounds>>

Cache == [map : File \cup {None}, tmp : File \cup {None}]

(* Points of the service that lie in produce_block_map. *)
Producing == {"remove", "hello", "loop", "drain", "ranges", "fsync_map", "fsync_dev", "rename",
              "fsync_dir"}
Serving   == {"find", "length", "message", "bcb", "wipe", "clear"} \cup Producing

ProtocolType ==
  /\ client \in {"idle", "connect", "length", "message", "waiting", "ack"}
  /\ request \in [op : Ops, pkg : Packages \cup {None}]
  /\ answer \in {"none", "100", "-1", "broken"}
  /\ server \in {"gone", "accept", "report", "code"} \cup Serving
  /\ status \in {"100", "-1"}
  /\ toServer \in Seq({"length", "message", "code"})
  /\ toClient \in Seq({"progress", "100", "-1"})
RingType ==
  /\ buffers \in [0..(Window - 1) -> Data]
  /\ head \in 0..(Window - 1) /\ tail \in 0..(Window - 1)
  /\ head_block \in Nat /\ pos \in Nat /\ ranges \in Seq(BlockRange)
StoreType ==
  /\ raw \in [Blocks -> Data] /\ rawD \in [Blocks -> Data]
  /\ paged \subseteq Blocks /\ spoilt \subseteq Packages
  /\ cache \in Cache /\ cacheD \in Cache
  /\ bcb \in Ops \cup {"none"}
FlagType  == open \in BOOLEAN /\ wipe \in BOOLEAN /\ encrypted \in BOOLEAN
CountType == requests \in Nat /\ crashes \in Nat /\ errors \in Nat

TypeOK == ProtocolType /\ RingType /\ StoreType /\ FlagType /\ CountType

-----------------------------------------------------------------------------
pkg == request.pkg
n   == Len(Layout[pkg])

Plain(b)   == CHOOSE x \in Places : Layout[x[1]][x[2]] = b
NewFile    == [pkg |-> None, count |-> 0, ranges |-> <<>>, size |-> 0, synced |-> FALSE]

(* The file, once l bytes have been written from its beginning. *)
Written(f, l) == [f EXCEPT !.size = IF f.size < l THEN l ELSE f.size, !.synced = FALSE]

(* Read through the file system.  A block that has been rewritten is plain  *)
(* on the device and decrypts to junk, unless the page cache still has it.  *)
ReadBlock(b) ==
  IF raw[b] = Cipher THEN {Plain(b)}
  ELSE IF b \in paged THEN {Plain(b), Junk} ELSE {Junk}

next_index(i) == (i + 1) % Window

(* A block that comes right after the last range extends it. *)
add_block_to_ranges(rs, b) ==
  IF rs # <<>> /\ rs[Len(rs)][2] = b
  THEN [rs EXCEPT ![Len(rs)] = <<@[1], b + 1>>]
  ELSE Append(rs, <<b, b + 1>>)

(* A write to the socket whose other end is closed fails. *)
write_status_to_socket(s) == toClient' = IF open THEN Append(toClient, s) ELSE toClient

-----------------------------------------------------------------------------
Init ==
  /\ client = "idle" /\ request = [op |-> "clear_bcb", pkg |-> None] /\ answer = "none"
  /\ server = "gone" /\ status = "-1"
  /\ open = FALSE /\ toServer = <<>> /\ toClient = <<>>
  /\ buffers = [i \in 0..(Window - 1) |-> Junk]
  /\ head = 0 /\ tail = 0 /\ head_block = 0 /\ pos = 0 /\ ranges = <<>>
  /\ encrypted \in Crypto
  /\ raw = [b \in Blocks |-> IF encrypted THEN Cipher ELSE Plain(b)] /\ rawD = raw
  /\ paged = Blocks /\ spoilt = {}
  /\ cache = [map |-> None, tmp |-> None] /\ cacheD = cache
  /\ bcb = "none" /\ wipe = FALSE
  /\ requests = 0 /\ crashes = 0 /\ errors = 0

(* External: the caller, a1 to a12.  It does not start the service while it *)
(* is running.                                                              *)
ClientStarts(r) ==
  /\ client = "idle" /\ server = "gone" /\ requests < MaxRequests
  /\ client' = "connect" /\ request' = r /\ answer' = "none"
  /\ server' = "accept" /\ requests' = requests + 1
  /\ UNCHANGED <<status, socket, ring, device, files, misc, encrypted, crashes, errors>>

ClientSends ==
  /\ \/ client = "length" /\ client' = "message"
     \/ client = "message" /\ client' = "waiting"
  /\ toServer' = Append(toServer, client)
  /\ UNCHANGED <<request, answer, server, status, open, toClient, ring, device, files, misc,
                 encrypted, bounds>>

ClientReads ==
  /\ client = "waiting" /\ toClient # <<>>
  /\ toClient' = Tail(toClient)
  /\ IF Head(toClient) = "progress"
     THEN UNCHANGED <<client, answer>>
     ELSE client' = "ack" /\ answer' = Head(toClient)
  /\ UNCHANGED <<request, server, status, open, toServer, ring, device, files, misc, encrypted,
                 bounds>>

ClientAcks ==
  /\ client = "ack"
  /\ client' = "idle" /\ open' = FALSE
  /\ toServer' = Append(toServer, "code")
  /\ UNCHANGED <<request, answer, server, status, toClient, ring, device, files, misc, encrypted,
                 bounds>>

(* The service has ended and its socket is gone. *)
ClientFindsSocketGone ==
  /\ client # "idle" /\ server = "gone"
  /\ client' = "idle"
  /\ answer' = IF client = "ack" THEN answer ELSE "broken"
  /\ UNCHANGED <<request, server, status, socket, ring, device, files, misc, encrypted, bounds>>

ClientDies ==
  /\ client \in {"length", "message", "waiting", "ack"} /\ errors < MaxErrors
  /\ errors' = errors + 1
  /\ client' = "idle" /\ answer' = "none" /\ open' = FALSE
  /\ UNCHANGED <<request, server, status, toServer, toClient, ring, device, files, misc,
                 encrypted, requests, crashes>>

-----------------------------------------------------------------------------
(* main: c3. *)
Accept ==
  /\ server = "accept" /\ client = "connect"
  /\ open' = TRUE
  /\ server' = CASE request.op = "uncrypt"   -> "find"
                 [] request.op = "clear_bcb" -> "clear"
                 [] OTHER                    -> "length"
  /\ client' = IF server' = "length" THEN "length" ELSE "waiting"
  /\ UNCHANGED <<request, answer, status, toServer, toClient, ring, device, files, misc,
                 encrypted, bounds>>

(* No fstab, no socket: the process ends, and init destroys the socket. *)
Exits ==
  /\ server' = "gone"
  /\ open' = FALSE /\ toServer' = <<>> /\ toClient' = <<>>
  /\ UNCHANGED <<caller, status, ring, device, files, misc, encrypted, requests, crashes>>

StartFails ==
  /\ server = "accept" /\ errors < MaxErrors
  /\ errors' = errors + 1
  /\ Exits

(* c13: the code of the caller, or the end of its stream. *)
MutReceiveCode == server = "code" /\ Exits /\ UNCHANGED errors

ReceiveCode ==
  /\ server = "code" /\ (toServer # <<>> \/ ~open)
  /\ Exits /\ UNCHANGED errors

(* SIGPIPE, unless init left it ignored. *)
KilledBySigpipe ==
  /\ server \in {"hello", "loop", "report"} /\ ~open
  /\ Exits /\ UNCHANGED errors

(* c10. *)
Report ==
  /\ server = "report"
  /\ write_status_to_socket(status)
  /\ server' = "code"
  /\ UNCHANGED <<caller, status, open, toServer, ring, device, files, misc, encrypted, bounds>>

EndWith(s) == server' = "report" /\ status' = s

(* A system call of uncrypt, find_uncrypt_package or produce_block_map      *)
(* fails; the files stay as they are.                                       *)
UncryptFails ==
  /\ server \in {"find"} \cup Producing /\ errors < MaxErrors
  /\ errors' = errors + 1
  /\ EndWith("-1")
  /\ UNCHANGED <<caller, socket, ring, device, files, misc, encrypted, requests, crashes>>

(* uncrypt: a package that is not on /data is left alone. *)
FindPackage ==
  /\ server = "find"
  /\ IF pkg = None THEN EndWith("100") ELSE server' = "remove" /\ UNCHANGED status
  /\ UNCHANGED <<caller, socket, ring, device, files, misc, encrypted, bounds>>

-----------------------------------------------------------------------------
(* produce_block_map *)

(* A leftover block.map.tmp is opened without truncating it. *)
RemoveMap ==
  /\ server = "remove"
  /\ cache' = [map |-> None, tmp |-> IF cache.tmp = None THEN NewFile ELSE cache.tmp]
  /\ server' = "hello"
  /\ UNCHANGED <<caller, status, socket, ring, device, cacheD, misc, encrypted, bounds>>

(* Status 0 must reach the caller; then the first lines of the map. *)
WriteHeader ==
  /\ server = "hello"
  /\ write_status_to_socket("progress")
  /\ IF open
     THEN /\ LET f == [cache.tmp EXCEPT !.pkg = pkg, !.count = 0, !.ranges = <<>>]
             IN  cache' = [cache EXCEPT !.tmp = Written(f, HeaderLength[pkg])]
          /\ server' = "loop" /\ UNCHANGED status
          /\ buffers' = [i \in 0..(Window - 1) |-> Junk]
          /\ head' = 0 /\ tail' = 0 /\ head_block' = 0 /\ pos' = 0 /\ ranges' = <<>>
     ELSE EndWith("-1") /\ UNCHANGED <<cache, ring>>
  /\ UNCHANGED <<caller, open, toServer, device, cacheD, misc, encrypted, bounds>>

(* Write out the head buffer: the block number into ranges and, if the      *)
(* device is encrypted, the data to the device.                             *)
FlushHead ==
  LET b == Layout[pkg][head_block + 1] IN
  /\ ranges' = add_block_to_ranges(ranges, b)
  /\ raw' = IF encrypted THEN [raw EXCEPT ![b] = buffers[head]] ELSE raw
  /\ head' = next_index(head)
  /\ head_block' = head_block + 1

NextBlock ==
  /\ server = "loop" /\ pos < n
  /\ IF pos > 0 THEN write_status_to_socket("progress") ELSE UNCHANGED toClient
  /\ IF next_index(tail) = head THEN FlushHead ELSE UNCHANGED <<ranges, raw, head, head_block>>
  /\ LET b == Layout[pkg][pos + 1] IN
       IF encrypted
       THEN \E d \in ReadBlock(b) :
              /\ buffers' = [buffers EXCEPT ![tail] = d]
              /\ spoilt' = IF d = Junk THEN spoilt \cup {pkg} ELSE spoilt
              /\ paged' = paged \cup {b}
       ELSE UNCHANGED <<buffers, spoilt, paged>>
  /\ pos' = pos + 1
  /\ tail' = next_index(tail)
  /\ UNCHANGED <<caller, server, status, open, toServer, rawD, files, misc, encrypted, bounds>>

AllRead ==
  /\ server = "loop" /\ pos >= n
  /\ server' = "drain"
  /\ UNCHANGED <<caller, status, socket, ring, device, files, misc, encrypted, bounds>>

Drain ==
  /\ server = "drain"
  /\ IF head # tail
     THEN FlushHead /\ UNCHANGED server
     ELSE server' = "ranges" /\ UNCHANGED <<ranges, raw, head, head_block>>
  /\ UNCHANGED <<caller, status, socket, buffers, tail, pos, rawD, paged, spoilt, files, misc,
                 encrypted, bounds>>

(* What a longer leftover block.map.tmp holds behind these lines stays. *)
WriteRanges ==
  /\ server = "ranges"
  /\ LET f == [cache.tmp EXCEPT !.count = Len(ranges), !.ranges = ranges]
     IN  cache' = [cache EXCEPT !.tmp = Written(f, MapLength[pkg])]
  /\ server' = "fsync_map"
  /\ UNCHANGED <<caller, status, socket, ring, device, cacheD, misc, encrypted, bounds>>

(* A write fails somewhere in these lines. *)
WriteRangesFails ==
  /\ server = "ranges" /\ errors < MaxErrors
  /\ errors' = errors + 1
  /\ \E l \in HeaderLength[pkg]..MapLength[pkg] :
       cache' = [cache EXCEPT !.tmp = Written(cache.tmp, l)]
  /\ EndWith("-1")
  /\ UNCHANGED <<caller, socket, ring, device, cacheD, misc, encrypted, requests, crashes>>

(* An fsync on /cache commits its journal. *)
FsyncMap ==
  /\ server = "fsync_map"
  /\ cache' = [cache EXCEPT !.tmp.synced = TRUE]
  /\ cacheD' = cache'
  /\ server' = "fsync_dev"
  /\ UNCHANGED <<caller, status, socket, ring, device, misc, encrypted, bounds>>

MutFsyncDevice ==
  /\ server = "fsync_dev"
  /\ server' = "rename"
  /\ UNCHANGED <<caller, status, socket, ring, device, files, misc, encrypted, bounds>>

FsyncDevice ==
  /\ server = "fsync_dev"
  /\ rawD' = IF encrypted THEN raw ELSE rawD
  /\ server' = "rename"
  /\ UNCHANGED <<caller, status, socket, ring, raw, paged, spoilt, files, misc, encrypted, bounds>>

RenameMap ==
  /\ server = "rename"
  /\ cache' = [map |-> cache.tmp, tmp |-> None]
  /\ server' = "fsync_dir"
  /\ UNCHANGED <<caller, status, socket, ring, device, cacheD, misc, encrypted, bounds>>

MutFsyncDir ==
  /\ server = "fsync_dir"
  /\ EndWith("100")
  /\ UNCHANGED <<caller, socket, ring, device, files, misc, encrypted, bounds>>

FsyncDir ==
  /\ server = "fsync_dir"
  /\ cacheD' = cache
  /\ EndWith("100")
  /\ UNCHANGED <<caller, socket, ring, device, cache, misc, encrypted, bounds>>

-----------------------------------------------------------------------------
(* setup_bcb: c5 and c7.  A stream that ends, or a wipe package that cannot *)
(* be read, is not reported.                                                *)
ReceiveMessage ==
  /\ server \in {"length", "message"}
  /\ IF toServer # <<>>
     THEN /\ toServer' = Tail(toServer)
          /\ server' = IF server = "length" THEN "message"
                       ELSE IF request.op = "setup_missing" THEN "code" ELSE "bcb"
     ELSE ~open /\ server' = "code" /\ UNCHANGED toServer
  /\ UNCHANGED <<caller, status, open, toClient, ring, device, files, misc, encrypted, bounds>>

(* c8: write_bootloader_message.  When its fsync fails, the message may be  *)
(* there nevertheless.                                                      *)
WriteBcb ==
  /\ server = "bcb"
  /\ \/ /\ bcb' = request.op /\ wipe' = FALSE
        /\ IF request.op = "setup_wipe" THEN server' = "wipe" /\ UNCHANGED status ELSE EndWith("100")
        /\ UNCHANGED errors
     \/ /\ errors < MaxErrors /\ errors' = errors + 1
        /\ (bcb' = request.op /\ wipe' = FALSE) \/ UNCHANGED misc
        /\ EndWith("-1")
  /\ UNCHANGED <<caller, socket, ring, device, files, encrypted, requests, crashes>>

WriteWipePackage ==
  /\ server = "wipe"
  /\ \/ wipe' = TRUE /\ EndWith("100") /\ UNCHANGED errors
     \/ wipe' \in BOOLEAN /\ EndWith("-1") /\ errors < MaxErrors /\ errors' = errors + 1
  /\ UNCHANGED <<caller, socket, ring, device, files, bcb, encrypted, requests, crashes>>

MutClearBcb ==
  /\ server = "clear"
  /\ \/ bcb' = "none" /\ EndWith("100") /\ UNCHANGED errors
     \/ /\ bcb' \in {bcb, "none"} /\ server' = "code" /\ UNCHANGED status
        /\ errors < MaxErrors /\ errors' = errors + 1
  /\ UNCHANGED <<caller, socket, ring, device, files, wipe, encrypted, requests, crashes>>

clear_bcb ==
  /\ server = "clear"
  /\ \/ bcb' = "none" /\ EndWith("100") /\ UNCHANGED errors
     \/ bcb' \in {bcb, "none"} /\ EndWith("-1") /\ errors < MaxErrors /\ errors' = errors + 1
  /\ UNCHANGED <<caller, socket, ring, device, files, wipe, encrypted, requests, crashes>>

-----------------------------------------------------------------------------
(* The journal of /cache commits on its own. *)
CommitCache ==
  /\ cacheD # cache
  /\ cacheD' = cache
  /\ UNCHANGED <<caller, server, status, socket, ring, device, cache, misc, encrypted, bounds>>

(* Any part of the unsynced blocks is lost, and the data of unsynced files. *)
AfterLoss(f) == IF f = None \/ f.synced THEN {f} ELSE {f, NewFile}

PowerLoss ==
  /\ crashes < MaxCrashes
  /\ crashes' = crashes + 1
  /\ \E lost \in SUBSET {b \in Blocks : raw[b] # rawD[b]} :
       raw' = [b \in Blocks |-> IF b \in lost THEN rawD[b] ELSE raw[b]]
  /\ rawD' = raw' /\ paged' = {}
  /\ \E m \in AfterLoss(cacheD.map), t \in AfterLoss(cacheD.tmp) : cache' = [map |-> m, tmp |-> t]
  /\ cacheD' = cache'
  /\ client' = "idle" /\ server' = "gone"
  /\ open' = FALSE /\ toServer' = <<>> /\ toClient' = <<>>
  /\ UNCHANGED <<request, answer, status, ring, spoilt, misc, encrypted, requests, errors>>

Caller == ClientSends \/ ClientReads \/ ClientAcks \/ ClientFindsSocketGone
Produce == RemoveMap \/ WriteHeader \/ NextBlock \/ AllRead \/ Drain \/ WriteRanges \/ FsyncMap
           \/ FsyncDevice \/ RenameMap \/ FsyncDir
Service == Accept \/ ReceiveCode \/ Report \/ FindPackage \/ Produce \/ ReceiveMessage \/ WriteBcb
           \/ WriteWipePackage \/ clear_bcb
Fault == ClientDies \/ StartFails \/ KilledBySigpipe \/ UncryptFails \/ WriteRangesFails
         \/ CommitCache \/ PowerLoss

(* The caller waits for the status, the service for the caller's code:      *)
(* setup_bcb could not read the wipe package and returned without a status. *)
Unanswered == client = "waiting" /\ server = "code" /\ request.op = "setup_missing"

Rest == ((client = "idle" /\ server = "gone") \/ Unanswered) /\ UNCHANGED vars

Next == (\E r \in Requests : ClientStarts(r)) \/ Caller \/ Service \/ Fault \/ Rest

Spec == Init /\ [][Next]_vars
(* Both processes run; the caller keeps to the protocol unless it dies. *)
FairSpec == Spec /\ WF_vars(Caller) /\ WF_vars(Service)

-----------------------------------------------------------------------------
(* MemMapping::MapBlockFile: the checks on the lines, and what it maps.  Of *)
(* an older text behind the lines, Trim drops a last newline; more than     *)
(* that is a line too many.                                                 *)
MapExpand(rs) ==
  LET f[i \in 0..Len(rs)] ==
        IF i = 0 THEN <<>>
        ELSE f[i - 1] \o [j \in 1..(rs[i][2] - rs[i][1]) |-> rs[i][1] + j - 1]
  IN  f[Len(rs)]
MapAccepted(f) ==
  /\ f.pkg # None
  /\ f.count > 0 /\ Len(f.ranges) = f.count /\ f.size <= MapLength[f.pkg] + 1
  /\ \A i \in 1..f.count : f.ranges[i][2] > f.ranges[i][1]
  /\ Len(MapExpand(f.ranges)) = Len(Layout[f.pkg])
MapBlockFile(f, medium) ==
  [k \in 1..Len(Layout[f.pkg]) |-> medium[MapExpand(f.ranges)[k]]]

(* "Recovery can take this block map file and retrieve the underlying file  *)
(* data" (uncrypt.cpp 39-40).  Whenever a block.map exists, now or after a  *)
(* power loss: what recovery maps is the package, unless an earlier,        *)
(* interrupted run had rewritten part of it; and recovery can map it,       *)
(* unless the run that made it found a block.map.tmp longer than its own    *)
(* text, which it opened without O_TRUNC (262-263): the end of the older    *)
(* text sticks out, and MapBlockFile refuses the map.                       *)
MapMeansPackage ==
  \A f \in {cache.map, cacheD.map} :
    f # None =>
      /\ f.synced
      /\ f.size <= MapLength[f.pkg] => MapAccepted(f)
      /\ (MapAccepted(f) /\ f.pkg \notin spoilt) =>
           MapBlockFile(f, rawD) = [k \in 1..Len(Layout[f.pkg]) |-> <<f.pkg, k>>]

(* What the caller was told has happened, and a power loss does not undo    *)
(* it: "100" means that the map is on the medium, that the command is in    *)
(* the BCB with its wipe package, or that the BCB is clear.                 *)
StatusIsTrue ==
  answer = "100" =>
    CASE request.op = "uncrypt" ->
           pkg # None => (cacheD.map # None /\ cacheD.map.pkg = pkg)
      [] request.op = "setup_bcb" -> bcb = "setup_bcb"
      [] request.op = "setup_wipe" -> bcb = "setup_wipe" /\ wipe
      [] OTHER -> bcb = "none"

(* a12 and c13 "are necessary to ensure a11 happens before the socket gets  *)
(* destroyed" (uncrypt.cpp 84-85): the service does not end while a caller  *)
(* that is alive waits for its status.                                      *)
SocketOutlivesStatus ==
  [][(server = "code" /\ server' = "gone" /\ crashes' = crashes) => client # "waiting"]_vars

(* "Upon finishing send 100 or -1" (uncrypt.cpp 73-74): every request comes *)
(* to an end, and the two sides wait for each other in one case only:       *)
(* setup_bcb returns without a status when it cannot read the wipe package  *)
(* that the command names (605-607).                                        *)
RequestsEnd == []<>(client = "idle" \/ Unanswered)
=============================================================================
