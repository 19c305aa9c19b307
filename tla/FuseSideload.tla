----------------------------- MODULE FuseSideload -----------------------------
(***************************************************************************)
(* fuse_sideload.cpp: the file system with the one file package.zip, whose *)
(* blocks come from a provider (the adb host, or a file on the sdcard).    *)
(* One thread serves one request of the kernel at a time; the steps below  *)
(* are the calls of fetch_block inside handle_read.  The requests that     *)
(* change no state (init, lookup, getattr, open, flush, release) are left  *)
(* out.                                                                    *)
(*                                                                         *)
(* A SHA-256 stands for the one content it is the hash of, so hashes[b] is *)
(* the content accepted for block b, or NoHash (all zeroes in the code).   *)
(***************************************************************************)
EXTENDS Naturals, FiniteSets

CONSTANTS
  BlockSize,    \* fd.block_size
  FileSize,     \* fd.file_size, in bytes
  Bytes,        \* the values of a byte
  Zero,         \* the byte that pads
  Memory,       \* the amounts of free memory to start with
  Required,     \* INSTALL_REQUIRED_MEMORY
  PointerSize,  \* sizeof(uint8_t*)
  Word32,       \* 2^32
  Word64,       \* 2^64
  NoHash,       \* hashes[b] of a block not read yet: all zeroes
  Nothing       \* a null pointer in block_cache

ASSUME SizesAssumption ==
  /\ BlockSize \in Nat \ {0} /\ FileSize \in Nat
  /\ Word32 \in Nat \ {0} /\ Word64 \in Nat \ {0}
  /\ Required \in Nat /\ PointerSize \in Nat
  /\ Memory \subseteq Nat
ASSUME ZeroAssumption == Zero \in Bytes

NoBlock == Word32 - 1     \* curr_block = -1

file_blocks == IF FileSize = 0 THEN 0 ELSE ((FileSize - 1) \div BlockSize) + 1
Blocks == 0..(file_blocks - 1)
Data   == [0..(BlockSize - 1) -> Bytes]
Zeroes == [k \in 0..(BlockSize - 1) |-> Zero]

(* run_fuse_sideload refuses a file of too many blocks. *)
ASSUME FileAssumption == file_blocks + 1 < NoBlock
ASSUME NullAssumption == NoHash \notin Data /\ Nothing \notin Data

(* run_fuse_sideload: the size of the cache, 0 for none.  avail wraps when  *)
(* memory is short, which is what the comparison with mem finds out.        *)
avail(mem) == (mem + Word64 - ((Required + file_blocks * PointerSize) % Word64)) % Word64
max_size(mem) ==
  LET n == (avail(mem) \div BlockSize) % Word32 IN IF n > file_blocks THEN file_blocks ELSE n
CacheMax(mem) ==
  IF mem > avail(mem) /\ max_size(mem) >= file_blocks \div 100 /\ max_size(mem) >= 2
  THEN max_size(mem) ELSE 0

(* fetch_block: a partial last block is shorter.  The product is 32 bits wide. *)
fetch_size(b) ==
  LET start == (b * BlockSize) % Word32
  IN  IF start + BlockSize > FileSize THEN FileSize - start ELSE BlockSize

VARIABLES
  block_data,            \* the buffer
  curr_block,            \* the block it holds
  stale,                 \* has a failing provider overwritten it under curr_block?
  hashes, block_cache, block_cache_size, block_cache_max_size,
  pc,                    \* "wait", "fetch", "replied", "error" or "stopped"
  req,                   \* the last FUSE_READ: [block, offset, size]
  block,                 \* the block being fetched for it
  extra_block,           \* the first block of a read that spills over, or Nothing
  out,                   \* the data of the reply
  mixed                  \* did stale data go into it?

buffer == <<block_data, curr_block, stale>>
cache == <<block_cache, block_cache_size, block_cache_max_size>>
request == <<pc, req, block, extra_block, out, mixed>>
vars == <<buffer, hashes, cache, request>>

Request == [block : 0..file_blocks, offset : 0..(BlockSize - 1), size : 1..BlockSize]
Cached  == {b \in Blocks : block_cache[b] # Nothing}

BufferType == block_data \in Data /\ curr_block \in 0..(file_blocks + 1) \cup {NoBlock}
CacheType ==
  /\ hashes \in [Blocks -> Data \cup {NoHash}]
  /\ block_cache \in [Blocks -> Data \cup {Nothing}]
  /\ block_cache_max_size \in 0..file_blocks
  /\ block_cache_size \in 0..block_cache_max_size
RequestType ==
  /\ pc \in {"wait", "fetch", "replied", "error", "stopped"}
  /\ req \in Request
  /\ block \in 0..(file_blocks + 1)
  /\ extra_block \in Data \cup {Nothing}
  /\ out \in Data
FlagType == stale \in BOOLEAN /\ mixed \in BOOLEAN

(* The types; in particular the cache never counts more blocks than it may  *)
(* hold.                                                                    *)
TypeOK == BufferType /\ CacheType /\ RequestType /\ FlagType

-----------------------------------------------------------------------------
(* External: the kernel sends FUSE_READ, at most one block long (max_read). *)
ReadRequest(r) ==
  /\ pc \in {"wait", "replied", "error"}
  /\ req' = r /\ block' = r.block /\ extra_block' = Nothing /\ mixed' = FALSE
  /\ out' = Zeroes
  /\ pc' = "fetch"
  /\ UNCHANGED <<buffer, hashes, cache>>

(* handle_read after fetch_block returned 0 with d in the buffer: a read    *)
(* that spills over saves the block and fetches the next one, else the      *)
(* reply is sent.                                                           *)
Spills == req.offset + req.size > BlockSize

ReplyData(d) ==
  [k \in 0..(BlockSize - 1) |->
     IF k >= req.size THEN Zero
     ELSE IF extra_block = Nothing THEN d[req.offset + k]
     ELSE IF req.offset + k < BlockSize THEN extra_block[req.offset + k]
     ELSE d[req.offset + k - BlockSize]]

handle_read(d) ==
  \/ /\ Spills /\ extra_block = Nothing
     /\ extra_block' = d /\ block' = block + 1
     /\ UNCHANGED <<pc, req, out>>
  \/ /\ ~(Spills /\ extra_block = Nothing)
     /\ out' = ReplyData(d) /\ pc' = "replied"
     /\ UNCHANGED <<req, block, extra_block>>

(* fetch_block, one action for each way out. *)
FetchCurrent ==
  /\ pc = "fetch" /\ block = curr_block
  /\ mixed' = (mixed \/ stale)
  /\ handle_read(block_data)
  /\ UNCHANGED <<buffer, hashes, cache>>

FetchPastEnd ==
  /\ pc = "fetch" /\ block # curr_block /\ block >= file_blocks
  /\ block_data' = Zeroes /\ curr_block' = block /\ stale' = FALSE
  /\ handle_read(Zeroes)
  /\ UNCHANGED <<hashes, cache, mixed>>

FetchCached ==
  /\ pc = "fetch" /\ block # curr_block /\ block \in Cached
  /\ block_data' = block_cache[block] /\ curr_block' = block /\ stale' = FALSE
  /\ handle_read(block_cache[block])
  /\ UNCHANGED <<hashes, cache, mixed>>

(* vtab.read_block is called with the tail of a short block already zeroed. *)
AsksProvider ==
  /\ pc = "fetch" /\ block # curr_block /\ block < file_blocks /\ block \notin Cached

Received(d) == [k \in 0..(BlockSize - 1) |-> IF k < fetch_size(block) THEN d[k] ELSE Zero]

(* The provider sends the data accepted before. *)
FetchAgain(d) ==
  /\ AsksProvider /\ hashes[block] = Received(d)
  /\ block_data' = Received(d) /\ curr_block' = block /\ stale' = FALSE
  /\ handle_read(Received(d))
  /\ UNCHANGED <<hashes, cache, mixed>>

(* The block to evict: the first one found going backwards from the current *)
(* one.                                                                     *)
Behind(b) == IF b < block THEN block - b ELSE block + file_blocks - b
IsVictim(v) == v \in Cached /\ \A b \in Cached : Behind(v) <= Behind(b)

(* block_cache_enter: when the cache is full, a block makes room. *)
block_cache_enter(d) ==
  \/ block_cache_max_size = 0 /\ UNCHANGED cache
  \/ /\ block_cache_max_size # 0 /\ block_cache_size < block_cache_max_size
     /\ block_cache' = [block_cache EXCEPT ![block] = d]
     /\ block_cache_size' = block_cache_size + 1
     /\ UNCHANGED block_cache_max_size
  \/ /\ block_cache_max_size # 0 /\ block_cache_size = block_cache_max_size
     /\ \E v \in Blocks : IsVictim(v)
                          /\ block_cache' = [block_cache EXCEPT ![v] = Nothing, ![block] = d]
     /\ UNCHANGED <<block_cache_size, block_cache_max_size>>

(* The first read of a block: whatever arrives is accepted. *)
FetchFirst(d) ==
  /\ AsksProvider /\ hashes[block] = NoHash
  /\ block_data' = Received(d) /\ curr_block' = block /\ stale' = FALSE
  /\ hashes' = [hashes EXCEPT ![block] = Received(d)]
  /\ block_cache_enter(Received(d))
  /\ handle_read(Received(d))
  /\ UNCHANGED mixed

(* Two mutants: the block goes into the cache before it is verified;        *)
(* curr_block is not reset.                                                 *)
MutMismatchCached(d) ==
  /\ AsksProvider /\ hashes[block] \notin {NoHash, Received(d)}
  /\ block_data' = Received(d) /\ curr_block' = NoBlock /\ stale' = FALSE
  /\ block_cache_enter(Received(d))
  /\ pc' = "error"
  /\ UNCHANGED <<hashes, req, block, extra_block, out, mixed>>
MutMismatchCurrent(d) ==
  /\ AsksProvider /\ hashes[block] \notin {NoHash, Received(d)}
  /\ block_data' = Received(d) /\ curr_block' = block /\ stale' = FALSE
  /\ pc' = "error"
  /\ UNCHANGED <<hashes, cache, req, block, extra_block, out, mixed>>

(* The provider sends something else than the first time. *)
FetchMismatch(d) ==
  /\ AsksProvider /\ hashes[block] \notin {NoHash, Received(d)}
  /\ block_data' = Received(d) /\ curr_block' = NoBlock /\ stale' = FALSE
  /\ pc' = "error"
  /\ UNCHANGED <<hashes, cache, req, block, extra_block, out, mixed>>

(* The provider fails after n bytes.  curr_block stays. *)
FetchFails(d, n) ==
  /\ AsksProvider /\ n < fetch_size(block)
  /\ block_data' = [k \in 0..(BlockSize - 1) |->
                      IF k < n THEN d[k] ELSE IF k < fetch_size(block) THEN block_data[k] ELSE Zero]
  /\ stale' = TRUE
  /\ pc' = "error"
  /\ UNCHANGED <<curr_block, hashes, cache, req, block, extra_block, out, mixed>>

(* SIGTERM, or the file system is unmounted under us. *)
Stop ==
  /\ pc \in {"wait", "replied", "error"}
  /\ pc' = "stopped"
  /\ UNCHANGED <<buffer, hashes, cache, req, block, extra_block, out, mixed>>

Stopped == pc = "stopped" /\ UNCHANGED vars

NoRequest == [block |-> 0, offset |-> 0, size |-> 1]

Init ==
  /\ block_data = Zeroes /\ curr_block = NoBlock /\ stale = FALSE
  /\ hashes = [b \in Blocks |-> NoHash]
  /\ block_cache = [b \in Blocks |-> Nothing] /\ block_cache_size = 0
  /\ block_cache_max_size \in {CacheMax(mem) : mem \in Memory}
  /\ pc = "wait" /\ req = NoRequest /\ block = 0
  /\ extra_block = Nothing /\ out = Zeroes /\ mixed = FALSE

Fetch ==
  \/ FetchCurrent \/ FetchPastEnd \/ FetchCached
  \/ \E d \in Data : \/ FetchAgain(d) \/ FetchFirst(d) \/ FetchMismatch(d)
                     \/ \E n \in 0..(BlockSize - 1) : FetchFails(d, n)

Next == (\E r \in Request : ReadRequest(r)) \/ Fetch \/ Stop \/ Stopped

Spec == Init /\ [][Next]_vars

-----------------------------------------------------------------------------
(* The byte accepted for the position i of block b (past its end: of b + 1). *)
Accepted(b, i) ==
  LET c == IF i < BlockSize THEN b ELSE b + 1
      j == IF i < BlockSize THEN i ELSE i - BlockSize
  IN  IF c < file_blocks THEN hashes[c][j] ELSE Zero

SameAsAccepted == \A k \in 0..(req.size - 1) : out[k] = Accepted(req.block, req.offset + k)

(* What a block's first read returned is what it is for good: no later      *)
(* answer of the provider, and no eviction, changes it.                     *)
AcceptedForever ==
  [][\A b \in Blocks : hashes[b] # NoHash => hashes'[b] = hashes[b]]_vars

(* Every byte of a reply is the byte its position's first read returned,    *)
(* over cache hits, evictions, spilled reads, short and missing blocks and  *)
(* a provider that changes its mind, as long as no read of the provider     *)
(* failed since the buffer was filled.                                      *)
RepliesAgree == (pc = "replied" /\ ~mixed) => SameAsAccepted

(* The cache holds accepted data only and counts what it holds, so that a   *)
(* full cache always has a victim.                                          *)
CacheFaithful ==
  /\ \A b \in Cached : block_cache[b] = hashes[b]
  /\ block_cache_size = Cardinality(Cached)

(* fuse_sideload.cpp 25-27: "this filesystem maintains the following        *)
(* invariant: each read of a given position returns the same data as the    *)
(* first read at that position".                                            *)
FirstReadInvariant == pc = "replied" => SameAsAccepted

=============================================================================
