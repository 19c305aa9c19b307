---------------------------- MODULE SideloadProofs ----------------------------
(***************************************************************************)
(* Proofs about the two halves of sideloading: the file system that serves *)
(* a package through FUSE, block by block, and the sessions that start it  *)
(* and stop it.                                                            *)
(*                                                                         *)
(* FuseSideload, for every size of the file, of a block and of the memory. *)
(* RepliesAgree is not inductive: whether a reply is right depends on the  *)
(* buffer and the cache it was copied from, and on the half that a spilled *)
(* read saved a step earlier.  IInv says so of each of them.               *)
(*                                                                         *)
(* Sideload, for any number of sessions and failures and any time-outs:    *)
(* what a session leaves behind.                                           *)
(***************************************************************************)
EXTENDS FuseSideload, Sideload, FiniteSetTheorems, TLAPS

-----------------------------------------------------------------------------
(* FuseSideload: the file system.                                            *)

(* The content that h says is accepted for block b; past the end, zeroes. *)
AcceptedIn(h, b) == IF b < file_blocks THEN h[b] ELSE Zeroes

(* Unless a read failed in between, the buffer is what was accepted. *)
BufferGood ==
  ~stale /\ curr_block \in 0..(file_blocks + 1) => block_data = AcceptedIn(hashes, curr_block)

(* So is every block in the cache. *)
CacheGood == \A b \in Blocks : block_cache[b] # Nothing => block_cache[b] = hashes[b]

(* The half of a spilled read that waits for the other half. *)
HalfGood ==
  pc = "fetch" =>
    IF extra_block = Nothing
    THEN block = req.block
    ELSE /\ block = req.block + 1 /\ Spills
         /\ ~mixed => extra_block = AcceptedIn(hashes, req.block)

Counted == block_cache_size = Cardinality(Cached)

IInv == TypeOK /\ BufferGood /\ CacheGood /\ HalfGood /\ RepliesAgree

-----------------------------------------------------------------------------
LEMMA FileBlocksNat == file_blocks \in Nat
<1>1. CASE FileSize = 0
  BY <1>1 DEF file_blocks
<1>2. CASE FileSize # 0
  <2>1. FileSize - 1 \in Nat
    BY <1>2, SizesAssumption
  <2>2. (FileSize - 1) \div BlockSize \in Nat
    BY <2>1, SizesAssumption
  <2> QED
    BY <1>2, <2>2 DEF file_blocks
<1> QED
  BY <1>1, <1>2

LEMMA CacheMaxBounded ==
  ASSUME NEW mem \in Nat
  PROVE  CacheMax(mem) \in 0..file_blocks
<1>1. Required + file_blocks * PointerSize \in Nat
  BY SizesAssumption, FileBlocksNat
<1>2. (Required + file_blocks * PointerSize) % Word64 \in 0..(Word64 - 1)
  BY <1>1, SizesAssumption
<1>3. mem + Word64 - ((Required + file_blocks * PointerSize) % Word64) \in Nat
  BY <1>2, SizesAssumption
<1>4. avail(mem) \in 0..(Word64 - 1)
  BY <1>3, SizesAssumption DEF avail
<1>5. avail(mem) \div BlockSize \in Nat
  BY <1>4, SizesAssumption
<1>6. (avail(mem) \div BlockSize) % Word32 \in 0..(Word32 - 1)
  BY <1>5, SizesAssumption
<1>7. max_size(mem) \in 0..file_blocks
  BY <1>6, FileBlocksNat, SizesAssumption DEF max_size
<1> QED
  BY <1>7, FileBlocksNat DEF CacheMax

LEMMA ZeroesData == Zeroes \in Data
BY ZeroAssumption DEF Zeroes, Data

LEMMA ReceivedData == \A d \in Data : Received(d) \in Data
BY ZeroAssumption DEF Received, Data

(* The reply is built from bytes of the two blocks. *)
LEMMA ReplyDataType ==
  ASSUME RequestType, NEW d \in Data, extra_block # Nothing => Spills,
         extra_block = Nothing => ~Spills
  PROVE  ReplyData(d) \in Data
<1> SUFFICES ASSUME NEW k \in 0..(BlockSize - 1)
             PROVE  ReplyData(d)[k] \in Bytes
  BY DEF ReplyData, Data
<1>1. /\ req.size \in 1..BlockSize /\ req.offset \in 0..(BlockSize - 1)
      /\ extra_block \in Data \cup {Nothing} /\ BlockSize \in Nat
  BY SizesAssumption DEF RequestType, Request
<1>2. CASE k >= req.size
  BY <1>2, ZeroAssumption DEF ReplyData
<1>3. CASE k < req.size /\ extra_block = Nothing
  <2>1. req.offset + k \in 0..(BlockSize - 1)
    BY <1>1, <1>3 DEF Spills
  <2> QED
    BY <2>1, <1>1, <1>3 DEF ReplyData, Data
<1>4. CASE k < req.size /\ extra_block # Nothing /\ req.offset + k < BlockSize
  <2>1. req.offset + k \in 0..(BlockSize - 1)
    BY <1>1, <1>4
  <2> QED
    BY <2>1, <1>1, <1>4 DEF ReplyData, Data
<1>5. CASE k < req.size /\ extra_block # Nothing /\ ~(req.offset + k < BlockSize)
  <2>1. req.offset + k - BlockSize \in 0..(BlockSize - 1)
    BY <1>1, <1>5
  <2> QED
    BY <2>1, <1>1, <1>5 DEF ReplyData, Data
<1> QED
  BY <1>1, <1>2, <1>3, <1>4, <1>5

(* An accepted block stays accepted. *)
LEMMA StaysAccepted ==
  ASSUME NEW b \in Nat, NEW h, NEW h2, NEW d \in Data,
         \A c \in Blocks : h[c] # NoHash => h2[c] = h[c],
         d = AcceptedIn(h, b)
  PROVE  d = AcceptedIn(h2, b)
BY FileBlocksNat, NullAssumption DEF AcceptedIn, Blocks

(* handle_read with the block d that fetch_block left in the buffer. *)
LEMMA HandleRead ==
  ASSUME RequestType, CacheType, HalfGood, pc = "fetch",
         NEW d \in Data, handle_read(d), mixed => mixed',
         \A c \in Blocks : hashes[c] # NoHash => hashes'[c] = hashes[c],
         ~mixed' => d = AcceptedIn(hashes', block)
  PROVE  RequestType' /\ HalfGood' /\ RepliesAgree'
<1>1. /\ req \in Request /\ req.size \in 1..BlockSize /\ req.offset \in 0..(BlockSize - 1)
      /\ req.block \in 0..file_blocks /\ block \in 0..(file_blocks + 1)
      /\ extra_block \in Data \cup {Nothing} /\ BlockSize \in Nat /\ out \in Data
  BY SizesAssumption DEF RequestType, Request
<1>2. CASE Spills /\ extra_block = Nothing
  <2>1. /\ extra_block' = d /\ block' = block + 1 /\ UNCHANGED <<pc, req, out>>
        /\ block = req.block
    BY <1>2 DEF handle_read, HalfGood
  <2>2. RequestType'
    BY <1>1, <2>1, FileBlocksNat DEF RequestType
  <2>3. HalfGood'
    BY <1>2, <2>1, NullAssumption DEF HalfGood, Spills
  <2>4. RepliesAgree'
    BY <2>1 DEF RepliesAgree
  <2> QED
    BY <2>2, <2>3, <2>4
<1>3. CASE ~(Spills /\ extra_block = Nothing)
  <2>1. /\ out' = ReplyData(d) /\ pc' = "replied" /\ UNCHANGED <<req, block, extra_block>>
    BY <1>3 DEF handle_read
  <2>2. extra_block # Nothing => Spills
    BY DEF HalfGood
  <2>3. RequestType'
    BY <1>1, <1>3, <2>1, <2>2, ReplyDataType DEF RequestType
  <2>4. HalfGood'
    BY <2>1 DEF HalfGood
  <2>5. RepliesAgree'
    <3> SUFFICES ASSUME ~mixed', NEW k \in 0..(req.size - 1)
                 PROVE  ReplyData(d)[k] = Accepted(req.block, req.offset + k)'
      BY <2>1 DEF RepliesAgree, SameAsAccepted
    <3> DEFINE i == req.offset + k
    <3>1. k \in 0..(BlockSize - 1) /\ ~(k >= req.size) /\ i \in Nat
      BY <1>1
    <3>2. d = AcceptedIn(hashes', block)
      OBVIOUS
    <3>3. CASE extra_block = Nothing
      <4>1. i \in 0..(BlockSize - 1) /\ block = req.block
        BY <1>1, <1>3, <3>1, <3>3 DEF Spills, HalfGood
      <4>2. ReplyData(d)[k] = d[i]
        BY <3>1, <3>3 DEF ReplyData
      <4>3. Accepted(req.block, i)' = AcceptedIn(hashes', block)[i]
        BY <2>1, <4>1, <1>1, FileBlocksNat DEF Accepted, AcceptedIn, Zeroes
      <4> QED
        BY <4>2, <4>3, <3>2
    <3>4. CASE extra_block # Nothing /\ i < BlockSize
      <4>1. extra_block = AcceptedIn(hashes, req.block) /\ extra_block \in Data
        BY <1>1, <3>4 DEF HalfGood
      <4>2. extra_block = AcceptedIn(hashes', req.block)
        BY <4>1, <1>1, FileBlocksNat, StaysAccepted
      <4>3. ReplyData(d)[k] = extra_block[i]
        BY <3>1, <3>4 DEF ReplyData
      <4>4. Accepted(req.block, i)' = AcceptedIn(hashes', req.block)[i]
        BY <2>1, <3>1, <3>4, <1>1, FileBlocksNat DEF Accepted, AcceptedIn, Zeroes
      <4> QED
        BY <4>2, <4>3, <4>4
    <3>5. CASE extra_block # Nothing /\ ~(i < BlockSize)
      <4>1. block = req.block + 1 /\ i - BlockSize \in 0..(BlockSize - 1)
        <5>1. block = req.block + 1
          BY <3>5 DEF HalfGood
        <5>2. i >= BlockSize /\ i < BlockSize + BlockSize
          BY <1>1, <3>1, <3>5
        <5> QED
          BY <5>1, <5>2, <3>1, <1>1
      <4>2. ReplyData(d)[k] = d[i - BlockSize]
        BY <3>1, <3>5, <1>1 DEF ReplyData
      <4>3. Accepted(req.block, i)' = AcceptedIn(hashes', block)[i - BlockSize]
        BY <2>1, <3>5, <4>1, <1>1, FileBlocksNat DEF Accepted, AcceptedIn, Zeroes
      <4> QED
        BY <4>2, <4>3, <3>2
    <3> QED
      BY <3>3, <3>4, <3>5
  <2> QED
    BY <2>3, <2>4, <2>5
<1> QED
  BY <1>2, <1>3

(* block_cache_enter of a block that was just accepted. *)
LEMMA EnterCache ==
  ASSUME CacheType, AsksProvider, block \in Blocks, NEW d \in Data, block_cache_enter(d)
  PROVE  /\ block_cache' \in [Blocks -> Data \cup {Nothing}]
         /\ block_cache_max_size' \in 0..file_blocks
         /\ block_cache_size' \in 0..block_cache_max_size'
         /\ \A b \in Blocks : block_cache'[b] # Nothing =>
              block_cache'[b] = IF b = block THEN d ELSE block_cache[b]
<1>1. CASE block_cache_max_size = 0 /\ UNCHANGED cache
  BY <1>1 DEF CacheType, cache, AsksProvider, Cached
<1>2. CASE /\ block_cache_max_size # 0 /\ block_cache_size < block_cache_max_size
           /\ block_cache' = [block_cache EXCEPT ![block] = d]
           /\ block_cache_size' = block_cache_size + 1
           /\ UNCHANGED block_cache_max_size
  BY <1>2, FileBlocksNat DEF CacheType
<1>3. CASE /\ block_cache_max_size # 0 /\ block_cache_size = block_cache_max_size
           /\ \E v \in Blocks : IsVictim(v)
                /\ block_cache' = [block_cache EXCEPT ![v] = Nothing, ![block] = d]
           /\ UNCHANGED <<block_cache_size, block_cache_max_size>>
  BY <1>3 DEF CacheType
<1> QED
  BY <1>1, <1>2, <1>3 DEF block_cache_enter

(* A fetch leaves the buffer as accepted, whatever happens to the cache. *)
LEMMA Fetched ==
  ASSUME IInv, pc = "fetch", NEW d \in Data, handle_read(d),
         block_data' = d, curr_block' = block, UNCHANGED stale \/ stale' = FALSE,
         mixed' \in BOOLEAN, mixed => mixed', stale' => mixed',
         CacheType', CacheGood',
         \A c \in Blocks : hashes[c] # NoHash => hashes'[c] = hashes[c],
         ~mixed' => d = AcceptedIn(hashes', block),
         ~stale' => d = AcceptedIn(hashes', block)
  PROVE  IInv'
<1>1. RequestType' /\ HalfGood' /\ RepliesAgree'
  BY HandleRead DEF IInv, TypeOK
<1>2. BufferType'
  BY FileBlocksNat DEF IInv, TypeOK, BufferType, RequestType
<1>3. FlagType'
  BY DEF IInv, TypeOK, FlagType
<1>4. BufferGood'
  BY DEF BufferGood
<1> QED
  BY <1>1, <1>2, <1>3, <1>4 DEF IInv, TypeOK

LEMMA InitIInv == Init => IInv
<1> SUFFICES ASSUME Init PROVE IInv
  OBVIOUS
<1>1. BufferType
  BY ZeroesData DEF Init, BufferType
<1>2. CacheType
  BY CacheMaxBounded, FileBlocksNat, SizesAssumption DEF Init, CacheType
<1>3. RequestType
  BY ZeroesData, FileBlocksNat, SizesAssumption DEF Init, RequestType, Request, NoRequest
<1>4. FlagType
  BY DEF Init, FlagType
<1>5. BufferGood
  BY FileAssumption, FileBlocksNat DEF Init, BufferGood
<1>6. CacheGood /\ HalfGood /\ RepliesAgree
  BY DEF Init, CacheGood, HalfGood, RepliesAgree
<1> QED
  BY <1>1, <1>2, <1>3, <1>4, <1>5, <1>6 DEF IInv, TypeOK

LEMMA NextIInv == IInv /\ [Next]_vars => IInv'
<1> SUFFICES ASSUME IInv, [Next]_vars PROVE IInv'
  OBVIOUS
<1> USE DEF IInv, TypeOK
<1>1. ASSUME NEW r \in Request, ReadRequest(r) PROVE IInv'
  <2>1. BufferType' /\ CacheType' /\ BufferGood' /\ CacheGood'
    BY <1>1 DEF ReadRequest, buffer, cache, BufferType, CacheType, BufferGood, CacheGood
  <2>2. RequestType'
    BY <1>1, ZeroesData, FileBlocksNat DEF ReadRequest, RequestType, Request
  <2>3. FlagType'
    BY <1>1 DEF ReadRequest, buffer, FlagType
  <2>4. HalfGood' /\ RepliesAgree'
    BY <1>1 DEF ReadRequest, HalfGood, RepliesAgree
  <2> QED
    BY <2>1, <2>2, <2>3, <2>4
<1>2. CASE FetchCurrent
  <2>1. pc = "fetch" /\ curr_block = block /\ handle_read(block_data)
        /\ UNCHANGED <<block_data, curr_block, stale, hashes, block_cache,
                       block_cache_size, block_cache_max_size>>
    BY <1>2 DEF FetchCurrent, buffer, cache
  <2>2. mixed' \in BOOLEAN /\ (mixed => mixed') /\ (stale' => mixed')
    BY <1>2, <2>1 DEF FetchCurrent, FlagType
  <2>3. CacheType' /\ CacheGood'
    BY <2>1 DEF CacheType, CacheGood
  <2>4. ~stale => block_data = AcceptedIn(hashes, block)
    BY <2>1 DEF BufferGood, RequestType
  <2>5. block_data \in Data
    BY DEF BufferType
  <2> QED
    BY <2>1, <2>2, <2>3, <2>4, <2>5, Fetched
<1>3. CASE FetchPastEnd
  <2>1. /\ pc = "fetch" /\ block >= file_blocks /\ handle_read(Zeroes) /\ block_data' = Zeroes
        /\ curr_block' = block /\ stale' = FALSE
        /\ UNCHANGED <<hashes, block_cache, block_cache_size, block_cache_max_size, mixed>>
    BY <1>3 DEF FetchPastEnd, cache
  <2>2. CacheType' /\ CacheGood'
    BY <2>1 DEF CacheType, CacheGood
  <2>3. Zeroes = AcceptedIn(hashes', block)
    BY <2>1, FileBlocksNat DEF AcceptedIn, RequestType
  <2>4. mixed \in BOOLEAN
    BY DEF FlagType
  <2> QED
    BY <2>1, <2>2, <2>3, <2>4, ZeroesData, Fetched
<1>4. CASE FetchCached
  <2>1. /\ pc = "fetch" /\ block \in Cached /\ handle_read(block_cache[block])
        /\ block_data' = block_cache[block] /\ curr_block' = block /\ stale' = FALSE
        /\ UNCHANGED <<hashes, block_cache, block_cache_size, block_cache_max_size, mixed>>
    BY <1>4 DEF FetchCached, cache
  <2>2. CacheType' /\ CacheGood'
    BY <2>1 DEF CacheType, CacheGood
  <2>3. block_cache[block] \in Data /\ block_cache[block] = hashes[block] /\ block < file_blocks
    BY <2>1, FileBlocksNat DEF Cached, CacheGood, CacheType, Blocks
  <2>4. block_cache[block] = AcceptedIn(hashes', block)
    BY <2>1, <2>3 DEF AcceptedIn
  <2>5. mixed \in BOOLEAN
    BY DEF FlagType
  <2> QED
    BY <2>1, <2>2, <2>3, <2>4, <2>5, Fetched
<1>5. ASSUME NEW d \in Data, FetchAgain(d) PROVE IInv'
  <2>1. /\ pc = "fetch" /\ block < file_blocks /\ hashes[block] = Received(d)
        /\ handle_read(Received(d))
        /\ block_data' = Received(d) /\ curr_block' = block /\ stale' = FALSE
        /\ UNCHANGED <<hashes, block_cache, block_cache_size, block_cache_max_size, mixed>>
    BY <1>5 DEF FetchAgain, AsksProvider, cache
  <2>2. CacheType' /\ CacheGood'
    BY <2>1 DEF CacheType, CacheGood
  <2>3. Received(d) = AcceptedIn(hashes', block) /\ Received(d) \in Data
    BY <2>1, ReceivedData DEF AcceptedIn
  <2>4. mixed \in BOOLEAN
    BY DEF FlagType
  <2> QED
    BY <2>1, <2>2, <2>3, <2>4, Fetched
<1>6. ASSUME NEW d \in Data, FetchFirst(d) PROVE IInv'
  <2>1. /\ pc = "fetch" /\ block < file_blocks /\ block \in Blocks /\ hashes[block] = NoHash
        /\ handle_read(Received(d)) /\ block_cache_enter(Received(d)) /\ AsksProvider
        /\ block_data' = Received(d) /\ curr_block' = block /\ stale' = FALSE
        /\ hashes' = [hashes EXCEPT ![block] = Received(d)] /\ UNCHANGED mixed
    BY <1>6, FileBlocksNat DEF FetchFirst, AsksProvider, RequestType, Blocks
  <2>2. Received(d) \in Data
    BY ReceivedData
  <2>3. CacheType'
    BY <2>1, <2>2, EnterCache DEF CacheType
  <2>4. CacheGood'
    <3>1. \A b \in Blocks : block_cache'[b] # Nothing =>
            block_cache'[b] = IF b = block THEN Received(d) ELSE block_cache[b]
      BY <2>1, <2>2, EnterCache
    <3> QED
      BY <2>1, <3>1 DEF CacheGood, CacheType
  <2>5. Received(d) = AcceptedIn(hashes', block)
    BY <2>1 DEF AcceptedIn, CacheType
  <2>6. \A c \in Blocks : hashes[c] # NoHash => hashes'[c] = hashes[c]
    BY <2>1 DEF CacheType
  <2>7. mixed \in BOOLEAN
    BY DEF FlagType
  <2> QED
    BY <2>1, <2>2, <2>3, <2>4, <2>5, <2>6, <2>7, Fetched
<1>7. ASSUME NEW d \in Data, FetchMismatch(d) PROVE IInv'
  <2>1. BufferType' /\ BufferGood'
    BY <1>7, ReceivedData, FileAssumption, FileBlocksNat
       DEF FetchMismatch, BufferType, BufferGood
  <2>2. CacheType' /\ CacheGood' /\ RequestType' /\ HalfGood' /\ RepliesAgree'
    BY <1>7 DEF FetchMismatch, cache, CacheType, CacheGood, RequestType, HalfGood, RepliesAgree
  <2>3. FlagType'
    BY <1>7 DEF FetchMismatch, FlagType
  <2> QED
    BY <2>1, <2>2, <2>3
<1>8. ASSUME NEW d \in Data, NEW n \in 0..(BlockSize - 1), FetchFails(d, n) PROVE IInv'
  <2>1. BufferType' /\ BufferGood'
    BY <1>8, ZeroAssumption DEF FetchFails, BufferType, BufferGood, Data
  <2>2. CacheType' /\ CacheGood' /\ RequestType' /\ HalfGood' /\ RepliesAgree'
    BY <1>8 DEF FetchFails, cache, CacheType, CacheGood, RequestType, HalfGood, RepliesAgree
  <2>3. FlagType'
    BY <1>8 DEF FetchFails, FlagType
  <2> QED
    BY <2>1, <2>2, <2>3
<1>9. CASE Stop
  <2>1. BufferType' /\ CacheType' /\ BufferGood' /\ CacheGood'
    BY <1>9 DEF Stop, buffer, cache, BufferType, CacheType, BufferGood, CacheGood
  <2>2. RequestType' /\ HalfGood' /\ RepliesAgree'
    BY <1>9 DEF Stop, RequestType, HalfGood, RepliesAgree
  <2>3. FlagType'
    BY <1>9 DEF Stop, buffer, FlagType
  <2> QED
    BY <2>1, <2>2, <2>3
<1>10. CASE UNCHANGED vars
  <2>1. BufferType' /\ CacheType' /\ RequestType' /\ BufferGood' /\ CacheGood'
    BY <1>10 DEF vars, buffer, cache, request, BufferType, CacheType, RequestType,
                 BufferGood, CacheGood
  <2>2. HalfGood' /\ RepliesAgree'
    BY <1>10 DEF vars, buffer, cache, request, HalfGood, Spills, RepliesAgree,
                 SameAsAccepted, Accepted
  <2>3. FlagType'
    BY <1>10 DEF vars, buffer, request, FlagType
  <2> QED
    BY <2>1, <2>2, <2>3
<1> QED
  BY <1>1, <1>2, <1>3, <1>4, <1>5, <1>6, <1>7, <1>8, <1>9, <1>10 DEF Next, Fetch, Stopped

(* In every behaviour the state is well typed; in particular the cache      *)
(* never counts more blocks than run_fuse_sideload gave it room for.        *)
THEOREM TypeCorrect == Spec => []TypeOK
<1>1. IInv => TypeOK
  BY DEF IInv
<1> QED
  BY <1>1, InitIInv, NextIInv, PTL DEF Spec

(* Every byte of a reply of handle_read is the byte that the first read of  *)
(* its position returned, unless a failed read of the provider got in.      *)
THEOREM ReadsAreRepeatable == Spec => []RepliesAgree
<1>1. IInv => RepliesAgree
  BY DEF IInv
<1> QED
  BY <1>1, InitIInv, NextIInv, PTL DEF Spec

-----------------------------------------------------------------------------
LEMMA CachedFinite == IsFiniteSet(Cached)
<1>1. IsFiniteSet(Blocks)
  BY FileBlocksNat, FS_Interval DEF Blocks
<1>2. Cached \in SUBSET Blocks
  BY DEF Cached
<1> QED
  BY <1>1, <1>2, FS_Subset

LEMMA InitCounted == Init => Counted
BY FS_EmptySet DEF Init, Counted, Cached

(* The victim of a full cache makes room for exactly one block. *)
LEMMA NextCounted == TypeOK /\ Counted /\ [Next]_vars => Counted'
<1> SUFFICES ASSUME TypeOK, Counted, [Next]_vars PROVE Counted'
  OBVIOUS
<1>1. CASE UNCHANGED cache
  BY <1>1 DEF cache, Counted, Cached
<1>2. ASSUME NEW d \in Data, FetchFirst(d) PROVE Counted'
  <2>1. /\ block \in Blocks /\ block \notin Cached /\ block_cache_enter(Received(d))
        /\ Received(d) # Nothing /\ block_cache \in [Blocks -> Data \cup {Nothing}]
        /\ block_cache_size \in Nat
    BY <1>2, FileBlocksNat, ReceivedData, NullAssumption
       DEF FetchFirst, AsksProvider, TypeOK, RequestType, CacheType, Blocks
  <2>2. CASE UNCHANGED cache
    BY <2>2, <1>1
  <2>3. CASE block_cache' = [block_cache EXCEPT ![block] = Received(d)]
             /\ block_cache_size' = block_cache_size + 1
    <3>1. Cached' = Cached \cup {block}
      BY <2>1, <2>3 DEF Cached
    <3> QED
      BY <2>1, <2>3, <3>1, CachedFinite, FS_AddElement DEF Counted
  <2>4. ASSUME NEW v \in Cached, block_cache_size' = block_cache_size,
               block_cache' = [block_cache EXCEPT ![v] = Nothing, ![block] = Received(d)]
        PROVE  Counted'
    <3>1. Cached' = (Cached \ {v}) \cup {block}
      BY <2>1, <2>4 DEF Cached
    <3>2. IsFiniteSet(Cached \ {v}) /\ Cardinality(Cached \ {v}) = Cardinality(Cached) - 1
      BY <2>4, CachedFinite, FS_RemoveElement
    <3>3. Cardinality((Cached \ {v}) \cup {block}) = Cardinality(Cached) - 1 + 1
      BY <2>1, <3>2, FS_AddElement
    <3> QED
      BY <2>1, <2>4, <3>1, <3>3 DEF Counted
  <2> QED
    BY <2>1, <2>2, <2>3, <2>4 DEF block_cache_enter, IsVictim
<1> QED
  BY <1>1, <1>2
     DEF Next, Fetch, Stopped, vars, ReadRequest, FetchCurrent, FetchPastEnd, FetchCached,
         FetchAgain, FetchMismatch, FetchFails, Stop

(* The block cache holds accepted data only, and block_cache_size counts    *)
(* what it holds: the search of block_cache_enter for a victim ends.        *)
THEOREM CacheIsFaithful == Spec => []CacheFaithful
<1>1. IInv /\ Counted => CacheFaithful
  BY DEF IInv, CacheGood, Counted, CacheFaithful, Cached
<1>2. IInv /\ Counted /\ [Next]_vars => IInv' /\ Counted'
  BY NextIInv, NextCounted DEF IInv
<1> QED
  BY <1>1, <1>2, InitIInv, InitCounted, PTL DEF Spec

(* fetch_block never replaces the hash of a block. *)
THEOREM HashesStay == Spec => AcceptedForever
<1> DEFINE Keeps == \A b \in Blocks : hashes[b] # NoHash => hashes'[b] = hashes[b]
<1>1. TypeOK /\ [Next]_vars => [Keeps]_vars
  <2> SUFFICES ASSUME TypeOK, Next PROVE Keeps
    OBVIOUS
  <2>1. ASSUME NEW d \in Data, FetchFirst(d) PROVE Keeps
    BY <2>1 DEF FetchFirst, TypeOK, CacheType
  <2>2. CASE UNCHANGED hashes
    BY <2>2
  <2> QED
    BY <2>1, <2>2
       DEF Next, Fetch, Stopped, vars, ReadRequest, FetchCurrent, FetchPastEnd, FetchCached,
           FetchAgain, FetchMismatch, FetchFails, Stop
<1> QED
  BY <1>1, TypeCorrect, PTL DEF Spec, AcceptedForever

-----------------------------------------------------------------------------
(* Sideload: the sessions.                                                   *)

NoSignal == \A i \in DOMAIN queue : queue[i] # "REFRESH"

(* The server of a state is the one of its flow and of this session; between *)
(* sessions there is none.                                                   *)
Owner ==
  /\ at \in IdleStates => server = None
  /\ at \in AdbStates => server.kind = "adb" /\ server.session = session
  /\ at \in SdStates => server.kind = "sdcard" /\ server.session = session
  /\ at \in AdbStates \cup SdStates \cup PathStates => session > 0

(* The thread is joined before anything is installed, and outside of an adb  *)
(* session there is no thread, no flag and no signal.                        *)
ThreadGone ==
  /\ at \in {"install", "ask", "unverified", "stop"} => thread = "none"
  /\ at \in IdleStates \cup SdStates => thread = "none" /\ ~started /\ NoSignal

(* The file is that of the present server or of a forgotten provider.        *)
OwnFile ==
  /\ orphans \subseteq forgotten
  /\ mount = 0 \/ mount = server.session \/ mount \in orphans

SideloadIInv == SideloadTypeOK /\ Owner /\ ThreadGone /\ OwnFile /\ InstallsWhatWasOffered

-----------------------------------------------------------------------------
(* The values a server takes.                                                *)

LEMMA ServerNone == None \in Servers /\ None.session = 0 /\ None.kind = "none" /\ None.state = "none"
BY SideloadAssumption DEF None, Servers

LEMMA ServerStarts ==
  ASSUME NEW k \in {"adb", "sdcard"}, NEW v \in {"running", "unforked"}, NEW s \in 0..MaxSessions
  PROVE  [kind |-> k, state |-> v, session |-> s] \in Servers
BY DEF Servers

LEMMA ServerMoves ==
  ASSUME NEW r \in Servers, NEW v \in {"serving", "deaf", "replaced", "zombie"}
  PROVE  /\ [r EXCEPT !.state = v] \in Servers
         /\ [r EXCEPT !.state = v].kind = r.kind /\ [r EXCEPT !.state = v].session = r.session
         /\ r.session \in 0..MaxSessions
BY DEF Servers

LEMMA QueueOps ==
  ASSUME NEW q \in Seq(Queued)
  PROVE  /\ q # <<>> => Tail(q) \in Seq(Queued)
         /\ \A e \in Queued : Append(q, e) \in Seq(Queued)
         /\ <<>> \in Seq(Queued)
         /\ "REFRESH" \in Queued /\ "KEY" \in Queued /\ "TOUCH" \in Queued
BY DEF Queued

-----------------------------------------------------------------------------
LEMMA TypeStep == SideloadTypeOK /\ Owner /\ [SideloadNext]_sideloadVars => SideloadTypeOK'
<1> SUFFICES ASSUME SideloadTypeOK, Owner, [SideloadNext]_sideloadVars PROVE SideloadTypeOK'
  OBVIOUS
<1> USE SideloadAssumption, QueueOps DEF SideloadTypeOK, AdbStates, SdStates, PathStates, IdleStates
<1>1. CASE sideload_start
  <2>1. session' \in 0..MaxSessions /\ session' = session + 1
    BY <1>1 DEF sideload_start
  <2>2. errors' \in 0..MaxErrors /\ polls' = 0 /\ at' \in AdbStates
    BY <1>1 DEF sideload_start, Works, Fails
  <2>3. thread' \in {"polling", "uncreated"}
    BY <1>1 DEF sideload_start
  <2>4. server' \in Servers
    <3>1. PICK v \in {"running", "unforked"} :
             server' = [kind |-> "adb", state |-> v, session |-> session + 1]
      BY <1>1 DEF sideload_start
    <3> QED BY <2>1, <3>1, ServerStarts
  <2>5. flow' \in {"arg", "menu"} /\ cancelled' \in BOOLEAN /\ started' \in BOOLEAN /\ lost' \in BOOLEAN
    BY <1>1 DEF sideload_start
  <2>6. UNCHANGED <<mount, orphans, queue, text, volume, depth, installed, forgotten>>
    BY <1>1 DEF sideload_start, storage, history
  <2> QED BY <2>1, <2>2, <2>3, <2>4, <2>5, <2>6
<1>2. CASE apply_from_storage
  <2>1. session' \in 0..MaxSessions /\ depth' \in 0..MaxDepth /\ errors' \in 0..MaxErrors
    BY <1>2 DEF apply_from_storage, Works, Fails
  <2> QED BY <1>2, <2>1 DEF apply_from_storage, process, sideload, history
<1>3. CASE browse_directory
  <2>1. depth' \in 0..MaxDepth
    BY <1>3 DEF browse_directory
  <2>2. at' \in AdbStates \cup SdStates \cup IdleStates /\ volume' \in BOOLEAN /\ queue' = <<>>
    BY <1>3 DEF browse_directory
  <2>3. UNCHANGED <<flow, session, server, mount, orphans, thread, polls, cancelled, started>>
    BY <1>3 DEF browse_directory, process, sideload
  <2>4. UNCHANGED <<text, installed, lost, forgotten, errors>>
    BY <1>3 DEF browse_directory, history
  <2> QED BY <2>1, <2>2, <2>3, <2>4
<1>4. CASE Leave
  BY <1>4 DEF Leave, process, sideload, storage, history
<1>5. CASE CancelMenu
  BY <1>5 DEF CancelMenu, process, sideload, storage, history
<1>6. CASE TakeEvent
  BY <1>6 DEF TakeEvent, process, storage, history
<1>7. CASE Joined
  BY <1>7 DEF Joined, process, storage, history
<1>8. CASE Install
  <2>1. session > 0
    BY <1>8 DEF Install, Owner
  <2>2. <<mount, session>> \in (1..MaxSessions) \X (1..MaxSessions) \/ mount = 0
    BY <2>1
  <2>3. installed' \subseteq (1..MaxSessions) \X (1..MaxSessions)
    BY <1>8, <2>2 DEF Install, Answers
  <2> QED BY <1>8, <2>3 DEF Install, process, sideload, storage, history
<1>9. CASE AskUnverified
  BY <1>9 DEF AskUnverified, process, sideload, storage, history
<1>10. CASE sideload_stop
  <2>1. mount' \in {0, mount} /\ orphans' \in {{}, orphans}
    BY <1>10 DEF sideload_stop
  <2>2. mount' \in 0..MaxSessions /\ orphans' \subseteq 1..MaxSessions
    <3>1. mount \in 0..MaxSessions /\ 0 \in 0..MaxSessions
      OBVIOUS
    <3> QED BY <2>1, <3>1
  <2>3. server' \in Servers /\ at' \in IdleStates /\ started' \in BOOLEAN /\ queue' = <<>>
    BY <1>10, ServerNone DEF sideload_stop
  <2>4. UNCHANGED <<flow, session, thread, polls, cancelled, text>>
    BY <1>10 DEF sideload_stop
  <2>5. UNCHANGED <<volume, depth, installed, forgotten, lost, errors>>
    BY <1>10 DEF sideload_stop, storage, history
  <2> QED BY <2>2, <2>3, <2>4, <2>5
<1>11. CASE start_sdcard_fuse
  <2>1. errors' \in 0..MaxErrors /\ polls' \in Nat
    BY <1>11 DEF start_sdcard_fuse, Works, Fails
  <2>2. server' \in Servers
    BY <1>11, ServerStarts DEF start_sdcard_fuse
  <2> QED BY <1>11, <2>1, <2>2 DEF start_sdcard_fuse, storage, history
<1>12. CASE SdPoll
  <2>1. errors' \in 0..MaxErrors /\ polls' \in Nat /\ depth' \in 0..MaxDepth
    BY <1>12 DEF SdPoll, storage, Works, Fails
  <2>2. server' \in Servers
    BY <1>12, ServerNone DEF SdPoll
  <2>3. server.session \in 1..MaxSessions
    BY <1>12, ServerMoves DEF SdPoll, Owner
  <2>4. orphans' \subseteq 1..MaxSessions /\ forgotten' \subseteq 1..MaxSessions
    BY <1>12, <2>3 DEF SdPoll
  <2>5. at' \in SdStates \cup IdleStates /\ volume' \in BOOLEAN
    BY <1>12 DEF SdPoll, storage
  <2>6. UNCHANGED <<flow, session, mount, thread, cancelled, started, queue, text, installed, lost>>
    BY <1>12 DEF SdPoll
  <2> QED BY <2>1, <2>2, <2>4, <2>5, <2>6
<1>13. CASE finish_sdcard_fuse
  BY <1>13, ServerNone DEF finish_sdcard_fuse, sideload, storage, history
<1>14. CASE Poll
  <2>1. errors' \in 0..MaxErrors /\ polls' \in Nat
    BY <1>14 DEF Poll, ThreadEnds, Works, Fails
  <2>2. thread' \in {"none", "uncreated", "polling", "signal", "ended"} /\ started' \in BOOLEAN
    BY <1>14 DEF Poll, ThreadEnds
  <2>3. UNCHANGED <<at, flow, session, server, mount, orphans, cancelled>>
    BY <1>14 DEF Poll, process, history
  <2>4. UNCHANGED <<queue, text, volume, depth, installed, lost, forgotten>>
    BY <1>14 DEF Poll, storage, history
  <2> QED BY <2>1, <2>2, <2>3, <2>4
<1>15. CASE CancelWaitKey
  BY <1>15 DEF CancelWaitKey, process, storage, history
<1>16. CASE sideload_host_service
  <2>1. server' \in Servers /\ mount' \in 0..MaxSessions
    <3>1. server.session \in 0..MaxSessions /\ 0 \in 0..MaxSessions
      BY DEF Servers
    <3>2. \A v \in {"serving", "deaf", "replaced", "zombie"} : [server EXCEPT !.state = v] \in Servers
      BY ServerMoves
    <3> HIDE DEF SideloadTypeOK
    <3>3. SideloadTypeOK => mount \in 0..MaxSessions
      BY DEF SideloadTypeOK
    <3> QED BY <1>16, <3>1, <3>2, <3>3 DEF sideload_host_service
  <2> QED BY <1>16, <2>1 DEF sideload_host_service, sideload, storage, history
<1>17. CASE service_to_fd
  <2>1. server' \in Servers
    BY <1>17, ServerMoves DEF service_to_fd
  <2>2. UNCHANGED <<at, flow, session, mount, orphans, thread, polls, cancelled, started>>
    BY <1>17 DEF service_to_fd, sideload, history
  <2>3. UNCHANGED <<queue, text, volume, depth, installed, lost, forgotten, errors>>
    BY <1>17 DEF service_to_fd, storage, history
  <2> QED BY <2>1, <2>2, <2>3
<1>18. CASE read_block_adb
  <2>1. errors' \in 0..MaxErrors
    BY <1>18 DEF read_block_adb, Fails
  <2>2. server' \in Servers
    BY <1>18, ServerMoves DEF read_block_adb
  <2> QED BY <1>18, <2>1, <2>2 DEF read_block_adb, sideload, storage, history
<1>19. CASE run_sdcard_fuse
  <2>1. server' \in Servers /\ mount' \in 0..MaxSessions
    <3>1. server.session \in 0..MaxSessions /\ orphans \subseteq 0..MaxSessions
      BY DEF Servers
    <3>2. \A v \in {"serving", "zombie"} : [server EXCEPT !.state = v] \in Servers
      BY ServerMoves
    <3>3. mount' \in {mount, server.session} \cup orphans
      BY <1>19 DEF run_sdcard_fuse
    <3>4. server' = server \/ \E v \in {"serving", "zombie"} : server' = [server EXCEPT !.state = v]
      BY <1>19 DEF run_sdcard_fuse
    <3> QED BY <3>1, <3>2, <3>3, <3>4
  <2> QED BY <1>19, <2>1 DEF run_sdcard_fuse, sideload, storage, history
<1>20. CASE PressKey
  BY <1>20 DEF PressKey, process, sideload, storage, history
<1>21. CASE ToggleText \/ VolumesChange
  BY <1>21 DEF ToggleText, VolumesChange, process, sideload, storage, history
<1>22. CASE Done \/ UNCHANGED sideloadVars
  <2>1. UNCHANGED <<at, flow, session, server, mount, orphans, thread, polls, cancelled, started>>
    BY <1>22 DEF Done, sideloadVars, process, sideload, storage, history
  <2>2. UNCHANGED <<queue, text, volume, depth, installed, lost, forgotten, errors>>
    BY <1>22 DEF Done, sideloadVars, process, sideload, storage, history
  <2> QED BY <2>1, <2>2
<1> QED
  BY <1>1, <1>2, <1>3, <1>4, <1>5, <1>6, <1>7, <1>8, <1>9, <1>10, <1>11, <1>12, <1>13, <1>14, <1>15,
     <1>16, <1>17, <1>18, <1>19, <1>20, <1>21, <1>22
     DEF SideloadNext, MainThread, SideloadThread, Environment

LEMMA OwnerStep == SideloadTypeOK /\ Owner /\ [SideloadNext]_sideloadVars => Owner'
<1> SUFFICES ASSUME SideloadTypeOK, Owner, [SideloadNext]_sideloadVars PROVE Owner'
  OBVIOUS
<1> USE DEF Owner, AdbStates, SdStates, PathStates, IdleStates
<1> session \in Nat /\ at \in AdbStates \cup SdStates \cup IdleStates \cup {"aborted"}
  BY SideloadAssumption DEF SideloadTypeOK
<1>1. CASE sideload_start
  BY <1>1 DEF sideload_start
<1>2. CASE apply_from_storage \/ browse_directory \/ Leave
  BY <1>2 DEF apply_from_storage, browse_directory, Leave, process
<1>3. CASE CancelMenu \/ TakeEvent \/ Joined
  BY <1>3 DEF CancelMenu, TakeEvent, Joined, process
<1>4. CASE Install \/ AskUnverified
  BY <1>4 DEF Install, AskUnverified, process
<1>5. CASE sideload_stop \/ finish_sdcard_fuse
  BY <1>5 DEF sideload_stop, finish_sdcard_fuse
<1>6. CASE start_sdcard_fuse
  BY <1>6 DEF start_sdcard_fuse
<1>7. CASE SdPoll
  BY <1>7 DEF SdPoll
<1>8. CASE Poll \/ CancelWaitKey
  BY <1>8 DEF Poll, CancelWaitKey, process
<1>9. CASE sideload_host_service \/ service_to_fd \/ read_block_adb \/ run_sdcard_fuse
  <2>1. server'.kind = server.kind /\ server'.session = server.session /\ UNCHANGED <<at, session>>
    BY <1>9, ServerMoves DEF SideloadTypeOK, sideload_host_service, service_to_fd, read_block_adb, run_sdcard_fuse
  <2>2. server = None => server' = server
    BY <1>9, ServerNone DEF sideload_host_service, service_to_fd, read_block_adb, run_sdcard_fuse
  <2> QED BY <2>1, <2>2
<1>11. CASE PressKey \/ ToggleText \/ VolumesChange
  BY <1>11 DEF PressKey, ToggleText, VolumesChange, process
<1>12. CASE Done \/ UNCHANGED sideloadVars
  BY <1>12 DEF Done, sideloadVars
<1> QED
  BY <1>1, <1>2, <1>3, <1>4, <1>5, <1>6, <1>7, <1>8, <1>9, <1>11, <1>12
     DEF SideloadNext, MainThread, SideloadThread, Environment

(* The queue matters only between sessions, where nothing adds to it: a key  *)
(* needs the menu, the signal needs the thread.                              *)
LEMMA ThreadStep == SideloadTypeOK /\ ThreadGone /\ [SideloadNext]_sideloadVars => ThreadGone'
<1> SUFFICES ASSUME SideloadTypeOK, ThreadGone, [SideloadNext]_sideloadVars PROVE ThreadGone'
  OBVIOUS
<1> USE DEF ThreadGone, NoSignal, AdbStates, SdStates, PathStates, IdleStates
<1> at \in AdbStates \cup SdStates \cup IdleStates \cup {"aborted"}
  BY DEF SideloadTypeOK
<1>1. CASE sideload_start
  BY <1>1 DEF sideload_start
<1>2. CASE apply_from_storage \/ browse_directory \/ Leave
  BY <1>2 DEF apply_from_storage, browse_directory, Leave, sideload
<1>3. CASE CancelMenu \/ TakeEvent \/ Joined
  BY <1>3 DEF CancelMenu, TakeEvent, Joined
<1>4. CASE Install \/ AskUnverified
  BY <1>4 DEF Install, AskUnverified, sideload
<1>5. CASE sideload_stop
  BY <1>5 DEF sideload_stop
<1>6. CASE start_sdcard_fuse \/ SdPoll \/ finish_sdcard_fuse
  BY <1>6 DEF start_sdcard_fuse, SdPoll, finish_sdcard_fuse, sideload
<1>8. CASE Poll \/ CancelWaitKey
  BY <1>8 DEF Poll, CancelWaitKey
<1>9. CASE sideload_host_service \/ service_to_fd \/ read_block_adb \/ run_sdcard_fuse
  BY <1>9 DEF sideload_host_service, service_to_fd, read_block_adb, run_sdcard_fuse, sideload
<1>11. CASE PressKey \/ ToggleText \/ VolumesChange
  BY <1>11 DEF PressKey, ToggleText, VolumesChange, sideload
<1>12. CASE Done \/ UNCHANGED sideloadVars
  BY <1>12 DEF Done, sideloadVars, sideload
<1> QED
  BY <1>1, <1>2, <1>3, <1>4, <1>5, <1>6, <1>8, <1>9, <1>11, <1>12
     DEF SideloadNext, MainThread, SideloadThread, Environment

(* A file is put up by the present server or by a forgotten one, and is      *)
(* taken down with its server.                                               *)
LEMMA FileStep == SideloadTypeOK /\ Owner /\ OwnFile /\ [SideloadNext]_sideloadVars => OwnFile'
<1> SUFFICES ASSUME SideloadTypeOK, Owner, OwnFile, [SideloadNext]_sideloadVars PROVE OwnFile'
  OBVIOUS
<1> USE DEF OwnFile
<1>1. CASE sideload_start
  <2>1. server.session = 0
    BY <1>1, ServerNone DEF sideload_start, Owner, IdleStates
  <2> QED BY <1>1, <2>1 DEF sideload_start, history
<1>2. CASE apply_from_storage \/ browse_directory \/ Leave
  BY <1>2 DEF apply_from_storage, browse_directory, Leave, process, history
<1>3. CASE CancelMenu \/ TakeEvent \/ Joined
  BY <1>3 DEF CancelMenu, TakeEvent, Joined, process, history
<1>4. CASE Install \/ AskUnverified
  BY <1>4 DEF Install, AskUnverified, process, history
<1>5. CASE sideload_stop \/ finish_sdcard_fuse
  BY <1>5, ServerNone DEF sideload_stop, finish_sdcard_fuse, history
<1>6. CASE start_sdcard_fuse
  <2>1. server.session = 0
    BY <1>6, ServerNone DEF start_sdcard_fuse, Owner, IdleStates, PathStates, history
  <2> QED BY <1>6, <2>1 DEF start_sdcard_fuse, history
<1>7. CASE SdPoll
  <2>1. server.session # 0
    BY <1>7 DEF SdPoll, Owner, SdStates, SideloadTypeOK
  <2> QED BY <1>7, <2>1 DEF SdPoll, history
<1>8. CASE Poll \/ CancelWaitKey
  BY <1>8 DEF Poll, CancelWaitKey, process, history
<1>9. CASE sideload_host_service \/ service_to_fd \/ read_block_adb \/ run_sdcard_fuse
  BY <1>9, ServerMoves DEF SideloadTypeOK, sideload_host_service, service_to_fd, read_block_adb, run_sdcard_fuse, history
<1>11. CASE PressKey \/ ToggleText \/ VolumesChange
  BY <1>11 DEF PressKey, ToggleText, VolumesChange, process, history
<1>12. CASE Done \/ UNCHANGED sideloadVars
  BY <1>12 DEF Done, sideloadVars, process, history
<1> QED
  BY <1>1, <1>2, <1>3, <1>4, <1>5, <1>6, <1>7, <1>8, <1>9, <1>11, <1>12
     DEF SideloadNext, MainThread, SideloadThread, Environment, history

(* Only Install adds to installed, and what was forgotten stays forgotten.   *)
LEMMA InstalledStep ==
  SideloadTypeOK /\ Owner /\ OwnFile /\ InstallsWhatWasOffered /\ [SideloadNext]_sideloadVars => InstallsWhatWasOffered'
<1> SUFFICES ASSUME SideloadTypeOK, Owner, OwnFile, InstallsWhatWasOffered, [SideloadNext]_sideloadVars
             PROVE  InstallsWhatWasOffered'
  OBVIOUS
<1> USE DEF InstallsWhatWasOffered
<1>1. CASE Install
  <2>1. server.session = session
    BY <1>1 DEF Install, Owner, AdbStates, SdStates
  <2>2. Answers => mount = session \/ mount \in forgotten
    BY <2>1 DEF OwnFile, Answers
  <2>3. \/ installed' = installed
        \/ installed' = installed \cup {<<mount, session>>} /\ Answers
    BY <1>1 DEF Install
  <2>4. forgotten' = forgotten
    BY <1>1 DEF Install
  <2> QED BY <2>2, <2>3, <2>4
<1>2. CASE installed' = installed /\ forgotten \subseteq forgotten'
  BY <1>2
<1>3. CASE sideload_start \/ apply_from_storage \/ browse_directory \/ Leave
  BY <1>2, <1>3 DEF sideload_start, apply_from_storage, browse_directory, Leave, history
<1>4. CASE CancelMenu \/ TakeEvent \/ Joined \/ AskUnverified
  BY <1>2, <1>4 DEF CancelMenu, TakeEvent, Joined, AskUnverified, history
<1>5. CASE sideload_stop \/ start_sdcard_fuse \/ finish_sdcard_fuse
  BY <1>2, <1>5 DEF sideload_stop, start_sdcard_fuse, finish_sdcard_fuse, history
<1>6. CASE Poll \/ CancelWaitKey
  BY <1>2, <1>6 DEF Poll, CancelWaitKey, history
<1>7. CASE sideload_host_service \/ service_to_fd \/ read_block_adb \/ run_sdcard_fuse
  BY <1>2, <1>7 DEF sideload_host_service, service_to_fd, read_block_adb, run_sdcard_fuse, history
<1>8. CASE PressKey \/ ToggleText \/ VolumesChange
  BY <1>2, <1>8 DEF PressKey, ToggleText, VolumesChange, history
<1>9. CASE SdPoll
  BY <1>2, <1>9 DEF SdPoll
<1>10. CASE Done \/ UNCHANGED sideloadVars
  BY <1>2, <1>10 DEF Done, sideloadVars, history
<1> QED
  BY <1>1, <1>3, <1>4, <1>5, <1>6, <1>7, <1>8, <1>9, <1>10
     DEF SideloadNext, MainThread, SideloadThread, Environment

LEMMA SideloadInitIInv == SideloadInit => SideloadIInv
<1> SUFFICES ASSUME SideloadInit PROVE SideloadIInv
  OBVIOUS
<1> USE DEF SideloadInit
<1>1. SideloadTypeOK
  <2>1. 0 \in 0..MaxSessions /\ 0 \in 0..MaxDepth /\ 0 \in 0..MaxErrors /\ 0 \in Nat
    BY SideloadAssumption
  <2>2. <<>> \in Seq(Queued)
    OBVIOUS
  <2> QED BY <2>1, <2>2, ServerNone DEF SideloadTypeOK, IdleStates
<1>2. Owner
  BY DEF Owner, AdbStates, SdStates, IdleStates, PathStates
<1>3. ThreadGone /\ OwnFile /\ InstallsWhatWasOffered
  BY ServerNone DEF ThreadGone, NoSignal, OwnFile, InstallsWhatWasOffered
<1> QED BY <1>1, <1>2, <1>3 DEF SideloadIInv

LEMMA SideloadInvariance == SideloadSpec => []SideloadIInv
<1>1. SideloadIInv /\ [SideloadNext]_sideloadVars => SideloadIInv'
  BY TypeStep, OwnerStep, ThreadStep, FileStep, InstalledStep DEF SideloadIInv
<1> QED BY SideloadInitIInv, <1>1, PTL DEF SideloadSpec

-----------------------------------------------------------------------------
(* The variables of a sideload keep their types: sessions, directories and   *)
(* failures within their bounds (adb_install.cpp, recovery.cpp).             *)
THEOREM SideloadTypeCorrect == SideloadSpec => []SideloadTypeOK
<1>1. SideloadIInv => SideloadTypeOK
  BY DEF SideloadIInv
<1> QED BY SideloadInvariance, <1>1, PTL

(* Whatever hosts, users and volumes do, and in however many sessions: what  *)
(* is installed is what this session's server put up, or the file of a       *)
(* provider that a failed start_sdcard_fuse forgot and nobody ends.          *)
THEOREM InstallsOwnPackage == SideloadSpec => []InstallsWhatWasOffered
<1>1. SideloadIInv => InstallsWhatWasOffered
  BY DEF SideloadIInv
<1> QED BY SideloadInvariance, <1>1, PTL

(* A session leaves no child the code knows of, no thread, no flag and no    *)
(* signal that the next one could take for its own, and no file, unless it   *)
(* is that of a living provider that start_sdcard_fuse forgot                *)
(* (sideload_stop, finish_sdcard_fuse).                                      *)
THEOREM SessionsAreClean == SideloadSpec => []NothingLeftBehind
<1>1. SideloadIInv => NothingLeftBehind
  BY ServerNone DEF SideloadIInv, Owner, ThreadGone, NoSignal, OwnFile, IdleStates, NothingLeftBehind
<1> QED BY SideloadInvariance, <1>1, PTL

=============================================================================
