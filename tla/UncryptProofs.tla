----------------------------- MODULE UncryptProofs -----------------------------
(***************************************************************************)
(* Theorems about Uncrypt, for any packages and layouts, window, requests, *)
(* power losses and failures.                                              *)
(***************************************************************************)
EXTENDS Uncrypt, SequenceTheorems, WellFoundedInduction, TLAPS

-----------------------------------------------------------------------------
(* The ring buffer. *)

LEMMA ModCases ==
  ASSUME NEW a \in Nat, a < 2 * Window
  PROVE  a % Window = IF a < Window THEN a ELSE a - Window
  BY BoundsAssumption

LEMMA NextIndex ==
  ASSUME NEW i \in 0..(Window - 1)
  PROVE  next_index(i) = IF i + 1 = Window THEN 0 ELSE i + 1
  <1>1. i + 1 \in Nat /\ i + 1 < 2 * Window
    BY BoundsAssumption
  <1> QED BY <1>1, ModCases, BoundsAssumption DEF next_index

(* The i-th slot from the head. *)
Slot(i) == IF head + i < Window THEN head + i ELSE head + i - Window
Filled == pos - head_block

(* The ring holds the blocks from head_block to pos, and one slot is free. *)
Slots ==
  server \in {"loop", "drain"} =>
    /\ pkg \in Packages
    /\ head_block <= pos /\ pos <= n /\ Filled <= Window - 1
    /\ tail = Slot(Filled)

(* Which request the service is at. *)
Errand ==
  /\ server \in {"find"} \cup Producing => request.op = "uncrypt"
  /\ server \in Producing => pkg \in Packages
  /\ server \in {"length", "message"} =>
       request.op \in {"setup_bcb", "setup_wipe", "setup_missing"}
  /\ server = "bcb" => request.op \in {"setup_bcb", "setup_wipe"}
  /\ server = "wipe" => request.op = "setup_wipe" /\ bcb = "setup_wipe"
  /\ server = "clear" => request.op = "clear_bcb"

(* The two files: the map is complete and synced before it gets its name. *)
MapFiles(c) ==
  /\ c \in Cache
  /\ c.map # None => (c.map.synced /\ c.map.pkg \in Packages)
Files ==
  /\ MapFiles(cache) /\ MapFiles(cacheD)
  /\ server \in Producing \ {"remove", "fsync_dir"} => (cache.map = None /\ cache.tmp # None)
  /\ server \in Producing \ {"remove", "hello", "fsync_dir"} => cache.tmp.pkg = pkg
  /\ server \in {"fsync_dev", "rename"} => cache.tmp.synced
  /\ server = "fsync_dir" => (cache.map # None /\ cache.map.pkg = pkg)

IType == TypeOK /\ Slots /\ Errand /\ Files

-----------------------------------------------------------------------------
USE DEF Ops, Producing, Serving, caller, socket, ring, device, files, misc, bounds, pkg, n

LEMMA LayoutFacts ==
  ASSUME NEW p \in Packages
  PROVE  /\ Len(Layout[p]) \in Nat
         /\ \A k \in 1..Len(Layout[p]) :
              /\ Layout[p][k] \in Nat \ {0}
              /\ Layout[p][k] \in Blocks
              /\ <<p, k>> \in Places
  <1>1. Layout[p] \in Seq(Nat \ {0})
    BY LayoutAssumption
  <1> QED BY <1>1 DEF Blocks, BlocksOf, Places

LEMMA PlainPlace ==
  ASSUME NEW p \in Packages, NEW k \in 1..Len(Layout[p])
  PROVE  Plain(Layout[p][k]) = <<p, k>>
  <1>1. <<p, k>> \in Places
    BY LayoutFacts
  <1>2. \A x \in Places : Layout[x[1]][x[2]] = Layout[p][k] => x = <<p, k>>
    <2> TAKE x \in Places
    <2> HAVE Layout[x[1]][x[2]] = Layout[p][k]
    <2> DEFINE y == <<p, k>>
    <2>1. y[1] = p /\ y[2] = k /\ y \in Places
      BY <1>1
    <2> HIDE DEF y
    <2>2. Layout[x[1]][x[2]] = Layout[y[1]][y[2]]
      BY <2>1
    <2>3. x = y
      BY <2>1, <2>2, LayoutAssumption
    <2> QED BY <2>3 DEF y
  <1> QED BY <1>1, <1>2 DEF Plain

LEMMA PlainData ==
  ASSUME NEW b \in Blocks
  PROVE  Plain(b) \in Places /\ Plain(b) \in Data
  <1>1. PICK p \in Packages : b \in BlocksOf(p)
    BY DEF Blocks
  <1>2. PICK k \in 1..Len(Layout[p]) : b = Layout[p][k]
    BY <1>1 DEF BlocksOf
  <1> QED BY <1>2, PlainPlace, LayoutFacts DEF Data

LEMMA NewFileFile == NewFile \in File
  <1>1. <<>> \in Seq(BlockRange)
    OBVIOUS
  <1> QED BY <1>1 DEF NewFile, File

LEMMA InitIType == Init => IType
  <1> SUFFICES ASSUME Init PROVE IType
    OBVIOUS
  <1> USE DEF Init
  <1>1. ProtocolType
    BY DEF ProtocolType
  <1>2. RingType
    <2>1. 0 \in 0..(Window - 1) /\ <<>> \in Seq(BlockRange) /\ Junk \in Data
      BY BoundsAssumption DEF Data
    <2> QED BY <2>1 DEF RingType
  <1>3. raw \in [Blocks -> Data]
    BY PlainData DEF Data
  <1>4. StoreType
    BY <1>3 DEF StoreType, Cache
  <1>5. FlagType /\ CountType
    BY RequestsAssumption DEF FlagType, CountType
  <1>6. Slots /\ Errand /\ Files
    BY DEF Slots, Errand, Files, MapFiles, Cache
  <1> QED BY <1>1, <1>2, <1>4, <1>5, <1>6 DEF IType, TypeOK

(* The steps that touch neither the ring, nor the device, nor the files. *)
Talking == (\E r \in Requests : ClientStarts(r)) \/ Caller \/ Accept \/ ReceiveCode \/ Report
           \/ FindPackage \/ AllRead \/ ReceiveMessage \/ WriteBcb \/ WriteWipePackage
           \/ clear_bcb \/ ClientDies \/ StartFails \/ KilledBySigpipe \/ UncryptFails

LEMMA TalkingIType ==
  ASSUME IType, Talking
  PROVE  IType'
  <1> USE DEF IType, TypeOK, Exits, EndWith, write_status_to_socket
  <1> DEFINE Goal == /\ UNCHANGED <<ring, device, files, encrypted>>
                     /\ ProtocolType' /\ CountType' /\ bcb' \in Ops \cup {"none"}
                     /\ Errand' /\ Slots' /\ Files'
  <1>1. FlagType'
    BY DEF Talking, Caller, FlagType, ClientStarts, ClientSends, ClientReads, ClientAcks,
           ClientFindsSocketGone, ClientDies, Accept, StartFails, ReceiveCode, KilledBySigpipe,
           Report, UncryptFails, FindPackage, AllRead, ReceiveMessage, WriteBcb,
           WriteWipePackage, clear_bcb
  <1>2. Goal
    <2> USE DEF ProtocolType, CountType, StoreType, Errand, Slots, Filled, Slot, Files, MapFiles
    <2>1. ASSUME NEW r \in Requests, ClientStarts(r) PROVE Goal
      BY <2>1, RequestsAssumption DEF ClientStarts
    <2>2. CASE ClientSends
      BY <2>2 DEF ClientSends
    <2>3. CASE ClientReads
      BY <2>3 DEF ClientReads
    <2>4. CASE ClientAcks
      BY <2>4 DEF ClientAcks
    <2>5. CASE ClientFindsSocketGone
      BY <2>5 DEF ClientFindsSocketGone
    <2>6. CASE ClientDies
      BY <2>6 DEF ClientDies
    <2>7. CASE Accept
      BY <2>7 DEF Accept
    <2>8. CASE StartFails
      BY <2>8 DEF StartFails
    <2>9. CASE ReceiveCode
      BY <2>9 DEF ReceiveCode
    <2>10. CASE KilledBySigpipe
      BY <2>10 DEF KilledBySigpipe
    <2>11. CASE Report
      BY <2>11 DEF Report
    <2>12. CASE UncryptFails
      BY <2>12 DEF UncryptFails
    <2>13. CASE FindPackage
      BY <2>13 DEF FindPackage
    <2>14. CASE AllRead
      BY <2>14 DEF AllRead
    <2>15. CASE ReceiveMessage
      <3>1. ProtocolType' /\ CountType'
        BY <2>15 DEF ReceiveMessage
      <3> QED BY <2>15, <3>1 DEF ReceiveMessage
    <2>16. CASE WriteBcb
      BY <2>16 DEF WriteBcb
    <2>17. CASE WriteWipePackage
      BY <2>17 DEF WriteWipePackage
    <2>18. CASE clear_bcb
      BY <2>18 DEF clear_bcb
    <2> QED BY <2>1, <2>2, <2>3, <2>4, <2>5, <2>6, <2>7, <2>8, <2>9, <2>10, <2>11, <2>12, <2>13,
               <2>14, <2>15, <2>16, <2>17, <2>18 DEF Talking, Caller
  <1> QED BY <1>1, <1>2 DEF RingType, StoreType

(* The steps on the files and on the device. *)
Filing == RemoveMap \/ WriteHeader \/ WriteRanges \/ WriteRangesFails \/ FsyncMap
          \/ FsyncDevice \/ RenameMap \/ FsyncDir \/ CommitCache

LEMMA SetTmp ==
  ASSUME NEW c \in Cache, NEW f \in File
  PROVE  /\ [c EXCEPT !.tmp = f] \in Cache
         /\ [c EXCEPT !.tmp = f].tmp = f
         /\ [c EXCEPT !.tmp = f].map = c.map
  BY DEF Cache

LEMMA WrittenFile ==
  ASSUME NEW f \in File, NEW l \in Nat
  PROVE  /\ Written(f, l) \in File
         /\ Written(f, l).pkg = f.pkg /\ Written(f, l).count = f.count
         /\ Written(f, l).ranges = f.ranges
  BY DEF Written, File

LEMMA FilingIType ==
  ASSUME IType, Filing
  PROVE  IType'
  <1> USE DEF IType, TypeOK, EndWith, write_status_to_socket
  <1> DEFINE Goal == ProtocolType' /\ CountType' /\ RingType' /\ StoreType' /\ Errand' /\ Slots'
                     /\ Files'
  <1>1. FlagType'
    BY DEF Filing, FlagType, RemoveMap, WriteHeader, WriteRanges, FsyncMap, FsyncDevice,
           WriteRangesFails, RenameMap, FsyncDir, CommitCache
  <1>2. Goal
    <2> USE DEF ProtocolType, CountType, StoreType, RingType, Errand, Slots, Filled, Slot, Files,
                MapFiles
    <2>1. CASE RemoveMap
      <3>1. cache' \in Cache /\ cache'.map = None /\ cache'.tmp # None
        <4>1. NewFile # None
          BY NewFileFile, NullAssumption
        <4> QED BY <2>1, <4>1, NewFileFile DEF RemoveMap, Cache
      <3> QED BY <2>1, <3>1 DEF RemoveMap
    <2>2. CASE WriteHeader
      <3>1. CASE open
        <4> DEFINE e == [cache.tmp EXCEPT !.pkg = pkg, !.count = 0, !.ranges = <<>>]
                   f == Written(e, HeaderLength[pkg])
        <4>1. cache.tmp \in File /\ pkg \in Packages /\ cache \in Cache
          BY <2>2 DEF WriteHeader, Cache
        <4>2. f \in File /\ f.pkg = pkg
          <5>1. e \in File /\ e.pkg = pkg
            <6>1. <<>> \in Seq(BlockRange)
              OBVIOUS
            <6> QED BY <4>1, <6>1 DEF File
          <5> HIDE DEF e
          <5> QED BY <4>1, <5>1, WrittenFile, LengthAssumption
        <4>3. cache' = [cache EXCEPT !.tmp = f]
          BY <2>2, <3>1 DEF WriteHeader
        <4> HIDE DEF e, f
        <4>4. cache' \in Cache /\ cache'.tmp = f /\ cache'.map = cache.map
          BY <4>1, <4>2, <4>3, SetTmp
        <4>5. f # None
          BY <4>2, NullAssumption
        <4>6. RingType'
          BY <2>2, <3>1, BoundsAssumption DEF WriteHeader, Data
        <4>7. Slots'
          <5>1. head' = 0 /\ tail' = 0 /\ head_block' = 0 /\ pos' = 0 /\ request' = request
            BY <2>2, <3>1 DEF WriteHeader
          <5>2. n \in Nat
            BY <4>1, LayoutFacts
          <5> QED BY <4>1, <5>1, <5>2, BoundsAssumption
        <4> QED BY <2>2, <3>1, <4>1, <4>2, <4>4, <4>5, <4>6, <4>7 DEF WriteHeader
      <3>2. CASE ~open
        BY <2>2, <3>2 DEF WriteHeader
      <3> QED BY <3>1, <3>2
    <2>3. CASE WriteRanges
      <3> DEFINE g == [cache.tmp EXCEPT !.count = Len(ranges), !.ranges = ranges]
                 f == Written(g, MapLength[pkg])
      <3>1. cache.tmp \in File /\ pkg \in Packages /\ cache \in Cache
        BY <2>3 DEF WriteRanges, Cache
      <3>2. g \in File /\ g.pkg = cache.tmp.pkg
        <4>1. Len(ranges) \in Nat
          OBVIOUS
        <4> QED BY <3>1, <4>1 DEF File
      <3>4. cache' = [cache EXCEPT !.tmp = f]
        BY <2>3 DEF WriteRanges
      <3> HIDE DEF g
      <3>3. f \in File /\ f.pkg = cache.tmp.pkg
        BY <3>1, <3>2, WrittenFile, LengthAssumption
      <3> HIDE DEF f
      <3>5. cache' \in Cache /\ cache'.tmp = f /\ cache'.map = cache.map
        BY <3>1, <3>3, <3>4, SetTmp
      <3>6. f # None
        BY <3>3, NullAssumption
      <3> QED BY <2>3, <3>1, <3>3, <3>5, <3>6 DEF WriteRanges
    <2>4. CASE FsyncMap
      <3> DEFINE f == [cache.tmp EXCEPT !.synced = TRUE]
      <3>1. cache.tmp \in File /\ pkg \in Packages /\ cache \in Cache
        BY <2>4 DEF FsyncMap, Cache
      <3>2. f \in File /\ f.pkg = cache.tmp.pkg /\ f.synced
        BY <3>1 DEF File
      <3>3. cache' = [cache EXCEPT !.tmp = f]
        BY <2>4 DEF FsyncMap
      <3> HIDE DEF f
      <3>4. cache' \in Cache /\ cache'.tmp = f /\ cache'.map = cache.map
        BY <3>1, <3>2, <3>3, SetTmp
      <3>5. f # None
        BY <3>2, NullAssumption
      <3>6. ProtocolType' /\ CountType'
        BY <2>4 DEF FsyncMap
      <3>7. RingType' /\ Errand' /\ Slots'
        BY <2>4 DEF FsyncMap
      <3>8. StoreType' /\ Files'
        BY <2>4, <3>1, <3>2, <3>4, <3>5 DEF FsyncMap
      <3> QED BY <3>6, <3>7, <3>8
    <2>5. CASE FsyncDevice
      BY <2>5 DEF FsyncDevice
    <2>6. CASE RenameMap
      BY <2>6 DEF RenameMap, Cache
    <2>7. CASE FsyncDir
      BY <2>7 DEF FsyncDir
    <2>8. CASE CommitCache
      BY <2>8 DEF CommitCache
    <2>9. CASE WriteRangesFails
      <3>1. cache.tmp \in File /\ pkg \in Packages /\ cache \in Cache
        BY <2>9 DEF WriteRangesFails, Cache
      <3>2. PICK l \in HeaderLength[pkg]..MapLength[pkg] :
              cache' = [cache EXCEPT !.tmp = Written(cache.tmp, l)]
        BY <2>9 DEF WriteRangesFails
      <3>3. Written(cache.tmp, l) \in File
        BY <3>1, <3>2, WrittenFile, LengthAssumption
      <3>4. cache' \in Cache /\ cache'.map = cache.map
        BY <3>1, <3>2, <3>3, SetTmp
      <3> QED BY <2>9, <3>4 DEF WriteRangesFails
    <2> QED BY <2>1, <2>2, <2>3, <2>4, <2>5, <2>6, <2>7, <2>8, <2>9 DEF Filing
  <1> QED BY <1>1, <1>2

LEMMA AddBlock ==
  ASSUME NEW rs \in Seq(BlockRange), NEW b \in Nat
  PROVE  add_block_to_ranges(rs, b) \in Seq(BlockRange)
  <1>1. <<b, b + 1>> \in BlockRange
    BY DEF BlockRange
  <1>2. CASE rs # <<>> /\ rs[Len(rs)][2] = b
    <2>1. Len(rs) \in 1..Len(rs) /\ rs[Len(rs)] \in BlockRange
      BY <1>2
    <2>2. <<rs[Len(rs)][1], b + 1>> \in BlockRange
      BY <2>1 DEF BlockRange
    <2> DEFINE x == <<rs[Len(rs)][1], b + 1>>
    <2>3. add_block_to_ranges(rs, b) = [rs EXCEPT ![Len(rs)] = x]
      BY <1>2 DEF add_block_to_ranges
    <2> HIDE DEF x
    <2>4. x \in BlockRange
      BY <2>2 DEF x
    <2> QED BY <2>1, <2>3, <2>4
  <1>3. CASE ~(rs # <<>> /\ rs[Len(rs)][2] = b)
    BY <1>1, <1>3 DEF add_block_to_ranges
  <1> QED BY <1>2, <1>3

(* What FlushHead does when the ring is not empty. *)
LEMMA FlushHeadStep ==
  ASSUME IType, server \in {"loop", "drain"}, Filled >= 1, FlushHead
  PROVE  /\ ranges' \in Seq(BlockRange) /\ raw' \in [Blocks -> Data]
         /\ head' \in 0..(Window - 1) /\ head' = Slot(1)
         /\ head_block' \in Nat /\ head_block' = head_block + 1
         /\ Layout[pkg][head_block + 1] \in Blocks
         /\ head_block + 1 \in 1..n
  <1> DEFINE b == Layout[pkg][head_block + 1]
  <1>1. head_block + 1 \in 1..n /\ pkg \in Packages
    BY LayoutFacts DEF IType, TypeOK, Slots, Filled, RingType
  <1>2. b \in Nat /\ b \in Blocks
    BY <1>1, LayoutFacts
  <1>3. head \in 0..(Window - 1)
    BY DEF IType, TypeOK, RingType
  <1>4. head' \in 0..(Window - 1) /\ head' = Slot(1)
    BY <1>3, NextIndex, BoundsAssumption DEF FlushHead, Slot
  <1>5. ranges' \in Seq(BlockRange)
    BY <1>2, AddBlock DEF FlushHead, IType, TypeOK, RingType
  <1>6. raw' \in [Blocks -> Data]
    BY <1>2, <1>3 DEF FlushHead, IType, TypeOK, RingType, StoreType
  <1> QED BY <1>1, <1>2, <1>4, <1>5, <1>6 DEF FlushHead, IType, TypeOK, RingType

(* NextBlock finds a free slot, and the ring full when no other is free.     *)
LEMMA LoopFacts ==
  ASSUME IType, NextBlock
  PROVE  /\ pkg \in Packages /\ pos + 1 \in 1..n /\ Layout[pkg][pos + 1] \in Blocks
         /\ n \in Nat /\ pos \in Nat /\ head_block \in Nat
         /\ head \in 0..(Window - 1) /\ tail \in 0..(Window - 1)
         /\ Filled \in 0..(Window - 1) /\ tail = Slot(Filled)
         /\ next_index(tail) = head => Filled = Window - 1 /\ Filled >= 1
         /\ Filled = Window - 1 => next_index(tail) = head
  <1> DEFINE b == Layout[pkg][pos + 1]
             Full == next_index(tail) = head
  <1> USE DEF IType, TypeOK
  <1>1. /\ pkg \in Packages /\ pos + 1 \in 1..n /\ b \in Blocks
        /\ n \in Nat /\ pos \in Nat /\ head_block \in Nat
        /\ head \in 0..(Window - 1) /\ tail \in 0..(Window - 1)
        /\ Filled \in 0..(Window - 1) /\ tail = Slot(Filled)
    <2>1. pkg \in Packages /\ pos < n
      BY DEF NextBlock, Slots
    <2>2. /\ pos \in Nat /\ head_block \in Nat
          /\ head \in 0..(Window - 1) /\ tail \in 0..(Window - 1)
      BY DEF RingType
    <2>3. n \in Nat
      BY <2>1, LayoutFacts
    <2>4. pos + 1 \in 1..n
      BY <2>1, <2>2, <2>3
    <2>5. b \in Blocks
      BY <2>1, <2>4, LayoutFacts
    <2>6. head_block <= pos /\ Filled <= Window - 1 /\ tail = Slot(Filled)
      BY DEF NextBlock, Slots
    <2>7. Filled \in 0..(Window - 1)
      BY <2>2, <2>6, BoundsAssumption DEF Filled
    <2> QED BY <2>1, <2>2, <2>3, <2>4, <2>5, <2>6, <2>7
  <1>2. /\ Full => Filled = Window - 1 /\ Filled >= 1
        /\ Filled = Window - 1 => Full
    <2>1. Window \in Nat /\ Window >= 2
      BY BoundsAssumption
    <2>2. next_index(tail) = IF tail + 1 = Window THEN 0 ELSE tail + 1
      BY <1>1, NextIndex
    <2>3. tail = IF head + Filled < Window THEN head + Filled ELSE head + Filled - Window
      BY <1>1 DEF Slot
    <2> HIDE DEF IType, TypeOK
    <2> QED BY <1>1, <2>1, <2>2, <2>3
  <1> QED BY <1>1, <1>2

LEMMA NextBlockIType ==
  ASSUME IType, NextBlock
  PROVE  IType'
  <1> DEFINE b == Layout[pkg][pos + 1]
             Full == next_index(tail) = head
  <1> USE DEF IType, TypeOK
  <1>1. /\ pkg \in Packages /\ pos + 1 \in 1..n /\ b \in Blocks
        /\ n \in Nat /\ pos \in Nat /\ head_block \in Nat
        /\ head \in 0..(Window - 1) /\ tail \in 0..(Window - 1)
        /\ Filled \in 0..(Window - 1) /\ tail = Slot(Filled)
    BY LoopFacts
  <1>2. /\ Full => Filled = Window - 1 /\ Filled >= 1
        /\ Filled = Window - 1 => Full
    BY LoopFacts
  <1>3. tail' \in 0..(Window - 1) /\ pos' = pos + 1
        /\ tail' = IF tail + 1 = Window THEN 0 ELSE tail + 1
    BY <1>1, NextIndex, BoundsAssumption DEF NextBlock
  <1>4. /\ ranges' \in Seq(BlockRange) /\ raw' \in [Blocks -> Data]
        /\ head' \in 0..(Window - 1) /\ head_block' \in Nat
        /\ head' = (IF Full THEN Slot(1) ELSE head)
        /\ head_block' = (IF Full THEN head_block + 1 ELSE head_block)
    <2>1. CASE Full
      BY <2>1, <1>2, FlushHeadStep DEF NextBlock
    <2>2. CASE ~Full
      BY <2>2 DEF NextBlock, RingType, StoreType
    <2> QED BY <2>1, <2>2
  <1>5. Slots'
    BY <1>1, <1>2, <1>3, <1>4, BoundsAssumption DEF NextBlock, Slots, Filled, Slot
  <1>6. ReadBlock(b) \subseteq Data
    BY <1>1, PlainData DEF ReadBlock, Data
  <1>7. /\ buffers' \in [0..(Window - 1) -> Data]
        /\ paged' \subseteq Blocks /\ spoilt' \subseteq Packages
    BY <1>1, <1>6 DEF NextBlock, RingType, StoreType
  <1>8. RingType' /\ StoreType'
    BY <1>3, <1>4, <1>7, <1>1 DEF NextBlock, RingType, StoreType
  <1>9. ProtocolType' /\ CountType'
    <2>1. toClient' = toClient \/ toClient' = Append(toClient, "progress")
      BY DEF NextBlock, write_status_to_socket
    <2>2. toClient' \in Seq({"progress", "100", "-1"})
      BY <2>1 DEF ProtocolType
    <2> QED BY <2>2 DEF NextBlock, ProtocolType, CountType
  <1>10. FlagType'
    BY DEF NextBlock, FlagType
  <1>11. Errand' /\ Files'
    BY DEF NextBlock, Errand, Files
  <1> QED BY <1>5, <1>8, <1>9, <1>10, <1>11

LEMMA DrainIType ==
  ASSUME IType, Drain
  PROVE  IType'
  <1> USE DEF IType, TypeOK
  <1>1. /\ pkg \in Packages /\ head_block <= pos /\ pos <= n /\ Filled <= Window - 1
        /\ n \in Nat /\ pos \in Nat /\ head_block \in Nat
        /\ head \in 0..(Window - 1) /\ tail = Slot(Filled)
    BY LayoutFacts DEF Drain, Slots, RingType
  <1>2. head # tail => Filled >= 1
    BY <1>1, BoundsAssumption DEF Filled, Slot
  <1>3. FlagType' /\ ProtocolType' /\ CountType'
    BY DEF Drain, FlagType, ProtocolType, CountType
  <1>4. CASE head # tail
    <2>1. FlushHead /\ server = "drain" /\ UNCHANGED server
      BY <1>4 DEF Drain
    <2>2. /\ ranges' \in Seq(BlockRange) /\ raw' \in [Blocks -> Data]
          /\ head' \in 0..(Window - 1) /\ head' = Slot(1)
          /\ head_block' \in Nat /\ head_block' = head_block + 1
      BY <1>2, <1>4, <2>1, FlushHeadStep
    <2>3. RingType' /\ StoreType'
      BY <2>2 DEF Drain, RingType, StoreType
    <2>4. Slots'
      BY <1>1, <1>2, <1>4, <2>1, <2>2, BoundsAssumption DEF Drain, Slots, Filled, Slot
    <2> QED BY <1>3, <2>1, <2>3, <2>4 DEF Drain, Errand, Files
  <1>5. CASE head = tail
    BY <1>3, <1>5 DEF Drain, RingType, StoreType, Slots, Errand, Files
  <1> QED BY <1>4, <1>5

LEMMA AfterLossFile ==
  ASSUME NEW f \in File \cup {None}, NEW g \in AfterLoss(f)
  PROVE  g \in File \cup {None} /\ ((f # None /\ f.synced) => g = f) /\ (f = None => g = None)
  BY NewFileFile DEF AfterLoss

LEMMA PowerLossIType ==
  ASSUME IType, PowerLoss
  PROVE  IType'
  <1> USE DEF IType, TypeOK
  <1>1. PICK m \in AfterLoss(cacheD.map), t \in AfterLoss(cacheD.tmp) :
          cache' = [map |-> m, tmp |-> t] /\ cacheD' = cache'
    BY DEF PowerLoss
  <1>2. cacheD.map \in File \cup {None} /\ cacheD.tmp \in File \cup {None}
    BY DEF StoreType, Cache
  <1>3. m \in File \cup {None} /\ t \in File \cup {None}
    BY <1>2, AfterLossFile
  <1>4. cache' \in Cache
    BY <1>1, <1>3 DEF Cache
  <1>5. m = cacheD.map
    BY <1>2, AfterLossFile DEF Files, MapFiles
  <1>6. Files'
    BY <1>1, <1>4, <1>5 DEF PowerLoss, Files, MapFiles
  <1>7. raw' \in [Blocks -> Data] /\ rawD' \in [Blocks -> Data]
    BY DEF PowerLoss, StoreType
  <1>8. StoreType'
    BY <1>1, <1>4, <1>7 DEF PowerLoss, StoreType
  <1>9. ProtocolType' /\ CountType' /\ RingType' /\ Errand' /\ Slots'
    BY DEF PowerLoss, ProtocolType, CountType, RingType, Errand, Slots
  <1>10. FlagType'
    BY DEF PowerLoss, FlagType
  <1> QED BY <1>6, <1>8, <1>9, <1>10

LEMMA NextSplit ==
  ASSUME Next
  PROVE  Talking \/ Filing \/ NextBlock \/ Drain \/ PowerLoss \/ Rest
  BY DEF Next, Service, Produce, Fault, Talking, Filing

LEMMA StutterIType ==
  ASSUME IType, UNCHANGED vars
  PROVE  IType'
  BY DEF IType, TypeOK, vars, ProtocolType, RingType, StoreType, FlagType, CountType, Slots,
         Filled, Slot, Errand, Files, MapFiles

(* The inductive invariant of produce_block_map: the ring holds exactly the *)
(* blocks between head_block and pos and its indices stay in the window,    *)
(* and block.map only gets its name when its data is synced.                *)
THEOREM ITypeHolds == Spec => []IType
  <1>1. IType /\ [Next]_vars => IType'
    <2> SUFFICES ASSUME IType, [Next]_vars PROVE IType'
      OBVIOUS
    <2>1. CASE Next
      BY <2>1, NextSplit, TalkingIType, FilingIType, NextBlockIType, DrainIType, PowerLossIType,
         StutterIType DEF Rest
    <2>2. CASE UNCHANGED vars
      BY <2>2, StutterIType
    <2> QED BY <2>1, <2>2
  <1> QED BY InitIType, <1>1, PTL DEF Spec

(* No step takes a variable out of its type; above all, produce_block_map   *)
(* never leaves the WINDOW_SIZE buffers of its ring.                        *)
THEOREM TypeCorrect == Spec => []TypeOK
  BY ITypeHolds, PTL DEF IType

-----------------------------------------------------------------------------
(* The conversation: which messages are under way at each point.            *)

Busy == (Serving \ {"length", "message"}) \cup {"report", "code"}
Quiet(s) == \A i \in 1..Len(s) : s[i] = "progress"

Connection ==
  /\ server = "gone" => client \in {"idle", "connect"} /\ toServer = <<>> /\ toClient = <<>>
  /\ server = "accept" => client = "connect" /\ toServer = <<>>
  /\ client = "connect" => server \in {"accept", "gone"}
  /\ (server # "gone" /\ ~open) => client \in {"idle", "connect"}
Words ==
  /\ server = "length" =>
       /\ client # "ack"
       /\ client = "length" => Len(toServer) = 0
       /\ client = "message" => Len(toServer) = 1
       /\ client = "waiting" => Len(toServer) = 2
  /\ server = "message" =>
       /\ client \notin {"length", "ack"}
       /\ client = "message" => Len(toServer) = 0
       /\ client = "waiting" => Len(toServer) = 1
  /\ server \in Busy =>
       /\ client \notin {"length", "message"}
       /\ client \in {"waiting", "ack"} => Len(toServer) = 0
Answers ==
  /\ client = "ack" => server = "code"
  /\ server # "code" => Quiet(toClient)

ITalk == Connection /\ Words /\ Answers

Has(s) == \E i \in 1..Len(s) : s[i] = "100"

LEMMA QuietAppend ==
  ASSUME NEW S, NEW s \in Seq(S), NEW x \in S
  PROVE  /\ Quiet(s) /\ x = "progress" => Quiet(Append(s, x))
         /\ Has(Append(s, x)) => Has(s) \/ x = "100"
  BY DEF Quiet, Has

LEMMA QuietTail ==
  ASSUME NEW S, NEW s \in Seq(S), s # <<>>
  PROVE  /\ Quiet(s) => Quiet(Tail(s)) /\ Head(s) = "progress"
         /\ Has(Tail(s)) => Has(s)
         /\ Head(s) = "100" => Has(s)
  BY DEF Quiet, Has

(* The other steps of the service: they only speak of progress. *)
Working ==
  /\ UNCHANGED <<client, request, answer, open, toServer>>
  /\ toClient' = toClient \/ toClient' = Append(toClient, "progress")
  /\ server \in Serving \ {"length", "message"}
  /\ server' \in Busy \ {"code"}

LEMMA WorkingSteps ==
  ASSUME IType, AllRead \/ WriteBcb \/ WriteWipePackage \/ clear_bcb \/ NextBlock \/ Drain
                \/ RemoveMap \/ WriteHeader \/ WriteRanges \/ FsyncMap \/ FsyncDevice
                \/ RenameMap \/ FsyncDir \/ UncryptFails \/ WriteRangesFails \/ FindPackage
  PROVE  Working
  BY DEF Working, Busy, AllRead, WriteBcb, WriteWipePackage, clear_bcb, NextBlock, Drain,
         RemoveMap, WriteHeader, WriteRanges, FsyncMap, FsyncDevice, RenameMap, FsyncDir,
         UncryptFails, WriteRangesFails, FindPackage, EndWith, write_status_to_socket

(* CommitCache and stuttering do not touch the conversation. *)
LEMMA NextTalk ==
  ASSUME IType, [Next]_vars
  PROVE  \/ \E r \in Requests : ClientStarts(r)
         \/ Caller \/ ClientDies \/ Accept \/ StartFails \/ ReceiveCode \/ KilledBySigpipe
         \/ Report \/ ReceiveMessage \/ PowerLoss \/ Working
         \/ UNCHANGED <<caller, server, status, socket>>
  <1>1. CASE UNCHANGED vars \/ Rest \/ CommitCache
    BY <1>1 DEF vars, Rest, CommitCache
  <1>2. CASE Next /\ ~Rest /\ ~CommitCache
    BY <1>2, WorkingSteps DEF Next, Service, Produce, Fault
  <1> QED BY <1>1, <1>2

LEMMA ITalkStep ==
  ASSUME IType, ITalk, [Next]_vars
  PROVE  ITalk'
  <1> USE DEF ITalk, IType, TypeOK, ProtocolType, Connection, Words, Answers, Busy, EndWith,
              write_status_to_socket
  <1>0. Quiet(<<>>)
    BY DEF Quiet
  <1>1. ASSUME NEW r \in Requests, ClientStarts(r) PROVE ITalk'
    BY <1>1 DEF ClientStarts
  <1>2. CASE ClientSends
    <2>1. Len(toServer') = Len(toServer) + 1
      BY <1>2 DEF ClientSends
    <2> QED BY <1>2, <2>1 DEF ClientSends
  <1>3. CASE ClientReads
    <2>1. Quiet(toClient) => Quiet(toClient') /\ Head(toClient) = "progress"
      BY <1>3, QuietTail DEF ClientReads
    <2> QED BY <1>3, <2>1 DEF ClientReads
  <1>4. CASE ClientAcks
    BY <1>4 DEF ClientAcks
  <1>5. CASE ClientFindsSocketGone
    BY <1>5 DEF ClientFindsSocketGone
  <1>6. CASE ClientDies
    BY <1>6 DEF ClientDies
  <1>7. CASE Accept
    BY <1>7 DEF Accept
  <1>8. CASE StartFails
    BY <1>0, <1>8 DEF StartFails, Exits
  <1>9. CASE ReceiveCode
    BY <1>0, <1>9 DEF ReceiveCode, Exits
  <1>10. CASE KilledBySigpipe
    BY <1>0, <1>10 DEF KilledBySigpipe, Exits
  <1>11. CASE Report
    BY <1>11 DEF Report
  <1>12. CASE ReceiveMessage
    <2>1. toServer # <<>> => Len(toServer) > 0 /\ Len(Tail(toServer)) = Len(toServer) - 1
      OBVIOUS
    <2>2. CASE server = "length"
      <3>1. CASE toServer # <<>>
        <4>1. /\ server' = "message" /\ toServer' = Tail(toServer)
              /\ UNCHANGED <<client, open, toClient>>
          BY <1>12, <2>2, <3>1 DEF ReceiveMessage
        <4> QED BY <2>1, <2>2, <3>1, <4>1
      <3>2. CASE toServer = <<>>
        BY <1>12, <2>2, <3>2 DEF ReceiveMessage
      <3> QED BY <3>1, <3>2
    <2>3. CASE server = "message"
      <3>1. CASE toServer # <<>>
        BY <1>12, <2>1, <2>3, <3>1 DEF ReceiveMessage
      <3>2. CASE toServer = <<>>
        BY <1>12, <2>3, <3>2 DEF ReceiveMessage
      <3> QED BY <3>1, <3>2
    <2> QED BY <1>12, <2>2, <2>3 DEF ReceiveMessage
  <1>13. CASE PowerLoss
    BY <1>0, <1>13 DEF PowerLoss
  <1>14. CASE Working
    <2>1. Quiet(toClient) => Quiet(Append(toClient, "progress"))
      <3>1. toClient \in Seq({"progress", "100", "-1"})
        OBVIOUS
      <3> QED BY <3>1, QuietAppend
    <2>2. CASE toClient' = toClient
      BY <1>14, <2>2 DEF Working
    <2>3. CASE toClient' = Append(toClient, "progress")
      BY <1>14, <2>1, <2>3 DEF Working
    <2> QED BY <1>14, <2>2, <2>3 DEF Working
  <1>15. CASE UNCHANGED <<caller, server, status, socket>>
    BY <1>15
  <1> QED BY <1>1, <1>2, <1>3, <1>4, <1>5, <1>6, <1>7, <1>8, <1>9, <1>10, <1>11, <1>12, <1>13,
             <1>14, <1>15, NextTalk DEF Caller

(* The conversation keeps to the protocol of uncrypt.cpp 51-85: each side   *)
(* only has to read what it expects, and no status comes before its time.   *)
THEOREM ITalkHolds == Spec => [](IType /\ ITalk)
  <1>1. Init => ITalk
    BY DEF Init, ITalk, Connection, Words, Answers, Busy, Quiet
  <1> QED BY <1>1, ITalkStep, ITypeHolds, PTL DEF Spec

(* The service does not end while a caller that is alive waits for it: it   *)
(* only leaves "code" on the caller's word or on the end of its stream.     *)
THEOREM SocketOutlives == Spec => SocketOutlivesStatus
  <1> DEFINE Step == (server = "code" /\ server' = "gone" /\ crashes' = crashes)
                       => client # "waiting"
  <1>1. IType /\ ITalk /\ [Next]_vars => [Step]_vars
    <2> SUFFICES ASSUME IType, ITalk, [Next]_vars, server = "code", server' = "gone",
                        crashes' = crashes
                 PROVE  client # "waiting"
      OBVIOUS
    <2>1. crashes \in Nat
      BY DEF IType, TypeOK, CountType
    <2>2. ~PowerLoss
      BY <2>1 DEF PowerLoss
    <2>3. ReceiveCode
      BY <2>2, NextTalk DEF ClientStarts, Caller, ClientSends, ClientReads, ClientAcks,
         ClientFindsSocketGone, ClientDies, Accept, StartFails, KilledBySigpipe, Report,
         ReceiveMessage, Working, Busy
    <2> QED BY <2>3 DEF ReceiveCode, ITalk, Connection, Words, Busy
  <1>2. [](IType /\ ITalk) /\ [][Next]_vars => [][Step]_vars
    BY <1>1, PTL
  <1> QED BY <1>2, ITalkHolds, PTL DEF Spec, SocketOutlivesStatus

-----------------------------------------------------------------------------
(* A status is only sent for what has happened, on the medium too. *)
Told == answer = "100" \/ Has(toClient) \/ (server = "report" /\ status = "100")
Kept(c) ==
  CASE request.op = "uncrypt" -> pkg # None => (c.map # None /\ c.map.pkg = pkg)
    [] request.op = "setup_bcb" -> bcb = "setup_bcb"
    [] request.op = "setup_wipe" -> bcb = "setup_wipe" /\ wipe
    [] OTHER -> bcb = "none"
IStatus == Told => Kept(cache) /\ Kept(cacheD) /\ server \in {"report", "code", "gone"}

(* Steps after which nothing is told that was not told before, and which    *)
(* leave alone what was.                                                    *)
Silent ==
  /\ Told' => Told
  /\ server \in {"report", "code", "gone"} => server' \in {"report", "code", "gone"}
  /\ UNCHANGED <<request, files, misc>>

LEMMA SilentStep ==
  ASSUME IStatus, Silent
  PROVE  IStatus'
  BY DEF IStatus, Silent, Kept

LEMMA EndsWith100 ==
  ASSUME IStatus, Kept(cache)', Kept(cacheD)', server' = "report"
  PROVE  IStatus'
  BY DEF IStatus

(* A step of the service that does not end with "100". *)
LEMMA WorkingStatus ==
  ASSUME IType, IStatus, Working, server' = "report" => status' = "-1"
  PROVE  IStatus'
  <1>1. ~Told
    BY DEF IStatus, Working
  <1>2. ~Has(Append(toClient, "progress"))
    <2>1. toClient \in Seq({"progress", "100", "-1"})
      BY DEF IType, TypeOK, ProtocolType
    <2> QED BY <1>1, <2>1, QuietAppend DEF Told
  <1> QED BY <1>1, <1>2 DEF IStatus, Told, Working

LEMMA PowerLossStatus ==
  ASSUME IType, IStatus, PowerLoss
  PROVE  IStatus'
  <1>1. PICK m \in AfterLoss(cacheD.map), t \in AfterLoss(cacheD.tmp) :
          cache' = [map |-> m, tmp |-> t] /\ cacheD' = cache'
    BY DEF PowerLoss
  <1>2. m = cacheD.map
    BY AfterLossFile DEF IType, TypeOK, StoreType, Cache, Files, MapFiles
  <1>3. Told' => Told
    BY DEF PowerLoss, Told, Has
  <1>4. cache'.map = cacheD.map /\ cacheD'.map = cacheD.map
    BY <1>1, <1>2
  <1>5. Kept(cacheD) => Kept(cache)' /\ Kept(cacheD)'
    BY <1>4 DEF PowerLoss, Kept
  <1> QED BY <1>3, <1>5 DEF IStatus, PowerLoss

LEMMA IStatusStep ==
  ASSUME IType, ITalk, IStatus, [Next]_vars
  PROVE  IStatus'
  <1> USE DEF EndWith
  <1>0. toClient \in Seq({"progress", "100", "-1"}) /\ ~Has(<<>>)
    BY DEF IType, TypeOK, ProtocolType, Has
  <1>1. ASSUME NEW r \in Requests, ClientStarts(r) PROVE IStatus'
    BY <1>0, <1>1 DEF ClientStarts, ITalk, Connection, IStatus, Told
  <1>2. CASE ClientSends \/ ClientAcks \/ ClientFindsSocketGone \/ ClientDies
    <2>1. Silent
      BY <1>2 DEF ClientSends, ClientAcks, ClientFindsSocketGone, ClientDies, Silent, Told
    <2> QED BY <2>1, SilentStep
  <1>3. CASE ClientReads
    <2>1. Told' => Told
      BY <1>0, <1>3, QuietTail DEF ClientReads, Told
    <2>2. Silent
      BY <1>3, <2>1 DEF ClientReads, Silent
    <2> QED BY <2>2, SilentStep
  <1>4. CASE Accept \/ ReceiveMessage
    <2>1. ~Told
      BY <1>4 DEF IStatus, Accept, ReceiveMessage
    <2> QED BY <1>4, <2>1 DEF IStatus, Told, Accept, ReceiveMessage
  <1>5. CASE StartFails \/ ReceiveCode \/ KilledBySigpipe
    <2>1. Silent
      BY <1>0, <1>5 DEF StartFails, ReceiveCode, KilledBySigpipe, Exits, Silent, Told
    <2> QED BY <2>1, SilentStep
  <1>6. CASE Report
    <2>1. Has(toClient') => Has(toClient) \/ status = "100"
      <3>1. status \in {"progress", "100", "-1"}
        BY DEF IType, TypeOK, ProtocolType
      <3> QED BY <1>0, <1>6, <3>1, QuietAppend DEF Report, write_status_to_socket
    <2>2. Silent
      BY <1>6, <2>1 DEF Report, Silent, Told
    <2> QED BY <2>2, SilentStep
  <1>7. CASE FindPackage
    BY <1>7, WorkingSteps, WorkingStatus, EndsWith100 DEF FindPackage, Kept, IType, Errand
  <1>8. CASE FsyncDir
    <2>1. cache.map # None /\ cache.map.pkg = pkg /\ request.op = "uncrypt"
      BY <1>8 DEF FsyncDir, IType, Files, Errand
    <2> QED BY <1>8, <2>1, EndsWith100 DEF FsyncDir, Kept
  <1>9. CASE WriteBcb
    <2>1. request.op \in {"setup_bcb", "setup_wipe"}
      BY <1>9 DEF WriteBcb, IType, Errand
    <2> QED BY <1>9, <2>1, WorkingSteps, WorkingStatus, EndsWith100 DEF WriteBcb, Kept
  <1>10. CASE WriteWipePackage
    <2>1. request.op = "setup_wipe" /\ bcb = "setup_wipe"
      BY <1>10 DEF WriteWipePackage, IType, Errand
    <2> QED BY <1>10, <2>1, WorkingSteps, WorkingStatus, EndsWith100 DEF WriteWipePackage, Kept
  <1>11. CASE clear_bcb
    <2>1. request.op = "clear_bcb"
      BY <1>11 DEF clear_bcb, IType, Errand
    <2> QED BY <1>11, <2>1, WorkingSteps, WorkingStatus, EndsWith100 DEF clear_bcb, Kept
  <1>12. CASE AllRead \/ NextBlock \/ Drain \/ RemoveMap \/ WriteHeader \/ WriteRanges
              \/ FsyncMap \/ FsyncDevice \/ RenameMap \/ UncryptFails \/ WriteRangesFails
    <2>1. server' = "report" => status' = "-1"
      BY <1>12 DEF AllRead, NextBlock, Drain, RemoveMap, WriteHeader, WriteRanges, FsyncMap,
                   FsyncDevice, RenameMap, UncryptFails, WriteRangesFails
    <2> QED BY <1>12, <2>1, WorkingSteps, WorkingStatus
  <1>13. CASE CommitCache
    BY <1>13 DEF CommitCache, IStatus, Told, Kept
  <1>14. CASE UNCHANGED vars \/ Rest
    BY <1>14 DEF vars, Rest, IStatus, Told, Kept
  <1> QED BY <1>1, <1>2, <1>3, <1>4, <1>5, <1>6, <1>7, <1>8, <1>9, <1>10, <1>11, <1>12, <1>13,
             <1>14, PowerLossStatus DEF Next, Caller, Service, Produce, Fault

(* A caller that got "100" finds what it asked for done, also after a power *)
(* loss at any moment: the map is on the medium under its name, or the      *)
(* command is in misc with its wipe package, or the BCB is clear.           *)
THEOREM StatusTrue == Spec => []StatusIsTrue
  <1>1. Init => IStatus
    BY DEF Init, IStatus, Told, Has
  <1>2. IStatus => StatusIsTrue
    BY DEF IStatus, Told, Kept, StatusIsTrue
  <1> QED BY <1>1, <1>2, IStatusStep, ITalkHolds, PTL DEF Spec

-----------------------------------------------------------------------------
(* What block.map says.                                                      *)

(* The lines of a map list the first h blocks of p in order: the i-th range  *)
(* those from e[i - 1] to e[i].                                              *)
Cuts(rs, e, p) ==
  /\ e \in [0..Len(rs) -> 0..Len(Layout[p])] /\ e[0] = 0
  /\ \A i \in 1..Len(rs) :
       /\ e[i - 1] < e[i] /\ rs[i][2] = rs[i][1] + (e[i] - e[i - 1])
       /\ \A j \in 1..(e[i] - e[i - 1]) : Layout[p][e[i - 1] + j] = rs[i][1] + j - 1
Listed(rs, h, p) ==
  \E e \in [0..Len(rs) -> 0..Len(Layout[p])] : Cuts(rs, e, p) /\ e[Len(rs)] = h
Complete(f) == f.count = Len(f.ranges) /\ Listed(f.ranges, Len(Layout[f.pkg]), f.pkg)

(* What MapBlockFile makes of one more range.                                *)
LEMMA ExpandStep ==
  ASSUME NEW L \in Seq(Nat), NEW a \in 0..Len(L), NEW b \in 0..Len(L), a < b, NEW first \in Nat,
         \A j \in 1..(b - a) : L[a + j] = first + j - 1
  PROVE  SubSeq(L, 1, b) = SubSeq(L, 1, a) \o [j \in 1..(b - a) |-> first + j - 1]
<1> DEFINE x == SubSeq(L, 1, a)
           y == [j \in 1..(b - a) |-> first + j - 1]
           z == SubSeq(L, 1, b)
<1>1. /\ x \in Seq(Nat) /\ Len(x) = a /\ (\A k \in 1..a : x[k] = L[k])
      /\ z \in Seq(Nat) /\ Len(z) = b /\ (\A k \in 1..b : z[k] = L[k])
  OBVIOUS
<1>2. y \in Seq(Nat) /\ Len(y) = b - a /\ \A j \in 1..(b - a) : y[j] = L[a + j]
  <2> DEFINE m == b - a
  <2>1. m \in Nat
    OBVIOUS
  <2> HIDE DEF m
  <2>2. \A j \in 1..m : first + j - 1 \in Nat
    BY <2>1
  <2>3. [j \in 1..m |-> first + j - 1] \in Seq(Nat)
    BY <2>1, <2>2
  <2>4. Len([j \in 1..m |-> first + j - 1]) = m
    BY <2>1
  <2>5. y = [j \in 1..m |-> first + j - 1]
    BY DEF m
  <2> QED BY <2>3, <2>4, <2>5 DEF m
<1> HIDE DEF x, y, z
<1>3. /\ x \o y \in Seq(Nat) /\ Len(x \o y) = b
      /\ \A k \in 1..b : (x \o y)[k] = IF k <= a THEN x[k] ELSE y[k - a]
  <2>1. /\ x \o y \in Seq(Nat) /\ Len(x \o y) = Len(x) + Len(y)
        /\ \A k \in 1..(Len(x) + Len(y)) : (x \o y)[k] = IF k <= Len(x) THEN x[k] ELSE y[k - Len(x)]
    <3>1. x \in Seq(Nat) /\ y \in Seq(Nat)
      BY <1>1, <1>2, Zenon
    <3> QED BY <3>1, ConcatProperties, Zenon
  <2>2. Len(x) = a /\ Len(x) + Len(y) = b
    BY <1>1, <1>2
  <2> QED BY <2>1, <2>2, Zenon
<1>4. \A k \in 1..b : (x \o y)[k] = L[k]
  <2> TAKE k \in 1..b
  <2>0. (x \o y)[k] = IF k <= a THEN x[k] ELSE y[k - a]
    BY <1>3, Zenon
  <2>1. CASE k <= a
    <3>1. k \in 1..a
      BY <2>1
    <3>2. x[k] = L[k]
      BY <1>1, <3>1, Zenon
    <3> QED BY <2>0, <2>1, <3>2, Zenon
  <2>2. CASE ~(k <= a)
    <3>1. k - a \in 1..(b - a) /\ a + (k - a) = k
      BY <2>2
    <3>2. y[k - a] = L[a + (k - a)]
      BY <1>2, <3>1, Zenon
    <3>3. y[k - a] = L[k]
      BY <3>1, <3>2, Zenon
    <3> QED BY <2>0, <2>2, <3>3, Zenon
  <2> QED BY <2>1, <2>2
<1>5. \A k \in 1..Len(z) : z[k] = (x \o y)[k]
  BY <1>1, <1>4
<1>6. z = x \o y
  BY <1>1, <1>3, <1>5, SeqEqual, Zenon
<1> QED BY <1>6 DEF x, y, z

(* A function that satisfies the equation of MapExpand is the only one: the  *)
(* first place where two of them differ has none before it.                  *)
LEMMA ExpandCuts ==
  ASSUME NEW p \in Packages, NEW rs \in Seq(BlockRange), NEW e, Cuts(rs, e, p),
         e[Len(rs)] = Len(Layout[p])
  PROVE  MapExpand(rs) = Layout[p]
<1> DEFINE N == Len(rs)
           L == Layout[p]
           Part(f, i) == IF i = 0 THEN <<>>
                         ELSE f[i - 1] \o [j \in 1..(rs[i][2] - rs[i][1]) |-> rs[i][1] + j - 1]
           g == [i \in 0..N |-> SubSeq(L, 1, e[i])]
           fc == CHOOSE f : f = [i \in 0..N |-> Part(f, i)]
<1>1. MapExpand(rs) = fc[N]
  BY DEF MapExpand
<1>2. N \in Nat /\ L \in Seq(Nat)
  BY LayoutAssumption
<1>3. ASSUME NEW i \in 0..N PROVE g[i] = Part(g, i)
  <2>1. CASE i = 0
    BY <2>1, <1>2 DEF Cuts
  <2>2. CASE i # 0
    <3>1. i \in 1..N /\ i - 1 \in 0..N
      BY <1>2, <2>2
    <3>2. rs[i][1] \in Nat /\ rs[i][2] \in Nat
      BY <3>1 DEF BlockRange
    <3>3. e[i] \in 0..Len(L) /\ e[i - 1] \in 0..Len(L) /\ e[i - 1] < e[i]
          /\ rs[i][2] = rs[i][1] + (e[i] - e[i - 1])
          /\ \A j \in 1..(e[i] - e[i - 1]) : L[e[i - 1] + j] = rs[i][1] + j - 1
      BY <3>1 DEF Cuts
    <3>4. rs[i][2] - rs[i][1] = e[i] - e[i - 1]
      BY <3>2, <3>3
    <3>5. SubSeq(L, 1, e[i])
            = SubSeq(L, 1, e[i - 1]) \o [j \in 1..(e[i] - e[i - 1]) |-> rs[i][1] + j - 1]
      <4> HIDE DEF L
      <4> QED BY <1>2, <3>2, <3>3, ExpandStep
    <3>6. g[i] = SubSeq(L, 1, e[i]) /\ g[i - 1] = SubSeq(L, 1, e[i - 1])
      BY <3>1
    <3> HIDE DEF g
    <3> QED BY <2>2, <3>4, <3>5, <3>6
  <2> QED BY <2>1, <2>2
<1>4. g = [i \in 0..N |-> Part(g, i)]
  <2>1. g = [i \in 0..N |-> g[i]]
    OBVIOUS
  <2> HIDE DEF g, Part
  <2> QED BY <1>3, <2>1
<1>5. fc = [i \in 0..N |-> Part(fc, i)]
  <2> HIDE DEF Part, g
  <2> QED BY <1>4
<1>6. \A i \in 0..N : fc[i] = g[i]
  <2> DEFINE S == {i \in 0..N : fc[i] # g[i]}
             R == OpToRel(<, Nat)
  <2> HIDE DEF fc, g
  <2> SUFFICES ASSUME S # {} PROVE FALSE
    OBVIOUS
  <2>1. PICK x \in S : \A y \in S : ~(<<y, x>> \in R)
    <3>1. S \in SUBSET Nat
      BY <1>2
    <3> QED BY <3>1, NatLessThanWellFounded, WFMin
  <2>2. x \in 0..N /\ fc[x] # g[x] /\ x # 0 /\ x - 1 \in 0..N
    <3>1. fc[0] = <<>> /\ g[0] = <<>>
      <4>1. 0 \in 0..N
        BY <1>2
      <4>2. fc[0] = Part(fc, 0) /\ g[0] = Part(g, 0)
        <5> HIDE DEF Part
        <5> QED BY <1>3, <1>5, <4>1
      <4> QED BY <4>2
    <3> QED BY <1>2, <3>1
  <2>3. fc[x - 1] = g[x - 1]
    <3>1. <<x - 1, x>> \in R
      BY <1>2, <2>2 DEF OpToRel
    <3>2. x - 1 \notin S
      <4> HIDE DEF R, S
      <4> QED BY <2>1, <3>1
    <3> QED BY <2>2, <3>2
  <2>4. fc[x] = Part(fc, x) /\ g[x] = Part(g, x)
    <3> HIDE DEF Part
    <3> QED BY <1>3, <1>5, <2>2
  <2> QED BY <2>2, <2>3, <2>4
<1>7. g[N] = L
  <2>1. g[N] = SubSeq(L, 1, Len(L))
    BY <1>2
  <2> QED BY <1>2, <2>1
<1>8. N \in 0..N
  BY <1>2
<1> HIDE DEF N, fc, g
<1> QED BY <1>1, <1>6, <1>7, <1>8

LEMMA ListedEmpty == ASSUME NEW p \in Packages PROVE Listed(<<>>, 0, p)
<1> DEFINE e == [i \in 0..0 |-> 0]
<1>1. Len(Layout[p]) \in Nat /\ Len(<<>>) = 0
  BY LayoutFacts
<1>2. e \in [0..0 -> 0..Len(Layout[p])] /\ e[0] = 0
  BY <1>1
<1> HIDE DEF e
<1>3. Cuts(<<>>, e, p) /\ e[Len(<<>>)] = 0
  BY <1>1, <1>2 DEF Cuts
<1>7. e \in [0..Len(<<>>) -> 0..Len(Layout[p])]
  BY <1>1, <1>2
<1> QED BY <1>3, <1>7 DEF Listed

(* The last line ends right after the last block.                            *)
LEMMA LastLine ==
  ASSUME NEW p \in Packages, NEW rs \in Seq(BlockRange), NEW e, Cuts(rs, e, p)
  PROVE  /\ rs = <<>> => e[Len(rs)] = 0
         /\ rs # <<>> => /\ e[Len(rs)] \in 1..Len(Layout[p])
                         /\ rs[Len(rs)][2] = Layout[p][e[Len(rs)]] + 1
<1>1. CASE rs = <<>>
  BY <1>1 DEF Cuts
<1>2. CASE rs # <<>>
  <2> DEFINE N == Len(rs)
             w == e[N] - e[N - 1]
  <2>1. N \in 1..Len(rs) /\ N \in 0..Len(rs) /\ N - 1 \in 0..Len(rs)
    BY <1>2
  <2>2. rs[N][1] \in Nat
    BY <2>1 DEF BlockRange
  <2>3. e[N] \in 0..Len(Layout[p]) /\ e[N - 1] \in 0..Len(Layout[p]) /\ e[N - 1] < e[N]
        /\ rs[N][2] = rs[N][1] + w /\ \A j \in 1..w : Layout[p][e[N - 1] + j] = rs[N][1] + j - 1
    BY <2>1 DEF Cuts
  <2> HIDE DEF N
  <2>4. w \in 1..w /\ e[N - 1] + w = e[N] /\ e[N] \in 1..Len(Layout[p])
    BY <2>3, LayoutFacts
  <2>5. Layout[p][e[N]] = rs[N][1] + w - 1
    BY <2>3, <2>4
  <2>6. rs[N][2] = Layout[p][e[N]] + 1
    BY <2>2, <2>3, <2>4, <2>5
  <2> QED BY <1>2, <2>4, <2>6 DEF N
<1> QED BY <1>1, <1>2

(* add_block_to_ranges lists one block more, in the last line or in a new    *)
(* one.                                                                      *)
LEMMA ListedAdd ==
  ASSUME NEW p \in Packages, NEW rs \in Seq(BlockRange), NEW h \in Nat, h + 1 \in 1..Len(Layout[p]),
         Listed(rs, h, p)
  PROVE  Listed(add_block_to_ranges(rs, Layout[p][h + 1]), h + 1, p)
<1> DEFINE N == Len(rs)
           b == Layout[p][h + 1]
           M == Len(Layout[p])
<1>1. PICK e \in [0..N -> 0..M] : Cuts(rs, e, p) /\ e[N] = h
  BY DEF Listed
<1>2. N \in Nat /\ M \in Nat /\ h + 1 \in 0..M /\ b \in Nat
  <2>1. M \in Nat /\ b \in Nat
    BY LayoutFacts
  <2>3. N \in Nat
    OBVIOUS
  <2> HIDE DEF N, b
  <2> QED BY <2>1, <2>3
<1> HIDE DEF N, b, M
<1>4. CASE rs # <<>> /\ rs[N][2] = b
  <2> DEFINE rr == [rs EXCEPT ![N] = <<rs[N][1], b + 1>>]
             ee == [e EXCEPT ![N] = h + 1]
  <2>1. N \in 1..N /\ N - 1 \in 0..N /\ N \in 0..N
    <3>1. N # 0
      BY <1>4 DEF N
    <3> QED BY <1>2, <3>1
  <2>2. rs[N] \in BlockRange /\ rs[N][1] \in Nat
    BY <2>1 DEF BlockRange, N
  <2>3. /\ rr \in Seq(BlockRange) /\ Len(rr) = N
        /\ \A i \in 1..N : rr[i] = IF i = N THEN <<rs[N][1], b + 1>> ELSE rs[i]
    <3> DEFINE y == <<rs[N][1], b + 1>>
    <3>1. y \in BlockRange
      BY <1>2, <2>2 DEF BlockRange
    <3> HIDE DEF y
    <3>0. Len(rs) \in 1..Len(rs)
      BY <2>1 DEF N
    <3>2. [rs EXCEPT ![N] = y] \in Seq(BlockRange) /\ Len([rs EXCEPT ![N] = y]) = Len(rs)
          /\ \A i \in 1..Len(rs) : [rs EXCEPT ![N] = y][i] = IF i = N THEN y ELSE rs[i]
      BY <3>0, <3>1 DEF N
    <3> QED BY <3>2 DEF y, N
  <2>4. /\ ee \in [0..N -> 0..M] /\ ee[N] = h + 1
        /\ \A i \in 0..N : i # N => ee[i] = e[i]
    BY <1>1, <1>2, <2>1
  <2> HIDE DEF rr, ee
  <2>5. Cuts(rr, ee, p)
    <3>1. ee[0] = 0
      <4>1. 0 \in 0..N /\ 0 # N
        BY <1>2, <2>1
      <4>2. e[0] = 0
        BY <1>1, Zenon DEF Cuts
      <4> QED BY <2>4, <4>1, <4>2, Zenon
    <3>2. ASSUME NEW i \in 1..N
          PROVE  /\ ee[i - 1] < ee[i] /\ rr[i][2] = rr[i][1] + (ee[i] - ee[i - 1])
                 /\ \A j \in 1..(ee[i] - ee[i - 1]) : Layout[p][ee[i - 1] + j] = rr[i][1] + j - 1
      <4>1. /\ e[i - 1] < e[i] /\ rs[i][2] = rs[i][1] + (e[i] - e[i - 1])
            /\ \A j \in 1..(e[i] - e[i - 1]) : Layout[p][e[i - 1] + j] = rs[i][1] + j - 1
        BY <1>1 DEF Cuts, N
      <4>2. i \in 0..N /\ i - 1 \in 0..N /\ i - 1 # N
        BY <1>2
      <4>3. CASE i # N
        BY <2>3, <2>4, <4>1, <4>2, <4>3
      <4>4. CASE i = N
        <5>1. ee[i - 1] = e[i - 1] /\ ee[i] = h + 1 /\ e[i] = h /\ e[i - 1] \in 0..M
          BY <1>1, <2>4, <4>2, <4>4
        <5>2. rr[i][1] = rs[i][1] /\ rr[i][2] = b + 1
          <6>1. rr[i] = <<rs[i][1], b + 1>>
            BY <2>3, <4>4, Zenon
          <6> QED BY <6>1
        <5>3. b = rs[i][1] + (h - e[i - 1]) /\ rs[i][1] \in Nat
          BY <1>4, <2>2, <4>1, <4>4, <5>1
        <5> DEFINE a == e[i - 1]
                   first == rs[i][1]
        <5>0. a \in Nat /\ a < h /\ first \in Nat /\ b = first + (h - a)
          BY <1>2, <4>1, <5>1, <5>3
        <5> HIDE DEF a, first
        <5>4. a < h + 1 /\ b + 1 = first + ((h + 1) - a)
          BY <5>0
        <5>5. ASSUME NEW j \in 1..((h + 1) - a)
              PROVE  Layout[p][a + j] = first + j - 1
          <6>1. CASE j = (h + 1) - a
            <7>1. a + j = h + 1 /\ b = first + j - 1
              BY <5>0, <6>1
            <7> QED BY <7>1 DEF b
          <6>2. CASE j # (h + 1) - a
            <7>1. j \in 1..(h - a)
              BY <5>0, <6>2
            <7> QED BY <4>1, <5>1, <7>1 DEF a, first
          <6> QED BY <6>1, <6>2
        <5> QED BY <5>1, <5>2, <5>4, <5>5 DEF a, first
      <4> QED BY <4>3, <4>4
    <3> QED BY <2>3, <2>4, <3>1, <3>2 DEF Cuts, M
  <2>7. add_block_to_ranges(rs, b) = rr
    BY <1>4 DEF add_block_to_ranges, rr, N
  <2>8. Listed(rr, h + 1, p)
    BY <1>2, <2>3, <2>4, <2>5 DEF Listed, M
  <2> QED BY <2>7, <2>8 DEF b
<1>5. CASE ~(rs # <<>> /\ rs[N][2] = b)
  <2> DEFINE y == <<b, b + 1>>
             rr == Append(rs, y)
             ee == [i \in 0..(N + 1) |-> IF i = N + 1 THEN h + 1 ELSE e[i]]
  <2>1. y \in BlockRange /\ y[1] = b /\ y[2] = b + 1
    BY <1>2 DEF BlockRange
  <2> HIDE DEF y
  <2>2. /\ rr \in Seq(BlockRange) /\ Len(rr) = N + 1
        /\ \A i \in 1..(N + 1) : rr[i] = IF i = N + 1 THEN y ELSE rs[i]
    BY <2>1 DEF N
  <2>3. /\ ee \in [0..(N + 1) -> 0..M] /\ ee[N + 1] = h + 1
        /\ \A i \in 0..N : ee[i] = e[i]
    BY <1>1, <1>2
  <2> HIDE DEF rr, ee
  <2>4. Cuts(rr, ee, p)
    <3>1. ee[0] = 0
      BY <1>1, <2>3, <1>2 DEF Cuts
    <3>2. ASSUME NEW i \in 1..(N + 1)
          PROVE  /\ ee[i - 1] < ee[i] /\ rr[i][2] = rr[i][1] + (ee[i] - ee[i - 1])
                 /\ \A j \in 1..(ee[i] - ee[i - 1]) : Layout[p][ee[i - 1] + j] = rr[i][1] + j - 1
      <4>1. CASE i # N + 1
        <5>1. i \in 1..N /\ i \in 0..N /\ i - 1 \in 0..N
          BY <1>2, <4>1
        <5>2. /\ e[i - 1] < e[i] /\ rs[i][2] = rs[i][1] + (e[i] - e[i - 1])
              /\ \A j \in 1..(e[i] - e[i - 1]) : Layout[p][e[i - 1] + j] = rs[i][1] + j - 1
          BY <1>1, <5>1 DEF Cuts, N
        <5> QED BY <2>2, <2>3, <4>1, <5>1, <5>2
      <4>2. CASE i = N + 1
        <5>1. ee[i - 1] = h /\ ee[i] = h + 1
          <6>1. i - 1 = N /\ N \in 0..N
            BY <1>2, <4>2
          <6> QED BY <1>1, <2>3, <4>2, <6>1
        <5>2. rr[i][1] = b /\ rr[i][2] = b + 1
          BY <2>1, <2>2, <4>2
        <5>3. ee[i] - ee[i - 1] = 1 /\ h < h + 1
          BY <5>1
        <5>4. \A j \in 1..1 : Layout[p][h + j] = b + j - 1
          BY <1>2 DEF b
        <5> QED BY <5>1, <5>2, <5>3, <5>4
      <4> QED BY <4>1, <4>2
    <3> QED BY <2>2, <2>3, <3>1, <3>2 DEF Cuts, M
  <2>6. add_block_to_ranges(rs, b) = rr
    BY <1>5 DEF add_block_to_ranges, rr, y, N
  <2>7. Listed(rr, h + 1, p)
    BY <1>2, <2>2, <2>3, <2>4 DEF Listed, M
  <2> QED BY <2>6, <2>7 DEF b
<1> QED BY <1>4, <1>5

(* Recovery accepts the lines of a complete map and maps the package.        *)
LEMMA ListedAll ==
  ASSUME NEW p \in Packages, NEW rs \in Seq(BlockRange), Listed(rs, Len(Layout[p]), p)
  PROVE  /\ MapExpand(rs) = Layout[p] /\ Len(rs) > 0
         /\ \A i \in 1..Len(rs) : rs[i][2] > rs[i][1]
<1>1. PICK e \in [0..Len(rs) -> 0..Len(Layout[p])] : Cuts(rs, e, p) /\ e[Len(rs)] = Len(Layout[p])
  BY DEF Listed
<1>2. MapExpand(rs) = Layout[p]
  BY <1>1, ExpandCuts
<1>4. Len(Layout[p]) > 0
  BY LayoutAssumption
<1>5. rs # <<>>
  BY <1>1, <1>4, LastLine
<1>6. ASSUME NEW i \in 1..Len(rs) PROVE rs[i][2] > rs[i][1]
  <2>1. i \in 0..Len(rs) /\ i - 1 \in 0..Len(rs) /\ rs[i] \in BlockRange
    OBVIOUS
  <2>2. rs[i][1] \in Nat /\ e[i] \in Nat /\ e[i - 1] \in Nat
    <3>1. e[i] \in 0..Len(Layout[p]) /\ e[i - 1] \in 0..Len(Layout[p]) /\ Len(Layout[p]) \in Nat
      BY <1>1, <2>1, LayoutFacts
    <3>2. rs[i][1] \in Nat
      BY <2>1 DEF BlockRange
    <3> QED BY <3>1, <3>2
  <2>3. e[i - 1] < e[i] /\ rs[i][2] = rs[i][1] + (e[i] - e[i - 1])
    BY <1>1 DEF Cuts
  <2> QED BY <2>2, <2>3
<1> QED BY <1>2, <1>5, <1>6

-----------------------------------------------------------------------------
(* A block of a package that was never read back after it had been rewritten *)
(* is encrypted or plain, and plain first in the cache, then on the medium.  *)
Whole(d, p) == \A k \in 1..Len(Layout[p]) : d[Layout[p][k]] = <<p, k>>
Rewritten(p) == \A k \in 1..Len(Layout[p]) :
  LET b == Layout[p][k]
  IN  /\ raw[b] \in {Cipher, <<p, k>>} /\ rawD[b] \in {Cipher, <<p, k>>}
      /\ rawD[b] # Cipher => raw[b] # Cipher
      /\ ~encrypted => rawD[b] # Cipher
Plainly == \A p \in Packages \ spoilt : Rewritten(p)

(* What produce_block_map has done at each point.                            *)
Progress ==
  /\ server \in {"loop", "drain"} =>
       /\ Listed(ranges, head_block, pkg)
       /\ pkg \notin spoilt /\ encrypted =>
            /\ \A k \in 1..head_block : raw[Layout[pkg][k]] = <<pkg, k>>
            /\ \A i \in 0..(Filled - 1) : buffers[Slot(i)] = <<pkg, head_block + i + 1>>
  /\ server = "drain" => pos = n
  /\ server = "ranges" => Listed(ranges, n, pkg)
  /\ server \in {"ranges", "fsync_map", "fsync_dev", "rename", "fsync_dir"} /\ pkg \notin spoilt =>
       Whole(raw, pkg)
  /\ server \in {"rename", "fsync_dir"} /\ pkg \notin spoilt => Whole(rawD, pkg)
  /\ server \in {"fsync_map", "fsync_dev", "rename"} => Complete(cache.tmp)

(* A block.map is complete and its package on the medium.                    *)
MapDone(c) == c.map # None => Complete(c.map) /\ (c.map.pkg \notin spoilt => Whole(rawD, c.map.pkg))
Maps == MapDone(cache) /\ MapDone(cacheD)

IMap == Plainly /\ Progress /\ Maps

Points == {"loop", "drain", "ranges", "fsync_map", "fsync_dev", "rename", "fsync_dir"}

LEMMA Distinct ==
  ASSUME NEW p \in Packages, NEW q \in Packages,
         NEW k \in 1..Len(Layout[p]), NEW l \in 1..Len(Layout[q]), Layout[p][k] = Layout[q][l]
  PROVE  p = q /\ k = l
<1>1. Plain(Layout[p][k]) = <<p, k>> /\ Plain(Layout[q][l]) = <<q, l>>
  BY PlainPlace
<1> QED BY <1>1

LEMMA PlaceIsPlain ==
  ASSUME NEW p \in Packages, NEW k \in 1..Len(Layout[p])
  PROVE  <<p, k>> # Cipher /\ <<p, k>> # Junk /\ Layout[p][k] \in Blocks
BY LayoutFacts, NullAssumption

(* Steps that leave the device, the files and the ring alone.                *)
LEMMA QuietMap ==
  ASSUME IMap, UNCHANGED <<ring, device, files, encrypted>>,
         server' \notin Points \/ UNCHANGED <<server, request>>
  PROVE  IMap'
<1>1. Plainly' /\ Maps'
  BY DEF IMap, Plainly, Rewritten, Maps, MapDone, Whole
<1>2. CASE server' \notin Points
  BY <1>1, <1>2 DEF IMap, Progress, Points
<1>3. CASE UNCHANGED <<server, request>>
  <2>1. Progress'
    BY <1>3 DEF IMap, Progress, Whole, Filled, Slot
  <2> QED BY <1>1, <2>1 DEF IMap
<1> QED BY <1>2, <1>3

LEMMA TalkingMap ==
  ASSUME IType, IMap, Talking
  PROVE  IMap'
<1>1. CASE AllRead
  <2>1. /\ server = "loop" /\ server' = "drain" /\ pos >= n
        /\ UNCHANGED <<request, ring, device, files, encrypted>>
    BY <1>1 DEF AllRead
  <2>2. pos = n
    BY <2>1, LayoutFacts DEF IType, TypeOK, RingType, Slots
  <2>3. Plainly' /\ Maps'
    BY <2>1 DEF IMap, Plainly, Rewritten, Maps, MapDone, Whole
  <2>4. Progress'
    BY <2>1, <2>2 DEF IMap, Progress, Filled, Slot
  <2> QED BY <2>3, <2>4 DEF IMap
<1>2. CASE ~AllRead
  <2>1. UNCHANGED <<ring, device, files, encrypted>>
    BY <1>2 DEF Talking, Caller, ClientStarts, ClientSends, ClientReads, ClientAcks,
           ClientFindsSocketGone, ClientDies, Accept, StartFails, ReceiveCode, KilledBySigpipe,
           Report, UncryptFails, FindPackage, ReceiveMessage, WriteBcb, WriteWipePackage,
           clear_bcb, Exits
  <2>2. server' \notin Points \/ UNCHANGED <<server, request>>
    BY <1>2 DEF Talking, Caller, ClientStarts, ClientSends, ClientReads, ClientAcks,
           ClientFindsSocketGone, ClientDies, Accept, StartFails, ReceiveCode, KilledBySigpipe,
           Report, UncryptFails, FindPackage, ReceiveMessage, WriteBcb, WriteWipePackage,
           clear_bcb, Exits, EndWith, Points
  <2> QED BY <2>1, <2>2, QuietMap
<1> QED BY <1>1, <1>2

(* Blocks that only become plain.                                            *)
LEMMA RewrittenKept ==
  ASSUME NEW p \in Packages, Rewritten(p), rawD' = rawD, encrypted' = encrypted,
         \A k \in 1..Len(Layout[p]) : raw'[Layout[p][k]] \in {raw[Layout[p][k]], <<p, k>>}
  PROVE  Rewritten(p)'
<1> SUFFICES ASSUME NEW k \in 1..Len(Layout[p])
             PROVE  LET b == Layout[p][k]
                    IN  /\ raw'[b] \in {Cipher, <<p, k>>} /\ rawD'[b] \in {Cipher, <<p, k>>}
                        /\ rawD'[b] # Cipher => raw'[b] # Cipher
                        /\ ~encrypted' => rawD'[b] # Cipher
  BY DEF Rewritten
<1>1. <<p, k>> # Cipher
  BY PlaceIsPlain
<1> QED BY <1>1 DEF Rewritten

LEMMA MapsKept ==
  ASSUME IMap, UNCHANGED <<files, rawD>>, spoilt \subseteq spoilt'
  PROVE  Maps'
BY DEF IMap, Maps, MapDone, Whole

(* What the flush of the head buffer leaves on the device.                   *)
LEMMA FlushMap ==
  ASSUME IType, IMap, server \in {"loop", "drain"}, Filled >= 1, FlushHead
  PROVE  /\ \A p \in Packages \ spoilt : \A k \in 1..Len(Layout[p]) :
              raw'[Layout[p][k]] \in {raw[Layout[p][k]], <<p, k>>}
         /\ pkg \notin spoilt /\ encrypted =>
              raw'[Layout[pkg][head_block + 1]] = <<pkg, head_block + 1>>
         /\ Listed(ranges', head_block + 1, pkg)
<1> DEFINE h == head_block + 1
           b == Layout[pkg][h]
<1>1. pkg \in Packages /\ h \in 1..n /\ b \in Blocks /\ head_block \in Nat
      /\ ranges \in Seq(BlockRange) /\ raw \in [Blocks -> Data]
  BY FlushHeadStep DEF IType, TypeOK, RingType, StoreType, Slots
<1>2. Listed(ranges', h, pkg)
  <2>1. Listed(ranges, head_block, pkg)
    BY DEF IMap, Progress
  <2>2. ranges' = add_block_to_ranges(ranges, b)
    BY DEF FlushHead
  <2> QED BY <1>1, <2>1, <2>2, ListedAdd
<1>3. CASE ~encrypted
  <2>1. raw' = raw
    BY <1>3 DEF FlushHead
  <2> QED BY <1>2, <1>3, <2>1
<1>4. CASE encrypted
  <2>1. raw' = [raw EXCEPT ![b] = buffers[head]]
    BY <1>4 DEF FlushHead
  <2>2. pkg \notin spoilt => buffers[head] = <<pkg, h>>
    <3>1. 0 \in 0..(Filled - 1) /\ Slot(0) = head /\ head_block + 0 + 1 = h
      BY <1>1, BoundsAssumption DEF IType, TypeOK, RingType, Filled, Slot
    <3>2. pkg \notin spoilt => \A i \in 0..(Filled - 1) : buffers[Slot(i)] = <<pkg, head_block + i + 1>>
      BY <1>4 DEF IMap, Progress
    <3> QED BY <3>1, <3>2
  <2>3. pkg \notin spoilt => raw'[b] = <<pkg, h>>
    BY <1>1, <2>1, <2>2
  <2>4. ASSUME NEW p \in Packages \ spoilt, NEW k \in 1..Len(Layout[p])
        PROVE  raw'[Layout[p][k]] \in {raw[Layout[p][k]], <<p, k>>}
    <3>1. Layout[p][k] \in Blocks
      BY PlaceIsPlain
    <3>2. CASE Layout[p][k] = b
      <4>1. p = pkg /\ k = h
        BY <1>1, <3>2, Distinct
      <4> QED BY <2>3, <4>1
    <3>3. CASE Layout[p][k] # b
      BY <1>1, <2>1, <3>1, <3>3
    <3> QED BY <3>2, <3>3
  <2> QED BY <1>2, <2>3, <2>4
<1> QED BY <1>3, <1>4

(* The ring after a step that has flushed one buffer or none.                *)
LEMMA RingShift ==
  ASSUME IType, server \in {"loop", "drain"}, NEW s \in {0, 1}, s <= Filled,
         head' = Slot(s), head_block' = head_block + s
  PROVE  \A i \in Nat : i + s <= Filled => Slot(i)' = Slot(i + s)
<1>1. head \in 0..(Window - 1) /\ Filled \in Int /\ Filled <= Window - 1 /\ Window \in Nat
  BY BoundsAssumption DEF IType, TypeOK, RingType, Slots, Filled
<1> SUFFICES ASSUME NEW i \in Nat, i + s <= Filled PROVE Slot(i)' = Slot(i + s)
  OBVIOUS
<1> QED BY <1>1 DEF Slot

LEMMA DifferentSlots ==
  ASSUME IType, server \in {"loop", "drain"}, NEW i \in Nat, i < Filled
  PROVE  Slot(i) # Slot(Filled) /\ Slot(i) \in 0..(Window - 1)
<1>1. head \in 0..(Window - 1) /\ Filled \in Int /\ Filled <= Window - 1 /\ Window \in Nat
  BY BoundsAssumption DEF IType, TypeOK, RingType, Slots, Filled
<1> HIDE DEF Filled
<1> QED BY <1>1 DEF Slot

LEMMA NextBlockMap ==
  ASSUME IType, IMap, NextBlock
  PROVE  IMap'
<1> DEFINE Full == next_index(tail) = head
           s == IF Full THEN 1 ELSE 0
           b == Layout[pkg][pos + 1]
<1>1. /\ server = "loop" /\ UNCHANGED <<server, request, encrypted, rawD, files>>
      /\ pos' = pos + 1 /\ spoilt \subseteq spoilt'
  BY DEF NextBlock
<1>2. /\ pkg \in Packages /\ pos + 1 \in 1..n /\ b \in Blocks /\ pos \in Nat /\ head_block \in Nat
      /\ head \in 0..(Window - 1) /\ Filled \in 0..(Window - 1) /\ tail = Slot(Filled)
      /\ tail \in 0..(Window - 1) /\ (Full => Filled >= 1)
  BY LoopFacts
<1>3. /\ \A p \in Packages \ spoilt : \A k \in 1..Len(Layout[p]) :
           raw'[Layout[p][k]] \in {raw[Layout[p][k]], <<p, k>>}
      /\ Listed(ranges', head_block', pkg)
      /\ head' = Slot(s) /\ head_block' = head_block + s
      /\ pkg \notin spoilt /\ encrypted /\ Full =>
           raw'[Layout[pkg][head_block + 1]] = <<pkg, head_block + 1>>
  <2>1. CASE Full
    <3>1. FlushHead
      BY <2>1 DEF NextBlock
    <3>2. server \in {"loop", "drain"} /\ Filled >= 1
      BY <1>1, <1>2, <2>1
    <3>3. head' = Slot(1) /\ head_block' = head_block + 1
      BY <3>1, <3>2, FlushHeadStep
    <3>4. /\ \A p \in Packages \ spoilt : \A k \in 1..Len(Layout[p]) :
               raw'[Layout[p][k]] \in {raw[Layout[p][k]], <<p, k>>}
          /\ pkg \notin spoilt /\ encrypted =>
               raw'[Layout[pkg][head_block + 1]] = <<pkg, head_block + 1>>
          /\ Listed(ranges', head_block + 1, pkg)
      BY <3>1, <3>2, FlushMap
    <3>5. s = 1
      BY <2>1
    <3> HIDE DEF s, Full
    <3> QED BY <3>3, <3>4, <3>5
  <2>2. CASE ~Full
    <3>1. UNCHANGED <<ranges, raw, head, head_block>>
      BY <2>2 DEF NextBlock
    <3>2. Listed(ranges, head_block, pkg)
      BY <1>1 DEF IMap, Progress
    <3>3. Slot(0) = head /\ head_block + 0 = head_block
      BY <1>2, BoundsAssumption DEF Slot
    <3> QED BY <1>2, <2>2, <3>1, <3>2, <3>3
  <2> QED BY <2>1, <2>2
<1>4. Maps'
  BY <1>1, MapsKept
<1>5. Plainly'
  <2> SUFFICES ASSUME NEW p \in Packages \ spoilt' PROVE Rewritten(p)'
    BY DEF Plainly
  <2>1. p \in Packages \ spoilt
    BY <1>1
  <2>2. Rewritten(p)
    BY <2>1 DEF IMap, Plainly
  <2> QED BY <1>1, <1>3, <2>1, <2>2, RewrittenKept
<1>6. ASSUME pkg \notin spoilt', encrypted, NEW k \in 1..head_block'
      PROVE  raw'[Layout[pkg][k]] = <<pkg, k>>
  <2>0. pkg \notin spoilt
    BY <1>1, <1>6
  <2>1. CASE k \in 1..head_block
    <3>1. raw[Layout[pkg][k]] = <<pkg, k>>
      BY <1>1, <1>6, <2>0, <2>1 DEF IMap, Progress
    <3>2. k \in 1..Len(Layout[pkg])
      BY <1>1, <1>2, <2>1, LayoutFacts DEF IType, Slots
    <3> QED BY <1>2, <1>3, <2>0, <3>1, <3>2
  <2>2. CASE k \notin 1..head_block
    <3>1. Full /\ k = head_block + 1
      BY <1>2, <1>3, <2>2
    <3> QED BY <1>3, <1>6, <2>0, <3>1
  <2> QED BY <2>1, <2>2
<1>7. ASSUME pkg \notin spoilt', encrypted, NEW i \in 0..(Filled' - 1)
      PROVE  buffers'[Slot(i)'] = <<pkg, head_block' + i + 1>>
  <2>0. pkg \notin spoilt
    BY <1>1, <1>7
  <2>1. buffers' = [buffers EXCEPT ![tail] = <<pkg, pos + 1>>]
    <3>1. PICK d \in ReadBlock(b) : /\ buffers' = [buffers EXCEPT ![tail] = d]
                                    /\ spoilt' = IF d = Junk THEN spoilt \cup {pkg} ELSE spoilt
      BY <1>7 DEF NextBlock
    <3>2. d # Junk
      BY <1>7, <3>1
    <3>3. d = Plain(b)
      BY <3>1, <3>2 DEF ReadBlock
    <3>4. Plain(b) = <<pkg, pos + 1>>
      BY <1>2, PlainPlace
    <3> QED BY <3>1, <3>3, <3>4
  <2>2. i \in Nat /\ i + s <= Filled /\ s \in {0, 1} /\ s <= Filled
    BY <1>1, <1>2, <1>3 DEF Filled
  <2>3. Slot(i)' = Slot(i + s) /\ head_block' + i + 1 = head_block + (i + s) + 1
    <3>1. head_block' + i + 1 = head_block + (i + s) + 1
      BY <1>2, <1>3, <2>2
    <3> HIDE DEF s
    <3> QED BY <1>1, <1>3, <2>2, <3>1, RingShift
  <2>4. buffers \in [0..(Window - 1) -> Data]
    BY DEF IType, TypeOK, RingType
  <2>5. CASE i + s = Filled
    <3>1. Slot(i + s) = tail
      BY <1>2, <2>5
    <3>2. head_block + (i + s) = pos
      BY <1>2, <2>5 DEF Filled
    <3> HIDE DEF s
    <3>3. buffers'[tail] = <<pkg, pos + 1>>
      BY <1>2, <2>1, <2>4
    <3>4. Slot(i)' = tail /\ head_block' + i + 1 = pos + 1
      BY <2>3, <3>1, <3>2
    <3> QED BY <3>3, <3>4, Zenon
  <2>6. CASE i + s # Filled
    <3>1. i + s \in Nat /\ i + s < Filled /\ i + s \in 0..(Filled - 1)
      BY <1>2, <2>2, <2>6
    <3> HIDE DEF s
    <3>2. Slot(i + s) # tail /\ Slot(i + s) \in 0..(Window - 1)
      BY <1>1, <1>2, <3>1, DifferentSlots
    <3>3. buffers[Slot(i + s)] = <<pkg, head_block + (i + s) + 1>>
      BY <1>1, <1>7, <2>0, <3>1 DEF IMap, Progress
    <3> QED BY <2>1, <2>3, <2>4, <3>2, <3>3
  <2> QED BY <2>5, <2>6
<1>8. Progress'
  <2>1. server' = "loop" /\ pkg' = pkg /\ encrypted' = encrypted
    BY <1>1
  <2> QED BY <1>3, <1>6, <1>7, <2>1 DEF Progress
<1> QED BY <1>4, <1>5, <1>8 DEF IMap

LEMMA DrainMap ==
  ASSUME IType, IMap, Drain
  PROVE  IMap'
<1>1. /\ server = "drain" /\ UNCHANGED <<request, encrypted, rawD, spoilt, files, buffers, pos>>
  BY DEF Drain
<1>2. /\ pkg \in Packages /\ head_block <= pos /\ pos = n /\ Filled <= Window - 1 /\ n \in Nat
      /\ pos \in Nat /\ head_block \in Nat /\ head \in 0..(Window - 1) /\ tail = Slot(Filled)
  BY <1>1, LayoutFacts DEF IType, TypeOK, Slots, RingType, IMap, Progress
<1>3. Maps'
  BY <1>1, MapsKept
<1>4. CASE head # tail
  <2>1. FlushHead /\ server' = server
    BY <1>4 DEF Drain
  <2>2. Filled >= 1
    <3>1. Filled \in Nat
      BY <1>2 DEF Filled
    <3>2. Slot(0) = head
      BY <1>2, BoundsAssumption DEF Slot
    <3>3. Filled # 0
      BY <1>2, <1>4, <3>2
    <3> QED BY <3>1, <3>3
  <2>3. server \in {"loop", "drain"}
    BY <1>1
  <2>4. head' = Slot(1) /\ head_block' = head_block + 1
    BY <2>1, <2>2, <2>3, FlushHeadStep
  <2>5. /\ \A p \in Packages \ spoilt : \A k \in 1..Len(Layout[p]) :
             raw'[Layout[p][k]] \in {raw[Layout[p][k]], <<p, k>>}
        /\ pkg \notin spoilt /\ encrypted =>
             raw'[Layout[pkg][head_block + 1]] = <<pkg, head_block + 1>>
        /\ Listed(ranges', head_block', pkg)
    <3> HIDE DEF pkg
    <3> QED BY <2>1, <2>2, <2>3, <2>4, FlushMap
  <2>6. Plainly'
    BY <1>1, <2>5, RewrittenKept DEF IMap, Plainly
  <2>7. ASSUME pkg \notin spoilt, encrypted, NEW k \in 1..head_block'
        PROVE  raw'[Layout[pkg][k]] = <<pkg, k>>
    <3>1. CASE k \in 1..head_block
      <4>1. raw[Layout[pkg][k]] = <<pkg, k>>
        BY <1>1, <2>7, <3>1 DEF IMap, Progress
      <4>2. k \in 1..Len(Layout[pkg])
        BY <1>2, <3>1
      <4> QED BY <1>2, <2>5, <2>7, <4>1, <4>2
    <3>2. CASE k \notin 1..head_block
      <4>1. k = head_block + 1
        BY <1>2, <2>4, <3>2
      <4> QED BY <2>5, <2>7, <4>1
    <3> QED BY <3>1, <3>2
  <2>8. ASSUME pkg \notin spoilt, encrypted, NEW i \in 0..(Filled' - 1)
        PROVE  buffers'[Slot(i)'] = <<pkg, head_block' + i + 1>>
    <3>1. i \in Nat /\ i + 1 <= Filled /\ i + 1 \in 0..(Filled - 1)
      BY <1>1, <1>2, <2>4 DEF Filled
    <3>2. Slot(i)' = Slot(i + 1)
      BY <2>2, <2>3, <2>4, <3>1, RingShift
    <3>3. buffers[Slot(i + 1)] = <<pkg, head_block + (i + 1) + 1>>
      BY <1>1, <2>8, <3>1 DEF IMap, Progress
    <3>4. head_block' + i + 1 = head_block + (i + 1) + 1
      BY <1>2, <2>4, <3>1
    <3> QED BY <1>1, <3>2, <3>3, <3>4
  <2>9. Progress'
    <3>1. server' = "drain" /\ pkg' = pkg /\ n' = n /\ encrypted' = encrypted
          /\ spoilt' = spoilt /\ pos' = n
      BY <1>1, <1>2, <2>1
    <3> QED BY <2>5, <2>7, <2>8, <3>1 DEF Progress
  <2> QED BY <1>3, <2>6, <2>9 DEF IMap
<1>5. CASE head = tail
  <2>1. server' = "ranges" /\ UNCHANGED <<ranges, raw>>
    BY <1>5 DEF Drain
  <2>2. head_block = n
    <3>1. Filled = 0
      <4>1. Filled \in Int /\ Filled >= 0 /\ Window \in Nat
        BY <1>2, BoundsAssumption DEF Filled
      <4> HIDE DEF Filled
      <4> QED BY <1>2, <1>5, <4>1 DEF Slot
    <3> QED BY <1>2, <3>1 DEF Filled
  <2>3. Plainly'
    BY <1>1, <2>1 DEF IMap, Plainly, Rewritten
  <2>4. Listed(ranges, n, pkg)
    BY <1>1, <2>2 DEF IMap, Progress
  <2>5. ASSUME pkg \notin spoilt PROVE Whole(raw, pkg)
    <3>1. CASE encrypted
      BY <1>1, <2>2, <2>5, <3>1 DEF IMap, Progress, Whole
    <3>2. CASE ~encrypted
      BY <1>2, <2>5, <3>2 DEF IMap, Plainly, Rewritten, Whole
    <3> QED BY <3>1, <3>2
  <2>6. Progress'
    BY <1>1, <2>1, <2>4, <2>5 DEF Progress, Whole
  <2> QED BY <1>3, <2>3, <2>6 DEF IMap
<1> QED BY <1>4, <1>5

LEMMA PowerLossMap ==
  ASSUME IType, IMap, PowerLoss
  PROVE  IMap'
<1>1. PICK m \in AfterLoss(cacheD.map), t \in AfterLoss(cacheD.tmp) :
        cache' = [map |-> m, tmp |-> t] /\ cacheD' = cache'
  BY DEF PowerLoss
<1>2. cacheD.map \in File \cup {None} /\ cacheD.tmp \in File \cup {None}
  BY DEF IType, TypeOK, StoreType, Cache
<1>3. cache'.map = cacheD.map /\ cache'.tmp = t
  <2>1. m = cacheD.map
    BY <1>2, AfterLossFile DEF IType, Files, MapFiles
  <2> QED BY <1>1, <2>1
<1>4. /\ rawD' = raw' /\ UNCHANGED <<spoilt, encrypted>> /\ server' = "gone"
      /\ \A b \in Blocks : raw'[b] \in {raw[b], rawD[b]}
  BY DEF PowerLoss
<1>5. Plainly'
  <2> SUFFICES ASSUME NEW p \in Packages \ spoilt PROVE Rewritten(p)'
    BY <1>4 DEF Plainly
  <2> SUFFICES ASSUME NEW k \in 1..Len(Layout[p])
               PROVE  LET b == Layout[p][k]
                      IN  /\ raw'[b] \in {Cipher, <<p, k>>} /\ rawD'[b] \in {Cipher, <<p, k>>}
                          /\ rawD'[b] # Cipher => raw'[b] # Cipher
                          /\ ~encrypted' => rawD'[b] # Cipher
    BY DEF Rewritten
  <2>1. Layout[p][k] \in Blocks
    BY LayoutFacts
  <2>2. Rewritten(p)
    BY DEF IMap, Plainly
  <2> QED BY <1>4, <2>1, <2>2 DEF Rewritten
<1>6. MapDone(cache)'
  <2> SUFFICES ASSUME cache'.map # None
               PROVE  /\ Complete(cache'.map)
                      /\ cache'.map.pkg \notin spoilt => Whole(rawD', cache'.map.pkg)
    BY <1>4 DEF MapDone, Whole
  <2> DEFINE q == cacheD.map.pkg
  <2>1. Complete(cacheD.map) /\ (q \notin spoilt => Whole(rawD, q)) /\ q \in Packages
    BY <1>3 DEF IMap, Maps, MapDone, IType, Files, MapFiles
  <2>2. ASSUME q \notin spoilt PROVE Whole(rawD', q)
    <3> HIDE DEF q
    <3> SUFFICES ASSUME NEW k \in 1..Len(Layout[q]) PROVE rawD'[Layout[q][k]] = <<q, k>>
      BY DEF Whole
    <3>1. Layout[q][k] \in Blocks /\ <<q, k>> # Cipher
      BY <2>1, PlaceIsPlain
    <3>2. rawD[Layout[q][k]] = <<q, k>>
      BY <2>1, <2>2 DEF Whole
    <3>3. raw[Layout[q][k]] = <<q, k>>
      BY <2>1, <2>2, <3>1, <3>2 DEF IMap, Plainly, Rewritten
    <3> QED BY <1>4, <3>1, <3>2, <3>3
  <2> QED BY <1>3, <2>1, <2>2
<1>8. Progress'
  BY <1>4 DEF Progress
<1>9. Maps'
  BY <1>1, <1>6 DEF Maps, MapDone, Whole
<1> QED BY <1>5, <1>8, <1>9 DEF IMap

LEMMA InitMap == Init => IMap
<1> SUFFICES ASSUME Init PROVE IMap
  OBVIOUS
<1>1. Plainly
  <2> SUFFICES ASSUME NEW p \in Packages, NEW k \in 1..Len(Layout[p])
               PROVE  LET b == Layout[p][k]
                      IN  /\ raw[b] \in {Cipher, <<p, k>>} /\ rawD[b] \in {Cipher, <<p, k>>}
                          /\ rawD[b] # Cipher => raw[b] # Cipher
                          /\ ~encrypted => rawD[b] # Cipher
    BY DEF Plainly, Rewritten
  <2>1. Layout[p][k] \in Blocks /\ <<p, k>> # Cipher /\ Plain(Layout[p][k]) = <<p, k>>
    BY PlaceIsPlain, PlainPlace
  <2>2. raw[Layout[p][k]] = (IF encrypted THEN Cipher ELSE <<p, k>>) /\ rawD = raw
    BY <2>1 DEF Init
  <2> QED BY <2>1, <2>2
<1>2. Progress
  BY DEF Init, Progress
<1>3. Maps
  BY DEF Init, Maps, MapDone
<1> QED BY <1>1, <1>2, <1>3 DEF IMap

(* Steps that change only block.map.tmp, or nothing of the device at all.    *)
LEMMA TmpMaps ==
  ASSUME IMap, UNCHANGED <<device, encrypted>>, MapDone(cache'), MapDone(cacheD')
  PROVE  Maps' /\ Plainly'
<1>1. MapDone(cache)' /\ MapDone(cacheD)'
  BY DEF MapDone, Whole
<1> QED BY <1>1 DEF Maps, IMap, Plainly, Rewritten

LEMMA FilingMap ==
  ASSUME IType, IMap, Filing
  PROVE  IMap'
<1>0. /\ MapDone(cache) /\ MapDone(cacheD)
      /\ cache \in Cache /\ cacheD \in Cache
  BY DEF IMap, Maps, IType, TypeOK, StoreType
<1>1. CASE RemoveMap
  <2>2. MapDone(cache') /\ UNCHANGED <<device, cacheD, encrypted>> /\ server' = "hello"
    BY <1>1 DEF RemoveMap, MapDone
  <2>3. Maps' /\ Plainly'
    BY <1>0, <2>2, TmpMaps
  <2>4. Progress'
    BY <2>2 DEF Progress
  <2> QED BY <2>3, <2>4 DEF IMap
<1>2. CASE WriteHeader
  <2>0. UNCHANGED <<request, device, cacheD, encrypted>> /\ server = "hello"
    BY <1>2 DEF WriteHeader
  <2>1. CASE open
    <3>1. pkg \in Packages
      BY <2>0 DEF IType, Errand
    <3>4. cache'.map = cache.map
      BY <1>0, <1>2, <2>1 DEF WriteHeader, Cache
    <3>5. MapDone(cache')
      BY <1>0, <3>4 DEF MapDone
    <3>6. Maps' /\ Plainly'
      BY <1>0, <2>0, <3>5, TmpMaps
    <3>7. server' = "loop" /\ head_block' = 0 /\ pos' = 0 /\ ranges' = <<>> /\ pkg' = pkg
      BY <1>2, <2>0, <2>1 DEF WriteHeader
    <3>8. Listed(ranges', head_block', pkg')
      BY <3>1, <3>7, ListedEmpty
    <3>9. 1..head_block' = {} /\ 0..(Filled' - 1) = {}
      BY <3>7 DEF Filled
    <3>10. Progress'
      BY <3>7, <3>8, <3>9 DEF Progress
    <3> QED BY <3>6, <3>10 DEF IMap
  <2>2. CASE ~open
    <3>1. server' = "report" /\ UNCHANGED cache
      BY <1>2, <2>2 DEF WriteHeader, EndWith
    <3>2. Maps' /\ Plainly'
      BY <1>0, <2>0, <3>1, TmpMaps
    <3>3. Progress'
      BY <3>1 DEF Progress
    <3> QED BY <3>2, <3>3 DEF IMap
  <2> QED BY <2>1, <2>2
<1>3. CASE WriteRanges
  <2>0. UNCHANGED <<request, device, cacheD, encrypted>> /\ server = "ranges" /\ server' = "fsync_map"
    BY <1>3 DEF WriteRanges
  <2> DEFINE g == [cache.tmp EXCEPT !.count = Len(ranges), !.ranges = ranges]
             f == Written(g, MapLength[pkg])
  <2>1. cache.tmp \in File /\ cache.tmp # None /\ pkg \in Packages /\ cache.tmp.pkg = pkg
        /\ cache.tmp.ranges \in Seq(BlockRange) /\ ranges \in Seq(BlockRange)
    BY <1>0, <2>0 DEF Cache, File, IType, TypeOK, RingType, Files, Errand
  <2>2. Listed(ranges, n, pkg) /\ (pkg \notin spoilt => Whole(raw, pkg))
    BY <2>0 DEF IMap, Progress
  <2>3. cache' = [cache EXCEPT !.tmp = f]
    BY <1>3 DEF WriteRanges
  <2>4. g \in File /\ g.pkg = pkg /\ g.ranges = ranges /\ g.count = Len(ranges)
    <3>1. Len(ranges) \in Nat
      BY <2>1
    <3> QED BY <2>1, <3>1 DEF File
  <2> HIDE DEF g
  <2>5. f \in File /\ f.pkg = pkg /\ f.ranges = ranges /\ f.count = Len(ranges)
    BY <2>1, <2>4, WrittenFile, LengthAssumption
  <2> HIDE DEF f
  <2>7. cache'.tmp = f /\ cache'.map = cache.map
    BY <1>0, <2>3, <2>5, SetTmp
  <2>8. Complete(cache'.tmp)
    BY <2>2, <2>5, <2>7 DEF Complete
  <2>9. MapDone(cache')
    BY <1>0, <2>7 DEF MapDone
  <2>10. Maps' /\ Plainly'
    BY <1>0, <2>0, <2>9, TmpMaps
  <2>11. Progress'
    BY <2>0, <2>2, <2>8 DEF Progress, Whole
  <2> QED BY <2>10, <2>11 DEF IMap
<1>4. CASE FsyncMap
  <2>0. UNCHANGED <<request, device, encrypted>> /\ server = "fsync_map" /\ server' = "fsync_dev"
        /\ cacheD' = cache'
    BY <1>4 DEF FsyncMap
  <2> DEFINE f == [cache.tmp EXCEPT !.synced = TRUE]
  <2>1. cache.tmp \in File /\ cache.tmp # None /\ cache.map = None
    BY <1>0, <2>0 DEF Cache, IType, Files
  <2>2. f \in File /\ f.pkg = cache.tmp.pkg /\ f.ranges = cache.tmp.ranges /\ f.count = cache.tmp.count
    BY <2>1 DEF File
  <2>3. cache' = [cache EXCEPT !.tmp = f]
    BY <1>4 DEF FsyncMap
  <2> HIDE DEF f
  <2>4. cache'.tmp = f /\ cache'.map = None
    BY <1>0, <2>1, <2>2, <2>3, SetTmp
  <2>5. Complete(cache.tmp) /\ (pkg \notin spoilt => Whole(raw, pkg))
    BY <2>0 DEF IMap, Progress
  <2>6. Complete(cache'.tmp)
    BY <2>2, <2>4, <2>5 DEF Complete
  <2>7. MapDone(cache')
    BY <2>4 DEF MapDone
  <2>8. Maps' /\ Plainly'
    BY <1>0, <2>0, <2>7, TmpMaps
  <2>9. Progress'
    BY <2>0, <2>5, <2>6 DEF Progress, Whole
  <2> QED BY <2>8, <2>9 DEF IMap
<1>5. CASE FsyncDevice
  <2>0. /\ UNCHANGED <<request, raw, spoilt, files, encrypted>> /\ server = "fsync_dev"
        /\ server' = "rename" /\ rawD' = IF encrypted THEN raw ELSE rawD
    BY <1>5 DEF FsyncDevice
  <2>1. Plainly'
    BY <2>0 DEF IMap, Plainly, Rewritten
  <2>2. ASSUME NEW p \in Packages \ spoilt, Whole(rawD, p) \/ Whole(raw, p)
        PROVE  Whole(rawD', p)
    <3> SUFFICES ASSUME NEW k \in 1..Len(Layout[p]) PROVE rawD'[Layout[p][k]] = <<p, k>>
      BY DEF Whole
    <3>1. <<p, k>> # Cipher
      BY PlaceIsPlain
    <3>2. Rewritten(p)
      BY DEF IMap, Plainly
    <3> QED BY <2>0, <2>2, <3>1, <3>2 DEF Whole, Rewritten
  <2>3. pkg \in Packages /\ Complete(cache.tmp) /\ (pkg \notin spoilt => Whole(raw, pkg))
    BY <2>0 DEF IMap, Progress, IType, Errand
  <2>4. Maps'
    <3>1. (cache.map # None => cache.map.pkg \in Packages)
          /\ (cacheD.map # None => cacheD.map.pkg \in Packages)
      BY DEF IType, Files, MapFiles
    <3>2. MapDone(cache)' /\ MapDone(cacheD)'
      BY <1>0, <2>0, <2>2, <3>1 DEF MapDone, Whole
    <3> QED BY <3>2 DEF Maps
  <2>5. Progress'
    BY <2>0, <2>2, <2>3 DEF Progress, Whole
  <2> QED BY <2>1, <2>4, <2>5 DEF IMap
<1>6. CASE RenameMap
  <2>0. /\ UNCHANGED <<request, device, cacheD, encrypted>> /\ server = "rename"
        /\ server' = "fsync_dir" /\ cache' = [map |-> cache.tmp, tmp |-> None]
    BY <1>6 DEF RenameMap
  <2>1. /\ Complete(cache.tmp) /\ cache.tmp.pkg = pkg
        /\ pkg \notin spoilt => Whole(raw, pkg) /\ Whole(rawD, pkg)
    BY <2>0 DEF IMap, Progress, IType, Files
  <2>3. MapDone(cache')
    BY <2>0, <2>1 DEF MapDone
  <2>4. Maps' /\ Plainly'
    BY <1>0, <2>0, <2>3, TmpMaps
  <2>5. Progress'
    BY <2>0, <2>1 DEF Progress, Whole
  <2> QED BY <2>4, <2>5 DEF IMap
<1>7. CASE FsyncDir
  <2>0. UNCHANGED <<device, cache, encrypted>> /\ server' = "report" /\ cacheD' = cache
    BY <1>7 DEF FsyncDir, EndWith
  <2>1. Maps' /\ Plainly'
    BY <1>0, <2>0, TmpMaps
  <2>2. Progress'
    BY <2>0 DEF Progress
  <2> QED BY <2>1, <2>2 DEF IMap
<1>8. CASE CommitCache
  <2>0. UNCHANGED <<request, server, ring, device, cache, encrypted>> /\ cacheD' = cache
    BY <1>8 DEF CommitCache
  <2>1. Maps' /\ Plainly'
    BY <1>0, <2>0, TmpMaps
  <2>2. Progress'
    BY <2>0 DEF IMap, Progress, Whole, Filled, Slot
  <2> QED BY <2>1, <2>2 DEF IMap
<1>9. CASE WriteRangesFails
  <2>0. UNCHANGED <<device, cacheD, encrypted>> /\ server' = "report"
    BY <1>9 DEF WriteRangesFails, EndWith
  <2>1. cache'.map = cache.map
    BY <1>0, <1>9 DEF WriteRangesFails, Cache
  <2>2. MapDone(cache')
    BY <1>0, <2>1 DEF MapDone
  <2>3. Maps' /\ Plainly'
    BY <1>0, <2>0, <2>2, TmpMaps
  <2>4. Progress'
    BY <2>0 DEF Progress
  <2> QED BY <2>3, <2>4 DEF IMap
<1> QED BY <1>1, <1>2, <1>3, <1>4, <1>5, <1>6, <1>7, <1>8, <1>9 DEF Filing

LEMMA StutterMap ==
  ASSUME IMap, UNCHANGED vars
  PROVE  IMap'
BY QuietMap DEF vars

(* "Recovery can take this block map file and retrieve the underlying file   *)
(* data" (uncrypt.cpp 39-40), for any packages, layouts, window and number   *)
(* of power losses: what MapBlockFile maps of a block.map that exists, now   *)
(* or after a power loss, is the package on the medium, unless a run read    *)
(* back a block that an earlier, interrupted one had rewritten; and it       *)
(* accepts the file, unless a longer leftover block.map.tmp sticks out of it.*)
THEOREM MapStandsForPackage == Spec => []MapMeansPackage
<1>1. IType /\ IMap /\ [Next]_vars => IMap'
  <2> SUFFICES ASSUME IType, IMap, [Next]_vars PROVE IMap'
    OBVIOUS
  <2>1. CASE Next
    BY <2>1, NextSplit, TalkingMap, FilingMap, NextBlockMap, DrainMap, PowerLossMap, StutterMap
       DEF Rest
  <2>2. CASE UNCHANGED vars
    BY <2>2, StutterMap
  <2> QED BY <2>1, <2>2
<1>2. IType /\ IMap => MapMeansPackage
  <2> SUFFICES ASSUME IType, IMap, NEW f \in {cache.map, cacheD.map}, f # None
               PROVE  /\ f.synced
                      /\ f.size <= MapLength[f.pkg] => MapAccepted(f)
                      /\ (MapAccepted(f) /\ f.pkg \notin spoilt) =>
                           MapBlockFile(f, rawD) = [k \in 1..Len(Layout[f.pkg]) |-> <<f.pkg, k>>]
    BY DEF MapMeansPackage
  <2>1. f \in File /\ f.synced /\ f.pkg \in Packages
    BY DEF IType, Files, MapFiles, Cache
  <2>2. Complete(f) /\ (f.pkg \notin spoilt => Whole(rawD, f.pkg))
    BY DEF IMap, Maps, MapDone
  <2>3. f.ranges \in Seq(BlockRange) /\ f.count = Len(f.ranges) /\ f.pkg # None
    BY <2>1, <2>2, NullAssumption DEF File, Complete
  <2>4. /\ MapExpand(f.ranges) = Layout[f.pkg] /\ Len(f.ranges) > 0
        /\ \A i \in 1..Len(f.ranges) : f.ranges[i][2] > f.ranges[i][1]
    BY <2>1, <2>2, <2>3, ListedAll DEF Complete
  <2>5. ASSUME f.size <= MapLength[f.pkg] PROVE MapAccepted(f)
    <3>1. f.size \in Nat /\ MapLength[f.pkg] \in Nat
      BY <2>1, LengthAssumption DEF File
    <3> QED BY <2>3, <2>4, <2>5, <3>1 DEF MapAccepted
  <2>6. ASSUME f.pkg \notin spoilt
        PROVE  MapBlockFile(f, rawD) = [k \in 1..Len(Layout[f.pkg]) |-> <<f.pkg, k>>]
    BY <2>2, <2>4, <2>6 DEF MapBlockFile, Whole
  <2> QED BY <2>1, <2>5, <2>6
<1> QED BY <1>1, <1>2, InitMap, ITypeHolds, PTL DEF Spec

=============================================================================
