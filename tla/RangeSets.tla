------------------------------- MODULE RangeSets -------------------------------
(***************************************************************************)
(* otautil/rangeset.cpp: sets of blocks as sequences of half open ranges.  *)
(* A range is a pair <<first, second>>.  The empty sequence is the         *)
(* RangeSet that converts to false.  NotANumber is a piece of text that ParseUint *)
(* refuses.                                                                *)
(***************************************************************************)
EXTENDS Integers, Sequences, SequencesExt, FiniteSetsExt

CONSTANT NotANumber

RangeSize(r)  == r[2] - r[1]
RangeBlocks(r) == [i \in 1..RangeSize(r) |-> r[1] + i - 1]

(* blocks_, the number of blocks. *)
blocks(ranges) == FoldLeft(LAMBDA n, r : n + RangeSize(r), 0, ranges)

(* Every range is pushed, or the set is cleared.                            *)
RangeSet(pairs) == IF \A i \in DOMAIN pairs : pairs[i][1] < pairs[i][2] THEN pairs ELSE <<>>

(* pieces: the comma separated text, the number of tokens first.            *)
Parse(pieces) ==
  LET num == pieces[1]
      usable == /\ Len(pieces) >= 3
                /\ \A i \in DOMAIN pieces : pieces[i] # NotANumber
                /\ num # 0 /\ num % 2 = 0 /\ num = Len(pieces) - 1
  IN  IF usable THEN RangeSet([k \in 1..(num \div 2) |-> <<pieces[2 * k], pieces[2 * k + 1]>>])
                ELSE <<>>

RangeText(ranges) == IF ranges = <<>> THEN <<>>
                    ELSE <<2 * Len(ranges)>> \o FlattenSeq(ranges)

(* GetBlockNumber(i), for every i: the blocks in order. *)
BlockNumbers(ranges) == FlattenSeq([i \in DOMAIN ranges |-> RangeBlocks(ranges[i])])

Overlaps(ranges, other) ==
  \E i \in DOMAIN ranges, j \in DOMAIN other :
    ~(other[j][1] >= ranges[i][2] \/ ranges[i][1] >= other[j][2])

(* One group takes `needed` blocks: buffer is filled from range, the rest of *)
(* ranges[it].                                                              *)
Fill(ranges, st, needed) ==
  LET F[s \in [it : Nat, range : Int \X Int, buffer : Seq(Int \X Int)], k \in Nat] ==
        IF k = 0 THEN s
        ELSE IF RangeSize(s.range) > k
        THEN [s EXCEPT !.buffer = Append(@, <<s.range[1], s.range[1] + k>>), !.range[1] = @ + k]
        ELSE F[[it     |-> s.it + 1,
                range  |-> IF s.it < Len(ranges) THEN ranges[s.it + 1] ELSE s.range,
                buffer |-> Append(s.buffer, s.range)],
               k - RangeSize(s.range)]
  IN  F[[st EXCEPT !.buffer = <<>>], needed]

Split(ranges, groups) ==
  IF ranges = <<>> \/ groups = 0 THEN <<>>
  ELSE LET g    == Min({groups, blocks(ranges)})
           mean == blocks(ranges) \div g
           want == [k \in 1..g |-> IF k <= blocks(ranges) % g THEN mean + 1 ELSE mean]
           step(acc, k) == LET st == Fill(ranges, acc.st, want[k])
                           IN  [st |-> st, result |-> Append(acc.result, st.buffer)]
       IN  FoldLeft(step, [st |-> [it |-> 1, range |-> ranges[1], buffer |-> <<>>],
                           result |-> <<>>], [k \in 1..g |-> k]).result

-----------------------------------------------------------------------------
(* SortedRangeSet *)
Sorted(ranges) ==
  SortSeq(ranges, LAMBDA a, b : a[1] < b[1] \/ (a[1] = b[1] /\ a[2] < b[2]))

Insert(ranges, rs) ==
  IF blocks(rs) = 0 THEN ranges
  ELSE LET temp == Sorted(ranges \o rs)
           step(acc, r) == IF r[1] <= acc.top[2]
                           THEN [acc EXCEPT !.top[2] = Max({@, r[2]})]
                           ELSE [done |-> Append(acc.done, acc.top), top |-> r]
           end == FoldLeft(step, [done |-> <<>>, top |-> temp[1]], Tail(temp))
       IN  Append(end.done, end.top)

(* The block range of the bytes start .. start + len - 1. *)
ByteRange(start, len, kBlockSize) ==
  <<<<start \div kBlockSize, (start + len - 1) \div kBlockSize + 1>>>>

(* -1 stands for the failing CHECK. *)
GetOffsetInRangeSet(ranges, old_offset, kBlockSize) ==
  LET block  == old_offset \div kBlockSize
      before == SelectSeq(ranges, LAMBDA r : block >= r[2])
      next   == Len(before) + 1
  IN  IF next > Len(ranges) \/ block < ranges[next][1] THEN -1
      ELSE (blocks(before) + block - ranges[next][1]) * kBlockSize + (old_offset % kBlockSize)

=============================================================================
