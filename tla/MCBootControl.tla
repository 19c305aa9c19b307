----------------------------- MODULE MCBootControl -----------------------------
(* BootControl with two slots of two partitions and one care map of each kind *)
EXTENDS BootControl

Text(ranges) == RangeText(ranges)
System == [name |-> "system", text |-> Text(<<<<0, 1>>, <<2, 4>>>>)]
Vendor == [name |-> "vendor", text |-> Text(<<<<0, 1>>>>)]

MCBlocks   == ({"system"} \X (0..4)) \cup ({"vendor"} \X (0..1))
MCFlaws    == {{}, {<<"system", 0>>}, MCBlocks}
MCCareMaps == {None,
               [lines |-> 4, pairs |-> <<System, Vendor>>],
               [lines |-> 3, pairs |-> <<System>>],
               [lines |-> 4, pairs |-> <<System, [name |-> "/dev/block/", text |-> <<>>]>>],
               [lines |-> 2, pairs |-> <<[System EXCEPT !.text = <<2, NotANumber, 3>>]>>]}
MCModes    == {"", "enforcing", "logging"}
MCDamages  == {<<0, [priority |-> 0, tries |-> 0, successful |-> FALSE, corrupted |-> FALSE]>>,
               <<1, [priority |-> 15, tries |-> 7, successful |-> TRUE, corrupted |-> TRUE]>>}
MCDmNames  == {"vroot", "vendor"}

(* The operators of RangeSets against what they mean for sets of blocks, for *)
(* all sequences of at most three ranges below Top and up to five groups.   *)
Top     == 4
Ranges  == {r \in (0..Top) \X (0..Top) : r[1] < r[2]}
Lists   == UNION {[1..n -> Ranges] : n \in 0..3}
Set(rs) == UNION {r[1]..(r[2] - 1) : r \in ToSet(rs)}
Merged  == {rs \in Lists : \A i \in 2..Len(rs) : rs[i - 1][2] < rs[i][1]}

(* Split leaves no block out, reads none twice and keeps their order; there *)
(* are no more groups than asked for, and none is larger by more than one.  *)
ASSUME SplitIsPartition ==
  \A rs \in Lists \ {<<>>}, n \in 1..5 :
    LET groups == Split(rs, n)
        sizes  == {blocks(groups[t]) : t \in DOMAIN groups}
    IN  /\ FlattenSeq([t \in DOMAIN groups |-> BlockNumbers(groups[t])]) = BlockNumbers(rs)
        /\ Len(groups) <= n /\ Max(sizes) - Min(sizes) <= 1 /\ Min(sizes) > 0
ASSUME TextIsFaithful == \A rs \in Lists \ {<<>>} : Parse(RangeText(rs)) = rs
ASSUME OverlapsMeansCommonBlock ==
  \A rs, other \in {x \in Lists : Len(x) <= 2} : Overlaps(rs, other) <=> Set(rs) \cap Set(other) # {}
(* A SortedRangeSet stays sorted and merged.                                *)
ASSUME InsertIsUnion ==
  \A rs \in Merged, other \in {x \in Lists : Len(x) <= 2} :
    Insert(rs, other) \in Merged /\ Set(Insert(rs, other)) = Set(rs) \cup Set(other)
(* The offset in the blocks of the set, one after the other.                *)
ASSUME OffsetIsPlace ==
  \A rs \in Merged, offset \in 0..(2 * Top) :
    LET place == SelectInSeq(BlockNumbers(rs), LAMBDA b : b = offset \div 2)
    IN  GetOffsetInRangeSet(rs, offset, 2) = IF place = 0 THEN -1
                                              ELSE 2 * (place - 1) + (offset % 2)

ASSUME CareMapsAreSplit == SplitCovers
=============================================================================
