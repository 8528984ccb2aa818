------------------------------- MODULE Packing -------------------------------
(***************************************************************************)
(* How a batch is cut into microbatches: the sequence packers of           *)
(* nemo_rl/data/packing/algorithms.py and the dynamic batching of          *)
(* BatchedDataDict.shard_by_batch_size.  Everything here is a function of  *)
(* the lengths: lengths[i] is the padded length of row i, a bin is a       *)
(* sequence of rows, capacity is the max_tokens_per_microbatch (the        *)
(* bin_capacity of a packer).                                              *)
(***************************************************************************)
EXTENDS Integers, Sequences, SequencesExt

Load(lengths, bin) == FoldLeft(LAMBDA sum, i : sum + lengths[i], 0, bin)
Room(capacity, lengths, bin) == capacity - Load(lengths, bin)

\* Rows sorted by length; Python's sort is stable, also with reverse=True.
Shorter(lengths, i, j) == lengths[i] < lengths[j] \/ (lengths[i] = lengths[j] /\ i < j)
Longer(lengths, i, j) == lengths[i] > lengths[j] \/ (lengths[i] = lengths[j] /\ i < j)
Sorted(rows, Before(_, _)) ==
    [k \in 1..Cardinality(rows) |->
        CHOOSE i \in rows : Cardinality({j \in rows : Before(j, i)}) = k - 1]
Ascending(lengths, rows) == Sorted(rows, LAMBDA i, j : Shorter(lengths, i, j))
Descending(lengths, rows) == Sorted(rows, LAMBDA i, j : Longer(lengths, i, j))

-----------------------------------------------------------------------------
\* ConcatenativePacker: in order, a new bin when the row does not fit.
IntoLast(capacity, lengths, bins, i) ==
    IF bins # << >> /\ lengths[i] <= Room(capacity, lengths, Last(bins))
    THEN ReplaceAt(bins, Len(bins), Append(Last(bins), i))
    ELSE Append(bins, <<i>>)
Concatenative(capacity, lengths) ==
    FoldLeft(LAMBDA bins, i : IntoLast(capacity, lengths, bins, i), << >>,
             [i \in 1..Len(lengths) |-> i])

\* FirstFitPacker: each row of the order goes into the first bin it fits.
FirstWithRoom(capacity, lengths, bins, i) ==
    SelectInSeq(bins, LAMBDA bin : lengths[i] <= Room(capacity, lengths, bin))
IntoFirst(capacity, lengths, bins, i) ==
    LET b == FirstWithRoom(capacity, lengths, bins, i)
    IN  IF b # 0 THEN ReplaceAt(bins, b, Append(bins[b], i)) ELSE Append(bins, <<i>>)
FirstFit(capacity, lengths, order) ==
    FoldLeft(LAMBDA bins, i : IntoFirst(capacity, lengths, bins, i), << >>, order)

\* FirstFitDecreasingPacker sorts (length, index) pairs in reverse.
FirstFitDecreasing(capacity, lengths) ==
    FirstFit(capacity, lengths, Reverse(Ascending(lengths, DOMAIN lengths)))

-----------------------------------------------------------------------------
(* ModifiedFirstFitDecreasingPacker. *)

Large(capacity, lengths) == {i \in DOMAIN lengths : 2 * lengths[i] > capacity}
Medium(capacity, lengths) ==
    {i \in DOMAIN lengths : 3 * lengths[i] > capacity /\ 2 * lengths[i] <= capacity}
Small(capacity, lengths) ==
    {i \in DOMAIN lengths : 6 * lengths[i] > capacity /\ 3 * lengths[i] <= capacity}

\* The first row of a list, and the last one, that fits the room; 0 if there is none.
FirstThatFits(lengths, list, room) == SelectInSeq(list, LAMBDA i : lengths[i] <= room)
LastThatFits(lengths, list, room) == SelectLastInSeq(list, LAMBDA i : lengths[i] <= room)

\* Phases 1 and 2: a bin for each large row, and a medium row into it if one fits.
AddLarge(capacity, lengths, acc, large) ==
    LET m == FirstThatFits(lengths, acc.list, Room(capacity, lengths, <<large>>))
    IN  IF m = 0 THEN [acc EXCEPT !.bins = Append(@, <<large>>)]
        ELSE [bins |-> Append(acc.bins, <<large, acc.list[m]>>), list |-> RemoveAt(acc.list, m)]
WithMedium(capacity, lengths) ==
    FoldLeft(LAMBDA acc, large : AddLarge(capacity, lengths, acc, large),
             [bins |-> << >>, list |-> Descending(lengths, Medium(capacity, lengths))],
             Descending(lengths, Large(capacity, lengths)))

\* Phase 3: backwards, the smallest row and the largest that fits beside it into
\* each bin that got no medium row.
AddPair(capacity, lengths, acc, bin) ==
    LET room == Room(capacity, lengths, bin)
        first == Head(acc.list)
        rest == Tail(acc.list)
        second == LastThatFits(lengths, rest, room - lengths[first])
    IN  IF \/ \E k \in DOMAIN bin : bin[k] \in Medium(capacity, lengths)
           \/ Len(acc.list) < 2
           \/ lengths[acc.list[1]] + lengths[acc.list[2]] > room
        THEN [acc EXCEPT !.bins = Cons(bin, @)]
        ELSE [bins |-> Cons(bin \o <<first, rest[second]>>, acc.bins),
              list |-> RemoveAt(rest, second)]
WithSmallPairs(capacity, lengths, bins) ==
    FoldLeft(LAMBDA acc, bin : AddPair(capacity, lengths, acc, bin),
             [bins |-> << >>, list |-> Ascending(lengths, Small(capacity, lengths))],
             Reverse(bins))

\* Phase 4: into each bin the largest remaining row that fits, again and again.
AddOne(capacity, lengths, acc) ==
    LET i == FirstThatFits(lengths, acc.list, Room(capacity, lengths, acc.bin))
    IN  IF i = 0 THEN acc
        ELSE [bin |-> Append(acc.bin, acc.list[i]), list |-> RemoveAt(acc.list, i)]
FillBin(capacity, lengths, acc, bin) ==
    LET filled == FoldLeft(LAMBDA one, turn : AddOne(capacity, lengths, one),
                           [bin |-> bin, list |-> acc.list], acc.list)
    IN  [bins |-> Append(acc.bins, filled.bin), list |-> filled.list]
Fill(capacity, lengths, bins, remaining) ==
    FoldLeft(LAMBDA acc, bin : FillBin(capacity, lengths, acc, bin),
             [bins |-> << >>, list |-> remaining], bins)

\* Phase 5: first fit for what is left, trying only the emptiest bin; the bins
\* are kept sorted by load (bisect).
Insert(lengths, bins, bin) ==
    InsertAt(bins, 1 + Cardinality({b \in DOMAIN bins :
        Load(lengths, bins[b]) <= Load(lengths, bin)}), bin)
IntoEmptiest(capacity, lengths, bins, i) ==
    IF bins # << >> /\ lengths[i] <= Room(capacity, lengths, Head(bins))
    THEN Insert(lengths, Tail(bins), Append(Head(bins), i))
    ELSE Insert(lengths, bins, <<i>>)
EmptiestFit(capacity, lengths, rows) ==
    FoldLeft(LAMBDA bins, i : IntoEmptiest(capacity, lengths, bins, i), << >>, rows)

ModifiedFirstFitDecreasing(capacity, lengths) ==
    LET large == WithMedium(capacity, lengths)
        pairs == WithSmallPairs(capacity, lengths, large.bins)
        packed == UNION {ToSet(pairs.bins[b]) : b \in DOMAIN pairs.bins}
        filled == Fill(capacity, lengths, pairs.bins, Descending(lengths, DOMAIN lengths \ packed))
    IN  filled.bins \o EmptiestFit(capacity, lengths, filled.list)

-----------------------------------------------------------------------------
\* The number of bins the shards need: at least one each, and as many for each.
BinTarget(count, shards) ==
    LET atLeast == IF count < shards THEN shards ELSE count
    IN  IF atLeast % shards = 0 THEN atLeast
        ELSE atLeast + shards - (atLeast % shards)

\* _adjust_bin_count: each new bin takes the last row of the bin that had the most
\* rows at first and still has more than one; ValueError if there is none.
MoreRows(bins, b, c) == Len(bins[b]) > Len(bins[c]) \/ (Len(bins[b]) = Len(bins[c]) /\ b > c)
FirstToSplit(sources, bins) == SelectInSeq(sources, LAMBDA b : Len(bins[b]) > 1)
Split(sources, bins) ==
    LET b == sources[FirstToSplit(sources, bins)]
    IN  Append(ReplaceAt(bins, b, Front(bins[b])), <<Last(bins[b])>>)
AdjustBinCount(bins, shards) ==
    LET sources == Sorted(DOMAIN bins, LAMBDA b, c : MoreRows(bins, b, c))
    IN  FoldLeft(LAMBDA acc, turn : Split(sources, acc), bins,
                 [n \in 1..(BinTarget(Len(bins), shards) - Len(bins)) |-> n])

\* Not enough rows for the bins that are needed.
CannotAdjust(bins, shards) ==
    FoldLeft(LAMBDA sum, bin : sum + Len(bin), 0, bins) < BinTarget(Len(bins), shards)

-----------------------------------------------------------------------------
(* Dynamic batching. *)

RoundUp(length, multiple) == ((length + multiple - 1) \div multiple) * multiple

\* The rows of a chunk sorted by length and dealt out to the shards.
Stride(lengths, rows, shards) ==
    LET sorted == Ascending(lengths, rows)
        Every(s) == [k \in 1..(Len(sorted) \div shards) |-> sorted[s + (k - 1) * shards]]
    IN  [s \in 1..shards |-> Every(s)]

\* The longest row that any shard has at position p.
Widest(lengths, shardRows, p) ==
    CHOOSE w \in {lengths[shardRows[s][p]] : s \in DOMAIN shardRows} :
        \A s \in DOMAIN shardRows : lengths[shardRows[s][p]] <= w

\* One cut of the positions into microbatches for all shards: positions join the
\* last microbatch as long as its rows times its width stay within the capacity.
PaddedWidth(lengths, shardRows, multiple, width, p) ==
    LET padded == RoundUp(Widest(lengths, shardRows, p), multiple)
    IN  IF padded < width THEN padded ELSE width
Widened(cut, padded) == IF padded > cut.width THEN padded ELSE cut.width
AddPosition(capacity, cuts, p, padded) ==
    LET last == Last(cuts)
    IN  IF cuts # << >> /\ (p - last.first + 1) * Widened(last, padded) <= capacity
        THEN ReplaceAt(cuts, Len(cuts),
                       [first |-> last.first, last |-> p, width |-> Widened(last, padded)])
        ELSE Append(cuts, [first |-> p, last |-> p, width |-> padded])
DynamicCuts(capacity, lengths, shardRows, multiple, width) ==
    FoldLeft(LAMBDA cuts, p :
                 AddPosition(capacity, cuts, p, PaddedWidth(lengths, shardRows, multiple, width, p)),
             << >>, [p \in 1..Len(shardRows[1]) |-> p])
=============================================================================
