------------------------------ MODULE Packing -------------------------------
(***************************************************************************)
(* Bin-packing of sequences into packs of at most `size' tokens, and the     *)
(* sharding of a batch over data-parallel ranks.  Sequences are named by     *)
(* their index in the tuple `lens' of their lengths, which are positive; a   *)
(* pack is a tuple of indices.                                               *)
(***************************************************************************)
EXTENDS Integers, FiniteSets, Sequences, SequencesExt

\* The tokens of a pack.
Weight(lens, pack) == FoldLeft(LAMBDA sum, i : sum + lens[i], 0, pack)

\* Python's sort is stable, a reversed one too: ties keep index order.
LongestFirst(lens) ==
    SortSeq([i \in DOMAIN lens |-> i], LAMBDA i, j : lens[i] > lens[j] \/ (lens[i] = lens[j] /\ i < j))

ShortestFirst(lens) ==
    SortSeq([i \in DOMAIN lens |-> i], LAMBDA i, j : lens[i] < lens[j] \/ (lens[i] = lens[j] /\ i < j))

Oversize(lens, size) == \E i \in DOMAIN lens : lens[i] > size

-------------------------------------------------------------------------------
(* The algorithms.                                                           *)

\* Each sequence, in the given order, goes to the first pack with room.
FirstFit(lens, size, order) ==
    LET place[packs \in Seq(Seq(Nat)), i \in Nat] ==
            LET room == {p \in DOMAIN packs : Weight(lens, packs[p]) + lens[i] <= size}
            IN  IF room = {}
                THEN Append(packs, <<i>>)
                ELSE [packs EXCEPT ![CHOOSE p \in room : \A q \in room : p <= q] = Append(@, i)]
    IN  FoldLeft(LAMBDA packs, i : place[packs, i], <<>>, order)

first_fit_decreasing(lens, size) == FirstFit(lens, size, LongestFirst(lens))

\* `order' is what random.Random(seed).shuffle makes of the indices.
shuffle_packing(lens, size, order) == FirstFit(lens, size, order)

\* Only the last pack is open.
online_packing(lens, size) ==
    LET place[packs \in Seq(Seq(Nat)), i \in Nat] ==
            IF packs = <<>> \/ Weight(lens, Last(packs)) + lens[i] > size
            THEN Append(packs, <<i>>)
            ELSE [packs EXCEPT ![Len(packs)] = Append(@, i)]
    IN  FoldLeft(LAMBDA packs, i : place[packs, i], <<>>, [i \in 1..Len(lens) |-> i])

MaxSequencesPerPack == 32

\* best[c] is the first subset of the unplaced found to fill c tokens exactly,
\* empty when there is none; an item is tried against the fills found before it.
Fills(lens, size, unplaced) ==
    LET try[best \in [0..size -> Seq(Nat)], i \in Nat] ==
            [c \in 0..size |->
                IF /\ c > 0 /\ best[c] = <<>>
                   /\ c >= lens[i]
                   /\ c = lens[i] \/ best[c - lens[i]] # <<>>
                   /\ Len(best[c - lens[i]]) < MaxSequencesPerPack
                THEN Append(best[c - lens[i]], i)
                ELSE best[c]]
    IN  FoldLeft(LAMBDA best, i : try[best, i], [c \in 0..size |-> <<>>], unplaced)

\* The fullest subset is a pack.  When nothing fits, the next sequence is one,
\* whatever its length.
dp_packing(lens, size) ==
    LET fullest[best \in [0..size -> Seq(Nat)]] ==
            LET full == {c \in 1..size : best[c] # <<>>}
            IN  IF full = {} THEN <<>> ELSE best[CHOOSE c \in full : \A d \in full : d <= c]
        next[unplaced \in Seq(Nat)] ==
            LET pack == fullest[Fills(lens, size, unplaced)]
            IN  IF pack = <<>> THEN <<Head(unplaced)>> ELSE pack
        packs[unplaced \in Seq(Nat)] ==
            IF unplaced = <<>> THEN <<>>
            ELSE LET pack == next[unplaced]
                 IN  <<pack>> \o packs[SelectSeq(unplaced, LAMBDA i : ~Contains(pack, i))]
    IN  packs[LongestFirst(lens)]

\* The dispatcher; <<>> stands for the ValueError of an oversize sequence, which
\* dp_packing alone does not raise.
pack_sequences(lens, size, algorithm, order) ==
    CASE algorithm = "dp" -> dp_packing(lens, size)
      [] Oversize(lens, size) -> <<>>
      [] algorithm = "ffd" -> first_fit_decreasing(lens, size)
      [] algorithm = "shuffle" -> shuffle_packing(lens, size, order)
      [] algorithm = "online" -> online_packing(lens, size)

\* The packs in the order they are run: the heaviest first, so that the ranks
\* of a data-parallel group meet their heavy packs at the same step.
ComputePacks(lens, size, algorithm, order) ==
    LET Before(p, q) ==
            Weight(lens, p) > Weight(lens, q) \/ (Weight(lens, p) = Weight(lens, q) /\ p[1] < q[1])
    IN  SortSeq(pack_sequences(lens, size, algorithm, order), Before)

-------------------------------------------------------------------------------
(* Shards of a tuple of rows.                                                *)

\* Each chunk of `chunk' rows is dealt in `shards' equal blocks, and a shard is
\* its blocks one after the other.
ShardByBatchSize(rows, shards, chunk) ==
    LET size == chunk \div shards
    IN  [s \in 0..(shards - 1) |->
            FlattenSeq([c \in 1..(Len(rows) \div chunk) |->
                SubSeq(rows, (c - 1) * chunk + s * size + 1, (c - 1) * chunk + (s + 1) * size)])]

\* The asserts of shard_by_batch_size.
Divides(n, shards, chunk) == n % chunk = 0 /\ chunk % shards = 0

\* Where each row went: inverse[r] is the place of row r in the sorted order.
InverseOf(order) == [r \in DOMAIN order |-> CHOOSE p \in DOMAIN order : order[p] = r]

Reorder(data, idx) == [i \in DOMAIN idx |-> data[idx[i]]]

\* Consecutive blocks of `size' rows, the remainder in the last.
MicroBatches(rows, size) ==
    [b \in 1..((Len(rows) + size - 1) \div size) |->
        SubSeq(rows, (b - 1) * size + 1,
               IF b * size < Len(rows) THEN b * size ELSE Len(rows))]
=============================================================================
