--------------------------- MODULE PolicyDispatch ---------------------------
(***************************************************************************)
(* The driver's Policy calls its workers: it shards a batch over the data-    *)
(* parallel ranks, every worker runs its shard in micro-batches, in lockstep   *)
(* with the others because each micro-batch is a collective, and the rows the  *)
(* replica leaders return are put back in the order of the batch.  With the    *)
(* data plane the driver sends sample ids instead of tensors: the workers      *)
(* fetch their columns from the plane and write what they compute back.       *)
(*                                                                           *)
(* A row of a tensor computed from row r of the batch is r itself.            *)
(***************************************************************************)
EXTENDS Packing, FiniteSetsExt

CONSTANTS
    N,              \* rows of the batch, whose sample ids are 1..N
    DP, TP,         \* sizes of the data- and tensor-parallel axes
    MaxLen,         \* longest sequence
    Budget,         \* sequence_packing.{train,logprob}_mb_tokens
    GlobalSizes,    \* train_global_batch_size
    MicroSizes,     \* train_micro_batch_size and logprob_batch_size
    ScoreSizes,     \* batch_size, which score alone reads
    Algorithms,     \* sequence_packing.algorithm
    Ops,            \* the calls the driver makes without the data plane
    Mappings        \* whether the workers return a collections.abc.Mapping:
                    \* FALSE of the BatchedDataDict of this code, TRUE of the
                    \* UserDict that _write_back_result_field takes it for

ASSUME DispatchAssumption ==
    /\ \A c \in {N, DP, TP, MaxLen, Budget} \cup GlobalSizes \cup MicroSizes \cup ScoreSizes : c \in Nat \ {0}
    /\ N % DP = 0
    /\ \A gbs \in GlobalSizes : N % gbs = 0 /\ gbs % DP = 0
    /\ Mappings \subseteq BOOLEAN
    /\ Algorithms \subseteq {"ffd", "shuffle", "dp", "online"}
    /\ Ops \subseteq {"logprobs", "reference", "topk", "score", "train"}

VARIABLES
    cf,     \* the configuration and the batch's lengths, fixed at the start
    pc,     \* the driver: what it does next, or "wait", "returned", "raised"
    op,     \* the call the workers are in
    shard,  \* the rows of each data-parallel rank
    inv,    \* unsorted_data_indices; the identity without packing
    wk,     \* the workers
    result, \* what the last call returned to the driver
    plane   \* the train partition: a column of each sample id, 0 if absent

vars == <<cf, pc, op, shard, inv, wk, result, plane>>

Rows == 1..N
Batch == [i \in Rows |-> i]
Workers == 0..(DP * TP - 1)

\* NamedSharding.get_worker_coords of the (data, tensor) layout.
DataRank(w) == w \div TP
ReplicaLeader(w) == w % TP = 0
LeaderOf(w) == DataRank(w) * TP

\* A column is in the plane as the number of writes and the row of the last.
Absent == [row |-> 0, writes |-> 0]
\* input_lengths and token_mask, which the rollout writes with the input ids and
\* nobody rewrites, are one column with them.
LPSeedFields == {"input_ids", "sample_mask"}
Bulk == LPSeedFields \cup {"generation_logprobs"}
Computed == {"prev_logprobs", "reference_policy_logprobs", "advantages"}
DPTrainFields == Bulk \cup Computed

Lens(rows) == [i \in DOMAIN rows |-> cf.lens[rows[i]]]

\* The packs and the sort order of a shard and the sort order of the batch, by
\* length; `order' is the shuffle of a shard's indices.
ShardRows == 1..(N \div DP)
Shuffles == Permutations(ShardRows)
PacksOf ==
    [a \in Algorithms, order \in Shuffles, lens \in [ShardRows -> 1..MaxLen] |->
        ComputePacks(lens, Budget, a, order)]
ShardOrder == [lens \in [ShardRows -> 1..MaxLen] |-> ShortestFirst(lens)]
BatchOrder == [lens \in [Rows -> 1..MaxLen] |-> ShortestFirst(lens)]

\* A call shards with packing arguments only where Policy passes them: score
\* does not.
PackingArgs(o) == cf.packed /\ o # "score"

Idle == [stage |-> "idle", mbs |-> <<>>, packs |-> <<>>, at |-> 0]

Init ==
    /\ cf \in [packed : BOOLEAN, plane : BOOLEAN, ref : BOOLEAN, mapping : Mappings,
               gbs : GlobalSizes, mbs : MicroSizes, score : ScoreSizes, algorithm : Algorithms,
               order : Shuffles, lens : [Rows -> 1..MaxLen]]
    \* What packing alone reads is not varied without it.
    /\ ~cf.packed => cf.algorithm = (CHOOSE a \in Algorithms : TRUE) /\ \A r \in Rows : cf.lens[r] = 1
    /\ (cf.algorithm = "shuffle" /\ cf.packed) \/ \A i \in ShardRows : cf.order[i] = i
    /\ cf.packed => cf.gbs = Min(GlobalSizes) /\ cf.mbs = Min(MicroSizes)
    /\ cf.packed \/ cf.plane => cf.score = Min(ScoreSizes)
    /\ ~cf.plane => cf.ref /\ cf.mapping = (CHOOSE m \in Mappings : TRUE)
    /\ pc = IF cf.plane THEN "put" ELSE "call"
    /\ op = "none"
    /\ shard = [d \in 0..(DP - 1) |-> <<>>]
    /\ inv = Batch
    /\ wk = [w \in Workers |-> Idle]
    /\ result = <<>>
    /\ plane = [f \in DPTrainFields |-> [r \in Rows |-> Absent]]

-------------------------------------------------------------------------------
(* The driver sends a call.                                                  *)

\* _shard_by_batch_size_packed: sorted by length, then contiguous blocks.
ShardPacked ==
    LET order == BatchOrder[cf.lens]
    IN  /\ shard' = ShardByBatchSize(order, DP, N)
        /\ inv' = InverseOf(order)

ShardUnpacked(chunk) ==
    /\ shard' = ShardByBatchSize(Batch, DP, chunk)
    /\ inv' = Batch

\* Policy.get_logprobs, train, ... and their *_from_meta: a batch that does not
\* divide is an assertion, else run_all_workers_sharded_data gives every worker
\* the shard of its data-parallel coordinate.
Send(o) ==
    LET chunk == IF o = "train" /\ ~PackingArgs(o) THEN cf.gbs ELSE N
    IN  /\ op' = o
        /\ result' = <<>>
        /\ IF Divides(N, DP, chunk)
           THEN /\ IF PackingArgs(o) THEN ShardPacked ELSE ShardUnpacked(chunk)
                /\ pc' = "wait"
                /\ wk' = [w \in Workers |-> [Idle EXCEPT !.stage = "call"]]
           ELSE /\ pc' = "raised"
                /\ UNCHANGED <<shard, inv, wk>>
        /\ UNCHANGED <<cf, plane>>

Call == pc = "call" /\ \E o \in Ops : Send(o)

-------------------------------------------------------------------------------
(* The workers.                                                              *)

Set(w, fields) == wk' = [wk EXCEPT ![w] = fields @@ @]

Raise(w) == Set(w, [stage |-> "failed"])

\* The columns a call fetches from the plane.
Fetched == IF op = "train" THEN DPTrainFields ELSE LPSeedFields

HasColumns(rows) ==
    \A f \in Fetched, i \in DOMAIN rows : plane[f][rows[i]] # Absent

\* The rows of a worker after _apply_packing_prep, which sorts them again and
\* drops the inverse.
Local(w) ==
    LET rows == shard[DataRank(w)]
    IN  IF cf.plane /\ cf.packed THEN Reorder(rows, ShardOrder[Lens(rows)]) ELSE rows

Micro(rows, step, real) == [rows |-> rows, step |-> step, real |-> real]

\* The rows of a micro-batch of call o over n rows without packing.
MicroSize(o, n) == IF o = "score" THEN Min({cf.score, n}) ELSE cf.mbs

\* The micro-batches of consecutive rows.  A loop counts as many as are whole and
\* drops what a last one with the remainder computes.
CountedBlocks(rows, step) ==
    LET size == MicroSize(op, Len(rows))
        blocks == MicroBatches(rows, size)
    IN  [b \in DOMAIN blocks |-> Micro(blocks[b], step, b <= Len(rows) \div size)]

\* The global batches of train: get_batch cuts the worker's rows.
TrainBlocks(rows) ==
    LET local == cf.gbs \div DP
    IN  FlattenSeq([g \in 1..(N \div cf.gbs) |->
            CountedBlocks(SubSeq(rows, (g - 1) * local + 1, g * local), g)])

\* A worker starts a call.  With the plane a replica's leader fetches and its
\* siblings wait for the broadcast.  A batch cut by get_batch, or sharded
\* without packing arguments, carries none: packing it is a RuntimeError.
Start(w) ==
    LET rows == Local(w)
        packs == PacksOf[cf.algorithm, cf.order, Lens(rows)]
    IN  /\ wk[w].stage = "call"
        /\ (cf.plane /\ ~ReplicaLeader(w)) => wk[LeaderOf(w)].stage \notin {"call", "failed"}
        /\ \/ /\ cf.plane /\ ReplicaLeader(w) /\ ~HasColumns(rows)
              /\ Raise(w)
           \/ /\ (cf.plane /\ ReplicaLeader(w)) => HasColumns(rows)
              /\ cf.packed
              /\ IF op \in {"train", "score"} \/ packs = <<>>
                 THEN Raise(w)
                 ELSE Set(w, [stage |-> "count", packs |-> packs])
           \/ /\ (cf.plane /\ ReplicaLeader(w)) => HasColumns(rows)
              /\ ~cf.packed
              /\ Set(w, [stage |-> "run",
                         mbs   |-> IF op = "train" THEN TrainBlocks(rows) ELSE CountedBlocks(rows, 1)])
        /\ UNCHANGED <<cf, pc, op, shard, inv, result, plane>>

\* Mutant: no dummies.
DummiesNone(packs) == 0

\* Every worker learns the largest number of packs of any, and goes through its
\* own again, as dummies, to make up the difference.
Dummies(packs) == Max({Len(wk[v].packs) : v \in Workers}) - Len(packs)

PackedBlocks(w) ==
    LET rows == Local(w)
        packs == wk[w].packs
        n == Len(packs)
    IN  [b \in 1..(n + Dummies(packs)) |->
            Micro(Reorder(rows, packs[((b - 1) % n) + 1]), 1, b <= n)]

Count(w) ==
    /\ wk[w].stage = "count"
    /\ \A v \in Workers : wk[v].stage \notin {"call", "failed"}
    /\ Set(w, [stage |-> "run", mbs |-> PackedBlocks(w)])
    /\ UNCHANGED <<cf, pc, op, shard, inv, result, plane>>

\* Every worker has entered the collective of micro-batch n.
Complete(n) ==
    \A v \in Workers : wk[v].stage \in {"run", "done"} /\ wk[v].at >= n

\* The next micro-batch: forward, and backward in train.
Forward(w) ==
    /\ wk[w].stage = "run"
    /\ wk[w].at < Len(wk[w].mbs)
    /\ Complete(wk[w].at)
    /\ Set(w, [at |-> wk[w].at + 1])
    /\ UNCHANGED <<cf, pc, op, shard, inv, result, plane>>

\* What the loop keeps of its micro-batches, in the order they ran; the top-k
\* loop keeps the dummies and the remainder too.
Kept(w) ==
    FlattenSeq([b \in DOMAIN wk[w].mbs |->
        IF wk[w].mbs[b].real \/ op = "topk" THEN wk[w].mbs[b].rows ELSE <<>>])

\* Mutant: the rows stay in pack order.
RestoreNothing(w, out) == out

\* _restore_packed_row_order scatters pack order back into shard order.
RestorePackedRowOrder(w, out) ==
    LET order == FlattenSeq(wk[w].packs)
    IN  IF cf.packed /\ op # "topk"
        THEN [i \in DOMAIN order |-> out[CHOOSE j \in DOMAIN order : order[j] = i]]
        ELSE out

Output(w) == RestorePackedRowOrder(w, Kept(w))

\* Not one row for each index of the packs: a RuntimeError.
Uncovered(w) == cf.packed /\ op # "topk" /\ Len(Kept(w)) # Len(FlattenSeq(wk[w].packs))

Column == IF op = "logprobs" THEN "prev_logprobs" ELSE "reference_policy_logprobs"

\* put_samples under the ids of the worker's meta, whatever order its rows are in.
Put(column, ids, rows) ==
    plane' = [plane EXCEPT ![column] =
        [r \in Rows |->
            IF \E i \in DOMAIN ids : ids[i] = r
            THEN [row    |-> rows[CHOOSE i \in DOMAIN ids : ids[i] = r],
                  writes |-> @[r].writes + 1]
            ELSE @[r]]]

\* The end of a call on a worker.  On the plane every worker checks that its result
\* is a mapping with a row for each of its ids, and the leader writes the column
\* back.
Finish(w) ==
    LET ids == shard[DataRank(w)]
        writes == cf.plane /\ op # "train"
    IN  /\ wk[w].stage = "run"
        /\ wk[w].at = Len(wk[w].mbs)
        /\ Complete(wk[w].at)
        /\ IF Uncovered(w) \/ (writes /\ (~cf.mapping \/ Len(Output(w)) # Len(ids)))
           THEN Raise(w) /\ UNCHANGED plane
           ELSE /\ Set(w, [stage |-> "done"])
                /\ IF writes /\ ReplicaLeader(w)
                   THEN Put(Column, ids, Output(w))
                   ELSE UNCHANGED plane
        /\ UNCHANGED <<cf, pc, op, shard, inv, result>>

-------------------------------------------------------------------------------
(* The driver takes the results.                                             *)

\* The step of _dataplane_train_step after a call.
After(o) ==
    CASE o = "logprobs" -> IF cf.ref THEN "ref_lp" ELSE "advantages"
      [] o = "reference" -> "advantages"
      [] o = "train" -> "finish"

\* get_results keeps the workers at the origin of the replicated axes, in worker
\* order; reorder_data undoes the sort of a packed call.
Gather ==
    /\ pc = "wait"
    /\ \A w \in Workers : wk[w].stage = "done"
    /\ pc' = IF cf.plane THEN After(op) ELSE "returned"
    /\ LET all == FlattenSeq([d \in 1..DP |-> Output((d - 1) * TP)])
       IN  result' = CASE cf.plane \/ op = "train" -> <<>>
                       [] PackingArgs(op) -> Reorder(all, inv)
                       [] OTHER -> all
    /\ UNCHANGED <<cf, op, shard, inv, wk, plane>>

\* A worker's exception is raised by ray.get.
GatherFails ==
    /\ pc = "wait"
    /\ \E w \in Workers : wk[w].stage = "failed"
    /\ pc' = "raised"
    /\ UNCHANGED <<cf, op, shard, inv, wk, result, plane>>

-------------------------------------------------------------------------------
(* A training step on the data plane.                                        *)

\* The collector's kv_first_write of the rollouts.
FirstWrite ==
    /\ pc = "put"
    /\ plane' = [f \in DPTrainFields |->
                    IF f \in Bulk THEN [r \in Rows |-> [row |-> r, writes |-> 1]] ELSE plane[f]]
    /\ pc' = "prev_lp"
    /\ UNCHANGED <<cf, op, shard, inv, wk, result>>

Logprobs == pc = "prev_lp" /\ Send("logprobs")

ReferenceLogprobs == pc = "ref_lp" /\ Send("reference")

Needed ==
    {"prev_logprobs", "generation_logprobs", "sample_mask"}
        \cup (IF cf.ref THEN {"reference_policy_logprobs"} ELSE {})

\* The driver reads the logprobs back and writes the advantages, the sample mask
\* again, less the rows whose logprobs are off, and zeros for the reference
\* logprobs that were skipped.
Advantages ==
    /\ pc = "advantages"
    /\ IF \E f \in Needed, r \in Rows : plane[f][r] = Absent
       THEN pc' = "raised" /\ UNCHANGED plane
       ELSE /\ pc' = "train"
            /\ plane' = [f \in DPTrainFields |->
                   CASE f = "advantages" ->
                            [r \in Rows |-> [row |-> plane["prev_logprobs"][r].row, writes |-> 1]]
                     [] f = "sample_mask" ->
                            [r \in Rows |-> [row    |-> plane["prev_logprobs"][r].row,
                                            writes |-> plane[f][r].writes + 1]]
                     [] f = "reference_policy_logprobs" /\ ~cf.ref ->
                            [r \in Rows |-> [row |-> r, writes |-> 1]]
                     [] OTHER -> plane[f]]
    /\ UNCHANGED <<cf, op, shard, inv, wk, result>>

Train == pc = "train" /\ Send("train")

\* finish_step clears the step's sample ids.
FinishStep ==
    /\ pc = "finish"
    /\ plane' = [f \in DPTrainFields |-> [r \in Rows |-> Absent]]
    /\ pc' = "returned"
    /\ UNCHANGED <<cf, op, shard, inv, wk, result>>

-------------------------------------------------------------------------------
DriverNext ==
    \/ Call \/ FirstWrite \/ Logprobs \/ ReferenceLogprobs \/ Advantages
    \/ Train \/ Gather \/ GatherFails \/ FinishStep

WorkerNext(w) == Start(w) \/ Count(w) \/ Forward(w) \/ Finish(w)

Next == DriverNext \/ \E w \in Workers : WorkerNext(w)

Spec == Init /\ [][Next]_vars

-------------------------------------------------------------------------------
(* Properties.                                                               *)

Stages == {"idle", "call", "count", "run", "done", "failed"}

\* The state is well formed, and a worker is in a call only while the driver
\* waits for it.
TypeOK ==
    /\ pc \in {"put", "call", "prev_lp", "ref_lp", "advantages", "train", "finish",
               "wait", "returned", "raised"}
    /\ op \in {"none", "logprobs", "reference", "topk", "score", "train"}
    /\ \A w \in Workers :
        /\ wk[w].stage \in Stages
        /\ wk[w].at \in 0..Len(wk[w].mbs)
        /\ wk[w].stage \in {"call", "count", "run"} => pc \in {"wait", "raised"}
    /\ \A f \in DPTrainFields, r \in Rows :
        plane[f][r] \in [row : 0..N, writes : Nat]

\* Row i of n is in a whole micro-batch of call o: the loops leave out the last
\* n % MicroSize rows of what a worker has, unless they are packed.
InWhole(o, i, n) == cf.packed \/ o = "topk" \/ i <= n - (n % MicroSize(o, n))

\* The rows of a batch cut into blocks of n that are in a whole micro-batch of o.
Whole(o, n) == SelectSeq(Batch, LAMBDA r : InWhole(o, ((r - 1) % n) + 1, n))

\* Whatever the lengths, the packing algorithm and the interleaving of the
\* workers, a logprob or score call returns to the driver one row for each row
\* of its batch, in the batch's order: the length sort, the bin-packer's order,
\* the dummy micro-batches and the tensor-parallel copies are all undone.  Only
\* the rows past the last whole micro-batch of a rank are missing.
RowsOwn ==
    pc = "returned" /\ ~cf.plane /\ (op \in {"logprobs", "reference", "score"} \/ (op = "topk" /\ ~cf.packed))
        => result = Whole(op, N \div DP)

\* On the data plane no sample id ever holds a column computed from another
\* sample, and each column is written once, the sample mask once more by the
\* driver: the workers write under ids sharded by the driver what they computed on
\* rows they sorted and packed themselves.
PlaneOwn ==
    \A f \in DPTrainFields, r \in Rows :
        LET writes == IF f = "sample_mask" /\ plane["advantages"][r] # Absent THEN 2 ELSE 1
        IN  plane[f][r] \in {Absent, [row |-> r, writes |-> writes]}

\* What the workers with tensor-parallel index t summed into optimizer step g.
Trained(t, g) ==
    FlattenSeq([d \in 1..DP |->
        LET mbs == wk[(d - 1) * TP + t].mbs
        IN  FlattenSeq([b \in DOMAIN mbs |->
                IF mbs[b].real /\ mbs[b].step = g THEN mbs[b].rows ELSE <<>>])])

\* Optimizer step g of a train call is on global batch g, each of its rows once,
\* on every tensor-parallel copy: the striping of the driver's shards and the
\* workers' get_batch agree.  Only the rows past the last whole micro-batch of a
\* rank's part of the global batch are left out.
BatchesExact ==
    pc \in {"returned", "finish"} /\ op = "train" =>
        \A t \in 0..(TP - 1), g \in 1..(N \div cf.gbs) :
            LET batch == {r \in ToSet(Whole("train", cf.gbs \div DP)) :
                            r \in ((g - 1) * cf.gbs + 1)..(g * cf.gbs)}
            IN  /\ Len(Trained(t, g)) = Cardinality(batch)
                /\ ToSet(Trained(t, g)) = batch

\* Sharding, sorting, packing and padding exchange and repeat no row, in what a
\* call returns, writes to the plane or trains on, and lose none but a remainder.
RowsExact == TypeOK /\ RowsOwn /\ PlaneOwn /\ BatchesExact

\* A rank's logprobs cannot be written back: its result is no mapping, or the
\* remainder of its rows is missing.
Unwritable == ~cf.mapping \/ Len(Whole("logprobs", N \div DP)) # N

\* The calls that fail are those that ask a batch without packing arguments for
\* its packs, and the first logprobs call on the plane if they cannot be written
\* back; train_presharded always finds the columns it fetches.  A step on the
\* plane comes to its end in the other cases only.
FailsExactly ==
    /\ pc = "raised" => \/ cf.packed /\ op \in {"train", "score"}
                        \/ cf.plane /\ op = "logprobs" /\ Unwritable
    /\ pc = "returned" => ~(cf.plane /\ Unwritable) /\ ~(cf.packed /\ op \in {"train", "score"})

\* No call hangs: the ranks of a data-parallel group, whose shards need not make
\* the same number of packs, are never all waiting for one another's collectives.
NeverHangs == pc \notin {"returned", "raised"} => ENABLED Next

\* Every call comes back with its result, but for those two kinds.
CallsReturn == FailsExactly /\ NeverHangs

\* A top-k call returns one row for each row of the batch, in the batch's order.
\* The comment in score says of the dummy micro-batches, which get_topk_logits
\* runs as well, that their rows "must not reach the output".
TopkRowsOwn ==
    pc = "returned" /\ op = "topk" => result = Batch

=============================================================================
