------------------------- MODULE RolloutAllocation -------------------------
(***************************************************************************)
(* Dynamic sampling with graded rollout allocation: generation batches are    *)
(* gated on the spread of their rewards and cached until a step's rows are    *)
(* there; a surplus is spent on the groups by variance.                      *)
(*                                                                           *)
(* A row's std is over two rewards, those of its peers: with the leave-one-  *)
(* out baseline the other two of three generations, without it both of two.  *)
(* It is then their distance, in units of 1/sqrt(2), which no comparison of   *)
(* weights sees.  Means are taken in units of 1/Scale.                       *)
(***************************************************************************)
EXTENDS Integers, Sequences, FiniteSets, Functions

CONSTANTS
    Prompts,            \* prompts, as numbers
    PromptsPerStep,     \* num_prompts_per_step
    PromptsPerBatch,    \* prompts of a generation batch (batch_multiplier)
    MaxGenBatches,      \* dynamic_sampling_max_gen_batches
    Rewards,            \* rewards
    Diversities,        \* routing diversity of a group's rows
    LeaveOneOut,        \* values of use_leave_one_out_baseline
    Graded,             \* values of graded_allocation.enabled
    Floors,             \* values of min_rollouts_per_prompt
    Exponents,          \* values of variance_exponent
    Stride              \* _GROUP_ID_STRIDE

ASSUME AllocationAssumption ==
    /\ Prompts \subseteq Nat /\ Rewards \subseteq Nat /\ Diversities \subseteq Nat
    /\ LeaveOneOut \subseteq BOOLEAN /\ Graded \subseteq BOOLEAN
    /\ Floors \subseteq Nat /\ Exponents \subseteq 0 .. 2
    /\ PromptsPerStep \in Nat \ {0} /\ PromptsPerBatch \in Nat \ {0}
    /\ PromptsPerBatch <= Cardinality(Prompts)
    /\ Stride \in Nat /\ PromptsPerBatch <= Stride
    /\ MaxGenBatches \in Nat \ {0}

VARIABLES
    cf,         \* the settings of the run
    pc,
    ordinal,    \* dynamic_sampling_num_gen_batches
    cache,      \* batch_cache: the rows that passed the gate
    groups,     \* the groups of the cached rows, in order of first appearance
    quotas,     \* rows given to each group
    remainder,  \* rows still to be given
    kept        \* the rows to train on

vars == <<cf, pc, ordinal, cache, groups, quotas, remainder, kept>>

\* The floor and the exponent are those of graded allocation.
Settings ==
    {s \in [loo : LeaveOneOut, graded : Graded, floor : Floors, exponent : Exponents] :
        ~s.graded => /\ s.floor = CHOOSE floor \in Floors : TRUE
                     /\ s.exponent = CHOOSE exponent \in Exponents : TRUE}

Generations(loo) == IF loo THEN 3 ELSE 2
Need == PromptsPerStep * Generations(cf.loo)
Scale == 6

\* The sum of f over S: S has f[k] pairs for each k.
Total(f, S) == Cardinality(UNION {{k} \X (1 .. f[k]) : k \in S})

\* The i-th number of S, and its first n.
Nth(S, i) == CHOOSE r \in S : Cardinality({q \in S : q < r}) = i - 1
FirstRows(S, n) == {r \in S : Cardinality({q \in S : q < r}) < n}

Lesser(a, b) == IF a <= b THEN a ELSE b

Init ==
    /\ cf \in Settings
    /\ pc = "generate" /\ ordinal = 0
    /\ cache = <<>> /\ groups = <<>> /\ quotas = <<>> /\ remainder = 0 /\ kept = {}

Distance(a, b) == IF a < b THEN b - a ELSE a - b

\* calculate_baseline_and_std_per_prompt: the stds of a group's rows.
Stds(rewards, loo) ==
    [i \in DOMAIN rewards |->
        IF loo THEN Distance(rewards[(i % 3) + 1], rewards[((i + 1) % 3) + 1])
               ELSE Distance(rewards[1], rewards[2])]

GroupStds(loo) == {Stds(rewards, loo) : rewards \in [1 .. Generations(loo) -> Rewards]}

\* Mutant: the generation batch is left out.
AssignGroupIdNoBatch(p, batch, ord) == Cardinality({q \in Range(batch) : q < p})
\* torch.unique sorts; the ordinal keeps the groups of two batches apart.
AssignGroupId(p, batch, ord) == Cardinality({q \in Range(batch) : q < p}) + ord * Stride

\* The rows of a batch, group after group.  A row keeps its origin, which the
\* allocator does not look at.
BatchRows(batch, stds, diversity, ord) ==
    LET n == Generations(cf.loo)
        of(r) == (r - 1) \div n + 1
    IN  [r \in 1 .. PromptsPerBatch * n |->
            [group     |-> AssignGroupId(batch[of(r)], batch, ord),
             origin    |-> <<ord, batch[of(r)]>>,
             std       |-> stds[of(r)][((r - 1) % n) + 1],
             diversity |-> diversity[of(r)]]]

\* A generation batch, its prompts in some order that is fixed here.
Batches ==
    {batch \in [1 .. PromptsPerBatch -> Prompts] :
        \A i, j \in 1 .. PromptsPerBatch : i < j => batch[i] < batch[j]}

\* The rows whose rewards spread, in their order.
Informative(rows) ==
    LET passed == {r \in DOMAIN rows : rows[r].std # 0}
    IN  [i \in 1 .. Cardinality(passed) |-> rows[Nth(passed, i)]]

\* The rows of a batch pass the gate one by one.
Generate ==
    /\ pc = "generate"
    /\ ordinal' = ordinal + 1
    /\ \E batch \in Batches :
       \E stds \in [1 .. PromptsPerBatch -> GroupStds(cf.loo)] :
       \E diversity \in [1 .. PromptsPerBatch -> Diversities] :
          cache' = cache \o Informative(BatchRows(batch, stds, diversity, ordinal + 1))
    /\ pc' = "gate"
    /\ UNCHANGED <<cf, groups, quotas, remainder, kept>>

\* Fewer rows than a step needs: another batch, or the limit is reached.
Incomplete ==
    /\ pc = "gate" /\ Len(cache) < Need
    /\ pc' = IF ordinal <= MaxGenBatches THEN "generate" ELSE "failed"
    /\ UNCHANGED <<cf, ordinal, cache, groups, quotas, remainder, kept>>

\* Without graded allocation the surplus is cut off.
Truncate ==
    /\ pc = "gate" /\ Len(cache) >= Need /\ ~cf.graded
    /\ kept' = 1 .. Need
    /\ pc' = "train"
    /\ UNCHANGED <<cf, ordinal, cache, groups, quotas, remainder>>

-------------------------------------------------------------------------------
(* allocate_rollout_budget.                                                  *)

\* _group_rows: the groups in order of first appearance, as sets of rows.
GroupRows ==
    LET first == {r \in DOMAIN cache : \A q \in 1 .. r - 1 : cache[q].group # cache[r].group}
    IN  [k \in 1 .. Cardinality(first) |->
            {r \in DOMAIN cache : cache[r].group = cache[Nth(first, k)].group}]

\* The mean of a column over a group's rows, times Scale.
Mean(column, rows) == (Scale * Total(column, rows)) \div Cardinality(rows)

Power(w, e) == CASE e = 0 -> 1 [] e = 1 -> w [] e = 2 -> w * w

\* _diversity_factor is left out when no row has any diversity.
Group(rows) ==
    LET weight == Mean([r \in DOMAIN cache |-> cache[r].std], rows)
        diversity == [r \in DOMAIN cache |-> cache[r].diversity]
        factor == IF \A r \in DOMAIN cache : diversity[r] = 0 THEN 1 ELSE Mean(diversity, rows)
    IN  [rows |-> rows, size |-> Cardinality(rows),
         weight |-> weight, graded |-> Power(weight, cf.exponent) * factor]

\* The groups that survived, with what they are worth.
Allocate ==
    /\ pc = "gate" /\ Len(cache) > Need /\ cf.graded
    /\ LET rows == GroupRows
       IN  groups' = [k \in DOMAIN rows |-> Group(rows[k])]
    /\ pc' = "floors"
    /\ UNCHANGED <<cf, ordinal, cache, quotas, remainder, kept>>

\* Whether group j comes before group k when the floors do not all fit.
Worthier(j, k) ==
    \/ groups[j].graded > groups[k].graded
    \/ groups[j].graded = groups[k].graded /\ groups[j].weight > groups[k].weight
    \/ groups[j].graded = groups[k].graded /\ groups[j].weight = groups[k].weight /\ j < k

\* The floor of each group, and what those before it leave of the budget.
Minimum == [k \in DOMAIN groups |-> Lesser(cf.floor, groups[k].size)]
Left(k) == Need - Total(Minimum, {j \in DOMAIN groups : Worthier(j, k)})

\* The floors, or as many of them as fit.
FirstQuotas ==
    IF Total(Minimum, DOMAIN groups) <= Need THEN Minimum
    ELSE [k \in DOMAIN groups |-> IF Left(k) <= 0 THEN 0 ELSE Lesser(Minimum[k], Left(k))]

SetFloors ==
    /\ pc = "floors"
    /\ quotas' = FirstQuotas
    /\ remainder' = Need - Total(quotas', DOMAIN groups)
    /\ pc' = "apportion"
    /\ UNCHANGED <<cf, ordinal, cache, groups, kept>>

\* No surplus.
KeepAll ==
    /\ pc = "gate" /\ Len(cache) = Need /\ cf.graded
    /\ kept' = DOMAIN cache
    /\ pc' = "train"
    /\ UNCHANGED <<cf, ordinal, cache, groups, quotas, remainder>>

-------------------------------------------------------------------------------
(* _apportion.                                                               *)

Headroom(k) == groups[k].size - quotas[k]
Active == {k \in DOMAIN groups : Headroom(k) > 0}
TotalWeight == Total([k \in DOMAIN groups |-> groups[k].graded], Active)

\* The whole rows of a group's share of the total weight, as far as it has that many.
Take(k, total) == Lesser((remainder * groups[k].graded) \div total, Headroom(k))

\* Mutant: single rows go to the groups in the order they came in.
BeforeByArrival(j, k) == j < k
Before(j, k) ==
    \/ groups[j].graded > groups[k].graded
    \/ groups[j].graded = groups[k].graded /\ j < k

Single(k) == IF Cardinality({j \in Active : Before(j, k)}) < remainder THEN 1 ELSE 0

\* What one turn of the loop gives: whole rows in proportion to the weights, or
\* single rows when there are no weights or no share is a whole row.
\* Mutant: shares below one row are not handed out.
TurnWhole ==
    LET total == TotalWeight
    IN  [k \in DOMAIN groups |->
            IF k \notin Active THEN 0 ELSE IF total = 0 THEN Single(k) ELSE Take(k, total)]
Turn ==
    LET total == TotalWeight
        whole == total > 0 /\ \E j \in Active : Take(j, total) > 0
    IN  [k \in DOMAIN groups |->
            IF k \notin Active THEN 0 ELSE IF whole THEN Take(k, total) ELSE Single(k)]

Apportion ==
    /\ pc = "apportion" /\ remainder > 0 /\ Active # {}
    /\ LET turn == Turn
       IN  /\ quotas' = [k \in DOMAIN quotas |-> quotas[k] + turn[k]]
           /\ remainder' = remainder - Total(turn, DOMAIN groups)
    /\ UNCHANGED <<cf, pc, ordinal, cache, groups, kept>>

\* The first rows of every group, in batch order.
Select ==
    /\ pc = "apportion" /\ (remainder = 0 \/ Active = {})
    /\ kept' = UNION {FirstRows(groups[k].rows, quotas[k]) : k \in DOMAIN groups}
    /\ pc' = "train"
    /\ UNCHANGED <<cf, ordinal, cache, groups, quotas, remainder>>

\* The step is trained and its cache dropped, the surplus with it.
EndStep ==
    /\ pc = "train"
    /\ pc' = "generate" /\ ordinal' = 0
    /\ cache' = <<>> /\ groups' = <<>> /\ quotas' = <<>> /\ remainder' = 0 /\ kept' = {}
    /\ UNCHANGED cf

Next ==
    \/ Generate \/ Incomplete \/ Truncate \/ Allocate \/ KeepAll
    \/ SetFloors \/ Apportion \/ Select \/ EndStep

Spec == Init /\ [][Next]_vars

\* One sequential program: an allocation that has begun goes on.
FairSpec == Spec /\ WF_vars(Apportion) /\ WF_vars(Select)

-------------------------------------------------------------------------------
(* Properties.                                                               *)

\* The state is well formed: a step's rows are cached from at most
\* MaxGenBatches + 1 batches, none of them more than once.
TypeOK ==
    /\ pc \in {"generate", "gate", "floors", "apportion", "train", "failed"}
    /\ ordinal \in 0 .. MaxGenBatches + 1
    /\ Len(cache) <= Generations(cf.loo) * PromptsPerBatch * ordinal
    /\ DOMAIN quotas = IF pc \in {"apportion", "train"} THEN DOMAIN groups ELSE {}
    /\ remainder \in 0 .. Need

\* A step trains on exactly as many rows as it would without the allocation,
\* whatever the floors, weights, diversities and group sizes.
BudgetExact == pc = "train" => Cardinality(kept) = Need

\* The floor holds: every surviving group has its rows; where not all floors fit,
\* no group goes without for one that is worth less.
FloorMet ==
    pc = "train" =>
        \A k \in DOMAIN groups :
            \/ quotas[k] >= Minimum[k]
            \/ \A j \in DOMAIN groups : quotas[j] > 0 => groups[j].graded >= groups[k].graded

\* A group that weighs more gets no fewer rows, unless it has no more: the turns
\* of the loop do not undo each other.
MoreForMore ==
    pc # "floors" => \A j, k \in DOMAIN groups :
        groups[j].graded > groups[k].graded =>
            quotas[j] >= quotas[k] \/ quotas[j] = groups[j].size

\* The rows of a step are shared out as the settings say: all of them, with the
\* floors, and by weight.
SharesSound == TypeOK /\ BudgetExact /\ FloorMet /\ MoreForMore

\* A group's rows are generations of one prompt in one batch, which share a
\* baseline, though the same prompt may come in two batches of a step.
GroupsApart ==
    \A k \in DOMAIN groups : \A r, q \in groups[k].rows : cache[r].origin = cache[q].origin

\* The loop of _apportion ends: every turn gives a row.
AllocationEnds == pc = "apportion" ~> pc = "train"
=============================================================================
