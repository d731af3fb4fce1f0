------------------------------ MODULE Trainers ------------------------------
(***************************************************************************)
(* The epoch-and-step loops of the synchronous trainers: SFT, DPO, reward     *)
(* model, on-policy distillation and synchronous GRPO, from setup through     *)
(* validation and checkpoints to the end of the run, with crashes and         *)
(* restarts from the latest checkpoint.  The five loops share their           *)
(* skeleton; what differs between them is what a step does.                   *)
(***************************************************************************)
EXTENDS WeightSync, Sequences

CONSTANTS
    Kinds,          \* the trainers of the instance
    Length,         \* len(train_dataloader), in batches
    MaxEpochs,      \* max_num_epochs
    MaxSteps,       \* max_num_steps
    SavePeriods,    \* checkpointing.save_period of a run; 0: not enabled
    ValPeriod,      \* val_period; 0: never
    NumPrompts,     \* num_prompts_per_step, the size of a batch
    MaxGenBatches,  \* dynamic_sampling_max_gen_batches
    Timeout,        \* checkpoint_must_save_by is set
    KeepsOptimizer, \* colocated students without offload_optimizer_for_logprob
    BareReference,  \* colocated GRPO with force_on_policy_ratio and a reference
    MaxCrashes      \* bound on the crashes that are restarted

ASSUME TrainersAssumption ==
    /\ Kinds \subseteq {"sft", "dpo", "rm", "distillation", "grpo"}
    /\ {Length, MaxEpochs, MaxSteps, NumPrompts, MaxGenBatches} \subseteq Nat \ {0}
    /\ SavePeriods \cup {ValPeriod, MaxCrashes, MaxFlushFails} \subseteq Nat
    /\ {Timeout, KeepsOptimizer, BareReference} \subseteq BOOLEAN

VARIABLES
    pc,         \* where the loop is
    goal,       \* what the engine is prepared for: a step or a validation
    epoch, step, total,     \* current_epoch, current_step, total_steps
    pos,        \* batches the dataloader has yielded in this epoch
    cache,      \* batch_cache: its rows in prompts, and the batches they are from
    gens,       \* dynamic_sampling_num_gen_batches
    log,        \* history: the batches of every step behind the policy's weights
    valAt,      \* the step whose validation metrics the save state carries
    ckpt,       \* the latest checkpoint, or NoCkpt
    why,        \* how the run ended
    crashes

loopVars == <<epoch, step, total, pos, cache, gens, log, valAt>>
vars == <<cf, pc, goal, loopVars, ckpt, why, crashes, syncVars>>

None == -1
NoCkpt == [total |-> None]
NoCache == [rows |-> 0, from |-> <<>>]
Version == Len(log)     \* the policy's weights

-------------------------------------------------------------------------------
(* Configurations and setup.                                                 *)

\* The configurations setup accepts.  A teacher shares the student's GPUs on
\* the fast or the tight schedule, or lives apart; SGLang always shares the
\* trainer's, vLLM may.  A GRPO step computes the policy's logprobs, and the
\* reference's or not; with force_on_policy_ratio the reference's alone, or none.
Valid(c) ==
    /\ c.kind = "grpo" <=> c.backend # "none"
    /\ c.saver => c.backend = "sglang"
    /\ ~c.recompute => c.backend = "vllm"
    /\ c.sampling => c.kind = "grpo"
    /\ c.schedule # "apart" => c.kind = "distillation"
    /\ ~c.capped => c.kind = "rm"
    /\ c.genColocated => c.kind = "grpo"
    /\ c.backend = "sglang" => c.genColocated
    /\ c.logprobs # "none" => c.kind = "grpo"

\* A student that shares its GPUs gets its optimizer back before it trains
\* only with offload_optimizer_for_logprob (see PrepareForTraining).
Restores(c) == c.schedule # "apart" => c.offloadOpt \/ KeepsOptimizer

\* With force_on_policy_ratio nothing brings the policy back from where the sync
\* has left it before the reference's logprobs are computed on it.
Prepared(c) == c.logprobs = "reference" => ~c.genColocated \/ BareReference

Configs ==
    {c \in [kind : Kinds, backend : {"none", "vllm", "sglang"}, saver : BOOLEAN,
            recompute : BOOLEAN, genColocated : BOOLEAN, offloadOpt : BOOLEAN,
            logprobs : {"policy", "reference", "none"},
            schedule : {"apart", "fast", "tight"}, sampling : BOOLEAN,
            vals : BOOLEAN, save : SavePeriods, capped : BOOLEAN] :
        Valid(c) /\ Restores(c) /\ Prepared(c)}

\* What setup leaves on the GPU: the engine was put to sleep before the policy
\* came, a colocated student's optimizer left before its teacher came.
SetupMemory ==
    LET m == [model |-> "gpu", opt |-> "gpu", engine |-> IF MemorySaver THEN {} ELSE AllTags,
              teacher |-> IF cf.schedule = "tight" THEN "cpu" ELSE "gpu"]
    IN IF cf.schedule = "apart" THEN m ELSE OffloadBefore(m)

\* Mutant: the dataloader of a resumed run starts its epoch again.
SetupFromStart(c) ==
    /\ epoch' = c.epoch /\ step' = c.step /\ total' = c.total /\ pos' = 0
    /\ log' = c.log /\ valAt' = c.val
    /\ pc' = "start" /\ goal' = "step" /\ cache' = NoCache /\ gens' = 0
    /\ stale' = TRUE /\ engine' = Base /\ kv' = {} /\ mem' = SetupMemory
    /\ UNCHANGED <<cf, ckpt, why, flushFails>>

\* setup and the head of the train function, from a checkpoint or from
\* nothing.  A GRPO run marks its weights stale whatever it resumes from.
Setup(c) ==
    /\ epoch' = c.epoch /\ step' = c.step /\ total' = c.total /\ pos' = c.pos
    /\ log' = c.log /\ valAt' = c.val
    /\ pc' = "start" /\ goal' = "step" /\ cache' = NoCache /\ gens' = 0
    /\ stale' = TRUE /\ engine' = Base /\ kv' = {} /\ mem' = SetupMemory
    /\ UNCHANGED <<cf, ckpt, why, flushFails>>

Fresh == [epoch |-> 0, step |-> 0, total |-> 0, pos |-> 0, log |-> <<>>, val |-> None]

Init ==
    /\ cf \in Configs
    /\ epoch = 0 /\ step = 0 /\ total = 0 /\ pos = 0 /\ log = <<>> /\ valAt = None
    /\ pc = "start" /\ goal = "step" /\ cache = NoCache /\ gens = 0
    /\ stale = TRUE /\ engine = Base /\ kv = {} /\ mem = SetupMemory
    /\ ckpt = NoCkpt /\ why = "running" /\ crashes = 0 /\ flushFails = 0

At(here, there) == pc = here /\ pc' = there

-------------------------------------------------------------------------------
(* The skeleton: the head of the run, epochs, batches.                       *)

\* val_at_start of the first run: GRPO validates through the engine, and only
\* the others ready the policy for training here.
Start ==
    /\ pc = "start"
    /\ pc' = IF cf.vals /\ total = 0 THEN "validate" ELSE "loop"
    /\ goal' = "validate first"
    /\ mem' = IF cf.kind = "grpo" THEN mem ELSE PrepareForTraining(mem)
    /\ UNCHANGED <<cf, loopVars, ckpt, why, crashes, stale, engine, kv, flushFails>>

MoreSteps(n) == ~cf.capped \/ n < MaxSteps

\* The test of the while loop, and the reset of the cache it starts with.
EpochBegin ==
    /\ pc = "loop"
    /\ IF epoch < MaxEpochs /\ MoreSteps(total)
       THEN pc' = "next" /\ UNCHANGED why
       ELSE pc' = "done" /\ why' = "finished"
    /\ cache' = NoCache /\ gens' = 0
    /\ UNCHANGED <<cf, goal, epoch, step, total, pos, log, valAt, ckpt, crashes, syncVars>>

\* The next batch: GRPO readies the engine, distillation rolls out and asks
\* its teacher, the others train.
NextBatch ==
    /\ pos < Length
    /\ pc = "next"
    /\ pos' = pos + 1
    /\ pc' = CASE cf.kind = "grpo" -> "ready" [] cf.kind = "distillation" -> "score" [] OTHER -> "train"
    /\ goal' = "step"
    /\ UNCHANGED <<cf, epoch, step, total, cache, gens, log, valAt, ckpt, why, crashes, syncVars>>

\* Mutant: an epoch that was over when it was resumed waits for a batch.
EpochEndWaits ==
    /\ pos = Length /\ step > 0
    /\ At("next", "loop")
    /\ epoch' = epoch + 1 /\ step' = 0 /\ pos' = 0
    /\ UNCHANGED <<cf, goal, total, cache, gens, log, valAt, ckpt, why, crashes, syncVars>>

EpochEnd ==
    /\ pos = Length
    /\ At("next", "loop")
    /\ epoch' = epoch + 1 /\ step' = 0 /\ pos' = 0
    /\ UNCHANGED <<cf, goal, total, cache, gens, log, valAt, ckpt, why, crashes, syncVars>>

-------------------------------------------------------------------------------
(* GRPO: the engine, the rollouts, dynamic sampling.                         *)

\* Weights the engine does not have yet are sent before it generates.
Ready ==
    /\ pc = "ready"
    /\ IF stale THEN SyncStage /\ pc' = "transfer"
                ELSE ServeFresh /\ pc' = IF goal = "step" THEN "generate" ELSE "judge"
    /\ UNCHANGED <<cf, goal, loopVars, ckpt, why, crashes>>

Transfer ==
    /\ pc = "transfer"
    /\ SyncTransfer(Version)
    /\ pc' = IF goal = "step" THEN "generate" ELSE "judge"
    /\ UNCHANGED <<cf, goal, loopVars, ckpt, why, crashes>>

\* The rollout of a batch, kept of whose prompts have rewards that differ.
\* Too few are kept for the next batch; too many batches raise.
DynamicSampling(kept) ==
    LET c == IF kept = 0 THEN cache
             ELSE [rows |-> cache.rows + kept, from |-> Append(cache.from, <<epoch, pos>>)]
    IN /\ cache' = c /\ gens' = gens + 1
       /\ IF c.rows >= NumPrompts \/ ~cf.sampling
          THEN pc' = "prepare lp" /\ UNCHANGED why
          ELSE IF gens + 1 <= MaxGenBatches
               THEN pc' = "next" /\ UNCHANGED why
               ELSE pc' = "dead" /\ why' = "raised"

Generate ==
    /\ pc = "generate"
    /\ FinishGeneration
    /\ \E kept \in IF cf.sampling THEN 0 .. NumPrompts ELSE {NumPrompts} : DynamicSampling(kept)
    /\ UNCHANGED <<cf, goal, epoch, step, total, pos, log, valAt, ckpt, crashes>>

\* With force_on_policy_ratio the policy is not prepared for logprobs.
PrepareLogprobs ==
    /\ At("prepare lp", "logprobs")
    /\ mem' = IF cf.logprobs = "policy" THEN PrepareForLp(mem) ELSE mem
    /\ UNCHANGED <<cf, goal, loopVars, ckpt, why, crashes, stale, engine, kv, flushFails>>

\* Mutant: the weights are about to change and nobody says so.
PrepareTrainingQuiet ==
    /\ At("logprobs", "train")
    /\ mem' = PrepareForTraining(mem)
    /\ UNCHANGED <<cf, goal, loopVars, ckpt, why, crashes, stale, engine, kv, flushFails>>

\* Logprobs and advantages, then prepare_for_training and mark_stale.
PrepareTraining ==
    /\ At("logprobs", "train")
    /\ mem' = PrepareForTraining(mem) /\ stale' = TRUE
    /\ UNCHANGED <<cf, goal, loopVars, ckpt, why, crashes, engine, kv, flushFails>>

-------------------------------------------------------------------------------
(* Distillation: the teacher's turn and the student's.                       *)

EnterScoring(m) ==
    IF cf.schedule = "tight" THEN [OffloadBefore(m) EXCEPT !.teacher = "gpu"] ELSE m

\* Mutant: the teacher goes, the optimizer does not come back.
EnterTrainingBare(m) ==
    IF cf.schedule = "tight" THEN [m EXCEPT !.teacher = "cpu"] ELSE m

EnterTraining(m) ==
    IF cf.schedule = "tight" THEN PrepareForTraining([m EXCEPT !.teacher = "cpu"]) ELSE m

\* The student's rollouts, then the teacher's logits, for a step or for the
\* batches of a validation.  The loop's calls of run_multi_turn_rollout and of
\* get_topk_logits pass keywords that neither takes; here they are answered.
Score ==
    /\ pc \in {"score", "val score"}
    /\ pc' = IF pc = "score" THEN "scoring" ELSE "val scoring"
    /\ mem' = EnterScoring(mem)
    /\ UNCHANGED <<cf, goal, loopVars, ckpt, why, crashes, stale, engine, kv, flushFails>>

Scored ==
    /\ pc \in {"scoring", "val scoring"}
    /\ pc' = IF pc = "scoring" THEN "train" ELSE "val train"
    /\ mem' = EnterTraining(mem)
    /\ UNCHANGED <<cf, goal, loopVars, ckpt, why, crashes, stale, engine, kv, flushFails>>

-------------------------------------------------------------------------------
(* The training step and what follows it.                                    *)

Batches == IF cf.sampling THEN cache.from ELSE <<<<epoch, pos>>>>

Train ==
    /\ At("train", "trained")
    /\ log' = Append(log, Batches)
    /\ UNCHANGED <<cf, goal, epoch, step, total, pos, cache, gens, valAt, ckpt, why, crashes, syncVars>>

\* is_last_step.  A step is one batch here, which dynamic sampling breaks.
LastStep == ~MoreSteps(total + 1) \/ (epoch + 1 = MaxEpochs /\ step + 1 = Length)

Validates == (ValPeriod > 0 /\ (total + 1) % ValPeriod = 0) \/ (cf.vals /\ LastStep)

Trained ==
    /\ pc = "trained"
    /\ pc' = IF Validates THEN "validate" ELSE "save"
    /\ goal' = "validate"
    \* The metrics of an earlier validation leave the save state, but not
    \* distillation's.
    /\ valAt' = IF cf.kind = "distillation" THEN valAt ELSE None
    /\ UNCHANGED <<cf, epoch, step, total, pos, cache, gens, log, ckpt, why, crashes, syncVars>>

\* validate: through the engine, with the teacher, or on the policy alone.
Validate ==
    /\ pc = "validate"
    /\ pc' = CASE cf.kind = "grpo" -> "ready" [] cf.kind = "distillation" -> "val score" [] OTHER -> "val train"
    /\ mem' = IF cf.kind = "grpo" THEN mem ELSE PrepareForTraining(mem)
    /\ UNCHANGED <<cf, goal, loopVars, ckpt, why, crashes, stale, engine, kv, flushFails>>

Validated ==
    /\ pc' = IF goal = "validate" THEN "save" ELSE "loop"
    /\ valAt' = IF goal = "validate" THEN total + 1 ELSE valAt
    /\ UNCHANGED <<cf, goal, epoch, step, total, pos, cache, gens, log, ckpt, why, crashes>>

\* GRPO generates the validation's answers.
Judge ==
    /\ pc = "judge"
    /\ FinishGeneration
    /\ Validated

ValTrain ==
    /\ pc = "val train"
    /\ mem' = PrepareForTraining(mem)
    /\ UNCHANGED <<stale, engine, kv, flushFails>>
    /\ Validated

Saved ==
    [epoch |-> epoch, total |-> total + 1, pos |-> pos, log |-> log, val |-> valAt,
     step |-> IF cf.kind = "grpo" THEN step + 1 ELSE (step + 1) % Length]

SaveDue(late) == cf.save > 0 /\ (LastStep \/ (total + 1) % cf.save = 0 \/ late)

\* The checkpoint, if it is due, and the end of the step.
\* late: check_save says that the time is up.
EndStep ==
    \E late \in IF Timeout THEN BOOLEAN ELSE {FALSE} :
        /\ pc = "save"
        /\ ckpt' = IF SaveDue(late) THEN Saved ELSE ckpt
        /\ mem' = IF SaveDue(late) /\ cf.kind = "grpo" THEN PrepareForTraining(mem) ELSE mem
        /\ step' = step + 1 /\ total' = total + 1
        /\ cache' = NoCache /\ gens' = 0
        /\ CASE late -> pc' = "done" /\ why' = "timeout"
             [] ~late /\ ~MoreSteps(total + 1) -> pc' = "done" /\ why' = "finished"
             [] OTHER -> pc' = "next" /\ UNCHANGED why
        /\ UNCHANGED <<cf, goal, epoch, pos, log, valAt, crashes, stale, engine, kv, flushFails>>

-------------------------------------------------------------------------------
(* Crashes.  A failed weight transfer raises through the trainer, too.       *)

Crash ==
    /\ pc \notin {"done", "dead"}
    /\ pc' = "dead" /\ why' = "crashed"
    /\ UNCHANGED <<cf, goal, loopVars, ckpt, crashes, syncVars>>

Restart ==
    /\ pc = "dead"
    /\ crashes < MaxCrashes
    /\ crashes' = crashes + 1
    /\ Setup(IF ckpt = NoCkpt THEN Fresh ELSE ckpt)

Run ==
    \/ Start \/ EpochBegin \/ NextBatch \/ EpochEnd
    \/ Ready \/ Transfer \/ Generate \/ PrepareLogprobs \/ PrepareTraining
    \/ Score \/ Scored
    \/ Train \/ Trained \/ Validate \/ Judge \/ ValTrain \/ EndStep

Next == Run \/ Crash \/ Restart

Spec == Init /\ [][Next]_vars

\* The loop is one thread that nothing suspends, and what crashed is started
\* again.
FairSpec == Spec /\ WF_vars(Run) /\ WF_vars(Restart)

-------------------------------------------------------------------------------
(* Properties.                                                               *)

TypeOK ==
    /\ cf \in Configs
    /\ epoch \in 0 .. MaxEpochs /\ step \in 0 .. Length /\ pos \in 0 .. Length
    /\ total \in 0 .. MaxEpochs * Length
    /\ cache.rows \in 0 .. 2 * NumPrompts - 1 /\ gens \in 0 .. MaxGenBatches + 1
    /\ engine \in Base .. Version /\ kv \subseteq 0 .. MaxEpochs * Length
    /\ valAt \in None .. total + 1
    /\ mem \in [model : {"cpu", "gpu"}, opt : {"cpu", "gpu"}, teacher : {"cpu", "gpu"},
                engine : SUBSET AllTags]
    /\ why \in {"running", "finished", "timeout", "raised", "crashed"}

\* Rollouts and validations of GRPO are generated by the weights the trainer
\* has, after any sequence of steps, validations, saves and restarts: the
\* engine's own weights are never used and no update is missed.
OnPolicy == pc \in {"generate", "judge"} => engine = Version

\* No KV block computed with other weights is reused: vLLM is flushed twice,
\* after each round and after each sync, so that one flush may fail; SGLang
\* without the memory saver has the one in the sync.
KVFresh ==
    (pc \in {"generate", "judge"} /\ (flushFails = 0 \/ (cf.backend = "vllm" /\ cf.recompute)))
        => kv \subseteq {engine}

\* The GPUs that two parties share never hold what both need at their peak:
\* the optimizer is away while an SGLang engine holds memory, and the model
\* too once the KV cache is there; on the tight schedule the optimizer and
\* the teacher take turns.
FitsDevice ==
    /\ MemorySaver => /\ mem.engine = {} \/ mem.opt = "cpu"
                      /\ "kv" \notin mem.engine \/ mem.model = "cpu"
    /\ cf.schedule = "tight" => mem.teacher = "cpu" \/ mem.opt = "cpu"

\* Whatever computes is on the GPU when it does: the model for logprobs, the
\* teacher for its logits, the model and its optimizer for a step, and the
\* whole engine for a rollout.
OnDevice ==
    /\ pc = "logprobs" /\ cf.logprobs # "none" => mem.model = "gpu"
    /\ pc \in {"scoring", "val scoring"} => mem.teacher = "gpu"
    /\ pc = "train" => mem.model = "gpu" /\ mem.opt = "gpu"
    /\ pc \in {"generate", "judge"} => mem.engine = AllTags

\* The engine that a trainer is about to use, or makes room for, is in the
\* state it needs: no cached block of other weights, each party on the GPU when
\* it computes and off it when another needs the memory.
EngineSound == KVFresh /\ FitsDevice /\ OnDevice

\* The batches behind the weights are the data in order: none twice and, but
\* for what dynamic sampling leaves out, none missing, over every crash and
\* resume, the ones at the end of an epoch included.
Index(b) == b[1] * Length + b[2]

InOrder(lg) ==
    \A s, t \in 1 .. Len(lg) : \A i \in 1 .. Len(lg[s]), j \in 1 .. Len(lg[t]) :
        s < t \/ (s = t /\ i < j) => Index(lg[s][i]) < Index(lg[t][j])

EachOnce(lg) == \A s \in 1 .. Len(lg) : Len(lg[s]) = 1 /\ Index(lg[s][1]) = s

DataExact == InOrder(log) /\ (~cf.sampling => EachOnce(log))

\* A run that ends without a crash leaves its last step in the latest
\* checkpoint, with the metrics of a validation of that step if val_at_end
\* asks for it and the time was not up first.  Dynamic sampling ends epochs
\* before LastStep expects it, and is left out.
FinalCheckpoint ==
    (pc = "done" /\ cf.save > 0 /\ ~cf.sampling) =>
        /\ ckpt.total = total /\ ckpt.log = log
        /\ (cf.vals /\ why = "finished") => ckpt.val = total

\* The validation metrics in a checkpoint are those of its own step.
MetricsCurrent ==
    (ckpt # NoCkpt /\ cf.kind # "distillation") => ckpt.val \in {None, ckpt.total}

\* What training has done survives crashes and resumes exactly: the data, the
\* final checkpoint and the metrics in it.
LineageSound == TypeOK /\ DataExact /\ FinalCheckpoint /\ MetricsCurrent

\* The run ends: dynamic sampling that keeps nothing, an epoch that was over
\* when it was resumed, a crash before the first checkpoint do not hold it.
RunEnds == <>(pc = "done" \/ (pc = "dead" /\ crashes = MaxCrashes))
=============================================================================
