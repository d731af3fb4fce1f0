------------------------------- MODULE AsyncGRPO -------------------------------
(***************************************************************************)
(* Asynchronous GRPO training: the trainer loop (async_grpo_train in        *)
(* algorithms/grpo.py), the trajectory collector (algorithms/async_utils/   *)
(* trajectory_collector.py), an async Ray actor that generates in the       *)
(* background, and the replay buffer between them (TrajectoryStore).        *)
(*                                                                         *)
(* One run of the process, from the first step.  The interleaving points    *)
(* of the collector are its awaits: pulling a batch, generating, scoring    *)
(* by the teachers, and every replay_buffer.add.  The trainer's calls to    *)
(* the collector that do not wait for an answer travel through a mailbox    *)
(* delivered in the order of submission; a call it waits for (ray.get) is   *)
(* served after the mailbox has drained.                                    *)
(***************************************************************************)
EXTENDS TrajectoryStore, Sequences

CONSTANTS
    P,              \* num_prompts_per_step
    B,              \* prompts in a dataloader batch
    MaxAge,         \* max_trajectory_age_steps given to async_grpo_train
    CollectorAge,   \* the collector's own _max_trajectory_age_steps
    MaxFailures,    \* max_generation_failures; 0 switches the limit off
    MaxSteps,       \* max_num_steps
    ValPeriod,      \* val_period; 0 switches validation off
    ValAtStart,     \* val_at_start
    ValAtEnd,       \* val_at_end
    SavePeriod,     \* checkpointing.save_period
    Teachers,       \* distillation teachers are configured
    MayTimeout,     \* checkpoint_must_save_by may expire
    Faults          \* which steps may fail

FaultKinds == {"generation", "teacher", "loop", "sync", "train", "validation",
               "save"}

ASSUME GRPOAssumption ==
    /\ P \in Nat \ {0} /\ B \in Nat \ {0}
    /\ MaxAge \in Nat \ {0} /\ CollectorAge \in Nat
    /\ MaxFailures \in Nat
    /\ MaxSteps \in Nat \ {0}
    /\ ValPeriod \in Nat /\ SavePeriod \in Nat \ {0}
    /\ ValAtStart \in BOOLEAN /\ ValAtEnd \in BOOLEAN
    /\ Teachers \in BOOLEAN /\ MayTimeout \in BOOLEAN
    /\ Faults \subseteq FaultKinds

\* optimal_buffer_size, with late_arrival_slack = 2
ASSUME BufferSizeAssumption == MaxSize = P * MaxAge * 2

VARIABLES
    tpc,            \* where the trainer is
    step,           \* step
    wv,             \* the trainer's weight_version
    timedOut,       \* should_save_by_timeout of this step
    trained,        \* history: the groups trained on, one set per step
    mailbox,        \* calls on their way to the collector
    cpc,            \* where start_collection is
    cwv,            \* _weight_version
    nextTarget,     \* _next_target
    groupsForTarget,\* _groups_for_target
    paused,         \* _paused
    refitRequested, \* _refit_requested
    failures,       \* _consecutive_failures
    genVersion,     \* gen_version of the batch in hand
    genWeights,     \* history: the weights that generated the batch in hand
    g,              \* index of the group being enqueued
    nextId,         \* history: id of the next group
    pos,            \* batches the live dataloader has yielded
    cursor,         \* _enqueued_dataloader_state
    engine,         \* the weights in the generation engine
    tmpCursor,      \* train_dataloader.pt of the checkpoint being written
    disk            \* the latest finalized checkpoint

trainerVars == <<tpc, step, wv, timedOut, trained>>
flagVars == <<paused, refitRequested>>
batchVars == <<genVersion, genWeights, g, nextId>>
targetVars == <<nextTarget, groupsForTarget>>
dataVars == <<pos, cursor>>
storeVars == <<store, snapshot>>
diskVars == <<tmpCursor, disk>>
vars == <<trainerVars, mailbox, cpc, cwv, targetVars, flagVars, failures,
          batchVars, dataVars, storeVars, engine, diskVars>>

Unsynced == -1      \* the engine's weights before the first sync

Ended == tpc \in {"done", "failed"}

\* The gen lock is held exactly while a rollout is in flight.
Generating == cpc = "generating"

SetVersion(v) == [call |-> "set_weight_version", version |-> v]
Call(name) == [call |-> name]

\* Setup: the actors exist, collection was started and the first
\* set_weight_version sent; the initial weight sync is under way.
Init ==
    /\ tpc = "init_sync" /\ step = 0 /\ wv = 0 /\ timedOut = FALSE
    /\ trained = <<>>
    /\ mailbox = <<SetVersion(0)>>
    /\ cpc = "idle" /\ cwv = 0
    /\ nextTarget = 0 /\ groupsForTarget = 0
    /\ paused = FALSE /\ refitRequested = FALSE
    /\ failures = 0
    /\ genVersion = 0 /\ genWeights = Unsynced /\ g = 0 /\ nextId = 1
    /\ pos = 0 /\ cursor = 0
    /\ store = {} /\ snapshot = NotPersisted
    /\ engine = Unsynced
    /\ tmpCursor = 0
    /\ disk = [step |-> 0, cursor |-> 0, buffer |-> NotPersisted,
               trained |-> <<>>]

-------------------------------------------------------------------------------
(* The collector.                                                            *)

Alive == ~Ended     \* the finally block kills the actor

\* Mutant: no hold-off.
NeverTooFar == FALSE

TooFarAhead == nextTarget > cwv + CollectorAge

\* Mutant: the iterator is made anew, and the first batch comes again.
PullFirst ==
    /\ Alive /\ cpc = "idle"
    /\ ~paused /\ ~refitRequested /\ ~TooFarAhead
    /\ cpc' = "pulled"
    /\ pos' = 1
    /\ UNCHANGED <<trainerVars, mailbox, cwv, targetVars, flagVars, failures,
                   batchVars, cursor, storeVars, engine, diskVars>>

\* Not held off: pull the next prompt batch in the executor.
Pull ==
    /\ Alive /\ cpc = "idle"
    /\ ~paused /\ ~refitRequested /\ ~TooFarAhead
    /\ cpc' = "pulled"
    /\ pos' = pos + 1
    /\ UNCHANGED <<trainerVars, mailbox, cwv, targetVars, flagVars, failures,
                   batchVars, cursor, storeVars, engine, diskVars>>

\* Under the gen lock, a pause or a refit asked for since: the batch is let go.
LetGo ==
    /\ Alive /\ cpc = "pulled"
    /\ paused \/ refitRequested
    /\ cpc' = "idle"
    /\ UNCHANGED <<trainerVars, mailbox, cwv, targetVars, flagVars, failures,
                   batchVars, dataVars, storeVars, engine, diskVars>>

StartGenerate ==
    /\ Alive /\ cpc = "pulled"
    /\ ~paused /\ ~refitRequested
    /\ cpc' = "generating"
    /\ genVersion' = cwv
    /\ genWeights' = engine
    /\ g' = 0
    /\ UNCHANGED <<trainerVars, mailbox, cwv, targetVars, flagVars, failures,
                   nextId, dataVars, storeVars, engine, diskVars>>

Generated ==
    /\ Alive /\ cpc = "generating"
    /\ cpc' = IF Teachers THEN "scoring" ELSE "adding"
    /\ UNCHANGED <<trainerVars, mailbox, cwv, targetVars, flagVars, failures,
                   batchVars, dataVars, storeVars, engine, diskVars>>

\* _score_teacher_logprobs, outside the gen lock.
Scored ==
    /\ Alive /\ cpc = "scoring"
    /\ cpc' = "adding"
    /\ UNCHANGED <<trainerVars, mailbox, cwv, targetVars, flagVars, failures,
                   batchVars, dataVars, storeVars, engine, diskVars>>

Unhealthy(n) == MaxFailures > 0 /\ n >= MaxFailures

\* _record_failure; the loop halts itself at the limit, else goes on with the
\* next batch.
Fail(kind, at) ==
    /\ Alive /\ cpc = at /\ kind \in Faults
    /\ failures' = failures + 1
    /\ cpc' = IF Unhealthy(failures') THEN "halted" ELSE "idle"
    /\ UNCHANGED <<trainerVars, mailbox, cwv, targetVars, flagVars,
                   batchVars, dataVars, storeVars, engine, diskVars>>

GenerationFails == Fail("generation", "generating")
ScoringFails == Fail("teacher", "scoring")

\* An exception outside the two try blocks (pulling a batch, enqueueing) ends
\* the start_collection task; nothing is recorded.
LoopDies ==
    /\ Alive /\ cpc \in {"idle", "adding"} /\ "loop" \in Faults
    /\ cpc' = "died"
    /\ UNCHANGED <<trainerVars, mailbox, cwv, targetVars, flagVars, failures,
                   batchVars, dataVars, storeVars, engine, diskVars>>

\* One replay_buffer.add, retried while the buffer answers "full".
EnqueueGroup ==
    /\ Alive /\ cpc = "adding"
    /\ Add([id |-> nextId, prompt |-> <<pos, g>>, weights |-> genWeights],
           genVersion, nextTarget)
    /\ cpc' = "added"
    /\ nextId' = nextId + 1
    /\ UNCHANGED <<trainerVars, mailbox, cwv, targetVars, flagVars, failures,
                   genVersion, genWeights, g, dataVars, engine, diskVars>>

\* Mutants: a target takes one group too many; the counter is not reset; the
\* last group is left out of the carry.
TargetOverfilled == groupsForTarget + 1 > P
GroupsNotReset == groupsForTarget + 1
GroupsCarried == IF groupsForTarget + 1 >= P THEN groupsForTarget - P
                                             ELSE groupsForTarget + 1

TargetFilled == groupsForTarget + 1 >= P
TargetAfter == IF TargetFilled THEN nextTarget + 1 ELSE nextTarget
GroupsAfter == IF TargetFilled THEN 0 ELSE groupsForTarget + 1

\* The break of _enqueue_groups.
StopEmitting == refitRequested \/ TargetAfter > cwv + CollectorAge

\* The group is counted for its target; the rest of the batch follows, or the
\* batch is over: the streak is cleared and the cursor moves up to it.
CountGroup ==
    /\ Alive /\ cpc = "added"
    /\ nextTarget' = TargetAfter
    /\ groupsForTarget' = GroupsAfter
    /\ IF StopEmitting \/ g + 1 >= B
       THEN /\ cpc' = "idle"
            /\ failures' = 0
            /\ cursor' = pos
            /\ UNCHANGED g
       ELSE /\ cpc' = "adding"
            /\ g' = g + 1
            /\ UNCHANGED <<failures, cursor>>
    /\ UNCHANGED <<trainerVars, mailbox, cwv, flagVars, genVersion, genWeights,
                   nextId, pos, storeVars, engine, diskVars>>

\* A control call reaches the collector between two of its awaits.
Deliver ==
    /\ Alive /\ mailbox # <<>>
    /\ LET m == Head(mailbox)
       IN  /\ cwv' = IF m.call = "set_weight_version" THEN m.version ELSE cwv
           /\ paused' = IF m.call = "pause" THEN TRUE
                        ELSE IF m.call = "resume" THEN FALSE ELSE paused
           /\ refitRequested' = IF m.call = "resume_after_refit" THEN FALSE
                                ELSE refitRequested
    /\ mailbox' = Tail(mailbox)
    /\ UNCHANGED <<trainerVars, cpc, targetVars, failures, batchVars, dataVars,
                   storeVars, engine, diskVars>>

CollectorStep ==
    \/ Pull \/ LetGo \/ StartGenerate \/ Generated \/ Scored
    \/ GenerationFails \/ ScoringFails
    \/ EnqueueGroup \/ CountGroup

-------------------------------------------------------------------------------
(* The trainer.                                                              *)

collectorVars == <<cpc, cwv, targetVars, flagVars, failures, batchVars, dataVars>>

Served == mailbox = <<>>    \* a ray.get answers after what was sent before it

Goto(pc) ==
    /\ tpc' = pc
    /\ UNCHANGED <<step, wv, timedOut, trained>>

\* The first sync runs while collection is already under way.
InitialSync ==
    /\ tpc = "init_sync"
    /\ engine' = wv
    /\ IF ValAtStart /\ step = 0
       THEN Goto("init_validating") /\ mailbox' = Append(mailbox, Call("pause"))
       ELSE Goto("fill") /\ UNCHANGED mailbox
    /\ UNCHANGED <<collectorVars, storeVars, diskVars>>

EndInitialValidation ==
    /\ tpc = "init_validating"
    /\ mailbox' = Append(mailbox, Call("resume"))
    /\ Goto("fill")
    /\ UNCHANGED <<collectorVars, storeVars, engine, diskVars>>

\* The wait for the first num_prompts_per_step groups.
BufferReady ==
    /\ tpc = "fill"
    /\ Cardinality(store) >= P
    /\ Goto("loop")
    /\ UNCHANGED <<mailbox, collectorVars, storeVars, engine, diskVars>>

\* Too few groups: before it looks again, the trainer asks for the health.
BufferShort ==
    /\ tpc = "fill"
    /\ Cardinality(store) < P
    /\ Goto("fill_check")
    /\ UNCHANGED <<mailbox, collectorVars, storeVars, engine, diskVars>>

\* _raise_if_collector_unhealthy, in the wait and at the top of every step.
HealthCheckFails ==
    /\ tpc = "fill_check" \/ (tpc = "loop" /\ step < MaxSteps)
    /\ Served /\ Unhealthy(failures)
    /\ Goto("failed")
    /\ UNCHANGED <<mailbox, collectorVars, storeVars, engine, diskVars>>

HealthCheckPasses ==
    /\ tpc = "fill_check" \/ (tpc = "loop" /\ step < MaxSteps)
    /\ Served /\ ~Unhealthy(failures)
    /\ Goto(IF tpc = "loop" THEN "sample" ELSE "fill")
    /\ UNCHANGED <<mailbox, collectorVars, storeVars, engine, diskVars>>

\* A full step's groups were sampled.
SampleStep ==
    /\ tpc = "sample"
    /\ \E sel \in SUBSET store :
           /\ Sample(P, wv, MaxAge, sel)
           /\ trained' = Append(trained, sel)
    /\ tpc' = "train"
    /\ UNCHANGED <<step, wv, timedOut, mailbox, collectorVars, engine, diskVars>>

SampleNone ==
    /\ tpc = "sample"
    /\ SampleStalls(P, wv, MaxAge)
    /\ Goto("loop")
    /\ UNCHANGED <<mailbox, collectorVars, engine, diskVars>>

\* The ValueError of sample() is caught around the loop: the run ends.
SampleError ==
    /\ tpc = "sample"
    /\ SampleRaises(wv, MaxAge)
    /\ Goto("failed")
    /\ UNCHANGED <<mailbox, collectorVars, storeVars, engine, diskVars>>

TrainStep ==
    /\ tpc = "train"
    /\ Goto("refit")
    /\ UNCHANGED <<mailbox, collectorVars, storeVars, engine, diskVars>>

\* policy.train, sync_weights, validate or a part of the save raises: the run
\* ends (a failure of the initial validation is caught where it happens).
StepFails ==
    /\ \/ tpc = "train" /\ "train" \in Faults
       \/ tpc \in {"init_sync", "syncing"} /\ "sync" \in Faults
       \/ tpc = "validating" /\ "validation" \in Faults
       \/ tpc \in {"save_buffer", "finalize"} /\ "save" \in Faults
    /\ Goto("failed")
    /\ UNCHANGED <<mailbox, collectorVars, storeVars, engine, diskVars>>

\* prepare_for_refit sets the flag, then waits for the gen lock.
PrepareForRefit ==
    /\ tpc = "refit" /\ Served
    /\ refitRequested' = TRUE
    /\ Goto("quiescing")
    /\ UNCHANGED <<mailbox, cpc, cwv, targetVars, paused, failures, batchVars,
                   dataVars, storeVars, engine, diskVars>>

\* Mutants: the lock is not waited for; the loop is waited for, not the lock.
QuiescedAtOnce ==
    /\ tpc = "quiescing"
    /\ Goto("syncing")
    /\ UNCHANGED <<mailbox, collectorVars, storeVars, engine, diskVars>>

QuiescedWhenIdle == cpc = "idle" /\ QuiescedAtOnce

Quiesced ==
    /\ tpc = "quiescing"
    /\ ~Generating
    /\ Goto("syncing")
    /\ UNCHANGED <<mailbox, collectorVars, storeVars, engine, diskVars>>

\* Mutants: generation goes on before the collector knows the new version; it
\* is never told to go on.
RefitCallsSwapped == <<Call("resume_after_refit"), SetVersion(wv + 1)>>
RefitCallsLost == <<SetVersion(wv + 1)>>

RefitCalls == <<SetVersion(wv + 1), Call("resume_after_refit")>>

SyncWeights ==
    /\ tpc = "syncing"
    /\ engine' = wv + 1
    /\ wv' = wv + 1
    /\ mailbox' = mailbox \o RefitCalls
    /\ tpc' = "synced"
    /\ UNCHANGED <<step, timedOut, trained, collectorVars, storeVars, diskVars>>

ValidationDue ==
    \/ ValPeriod > 0 /\ (step + 1) % ValPeriod = 0
    \/ ValAtEnd /\ step + 1 = MaxSteps

\* pause.remote() does not wait for the rollout in flight.
BeginValidation ==
    /\ tpc = "synced" /\ ValidationDue
    /\ mailbox' = Append(mailbox, Call("pause"))
    /\ Goto("validating")
    /\ UNCHANGED <<collectorVars, storeVars, engine, diskVars>>

EndValidation ==
    /\ tpc = "validating"
    /\ mailbox' = Append(mailbox, Call("resume"))
    /\ Goto("checkpoint")
    /\ UNCHANGED <<collectorVars, storeVars, engine, diskVars>>

NoValidation ==
    /\ tpc = "synced" /\ ~ValidationDue
    /\ Goto("checkpoint")
    /\ UNCHANGED <<mailbox, collectorVars, storeVars, engine, diskVars>>

SaveDue == step + 1 = MaxSteps \/ (step + 1) % SavePeriod = 0

\* The save starts (by step or by timeout): the policy is written, then the
\* collector is asked for its dataloader position.
SaveDataloader ==
    /\ tpc = "checkpoint" /\ Served
    /\ timedOut' \in (IF MayTimeout THEN BOOLEAN ELSE {FALSE})
    /\ SaveDue \/ timedOut'
    /\ tmpCursor' = cursor
    /\ tpc' = "save_buffer"
    /\ UNCHANGED <<step, wv, trained, mailbox, collectorVars, storeVars,
                   engine, disk>>

\* Collection goes on between the two; then the buffer is asked for its state.
SaveBuffer ==
    /\ tpc = "save_buffer"
    /\ StateDict
    /\ Goto("finalize")
    /\ UNCHANGED <<mailbox, collectorVars, engine, diskVars>>

Finalize ==
    /\ tpc = "finalize"
    /\ disk' = [step |-> step + 1, cursor |-> tmpCursor, buffer |-> snapshot,
                trained |-> trained]
    /\ Goto("advance")
    /\ UNCHANGED <<mailbox, collectorVars, storeVars, engine, tmpCursor>>

NoSave ==
    /\ tpc = "checkpoint" /\ ~SaveDue
    /\ Goto("advance")
    /\ UNCHANGED <<mailbox, collectorVars, storeVars, engine, diskVars>>

Advance ==
    /\ tpc = "advance"
    /\ step' = step + 1
    /\ tpc' = IF timedOut \/ step + 1 >= MaxSteps THEN "done" ELSE "loop"
    /\ UNCHANGED <<wv, timedOut, trained, mailbox, collectorVars, storeVars,
                   engine, diskVars>>

TrainerStep ==
    \/ InitialSync \/ EndInitialValidation \/ BufferReady \/ BufferShort
    \/ HealthCheckFails \/ HealthCheckPasses
    \/ SampleStep \/ SampleNone \/ SampleError
    \/ TrainStep \/ StepFails
    \/ PrepareForRefit \/ Quiesced \/ SyncWeights
    \/ BeginValidation \/ EndValidation \/ NoValidation
    \/ SaveDataloader \/ SaveBuffer \/ Finalize \/ NoSave
    \/ Advance

Terminated == Ended /\ UNCHANGED vars

Next == CollectorStep \/ LoopDies \/ Deliver \/ TrainerStep \/ Terminated

Spec == Init /\ [][Next]_vars

\* Rollouts and scoring return (with a result or an error), Ray delivers calls,
\* and the trainer thread keeps running.
Fairness ==
    /\ WF_vars(CollectorStep)
    /\ WF_vars(Deliver)
    /\ WF_vars(TrainerStep)

FairSpec == Spec /\ Fairness

-------------------------------------------------------------------------------
(* Properties.                                                               *)

TrainerStates ==
    {"init_sync", "init_validating", "fill", "fill_check", "loop",
     "sample", "train", "refit", "quiescing", "syncing", "synced",
     "validating", "checkpoint", "save_buffer", "finalize", "advance", "done", "failed"}

CollectorStates ==
    {"idle", "pulled", "generating", "scoring", "adding", "added", "halted",
     "died"}

Messages ==
    [call : {"set_weight_version"}, version : Nat]
        \cup [call : {"resume_after_refit", "pause", "resume"}]

Trajectories == [id : Nat, prompt : Nat \X Nat, weights : Nat \cup {Unsynced}]
Entries == [traj : Trajectories, version : Nat, target : Nat]
BufferStates == [persisted : BOOLEAN, entries : SUBSET Entries]
Checkpoints == [step : Nat, cursor : Nat, buffer : BufferStates,
                trained : Seq(SUBSET Entries)]

TypeOK ==
    /\ tpc \in TrainerStates
    /\ step \in Nat /\ wv \in Nat /\ timedOut \in BOOLEAN
    /\ trained \in Seq(SUBSET Entries)
    /\ mailbox \in Seq(Messages)
    /\ cpc \in CollectorStates
    /\ cwv \in Nat /\ nextTarget \in Nat /\ groupsForTarget \in Nat
    /\ paused \in BOOLEAN /\ refitRequested \in BOOLEAN
    /\ failures \in Nat
    /\ genVersion \in Nat /\ genWeights \in Nat \cup {Unsynced}
    /\ g \in Nat /\ nextId \in Nat
    /\ pos \in Nat /\ cursor \in Nat
    /\ store \in SUBSET Entries /\ snapshot \in BufferStates
    /\ engine \in Nat \cup {Unsynced}
    /\ tmpCursor \in Nat /\ disk \in Checkpoints

\* The guarantee of prepare_for_refit: in the training loop, weights are never
\* pushed into the engine while a rollout is in flight on it.
RefitQuiesced == tpc = "syncing" => ~Generating

TrainedGroups == UNION {trained[i] : i \in 1 .. Len(trained)}

\* Whatever the order of set_weight_version, resume_after_refit and the
\* collector's own steps, a group's version label is the version of the weights
\* in the engine when it was generated, unless that was before the first sync.
LabelledWeights ==
    \A e \in store \cup TrainedGroups :
        e.traj.weights \in {e.version, Unsynced}

\* The target bookkeeping of the collector agrees with what the trainer takes:
\* once a step's groups have been sampled, no group meant for that step, or for
\* an earlier one, is in the buffer.
NothingLeftBehind ==
    \A e \in store : e.target >= Len(trained)

\* The collector's counters once the group it has just added is counted.
EffectiveTarget == IF cpc = "added" THEN TargetAfter ELSE nextTarget
EffectiveGroups == IF cpc = "added" THEN GroupsAfter ELSE groupsForTarget

CountOf(t) == Cardinality({e \in store : e.target = t})

\* Every step gets exactly num_prompts_per_step groups, however batches are cut
\* short by refits and spread over targets: a step that the collector has left
\* behind and the trainer has not reached has all its groups in the buffer, the
\* step being filled has as many as the collector counted, later ones none.
TargetQuota ==
    /\ \A e \in store : e.target <= EffectiveTarget
    /\ \A t \in Len(trained) .. EffectiveTarget - 1 : CountOf(t) = P
    /\ CountOf(EffectiveTarget) = EffectiveGroups

\* A batch that is still being scored or enqueued while the weights move on can
\* reach one target further than the hold-off allows, never two.
AgeBound ==
    \A e \in store : e.target <= e.version + CollectorAge + 1

\* sample() never finds a trajectory older than its window, which would end the
\* run: what is buffered can still be trained on at the current version.
NeverStale == ~SampleRaises(wv, MaxAge)

\* late_arrival_slack is enough: the collector never finds the buffer full, so
\* the trainer and the collector cannot wait for each other.
NeverFull == cpc = "adding" => ~Full

\* The trainer is never stuck in prepare_for_refit: whatever the collector's
\* loop does, failing, halting or dying included, it gives the gen lock back.
RefitProceeds == tpc = "quiescing" ~> tpc # "quiescing"

\* Every run comes to its end: a collector that has given up makes the trainer
\* give up, and one that still produces lets it finish.  Only the unrecorded
\* death of the collection task is excepted.
RunEnds == <>(Ended \/ cpc = "died")

\* Without failures all steps are trained.
TrainingCompletes == <>(tpc = "done" /\ (timedOut \/ Len(trained) = MaxSteps))
===============================================================================
