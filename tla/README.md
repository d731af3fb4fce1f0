# Verification of dockyard_rl

TLA+ models of the protocols of dockyard_rl, the TLC runs that check them on
small instances, and TLAPS proofs of the central invariants for every value of
the constants. dockyard_rl trains language models by reinforcement learning on
Ray. The models follow the work from the command that brings a cluster up, over
the sandboxes that episodes run in, the rollout loops, the trainers and the
dispatch of a batch to the workers, to the checkpoints a run is resumed from.

## The system's parts

| Part | State | Operations | Talks to |
|---|---|---|---|
| Async GRPO trainer (`algorithms/grpo.py`, `async_grpo_train`) | `step`, `weight_version`, the save state | initial sync, validation, buffer wait, sample, train, refit, checkpoint, end | collector (control calls, some awaited), buffer (sample, save, restore), checkpoint manager, weight synchronizer |
| Trajectory collector (`algorithms/async_utils/trajectory_collector.py`) | version, next target and its group count, pause and refit flags, gen lock, failure streak, checkpointable cursor | the collection loop, control calls, health report | generation engine, teachers, buffer, dataloader |
| Replay buffer (`algorithms/async_utils/replay_buffer.py`) | three parallel lists and a watermark, under one lock | add, sample, clear, state_dict, load_state_dict | collector, trainer |
| Checkpoint manager (`utils/checkpoint.py`) | the checkpoint directory | init_tmp, finalize, retention, latest, best | every trainer |
| Synchronous trainers (`algorithms/{sft,dpo,rm,distillation}.py`, `grpo_train`) | epoch, step, loader position, batch cache, save state | prepare, generate, score, train, validate, save | policy, engine, weight synchronizer, checkpoint manager |
| Weight synchronizers (`weight_sync/`) | staleness flag, transport group | init, sync, mark stale | trainer, policy, engine |
| Rollout allocation (`algorithms/rollout_allocation.py`, `dynamic_sampling`) | the cache of gated rows | group ids, gate, apportion, select | synchronous GRPO |
| Policy dispatch (`models/policy/lm_policy.py`, its workers, `data_plane/`, `data/packing/`) | the shards, the packs, the columns in the plane | shard, pack, run in lockstep, gather, write back | trainers, worker groups |
| Rollouts and environments (`experience/`, `environments/`) | turn counts, message logs, sessions, leased hosts | turns, truncation, grading, release | engine, sandbox, desktops |
| Sandbox executor (`ubuntu-base/scripts/tools/task_executor.py`, client in `sandbox/`) | sessions, tasks, image references and their use | start, exec, finish, delete, submit, reap, evict | environments, docker |
| Kubernetes launcher (`infra/dockyard_k8s/`) | cluster, job and sandbox objects, runs on the head pod, handles | up, down, run (three modes), stop, status | Kubernetes, KubeRay |
| Clusters (`distributed/`, `cluster/`) | placement groups, worker groups | allocate, retry, shut down | everything |
| Losses, models, datasets, tool protocol, rewards | | tensor code, pure functions | |

The hard behaviours. The collector is an async actor, so control calls take
effect between any two of its awaits, and most calls to it are sent without
waiting; the weights change under batches that are still being scored. Engine,
policy, optimizer and teacher take turns on one GPU by calls in a fixed order.
Every micro-batch is a collective that all ranks must reach, over rows that have
been sorted, sharded and packed. The executor serves every request in a thread
of its own and runs docker between its critical sections; its clients may lose
answers, time out and vanish. Users share a namespace, and a command may stop
between any two of its calls. Everything may crash and is resumed from a
checkpoint that was written file by file.

What makes each part correct: a refit never overlaps a rollout; labels name the
weights that generated; each step gets exactly its groups; the age window is
never overrun; the buffer is never where both sides wait; every run ends; a
lineage trains each batch once; the latest checkpoint is complete and the best
is kept; generation is by the current weights; a row comes back as its own; no
rank waits for a collective that does not come; image references are exact; a
session is used by its owner, graded alone, and goes in the end; a command that
succeeds has done what it is for, and leaves alone what is another's.

## Modules

| Module | Models |
|---|---|
| `TrajectoryStore` | What the buffer promises: a set of entries (trajectory group, version, target). |
| `ReplayBuffer` | The buffer as written, three lists, one action per method; implements `TrajectoryStore` (`ImplementsStore`). |
| `AsyncGRPO` | One run of trainer, collector and buffer (composes `TrajectoryStore`). |
| `AsyncGRPOResume` | `AsyncGRPO` with crashes and resumes from the latest checkpoint. |
| `CheckpointManager` | The checkpoint directory under crashes. |
| `WeightSync` | Staleness, the weights an engine serves, its cache, and who is on the GPU. |
| `Trainers` | The loops of SFT, DPO, reward model, distillation and synchronous GRPO with crashes and resumes (extends `WeightSync`). |
| `RolloutAllocation` | Dynamic sampling with graded rollout allocation. |
| `Packing` | The packing algorithms and the sharding of a batch, as operators. |
| `PolicyDispatch` | One call after another on the workers, with and without the data plane (extends `Packing`). |
| `SessionService` | What the executor promises about sessions. |
| `SandboxExecutor` | The executor as written; implements `SessionService` (`ImplementsService`). |
| `RolloutLoop` | The turn loops. |
| `SessionRollout` | The session environment and its client, between `RolloutLoop` and `SessionService`. |
| `DesktopRollout` | The computer-use environment and its host pool, on `RolloutLoop`. |
| `Rollouts` | A rollout of either kind (composes the four before it). |
| `Launcher` | Commands of several users against one namespace. |
| `AsyncGRPO_proofs` (also of `AsyncGRPOResume`), `CheckpointManager_proofs`, `ReplayBuffer_proofs`, `Trainers_proofs`, `RolloutAllocation_proofs`, `SandboxExecutor_proofs`, `Rollouts_proofs`, `Launcher_proofs` | Theorems about the module of that name (section "Proofs"). |

`SessionService` is the seam between the two halves of the sandbox: the executor
is checked to implement it, and the rollouts are checked against it, so what the
environments rely on is what the executor does.

Definitions introduced by a comment beginning with "Mutant" are not part of the
specification. Each is a plausible mistake in the definition that follows it;
with the mistake in place TLC finds the property it is paired with in
`PROJECT.json` violated.

Several properties are conjunctions, checked and refuted as one but stated part
by part next to the definitions:

| Property | Parts |
|---|---|
| `ReplayBuffer!BufferSound` | `TypeOK`, `ListsAligned`, `WatermarkCovers`, `ArrivalOrder` |
| `CheckpointManager!Recoverable` | `LatestComplete`, `SomeCopySurvives` |
| `SandboxExecutor!ImagesExact`, `NothingLost` | `ReferencesExact`, `OwnedImagePresent`; `TypeOK`, `NoOrphanContainer`, `ResultWritten` |
| `Rollouts!SessionsSound`, `NothingLingers` | `TypeOK`, `HarnessAlone`, `RewardEarned`, `NotCutOff`; `RolloutEnds`, `SessionsGo` |
| `Trainers!EngineSound`, `LineageSound` | `KVFresh`, `FitsDevice`, `OnDevice`; `TypeOK`, `DataExact`, `FinalCheckpoint`, `MetricsCurrent` |
| `PolicyDispatch!RowsExact`, `CallsReturn` | `TypeOK`, `RowsOwn`, `PlaneOwn`, `BatchesExact`; `FailsExactly`, `NeverHangs` |
| `Launcher!CommandsDeliver`, `RunsSound` | `TypeOK`, `UpDelivers`, `DownClean`; `ReplaceAlone`, `OwnPid`, `StatusHonest` |
| `RolloutAllocation!SharesSound` | `TypeOK`, `BudgetExact`, `FloorMet`, `MoreForMore` |

### Correspondence with the code

**`AsyncGRPO`**: `tpc` is the trainer's place in `async_grpo_train`, `cpc` the
collector's place in `start_collection`. Every await of the collector ends an
action: `Pull` (executor call of `_next_batch`), `StartGenerate` and `Generated`
(the rollout, under the gen lock, which is held exactly while
`cpc = "generating"`), `Scored` (teachers, outside the lock), `EnqueueGroup` (one
`replay_buffer.add`) and `CountGroup` (the bookkeeping after it, the break, and
at the end of the batch `_record_success` and the cursor). `mailbox` holds the
calls sent with `.remote()` and not awaited; `Deliver` runs one. Ray starts the
calls of one caller in the order of submission, so an awaited call (`Served`) is
answered after the mailbox has drained. `prepare_for_refit` is two actions,
because it sets its flag and then waits for the lock.

The dataloader is a position (`pos`, batches yielded; `cursor`, the
checkpointable one, 0 for `None`); the prompt of a group is the batch and the
index in it, and epochs are unfolded into one sequence. `engine` is the version
of the weights in the generation engine, `Unsynced` before the first sync;
`genWeights` and `trained` are history. The two ages are separate constants
because the code reads two keys: `async_grpo_train` is given
`grpo.async_grpo.max_trajectory_age_steps`, the collector reads
`grpo.max_trajectory_age_steps`, default 1; the shipped configurations set the
first to 2 and leave the second out.

`Faults` says which steps may raise: `generation` and `teacher` are the two
handled by the loop, `loop` an exception outside its two try blocks, `sync`,
`train`, `validation` and `save` those of the trainer. A failed initial
validation is caught in place and is the same step as one that succeeds. When
`async_grpo_train` returns or raises, its actors go with their handles; the
model stops the collector then.

**`AsyncGRPOResume`**: `Resume` is the crash of the whole process and the start of
the next one up to the first `set_weight_version`. The policy's history is
rolled back with the checkpoint, so `trained` is the lineage of the weights. A saved
buffer that `torch.load` refuses is left out, with a warning, as in the code.

**`CheckpointManager`**: a directory is a set of files, each tagged with the save
that wrote it; `rmtree` deletes one file at a time in any order; renames are
atomic and fail on a target directory that is not empty. `layout` is what a
run's saves consist of; it may change from one process to the next, as when the
replay buffer is no longer written. A save may be for any step, so that the
overwrite branch of `finalize_checkpoint` is reached; the properties about the
trainers' use, which save a step again only when its first save was interrupted,
are stated under `NoOverwrite`.

**`WeightSync`, `Trainers`**: the five loops have one skeleton, `pc` is the place in it,
and `cf` is what of the configuration the loop branches on; `Configs` are the
combinations that setup accepts, on either side of `force_on_policy_ratio` and of the
skipped reference logprobs (`logprobs`: whose the step computes on the policy), with the
engine on the policy's GPUs or not; a colocated vLLM gets its weights over IPC and is
never put to sleep by the loop. `cpu_offload` is not modelled: with it the weights and
the optimizer stay on the CPU and the hooks move buffers only. `log` is the sequence of
the batches behind the policy's weights, so `Version` is their number, and `engine` the
version last transferred. `mem` says where model, optimizer, teacher and the two parts
of an SGLang engine are; `OffloadBefore`, `PrepareForTraining`, `PrepareForLp`, `Wake`,
`Sleep` are the hooks that move them, called where the loops call them. `SyncStage` and
`SyncTransfer` are the two halves of `sync_weights`; a flush that fails changes nothing,
as the code only reports it. A checkpoint is one record here, since `CheckpointManager`
shows that a complete one survives; what the trainers are asked is whether the fields in
it belong together. `Crash` may happen at any place, `Restart` is the next process from
`ckpt`.

**`RolloutAllocation`**: `Generate` is a generation batch with its group ids and the
gate of `dynamic_sampling`, which looks at rows, not groups; the rest is
`allocate_rollout_budget`: `Allocate` (weights), `SetFloors`, `Apportion` (one
turn of the loop of `_apportion`), `Select`. Rewards are integers and a row's std
is over two of them, so that it is exact: no comparison of the code depends on
the unit.

**`Packing`, `PolicyDispatch`**: a row is a number, a tensor of results is a tuple of
the rows it was computed from. `Send` shards a batch, `Start` fetches (with the
data plane, leader first) and packs, `Count` is the all-reduce of the number of
packs, `Forward` one micro-batch, which no worker leaves before all have entered
it, `Finish` the output of a worker and its write-back, and the driver's gather
puts the rows back by `inv`. On the plane the calls of a training step come in the
order of the trainer: `FirstWrite`, `Logprobs`, `ReferenceLogprobs`, `Advantages`,
`Train`, `FinishStep`. The lengths of the batch, the algorithm, the shuffle, the sizes of
the global and micro-batches and `mapping` (below, "Disagreements") are chosen at the
start.

**`SandboxExecutor`**: an action is one critical section or one docker command.
`boot[s]` is the bootstrap thread of a session (`unwind` and `unwound` are its clean-up
inside the `try`, `undo` and `release` that of the `except`), `call[s]` the commands and
the finish being served, any number at a time, `tear[s]` the one `_teardown_session`
that popped the record, `work[t]` the thread of a task, `stale` and `reaping` the reaper
between its look at the records and its turn for each. `leaked` counts references whose
thread was ended by a `TimeoutExpired` that no handler on the way releases, `early` the
images of sessions reaped while starting. The order in which `_evict_lru_locked` removes
images is the code's; images have one size.

**`RolloutLoop`, `SessionRollout`, `DesktopRollout`**: `kind` chooses the loop; in the
sync one the batch generates and steps together. An environment takes a sample from
phase `step` to `observe`. A request may not arrive or its answer be lost: every
client action has an alternative that takes the except branch of `_process_one`, with
the request executed or not. `running` are sessions with a command that the executor
has not answered, whose client may have given up; `overran` those with a command that
was answered as timed out and may still run in the container.
In `DesktopRollout` the backend's pools are bags, because one host may be in two.

**`Launcher`**: a command is the list of API calls still to be made (`prog`), one per
action, and `Abort` cuts it short anywhere. The jobs that `_stop_running_jobs` stops and
waits for one by one are told to stop together, and a `stop_job` that fails or a wait
that is given up is a choice. `calm` is history: nobody else changed anything since the
command began; the properties about one command are stated for calm ones, and so about
every way the commands before it were cut short. `OwnerRespected` is about each call.

## Runs

Passing. Deadlock is checked in the runs of `AsyncGRPO`; the others stop by a
bound or at the end of the program, so their deadlock check is off, and that the
system does not stop too early is what their liveness properties or invariants say
(`RunEnds`, `NothingLingers`, `AllocationEnds`, `SessionsReclaimed`, `NeverHangs`).

| Run | Instance | Shows |
|---|---|---|
| `replay_buffer` | capacity 3, 4 adds, versions 0..1 | Lists aligned, watermark, arrival order, refinement of `TrajectoryStore`. Four adds into three places with samples of two groups reach every order of pops. |
| `async_grpo` | P = B = 2, ages 2 and 1, 3 steps, initial and final validation, saves, teachers | All safety invariants, and `TrainingCompletes` under fairness. Three steps are the fewest in which a batch can span two refits. |
| `faults` | P = 1, B = 2, collector age 2, trainer age 1, 3 steps, every fault, a deadline, validation in mid-run | `RefitProceeds`; `RunEnds`, by the error of `sample()` on the schedules that overrun the window, and always but after an unseen death of the collection task. |
| `resume` | P = 1, B = 2, 3 steps, a save each, 1 crash, a dying collector, the saved buffer loaded or refused | Each step of the lineage once and in order (`LineageExact`), what is restored can be trained on (`RestoredUsable`), and how much a resume generates (`SurplusBounded`) or trains (`RepeatsBounded`) a second time. |
| `checkpoints` | 3 steps, 3 saves, 2 crashes, keep 1, lower is better | The latest is complete, some complete copy survives, the best is kept, retention keeps one and the latest of what it ranks, a crash leaks at most one directory, the latest only advances. What retention ranks and what it no longer sees are bounded each by itself, so that both bounds lie below the three checkpoints a run can write. Keep 1 and three checkpoints make retention delete, rank a missing metric and spare the latest. |
| `sandbox` | 2 sessions, 1 task, 2 jobs in all, 1 command; 2 images of which one is built, room for 1; pull, run and rm may time out; a finish beside a command | References and containers are exact, whoever removes a session; the executor is a `SessionService`; every session is reclaimed. Two jobs on two images with room for one are the fewest that make eviction choose between a used and an unused one. |
| `rollouts` | 2 samples, 2 sessions, 1 host, 2 rollout turns, `max_turns` 2 or 3 | Grading, turns and sessions; the pool with one host fewer than episodes. `max_turns` of 2 and 3 against 2 rollout turns are both sides of the configuration's "keep above". |
| `trainers` | 3 batches, 2 epochs, at most 4 steps, save period 0, 2 or 3, validation every 3, 1 generation batch allowed, a deadline, 1 crash, 1 failed flush; all kinds, backends, placements and schedules | On-policy generation, the device, the lineage, the end of the run. Save period 3 is at the end of an epoch, 2 is not; 4 steps end in the second epoch, before its end. |
| `policy_dispatch` | 6 rows of length 1 or 2 over 2 x 2 workers, packs of 3 tokens, global batch 2 or 6, micro-batch 1 or 2, scoring batch 2 or 4, four algorithms, every shuffle, a write-back that takes the result or refuses it | Rows come back as their own, on the driver and in the plane, but for those past the last whole micro-batch; calls return, or fail where they must. Micro-batches of 2 leave a remainder in three rows; three rows per rank in packs of one or two give the ranks different numbers of packs, hence dummies. |
| `launcher` | 2 users, one of whom runs batch jobs, 2 specs, 3 commands of which 2 overlap, 2 runs | Commands deliver, runs are alone and their handles their own, owners are respected. Three commands are two that race after one that was cut short. |
| `allocation` | 2 prompts a step, 2 generation batches, rewards 0..2, diversity 0 or 1, floors 0..2, both baselines | Rows and floors exact, more weight never fewer rows, groups of different batches apart, the allocation ends. |

Refuted:

| Run | Claim | What happens |
|---|---|---|
| `topk` | the rows of dummy micro-batches "must not reach the output" (`dtensor_policy_worker.py`:1531-1534), and rows are in the order of the batch | `get_topk_logits` returns packed rows in pack order, dummies included |

Bounds: `MaxSteps`, `MaxFailures`, `Length`, `MaxEpochs`, `MaxGenBatches`,
`MaxRolloutTurns`, `Budgets` and `Cap` are the code's own; `pos` and `nextId` are
bounded by the hold-off and the number of steps. `MaxCrashes`, `MaxFlushFails`,
`MaxSaves`, `MaxAdds`, `MaxVersion`, `MaxJobs`, `MaxExecs`, `MaxCommands`,
`MaxOverlap`, `MaxRuns`, `Groups`, `Steps` and the sets of model values bound only
the model.

Four constants are set so that a property holds, each for a configuration
or use in which it does not; setting them otherwise shows the counterexample:

* `CollectorAge = MaxAge` in `AsyncGRPO`: `NeverStale` fails (next section).
* `KeepsOptimizer = TRUE` in `Trainers`: a distillation student that shares its
  GPUs with the teacher but does not set `offload_optimizer_for_logprob` has its
  optimizer moved away by setup and never moved back, so `OnDevice` fails.
* `BareReference = FALSE` in `Trainers`: with `loss_fn.force_on_policy_ratio` the loop
  skips `prepare_for_lp_inference` (`grpo.py`:2008-2017) and, unless reference logprobs
  are skipped too, still computes them on the policy (2044-2051). Setup accepts
  that (484-494). A policy that shares its GPUs with an engine has been offloaded
  for the rollout and is used as it is, so `OnDevice` fails. The asynchronous trainer
  does the same (3108-3129), but asserts an engine on GPUs of its own.
* `ReuseIds = TRUE` in `Launcher`: a run id used again finds the pid and exit code
  of the earlier run, and `StatusHonest` fails.

Fairness:

* `AsyncGRPO`: weak fairness of the collector's loop (an awaited rollout, teacher or
  add returns, with a result or an exception), of the delivery of calls (Ray
  delivers to a live actor) and of the trainer thread. `LoopDies` is not fair. A
  rollout that never returns is outside the model: the code has no timeout there.
* `Trainers`, `RolloutAllocation`: one thread that nothing suspends; a crashed run is
  started again. `Crash` is not fair.
* `SandboxExecutor`: one weak fairness condition on the threads of the executor, the
  passing of time for an idle session and the reaper's loop together: as long as one
  of them can go on, one does, which is less than a scheduler fair to each thread
  gives. No request is fair: no client has to delete a session.
* `Rollouts`: the loop, the thread or coroutine of each sample, the executor's
  bootstraps and commands, and the reaper on a session that nothing uses.
  A blocked `acquire` needs no fairness: it is disabled, and `PoolExhausted` says when.

No strong fairness is used.

## Disagreements between the code and its words

What the models met while they were checked against the code. The models follow the
code; where a property is weaker than the words, it is because of one of these. The
first is shown by the run `topk`; the others can be reproduced by stating the quoted
sentence as an invariant.

Asynchronous GRPO and its checkpoints:

* "Generation never runs more than `max_trajectory_age_steps` ahead"
  (`trajectory_collector.py`:30-33). A batch is scored and enqueued outside the gen
  lock; when the weights advance meanwhile, `_enqueue_groups` compares with the new
  version, so a group can be one target further ahead. `AgeBound` is the bound
  that holds; with equal ages `sample()` raises and the run ends.
* "Every prompt in this batch is in the replay buffer" (`trajectory_collector.py`:448).
  A refit request cuts a batch short, and a failed or abandoned one is never enqueued;
  the cursor moves past the rest, which is not trained on in that epoch.
* `weight_version` is the "version of model weights used to generate the trajectory"
  (`replay_buffer.py`:7). Collection starts before the initial sync
  (`grpo.py`:2807 and 2833), so the first groups may come from unsynced weights.
  `LabelledWeights` excepts those.
* "Abort the run if the async collector has stopped producing trajectories"
  (`grpo.py`:1285). An exception outside the two try blocks of `start_collection`
  ends the task without `_record_failure`, nothing awaits the task, and the trainer
  samples `None` for ever. `RunEnds` excepts it.
* The buffer is restored first so that "the collector does not regenerate target
  versions the buffer already covers" (`grpo.py`:2760-2762). The collector starts at
  `start_step` without reading the buffer. `SurplusBounded` bounds what is left over.
* Everything at or before the cursor "is in the buffer and will be restored, so
  re-yielding it would train on it twice; everything after it is unaccounted for"
  (`trajectory_collector.py`:288-290). Groups of the batch in progress are in the saved
  buffer and their prompts after the saved cursor. And the cursor of a resumed
  collector is `None` until it has enqueued a batch; a checkpoint before that records
  no position. `RepeatsBounded` bounds what is trained twice.
* `remove_old_checkpoints` "removes all checkpoints except the top-k best ones"
  (`checkpoint.py`:258-259). A crash inside `rmtree` may leave a directory without
  `training_info.json` that no later retention sees. `RetentionBounded` bounds what is
  ranked (the top k and the latest) and what is not seen (one directory for each crash)
  separately. A leftover `old_step_N` makes the next overwrite of `step_N` fail
  (`MoveAsideFails`); no trainer overwrites a finalized step.

Trainers and dispatch:

* `val_at_end` "ensures the final checkpoint has validation metrics" (`sft.py`:68-69,
  `dpo.py`:65-66, `rm.py`:64-65), but a save that the deadline forces is not
  validated. `FinalCheckpoint` asks for metrics only of a run
  that finished.
* `train` on a batch sharded with packing arguments: `select` drops `_packing_args`
  (`distributed/batched_data_dict.py`:304-315), so packing the global batch raises
  (`batched_data_dict.py`:813-818);
  `score` shards without them and raises too. `FailsExactly` names both.
* "`result` is checked via the `Mapping` ABC because `BatchedDataDict` is a `UserDict`"
  (`worker_mixin.py`:394-395). It is a plain class over `Generic`
  (`batched_data_dict.py`:172) and registered with no ABC, so `_write_back_result_field`
  raises on every rank (405-411): on the data plane the first logprobs of a step always
  fail. With `mapping` false the model does just that, and `FailsExactly` says that it is
  so and on every worker; with `mapping` true it has the class that the docstring
  describes. What the model says of the plane after the first logprobs is about that
  class only.
* Without the driver's balanced packing "the first cross-DP collective deadlocks"
  (`preshard.py`:5-9), and "locally re-packing produces variable bin counts across DP
  groups and desyncs per-microbatch collectives" (`worker_mixin.py`:320-324; likewise
  `preshard.py`:134-138). Since the ranks agree on the number of micro-batches by an
  all-reduce and fill up with dummies, ranks whose shards were packed apart, into
  different numbers of packs, do not wait for each other for ever (`NeverHangs`).
* Every row of a batch is computed "spanning the full batch in order", the last
  micro-batch with the remainder (`batched_data_dict.py`:348-368). The loops count `size
  // mbs` micro-batches (`dtensor_policy_worker.py`:809, 1174, 1458) and take what comes
  after for dummies (1018, 1372, 1535): rows of the remainder are computed and dropped,
  in `train` with a loss of 0; on the plane the write-back then raises over the missing
  rows. `RowsOwn`, `BatchesExact` and `FailsExactly` except, and name, exactly these.
* `distillation_train` passes `run_multi_turn_rollout` the keywords `policy`, `data`,
  `master_config`, `timer` (`distillation.py`:722-742; see `rollouts.py`:561), and
  `get_topk_logits` `num_topk_logits` (the parameter is `k`, `lm_policy.py`:534-540):
  either is a `TypeError`. `Trainers` has the calls answered.
* `_apportion` is called a largest-remainder apportionment
  (`rollout_allocation.py`:201). Single rows go to the heaviest groups, not to the
  largest remainders: 3 rows for weights 2:1:1 become 3, 0, 0, where the largest
  remainders give 1, 1, 1. `MoreForMore` is what holds.
* "retain only prompts with non-zero std" (`grpo.py`:886): the gate looks at rows.
  With the leave-one-out baseline the one row that differs has peers that agree, std 0,
  and is dropped alone; with two generations every row is.

Sandbox, rollouts and launcher:

* The image of a session is "released exactly once" (`task_executor.py`:558-559), and a
  "double-decrement is harmless" (669-673). The reaper may remove a session that is
  still starting; it and the bootstrap then both release, and when another session
  uses the image the second release takes that one's reference, after which eviction
  may remove the image. `ReferencesExact` excepts images of such sessions (`early`).
  The reaper's list is also not looked at again before a removal (869-879), so a
  session used meanwhile is removed.
* "Tests are never present during the agent turns" (`task_executor.py`:558-559). A command
  that runs into its timeout is answered as `timed_out` (719-725) when `_run` has killed
  the docker client on the host (90-125); the command itself goes on in the container.
  The environment takes the answer for a turn like any other and, on the last turn or
  a completion, finishes the session (`multi_turn_session_env.py`:248-260): the verifier is
  copied in and runs beside the command. `HarnessAlone` excepts commands that were
  answered so (`overran`), and no others.
* "so two episodes never drive the same container at once"
  (`provisioner.py`:62-64). The pool is built on first use without a lock
  (`control_center.py`:105-108) while the actor runs several threads: two pools of the
  same hosts may be built. `HostsSound` counts one use for each pool.
* "keep `grpo.max_rollout_turns` above the per-task max_turns"
  (`multi_turn_session_env.py`): equality is enough (`NotCutOff`).
* `ensure_cluster` "Never silently patches a live cluster" (`orchestrate.py`:250-254). It
  reads the cluster once; a cluster created between the read and the apply is patched,
  whoever owns it. `cluster down` does not look at the owner at all, and a
  teardown deletes the device claims another bring-up has just made. The launcher's
  properties are about commands that nobody interfered with. A RayJob is not
  among what `cluster down` deletes, and `DownClean` does not ask for it.
* `--replace`: "Stop any running job before submitting" (`cli.py`:200), "stop any running
  job on the cluster so the new one can claim GPUs" (`orchestrate.py`:381-384). With the
  Ray transport exec runs are not looked for, and the dashboard's list holds only
  drivers with a submission id (`orchestrate.py`:558), which theirs are not. With the exec
  transport a scan that fails, even half way, is a warning (`exec_.py`:279-281) and the
  launch goes on. A wait that runs out is a warning too. `ReplaceAlone` excepts runs of
  the other transport in the first case, and what the command did not find (`escaped`) or
  did not see end (`slow`) in the others.
* The exit code is written "so `status()` can tell succeeded from killed-mid-run", and a
  launcher without `set -e` is to see to it (`exec_.py`:326-337). The entrypoint runs
  verbatim in the same shell (345), under `set -u`: where it sets `-e`, exits or meets an
  unset variable the shell ends before the writer, and the failed run is reported as
  "stopped". The shipped example begins with `set -eu` (`examples/grpo_swe.infra.yaml`:63).
  `StatusHonest` therefore lets "stopped" stand for any end.

Exposed by the code and not covered by a property: `dp_packing` makes a pack of an
oversize sequence where the other algorithms raise; `use_reference_model` swaps the
weights back without a `finally` (1787-1825); a failed wake-up or sleep of an SGLang
server is only logged; a run that crashes before its handle is saved, or whose
pid file comes after the wait, is on the cluster without a handle.

## Proofs

Every theorem is about the specification that the runs check, for every value of
the constants that satisfies the module's `ASSUME`; where a theorem needs more, it
says so under `ASSUME` and this section says why. The inductive invariants were
checked by TLC on the runs' instances before they were proved.

**`AsyncGRPO_proofs`** (`GRPOAssumption`, `BufferSizeAssumption`; all faults):

* `TypeCorrect`: `TypeOK` is inductive.
* `RefitIsQuiesced`: `RefitQuiesced` is not inductive: a refit request must be
  pending and the mailbox empty from `PrepareForRefit` to `SyncWeights`, else a
  late `resume_after_refit` of the last refit could let a rollout start. The
  strengthening is `Handshake`.
* `LabelsAreHonest`: `MailInOrder` says that the collector learns of versions in
  order, each before the `resume_after_refit` that follows it; `VersionKnown`
  that whenever it may start generating it knows the engine's version;
  `HonestGroups` carries the label from the start of a batch into the buffer and
  the trained steps.
* `QuotaIsExact`, `NoGroupLeftBehind`: `Quota` relates the collector's counters,
  the group just added and not yet counted, and what the trainer has taken. It
  needs that ids are fresh (each add makes the set larger by one) and that
  `wv` is the number of steps sampled when the trainer samples. The cardinality
  steps use `FiniteSetTheorems`.
* `AgeIsBounded` (assuming `B <= P`), `SampleNeverStale` (assuming also
  `CollectorAge < MaxAge`): `BatchInWindow` says how far the batch in hand can
  reach: at most one target beyond the window it was pulled in, because a batch
  of at most P prompts completes at most one target after the weights moved on.
  With equal ages `NeverStale` fails, so the second assumption is needed.
* `BufferNeverFull` (assuming `B <= P`, `CollectorAge + 2 <= 2 * MaxAge`): the entries
  are of at most `CollectorAge + 2` targets with P groups each, and
  `optimal_buffer_size` has room for `2 * MaxAge`. `BatchKnown` dates the batch in hand.

**`AsyncGRPO_proofs`, of `AsyncGRPOResume`** (the same assumptions; any number of crashes).
`Base` is what the invariants above say of each process, and of the checkpoint it would
restart from:

* `LineageIsExact`, `RefitIsQuiescedAfterCrash`, `LabelsAreHonestAfterCrash`:
  `StepsInLine` (step, version and history move together, in the process and on the
  disk) and `SavedLabels` (what is in a snapshot or a checkpoint is labelled like what
  is in the buffer).
* `SurplusIsBounded`, `RepeatsAreBounded`: what one process adds to a target, or for a
  prompt, on top of what its predecessors left; a crash adds at most one such
  amount (`Surplus`, `Repeats`).
* `AgeIsBoundedAfterCrash` (assuming `B <= P`), `RestoredIsUsable` (assuming also
  `CollectorAge < MaxAge`): `Window` carries the age of groups through snapshots,
  `CarriedOver` says that a checkpoint holds no group of a step it has trained.

**`CheckpointManager_proofs`** (any number of steps, saves and crashes): `Sound` says
which save each directory's files are from, `Removal` that what retention has still to
delete lies behind the latest. On them rest `LatestNeverRetreats`, `AlwaysRecoverable`
(`CopyWhole`: a complete copy is the last of all, moved aside or not), `BestIsKept`
(`BestSafe`: the best is not on retention's list) and `DiskIsBounded` (`Retained`: what
retention ranks and will not delete is the top k and the latest, and `Forgotten`
directories, which it no longer sees, are at most one for every crash). `BestIsKept`
assumes `RankByMetric`: without a metric the manager keeps the latest, and there is no
best.

**`ReplayBuffer_proofs`** (every capacity, sample size and bound): `BufferIsSound`, and
`ImplementsTheStore`, the refinement of `TrajectoryStore` step by step. The work is in
the loop of pops: popping n ascending positions, from the last to the first, out of
three lists leaves in each the other entries in their order, the same ones in all
three.

**`Trainers_proofs`** (`TrainersAssumption`):

* `GenerationIsOnPolicy`: `OnPolicy` speaks of the steps that generate only. `Synced`
  adds what holds between them: weights that are not marked stale are the policy's,
  they are marked before they change, and only a trainer with an engine syncs.
* `EngineIsSound`: `Turns` says where model, optimizer, teacher and engine are at
  each point of the loops (`Places`, `EngineTurns`, `TeacherTurns`, `PolicyTurns`),
  one part for each tenant of the device; `CacheTurns` that a cache holds entries of
  the engine's weights only, or that a flush has failed. Three assumptions are needed: no
  student runs without its optimizer (`KeepsOptimizer`) and no reference logprobs are
  computed on a policy left offloaded (`BareReference`, see the constants above for
  both), and at most one flush fails: after two, a vLLM engine that recomputes its cache can
  still hold entries of older weights.
* `LineageIsSound`: `Lineage` places every batch of the history and of the dynamic
  sampling cache before the dataloader's position, in order (`History`, `Caching`), says
  that a checkpoint is a state between two steps (`Stored`), and which validation the
  save state holds at each point of the loop (`Closing`).

**`RolloutAllocation_proofs`** (`AllocationAssumption`): `SharesAreSound` and
`GroupsStayApart`, from `Allocating`: the cached rows and their ids (`Batched`, `Apart`),
the groups as a partition of the cache (`Grouped`), and quotas and remainder, which
together are the budget (`Shared`, `Handed`). `MoreForMore` is preserved by a turn
because a group with headroom has not been given less before and its share is no
smaller. That the floors which do not fit hand out exactly the budget (`Squeeze`), that
single rows are no more than what remains (`FewSingles`), and that the first rows
of disjoint groups are as many as the quotas say (`FirstsCount`) are lemmas about
numbered lines of finite sets. `Total` sums over a set as the cardinality of a set of
pairs, so that facts about sums are facts about finite sets.

**`SandboxExecutor_proofs`** (any number of sessions, tasks and images, docker timeouts
anywhere): `WellFormed` (what each session and task may be at each place of its
threads, `Shape`), `NothingIsLost`, `ServesSessions` (the refinement of
`SessionService`, step by step) and `ImagesAreExact`: a step of a session or task changes
the reference count of its image by as much as what it owes the image (`Moves`).

**`Rollouts_proofs`** (any number of samples, sessions, hosts and turns; the values for
"no session" and "no host" are none of them): `EpisodesAreSound` from `Episodes` (the
turns of loop and environment agree, a sample in its environment knows a session of its
own, and what it was given was earned; a command that may run beside the verifier was
answered as timed out) and `HostsAreSound` from `Hosting` (a host is free or leased once
for every pool that was built).

**`Launcher_proofs`** (`LauncherAssumption`; any users, specs, optional parts and number of
commands, every command open to an interrupt before every call). The properties
look at a command that has ended; what makes them true is spread over all its calls.
`Sound` says of every command, at every point:

* `Formed`: the calls it has still to make are some of its kind's, in the order of
  their `Place`s, and those that need each other come in pairs (`Paired`: what
  `--recreate` deletes is waited for and created again, what is listed or told
  to stop is waited for). That `Program` and `ensure_cluster` yield such sequences is a
  group of lemmas about sequences that are strictly ordered by place, so that a step
  of a command has only to say which call left the front.
* `UpSound`, `DownSound`, `OwnerSound`, `AloneSound`: what it can count on as long as
  nobody else has changed anything (`calm`): a part is there or still to be applied,
  the cluster is the one asked for or still to be created, what is there is still to be
  deleted, the cluster it has read is nobody else's, a live run of a transport that
  has been listed is one it waits for. A step of somebody else that writes
  ends these promises (`Muted`, `Overtakes`); KubeRay's and the runs' steps keep them.

`CommandsAlwaysDeliver`, `OwnersRespected` and `ReplacesAlone` follow when no call is left.
`IdsAreSound` and `RunsAreSound` assume `~ReuseIds`, without which they are false
(section "Runs"). `IdsSound` says that ids of runs and of submissions about to
launch are distinct, that a directory's pid and exit code are those of the one run with
its id (`HeadSound`), and what a submission past its launch knows of its run
(`LaunchSound`).

Sums, least elements and repeated pops are needed by induction. Where they are, the
induction is over the set of the numbers, or the subsets, for which the fact
holds, from a least element of the others (`WFMin` of `WellFoundedInduction`).

Model-checked only:

* everything under fairness (`TrainingCompletes`, `RunEnds`, `RefitProceeds`,
  `NothingLingers`, `AllocationEnds`, `SessionsReclaimed`), and `NeverHangs`, which is
  about ENABLED: this prover reaches neither;
* `PolicyDispatch`. `RowsExact` rests on what `Packing` computes: that sorting, first
  fit, the dynamic program and dealing out blocks lose and repeat no index, each a
  recursion or a fold over a batch of any length, and its `FlattenSeq` of the shards is one
  too. These are statements by induction over data. `CallsReturn` contains `NeverHangs`.

## Not modelled

* `AsyncTrajectoryCollector.stop()`: no caller. The path without refit
  (`NEED_REFIT` false) needs a trainer without generation engine, which the
  function asserts away.
* The death of a single Ray actor: the next awaited call to it raises and ends
  the run.
* Loss, advantages, teacher arithmetic, logprob kernels, logging, metrics: floating
  point. They are the larger part of the lines of this repository.
* The ZMQ handshake of the IPC weight transport and the chunks of a transfer; the
  in-place update of vLLM's weights.
* Dynamic batching and context parallelism of the policy workers; the Docker host
  pool; the transfer-queue adapter, a client of an external service.
* `stop`, `shutdown` and resource release of worker groups at the end of a process.
* Components marked `not_modelled` in `PROJECT.json`, with reasons.

## Plan

In this order:

1. `Packing` without folds: its algorithms as relations between a batch and its packs,
   refined by the present ones, so that `RowsExact` can be proved of the relations.
2. Worker groups, virtual cluster and placement: creation with retries, the death of
   a worker during a call.
3. The IPC weight transport: the handshake of its two ends and their buffers.
4. The end of a run: what `finally` shuts down after each failure.
