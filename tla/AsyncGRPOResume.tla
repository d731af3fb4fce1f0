--------------------------- MODULE AsyncGRPOResume ---------------------------
(***************************************************************************)
(* Asynchronous GRPO with crashes.  The process (trainer, collector and      *)
(* replay buffer) dies at any point and is started again from the latest     *)
(* finalized checkpoint, as setup and async_grpo_train do: the step, the     *)
(* dataloader position and the replay buffer come from the checkpoint,       *)
(* everything else starts over.  The history of trained groups is rolled     *)
(* back to the checkpoint with the policy weights, so it is the lineage of   *)
(* the weights, not of the process.                                          *)
(***************************************************************************)
EXTENDS AsyncGRPO

CONSTANT MaxCrashes     \* bound on the number of crashes

ASSUME CrashAssumption == MaxCrashes \in Nat

VARIABLE crashes

rvars == <<vars, crashes>>

RInit == Init /\ crashes = 0

\* Mutant: the trainer takes the checkpoint's step for the last one it trained.
ResumeOneLate == disk.step + 1

\* start_step, as given to the collector, and the step the trainer resumes at.
CollectorStart == disk.step
ResumeStep == disk.step

\* The crash and the restart that follows.  The new collector gets only
\* start_step: its targets count from the resumed step, and its checkpointable
\* cursor is None (here 0) until it has enqueued a batch.  A saved buffer that
\* the safe unpickler refuses is given up: the run resumes with an empty one.
Resume ==
    /\ tpc # "done" /\ crashes < MaxCrashes
    /\ crashes' = crashes + 1
    /\ tpc' = "init_sync" /\ timedOut' = FALSE
    /\ step' = ResumeStep /\ wv' = ResumeStep
    /\ trained' = disk.trained
    /\ mailbox' = <<SetVersion(ResumeStep)>>
    /\ cpc' = "idle" /\ cwv' = CollectorStart
    /\ nextTarget' = CollectorStart /\ groupsForTarget' = 0
    /\ paused' = FALSE /\ refitRequested' = FALSE
    /\ failures' = 0
    /\ genVersion' = 0 /\ genWeights' = Unsynced /\ g' = 0
    /\ pos' = disk.cursor /\ cursor' = 0
    /\ \E buffer \in {disk.buffer, NotPersisted} : store' = Restored(buffer, {})
    /\ snapshot' = NotPersisted
    /\ engine' = Unsynced
    /\ tmpCursor' = 0
    /\ UNCHANGED <<nextId, disk>>

\* The loop condition is false at once when a finished run is resumed.
LoopOver ==
    /\ tpc = "loop" /\ step >= MaxSteps
    /\ Goto("done")
    /\ UNCHANGED <<mailbox, collectorVars, storeVars, engine, diskVars, crashes>>

RNext == Resume \/ LoopOver \/ (Next /\ UNCHANGED crashes)

RSpec == RInit /\ [][RNext]_rvars

-------------------------------------------------------------------------------
\* Every step of the lineage is trained once and in order, whatever was lost in
\* a crash: the trained history is as long as the step says, and the checkpoint
\* holds the history up to its own step.
LineageExact ==
    /\ Len(trained) - step \in {0, 1}
    /\ Len(disk.trained) = disk.step
    /\ \A i \in 1 .. Len(trained) :
           \A e \in trained[i] : e.target = i - 1

\* What a first resume takes over can be trained on: no restored group is
\* stale for the resumed step, or meant for a step already trained.
RestoredUsable ==
    tpc = "init_sync" /\ crashes <= 1 => NeverStale /\ NothingLeftBehind

\* A resumed collector fills targets that the restored buffer already covers, but
\* no more than once per resume: a step never has more than one surplus batch of
\* groups for every crash.
SurplusBounded ==
    \A t \in {e.target : e \in store} :
        Cardinality({e \in store : e.target = t}) <= (crashes + 1) * P

\* The cursor and the buffer are saved at different moments, so a prompt may be in
\* both; it is trained on again at most once per resume.
RepeatsBounded ==
    \A e \in TrainedGroups :
        Cardinality({f \in TrainedGroups : f.traj.prompt = e.traj.prompt}) <= crashes + 1
===============================================================================
