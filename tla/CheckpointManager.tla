-------------------------- MODULE CheckpointManager --------------------------
(***************************************************************************)
(* The checkpoint directory (utils/checkpoint.py) under crashes.  A save is  *)
(* written file by file into tmp_step_N and renamed to step_N; an existing   *)
(* step_N is moved aside to old_step_N first; then the checkpoints outside   *)
(* the top keep_top_k are deleted.  A rename is atomic; rmtree is not: it    *)
(* deletes one file after the other, in an order the code does not control,  *)
(* then the directory.  The process may die between any two of these and is  *)
(* started again.  A save may be for any step, as the manager allows; the    *)
(* trainers resume from the latest checkpoint and save later steps only.     *)
(***************************************************************************)
EXTENDS Integers, FiniteSets, Sequences, FiniteSetsExt

CONSTANTS
    Steps,          \* bound: the steps a run can save at
    Metrics,        \* the values of the metric
    KeepTopK,       \* keep_top_k
    RankByMetric,   \* metric_name is not None
    HigherIsBetter, \* higher_is_better
    MaxSaves,       \* bound on the number of saves begun
    MaxCrashes      \* bound on the number of crashes

ASSUME CheckpointAssumption ==
    /\ Steps \subseteq Nat \ {0} /\ IsFiniteSet(Steps)
    /\ Metrics \subseteq Nat
    /\ KeepTopK \in Nat \ {0}
    /\ RankByMetric \in BOOLEAN /\ HigherIsBetter \in BOOLEAN
    /\ MaxSaves \in Nat /\ MaxCrashes \in Nat

VARIABLES
    dirs,       \* existing directory -> its contents, a set of <<file, save>>
    saves,      \* history: save -> what it saves (metric, files)
    pc,         \* where the process is in a save
    target,     \* the step being saved
    layout,     \* the files this run's saves consist of
    toRemove,   \* the checkpoints remove_old_checkpoints still has to delete
    finalized,  \* history: the saves that reached step_N
    crashes

vars == <<dirs, saves, pc, target, layout, toRemove, finalized, crashes>>

NoMetric == -1              \* the metric is missing from training_info.json
Tmp(s) == <<"tmp_step", s>>
Step(s) == <<"step", s>>
Old(s) == <<"old_step", s>>

Always == {"training_info", "policy"}
Layouts == {Always, Always \cup {"replay_buffer"}}

Init ==
    /\ dirs = <<>> /\ saves = <<>>
    /\ pc = "training" /\ target = 0
    /\ layout \in Layouts
    /\ toRemove = <<>> /\ finalized = {} /\ crashes = 0

-------------------------------------------------------------------------------
Exists(n) == n \in DOMAIN dirs
With(n, c) == [x \in DOMAIN dirs \cup {n} |-> IF x = n THEN c ELSE dirs[x]]
Without(n) == [x \in DOMAIN dirs \ {n} |-> dirs[x]]

\* os.rename(n, m), for an m that does not exist or is an empty directory.
Renamed(n, m) ==
    [x \in (DOMAIN dirs \ {n}) \cup {m} |-> IF x = m THEN dirs[n] ELSE dirs[x]]

StepDirs == {s \in Steps : Exists(Step(s))}
Latest == IF StepDirs = {} THEN 0 ELSE Max(StepDirs)   \* 0: no checkpoint

ThisSave == Len(saves)

\* One step of shutil.rmtree(n): a file, or the directory once it is empty.
RmTree(n) ==
    IF dirs[n] = {} THEN dirs' = Without(n)
                    ELSE \E x \in dirs[n] : dirs' = With(n, dirs[n] \ {x})

\* The file is created, or overwritten if the directory has one of its name.
Written(n, file) == {x \in dirs[n] : x[1] # file} \cup {<<file, ThisSave>>}

\* The metrics of the save are known; a stale tmp_step_N is deleted first.
BeginSave(s, metric) ==
    /\ pc = "training" /\ ThisSave < MaxSaves
    /\ saves' = Append(saves, [step |-> s, metric |-> metric,
                                files |-> layout])
    /\ target' = s
    /\ pc' = "clearing_tmp"
    /\ UNCHANGED <<dirs, layout, toRemove, finalized, crashes>>

ClearTmp ==
    /\ pc = "clearing_tmp" /\ Exists(Tmp(target))
    /\ RmTree(Tmp(target))
    /\ UNCHANGED <<saves, pc, target, layout, toRemove, finalized, crashes>>

\* Mutant: mkdir(exist_ok=True) on what an interrupted save left.
MakeTmpReused ==
    /\ pc = "clearing_tmp"
    /\ dirs' = IF Exists(Tmp(target))
               THEN With(Tmp(target), Written(Tmp(target), "training_info"))
               ELSE With(Tmp(target), {<<"training_info", ThisSave>>})
    /\ pc' = "writing"
    /\ UNCHANGED <<saves, target, layout, toRemove, finalized, crashes>>

\* mkdir, and training_info.json with the metric.
MakeTmp ==
    /\ pc = "clearing_tmp" /\ ~Exists(Tmp(target))
    /\ dirs' = With(Tmp(target), {<<"training_info", ThisSave>>})
    /\ pc' = "writing"
    /\ UNCHANGED <<saves, target, layout, toRemove, finalized, crashes>>

\* The trainer writes the rest of the files.
WriteFile ==
    /\ pc = "writing"
    /\ \E f \in layout :
           /\ <<f, ThisSave>> \notin dirs[Tmp(target)]
           /\ dirs' = With(Tmp(target), Written(Tmp(target), f))
    /\ UNCHANGED <<saves, pc, target, layout, toRemove, finalized, crashes>>

WritingDone ==
    \A f \in layout : <<f, ThisSave>> \in dirs[Tmp(target)]

\* finalize_checkpoint when there is no step_N.
Promote ==
    /\ pc = "writing" /\ WritingDone
    /\ ~Exists(Step(target))
    /\ dirs' = Renamed(Tmp(target), Step(target))
    /\ finalized' = finalized \cup {ThisSave}
    /\ pc' = "retention"
    /\ UNCHANGED <<saves, target, layout, toRemove, crashes>>

\* os.rename fails on a directory that is not empty.
OldInTheWay == Exists(Old(target)) /\ dirs[Old(target)] # {}

MoveAside ==
    /\ pc = "writing" /\ WritingDone
    /\ Exists(Step(target)) /\ ~OldInTheWay
    /\ dirs' = Renamed(Step(target), Old(target))
    /\ pc' = "moved_aside"
    /\ UNCHANGED <<saves, target, layout, toRemove, finalized, crashes>>

MoveAsideFails ==
    /\ pc = "writing" /\ WritingDone
    /\ Exists(Step(target)) /\ OldInTheWay
    /\ pc' = "raised"
    /\ UNCHANGED <<dirs, saves, target, layout, toRemove, finalized, crashes>>

Replace ==
    /\ pc = "moved_aside"
    /\ dirs' = Renamed(Tmp(target), Step(target))
    /\ finalized' = finalized \cup {ThisSave}
    /\ pc' = "deleting_old"
    /\ UNCHANGED <<saves, target, layout, toRemove, crashes>>

DeleteOld ==
    /\ pc = "deleting_old"
    /\ IF Exists(Old(target))
       THEN RmTree(Old(target)) /\ UNCHANGED pc
       ELSE pc' = "retention" /\ UNCHANGED dirs
    /\ UNCHANGED <<saves, target, layout, toRemove, finalized, crashes>>

-------------------------------------------------------------------------------
\* _load_checkpoint_history: the checkpoints that have a training_info.json.
History == {s \in StepDirs : \E x \in dirs[Step(s)] : x[1] = "training_info"}

MetricOf(s) ==
    LET info == CHOOSE x \in dirs[Step(s)] : x[1] = "training_info"
    IN  saves[info[2]].metric

\* Mutant: ties are broken in favour of the older checkpoint and a missing
\* metric is not sorted last.
BetterByValue(s, t) ==
    \/ (IF HigherIsBetter THEN MetricOf(s) > MetricOf(t)
                          ELSE MetricOf(s) < MetricOf(t))
    \/ MetricOf(s) = MetricOf(t) /\ s < t

\* _sort_checkpoints_best_first: s comes before t.
Better(s, t) ==
    IF ~RankByMetric \/ MetricOf(s) = MetricOf(t) THEN s > t
    ELSE \/ MetricOf(t) = NoMetric
         \/ /\ MetricOf(s) # NoMetric
            /\ IF HigherIsBetter THEN MetricOf(s) > MetricOf(t)
                                 ELSE MetricOf(s) < MetricOf(t)

\* The checkpoints of S, sorted.
BestFirst(S) ==
    CHOOSE q \in [1 .. Cardinality(S) -> S] :
        \A i, j \in 1 .. Cardinality(S) : i < j => Better(q[i], q[j])

OutsideTopK ==
    {t \in History : Cardinality({s \in History : Better(s, t)}) >= KeepTopK}

\* Mutant: exclude_latest is ignored.
VictimsWithLatest == OutsideTopK

Victims == OutsideTopK \ {Max(History)}

RemoveOldCheckpoints ==
    /\ pc = "retention"
    /\ toRemove' = BestFirst(Victims)
    /\ pc' = "removing"
    /\ UNCHANGED <<dirs, saves, target, layout, finalized, crashes>>

\* Mutant: they are deleted side by side, so that a crash interrupts more than one.
RemoveOneParallel ==
    /\ pc = "removing" /\ toRemove # <<>>
    /\ \/ \E i \in DOMAIN toRemove :
            Exists(Step(toRemove[i])) /\ RmTree(Step(toRemove[i])) /\ UNCHANGED toRemove
       \/ ~Exists(Step(Head(toRemove))) /\ toRemove' = Tail(toRemove) /\ UNCHANGED dirs
    /\ UNCHANGED <<saves, pc, target, layout, finalized, crashes>>

\* The checkpoints outside the top k are deleted one after the other.
RemoveOne ==
    /\ pc = "removing" /\ toRemove # <<>>
    /\ LET n == Step(Head(toRemove))
       IN  IF Exists(n)
           THEN RmTree(n) /\ UNCHANGED toRemove
           ELSE toRemove' = Tail(toRemove) /\ UNCHANGED dirs
    /\ UNCHANGED <<saves, pc, target, layout, finalized, crashes>>

SaveDone ==
    /\ pc = "removing" /\ toRemove = <<>>
    /\ pc' = "training"
    /\ UNCHANGED <<dirs, saves, target, layout, toRemove, finalized, crashes>>

\* The process dies and a new one, with its own configuration, resumes.
CrashAndResume ==
    /\ crashes < MaxCrashes
    /\ crashes' = crashes + 1
    /\ pc' = "training" /\ target' = 0 /\ toRemove' = <<>>
    /\ layout' \in Layouts
    /\ UNCHANGED <<dirs, saves, finalized>>

Next ==
    \/ \E s \in Steps, m \in Metrics \cup {NoMetric} : BeginSave(s, m)
    \/ ClearTmp \/ MakeTmp \/ WriteFile
    \/ Promote \/ MoveAside \/ MoveAsideFails \/ Replace \/ DeleteOld
    \/ RemoveOldCheckpoints \/ RemoveOne \/ SaveDone
    \/ CrashAndResume

Spec == Init /\ [][Next]_vars

-------------------------------------------------------------------------------
(* Properties.                                                               *)

\* A directory holds exactly the files of one save that was finalized.
Complete(c) ==
    \E i \in finalized : c = {<<f, i>> : f \in saves[i].files}

\* The trainers' use: a run resumes from the latest checkpoint, so a step whose
\* save was interrupted is saved again, one that was finalized is not.
NoOverwrite ==
    \A i \in finalized : \A j \in i + 1 .. ThisSave :
        saves[j].step # saves[i].step

\* Whatever a crash interrupted (a save, a deletion by retention), while no
\* checkpoint is overwritten the directory that get_latest_checkpoint_path names is a
\* complete checkpoint, with no file of another save in it.
LatestComplete ==
    NoOverwrite /\ Latest # 0 => Complete(dirs[Step(Latest)])

\* Only moving a checkpoint aside to overwrite it ever takes the latest one
\* away: retention, a crash or its restart never sends a run back behind a
\* checkpoint that it could have resumed from.
LatestAdvances == [][Latest' < Latest => pc' = "moved_aside"]_vars

\* get_best_checkpoint_path()
GetBest ==
    LET valid == {s \in History : MetricOf(s) # NoMetric}
    IN  IF ~RankByMetric \/ valid = {} THEN Latest
        ELSE CHOOSE s \in valid : \A t \in valid \ {s} : Better(s, t)

NoWorse(a, b) == IF HigherIsBetter THEN a >= b ELSE a <= b

\* Retention and selection agree, through crashes in the middle of a deletion:
\* while no checkpoint is overwritten, get_best_checkpoint_path names a complete
\* checkpoint that is at least as good as every checkpoint ever finalized.
BestKept ==
    LET measured == {i \in finalized : saves[i].metric # NoMetric}
    IN  NoOverwrite /\ measured # {} =>
            /\ Complete(dirs[Step(GetBest)])
            /\ \A i \in measured : NoWorse(MetricOf(GetBest), saves[i].metric)

\* Overwriting a checkpoint never leaves the directory without one: a complete
\* copy is under its own name or moved aside.
SomeCopySurvives ==
    finalized # {} =>
        \E s \in Steps : \E n \in {Step(s), Old(s)} :
            Exists(n) /\ Complete(dirs[n])

\* At every point where a crash can come there is a checkpoint to go back to,
\* and the one a restart picks is whole.
Recoverable == LatestComplete /\ SomeCopySurvives

\* Retention bounds the disk: of the checkpoints it ranks a save leaves only the
\* top k and the latest; besides them there is, for every crash, at most the one
\* directory whose deletion it interrupted: that one has lost its
\* training_info.json and is never seen by retention again.
RetentionBounded ==
    pc = "training" =>
        /\ target # 0 => Cardinality(History) <= KeepTopK + 1
        /\ Cardinality(StepDirs \ History) <= crashes
===============================================================================
