----------------------------- MODULE ReplayBuffer -----------------------------
(***************************************************************************)
(* The replay buffer of algorithms/async_utils/replay_buffer.py as it is    *)
(* written: three parallel Python lists under one lock, one action per      *)
(* method.  The lock makes every method atomic.  Positions are 1-based.     *)
(***************************************************************************)
EXTENDS Integers, FiniteSets, Sequences, SequencesExt

CONSTANTS MaxSize,      \* max_size
          DataPlane,    \* entries are data-plane references
          MaxVersion,   \* bound on weight versions and targets
          MaxAdds,      \* bound on the number of add() calls that succeed
          Groups        \* bound on num_prompt_groups

ASSUME BufferAssumption == /\ MaxSize \in Nat \ {0}
                           /\ DataPlane \in BOOLEAN
                           /\ MaxVersion \in Nat /\ MaxAdds \in Nat
                           /\ Groups \in Nat \ {0}

VARIABLES trajectories, trajectory_versions, target_weight_versions,
          last_target_weight_already_generated,
          saved,        \* the dict the last state_dict() returned
          nextId,       \* id of the next trajectory object
          returned      \* what the last sample() returned: a sequence, None, or raised

lists == <<trajectories, trajectory_versions, target_weight_versions>>
vars == <<lists, last_target_weight_already_generated, saved, nextId, returned>>

None == "None"
Raised == "ValueError"

UnpersistedState == [persisted |-> FALSE]

Init ==
    /\ trajectories = <<>>
    /\ trajectory_versions = <<>>
    /\ target_weight_versions = <<>>
    /\ last_target_weight_already_generated = -1
    /\ saved = UnpersistedState
    /\ nextId = 1
    /\ returned = None

Larger(a, b) == IF a > b THEN a ELSE b

Watermark(t) == Larger(last_target_weight_already_generated, t)

add(v, t) ==
    /\ Len(trajectories) < MaxSize
    /\ nextId <= MaxAdds
    /\ trajectories' = Append(trajectories, [id |-> nextId])
    /\ trajectory_versions' = Append(trajectory_versions, v)
    /\ target_weight_versions' = Append(target_weight_versions, t)
    /\ last_target_weight_already_generated' = Watermark(t)
    /\ nextId' = nextId + 1
    /\ UNCHANGED <<saved, returned>>

\* The positions of the lists: what enumerate() ranges over.
Indices == 1 .. Len(trajectories)

min_valid_version(current, maxAge) == Larger(0, current - maxAge)

old_trajectories(current, maxAge) ==
    {i \in Indices : trajectory_versions[i] < min_valid_version(current, maxAge)}

valid_indices(current, maxAge) ==
    {i \in Indices : /\ min_valid_version(current, maxAge) <= trajectory_versions[i]
                     /\ trajectory_versions[i] <= current}

intended_indices(current, maxAge) ==
    {i \in valid_indices(current, maxAge) : target_weight_versions[i] = current}

\* intended_indices[:n]: the first n positions of S, in order; S has so many.
FirstOf(S, n) ==
    {f \in [1 .. n -> S] :
        /\ \A j, k \in 1 .. n : j < k => f[j] < f[k]
        /\ \A i \in S \ {f[k] : k \in 1 .. n}, k \in 1 .. n : f[k] < i}

\* Mutant: the positions are popped in ascending order.
PopAscending(list, selected) ==
    LET n == Len(selected)
        pop[k \in 0 .. n] == IF k = 0 THEN list
                             ELSE RemoveAt(pop[k - 1], selected[k])
    IN  pop[n]

\* for idx in sorted(selected, reverse=True): list.pop(idx)
PopAll(list, selected) ==
    LET n == Len(selected)
        pop[k \in 0 .. n] == IF k = 0 THEN list
                             ELSE RemoveAt(pop[k - 1], selected[n + 1 - k])
    IN  pop[n]

\* The early returns of sample() that leave the buffer alone.
sample_none(n, current, maxAge) ==
    /\ old_trajectories(current, maxAge) = {}
    /\ \/ trajectories = <<>>
       \/ Cardinality(valid_indices(current, maxAge)) < n
       \/ Cardinality(intended_indices(current, maxAge)) < n
    /\ returned' = None
    /\ UNCHANGED <<lists, last_target_weight_already_generated, saved, nextId>>

sample_raises(current, maxAge) ==
    /\ old_trajectories(current, maxAge) # {}
    /\ returned' = Raised
    /\ UNCHANGED <<lists, last_target_weight_already_generated, saved, nextId>>

sample_groups(n, current, maxAge) ==
    /\ trajectories # <<>>
    /\ old_trajectories(current, maxAge) = {}
    /\ Cardinality(intended_indices(current, maxAge)) >= n
    /\ \E selected \in FirstOf(intended_indices(current, maxAge), n) :
           /\ returned' = [k \in 1 .. n |-> trajectories[selected[k]]]
           /\ trajectories' = PopAll(trajectories, selected)
           /\ trajectory_versions' = PopAll(trajectory_versions, selected)
           /\ target_weight_versions' = PopAll(target_weight_versions, selected)
    /\ UNCHANGED <<last_target_weight_already_generated, saved, nextId>>

\* sample(): raises on a stale entry, answers None, or hands out n groups.
sample(n, current, maxAge) ==
    \/ sample_none(n, current, maxAge)
    \/ sample_raises(current, maxAge)
    \/ sample_groups(n, current, maxAge)

EmptyLists ==
    /\ trajectories' = <<>>
    /\ trajectory_versions' = <<>>
    /\ target_weight_versions' = <<>>

clear ==
    /\ EmptyLists
    /\ UNCHANGED <<last_target_weight_already_generated, saved, nextId, returned>>

state_dict ==
    /\ saved' = IF DataPlane /\ trajectories # <<>>
                THEN UnpersistedState
                ELSE [persisted |-> TRUE,
                      trajectories |-> trajectories,
                      trajectory_versions |-> trajectory_versions,
                      target_weight_versions |-> target_weight_versions,
                      last |-> last_target_weight_already_generated]
    /\ UNCHANGED <<lists, last_target_weight_already_generated, nextId, returned>>

\* Mutant: the lists are extended by the restored ones, not replaced.
load_extends ==
    /\ saved.persisted
    /\ Len(trajectories) + Len(saved.trajectories) <= MaxSize
    /\ trajectories' = trajectories \o saved.trajectories
    /\ trajectory_versions' = trajectory_versions \o saved.trajectory_versions
    /\ target_weight_versions' =
           target_weight_versions \o saved.target_weight_versions
    /\ last_target_weight_already_generated' = saved.last
    /\ UNCHANGED <<saved, nextId, returned>>

load_state_dict ==
    /\ saved.persisted
    /\ Len(saved.trajectories) <= MaxSize
    /\ trajectories' = saved.trajectories
    /\ trajectory_versions' = saved.trajectory_versions
    /\ target_weight_versions' = saved.target_weight_versions
    /\ last_target_weight_already_generated' = saved.last
    /\ UNCHANGED <<saved, nextId, returned>>

\* The actor is killed and a new one is constructed; the checkpoint survives.
Restart ==
    /\ EmptyLists
    /\ last_target_weight_already_generated' = -1
    /\ UNCHANGED <<saved, nextId, returned>>

Next ==
    \/ \E v, t \in 0 .. MaxVersion : add(v, t)
    \/ \E n \in 1 .. Groups, current, maxAge \in 0 .. MaxVersion :
           sample(n, current, maxAge)
    \/ clear
    \/ state_dict
    \/ load_state_dict
    \/ Restart

Spec == Init /\ [][Next]_vars

-------------------------------------------------------------------------------
TypeOK ==
    /\ trajectories \in Seq([id : Nat])
    /\ trajectory_versions \in Seq(0 .. MaxVersion)
    /\ target_weight_versions \in Seq(0 .. MaxVersion)
    /\ last_target_weight_already_generated \in -1 .. MaxVersion
    /\ nextId \in 1 .. MaxAdds + 1

\* The three lists describe the same entries: whatever add, sample's pops,
\* clear and load_state_dict did, they have the same length, within max_size.
ListsAligned ==
    /\ Len(trajectories) = Len(trajectory_versions)
    /\ Len(trajectories) = Len(target_weight_versions)
    /\ Len(trajectories) <= MaxSize

\* The watermark that a resume relies on covers every target in the buffer,
\* after a restart and a restore as well.
WatermarkCovers ==
    \A i \in 1 .. Len(target_weight_versions) :
        target_weight_versions[i] <= last_target_weight_already_generated

\* Popping the selected positions removes exactly the sampled trajectories and
\* keeps the arrival order of the others, so a later sample is FIFO again.
ArrivalOrder ==
    \A i, j \in 1 .. Len(trajectories) :
        i < j => trajectories[i].id < trajectories[j].id

\* Over every sequence of adds, samples, clears, restarts and restores the
\* buffer stays well formed.
BufferSound == TypeOK /\ ListsAligned /\ WatermarkCovers /\ ArrivalOrder

EntriesOf(ts, vs, ws) ==
    {[traj |-> ts[i], version |-> vs[i], target |-> ws[i]] : i \in 1 .. Len(ts)}

\* Refinement mapping: the lists are the set of their entries.
Store == INSTANCE TrajectoryStore WITH
    store <- EntriesOf(trajectories, trajectory_versions, target_weight_versions),
    snapshot <- IF saved.persisted
                THEN [persisted |-> TRUE,
                      entries |-> EntriesOf(saved.trajectories,
                                            saved.trajectory_versions,
                                            saved.target_weight_versions)]
                ELSE [persisted |-> FALSE, entries |-> {}]

\* The lists implement the set of entries that the collector and the trainer
\* rely on: in particular the pops of sample() remove, across all three lists,
\* the oldest groups meant for the step and nothing else.
ImplementsStore == Store!TStoreSpec
===============================================================================
