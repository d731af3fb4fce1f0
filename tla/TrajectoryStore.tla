--------------------------- MODULE TrajectoryStore ---------------------------
(***************************************************************************)
(* What the replay buffer of algorithms/async_utils/replay_buffer.py        *)
(* promises to its two clients, the trajectory collector and the trainer.   *)
(*                                                                         *)
(* The buffer is a set of entries.  An entry is a trajectory group (one     *)
(* prompt repeated num_generations_per_prompt times) with the version of    *)
(* the weights that generated it and the training step it is meant for.     *)
(* Trajectories carry an id that grows in arrival order, so "oldest first"  *)
(* is "smallest id first".  ReplayBuffer, which keeps the three parallel    *)
(* Python lists of the code, is shown to implement this module; AsyncGRPO   *)
(* composes it with the collector and the trainer.                          *)
(***************************************************************************)
EXTENDS Integers, FiniteSets

CONSTANTS MaxSize,      \* ReplayBuffer(max_size)
          DataPlane     \* entries hold data-plane references, not tensors

ASSUME MaxSizeAssumption == MaxSize \in Nat \ {0}
ASSUME DataPlaneAssumption == DataPlane \in BOOLEAN

VARIABLES store,        \* the entries in the buffer
          snapshot      \* what the last state_dict() returned

\* The entry that add() appends to the lists.
Entry(traj, version, target) ==
    [traj |-> traj, version |-> version, target |-> target]

\* len(self.trajectories) >= self.max_size: add() answers "full".
Full == Cardinality(store) >= MaxSize

\* add() that answers "success".
Add(traj, version, target) ==
    /\ ~Full
    /\ store' = store \cup {Entry(traj, version, target)}
    /\ UNCHANGED snapshot

\* Mutant: the window is one version too narrow.
NarrowWindow(current, maxAge) ==
    IF current - maxAge >= 0 THEN current - maxAge + 1 ELSE 0

MinValidVersion(current, maxAge) ==
    IF current - maxAge > 0 THEN current - maxAge ELSE 0

\* The "unexpected stale trajectories" that make sample() raise ValueError.
OldTrajectories(current, maxAge) ==
    {e \in store : e.version < MinValidVersion(current, maxAge)}

\* The entries within the age window.
Valid(current, maxAge) ==
    {e \in store : /\ MinValidVersion(current, maxAge) <= e.version
                   /\ e.version <= current}

\* The valid entries whose target is the current step.
Intended(current, maxAge) ==
    {e \in Valid(current, maxAge) : e.target = current}

\* sample() raises: a stale entry is in the buffer.
SampleRaises(current, maxAge) == OldTrajectories(current, maxAge) # {}

\* sample() removes and returns sel: the n oldest of the intended entries.
Sample(n, current, maxAge, sel) ==
    /\ ~SampleRaises(current, maxAge)
    /\ sel \subseteq Intended(current, maxAge)
    /\ Cardinality(sel) = n
    /\ \A e \in sel, f \in Intended(current, maxAge) \ sel :
           e.traj.id < f.traj.id
    /\ store' = store \ sel
    /\ UNCHANGED snapshot

\* sample() finds too few groups for the step and returns None.
SampleStalls(n, current, maxAge) ==
    /\ ~SampleRaises(current, maxAge)
    /\ Cardinality(Intended(current, maxAge)) < n
    /\ UNCHANGED <<store, snapshot>>

Clear == store' = {} /\ UNCHANGED snapshot

\* state_dict(): data-plane references do not survive a restart, so a buffer
\* that holds any is marked as not persisted.
NotPersisted == [persisted |-> FALSE, entries |-> {}]

StateDict ==
    /\ snapshot' = IF DataPlane /\ store # {}
                   THEN NotPersisted
                   ELSE [persisted |-> TRUE, entries |-> store]
    /\ UNCHANGED store

\* load_state_dict(): what a checkpoint restores into a buffer holding old.
Restored(state, old) ==
    IF state.persisted /\ Cardinality(state.entries) <= MaxSize
    THEN state.entries
    ELSE old

LoadStateDict ==
    /\ store' = Restored(snapshot, store)
    /\ UNCHANGED snapshot

(***************************************************************************)
(* The promise: the buffer changes only by taking in one entry while below  *)
(* its capacity, by handing out a step's groups oldest first, by being      *)
(* emptied (clear, or the actor's restart), or by taking over the contents  *)
(* of a snapshot that fits; a snapshot is the contents of the buffer.       *)
(***************************************************************************)
TStoreInit == store = {} /\ snapshot = NotPersisted

TStoreSample ==
    LET sel == store \ store'
    IN  /\ sel # {}
        /\ \E current \in {e.target : e \in sel} : \E maxAge \in 0 .. current :
               Sample(Cardinality(sel), current, maxAge, sel)

TStoreNext ==
    \/ \E e \in store' \ store : Add(e.traj, e.version, e.target)
    \/ TStoreSample
    \/ Clear
    \/ StateDict
    \/ LoadStateDict

TStoreSpec == TStoreInit /\ [][TStoreNext]_<<store, snapshot>>
==============================================================================
