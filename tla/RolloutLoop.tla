----------------------------- MODULE RolloutLoop -----------------------------
(***************************************************************************)
(* The turn loop of a multi-turn rollout: run_multi_turn_rollout (sync: the  *)
(* batch generates and steps together), run_sample_multi_turn_rollout (async:*)
(* every sample on its own) and _run_cua_sample (desktop: as async, after the *)
(* episode has begun).  An environment takes a sample from phase "step" to   *)
(* "observe"; SessionRollout and DesktopRollout are such environments.       *)
(***************************************************************************)
EXTENDS Integers, FiniteSets

CONSTANTS
    Samples,            \* the rows of the batch
    MaxRolloutTurns,    \* max_rollout_turns
    Budgets             \* the values max_turns may have

ASSUME RolloutAssumption ==
    /\ IsFiniteSet(Samples)
    /\ MaxRolloutTurns \in Nat \ {0} /\ Budgets \subseteq Nat \ {0}

VARIABLES
    maxTurns,   \* max_turns of the tasks
    kind,       \* "sync", "async" or "desktop": the loop that runs
    phase,      \* where sample p is
    turns,      \* turn_count of p
    cut,        \* the response of p was truncated and its loop ends after the step
    over,       \* the environment returned terminated
    total,      \* total_reward of p
    ending      \* why p is done

loopVars == <<kind, maxTurns, phase, turns, cut, over, total, ending>>

Endings == {"none", "terminated", "truncated", "error", "max_turns", "aborted"}

LoopInit ==
    /\ kind \in {"sync", "async", "desktop"} /\ maxTurns \in Budgets
    /\ phase = [p \in Samples |-> IF kind = "desktop" THEN "begin" ELSE "generate"]
    /\ turns = [p \in Samples |-> 0]
    /\ cut = [p \in Samples |-> FALSE] /\ over = [p \in Samples |-> FALSE]
    /\ total = [p \in Samples |-> 0]
    /\ ending = [p \in Samples |-> "none"]

To(p, ph) == phase' = [phase EXCEPT ![p] = ph]

\* The sample leaves the loop.
End(p, why) ==
    /\ To(p, "done")
    /\ ending' = [ending EXCEPT ![p] = why]
    /\ cut' = [cut EXCEPT ![p] = FALSE] /\ over' = [over EXCEPT ![p] = FALSE]

Done(p) == phase[p] = "done"
AllDone == \A p \in Samples : Done(p)

\* One call generates for every active sample; a truncated response is only
\* recorded.
GenerateBatch ==
    /\ kind = "sync" /\ ~ AllDone
    /\ \A p \in Samples : phase[p] \in {"generate", "done"}
    /\ phase' = [p \in Samples |-> IF Done(p) THEN "done" ELSE "step"]
    /\ turns' = [p \in Samples |-> IF Done(p) THEN turns[p] ELSE turns[p] + 1]
    /\ UNCHANGED <<kind, maxTurns, cut, over, total, ending>>

\* Nothing catches an error of the batched call: the whole rollout fails.
GenerateBatchError ==
    /\ kind = "sync" /\ ~ AllDone
    /\ \A p \in Samples : phase[p] \in {"generate", "done"}
    /\ phase' = [p \in Samples |-> "done"]
    /\ ending' = [p \in Samples |-> IF Done(p) THEN ending[p] ELSE "aborted"]
    /\ UNCHANGED <<kind, maxTurns, turns, cut, over, total>>

Generate(p) ==
    /\ kind # "sync" /\ phase[p] = "generate"
    /\ turns' = [turns EXCEPT ![p] = @ + 1]
    /\ \E t \in BOOLEAN : cut' = [cut EXCEPT ![p] = t]
    /\ To(p, "step")
    /\ UNCHANGED <<kind, maxTurns, over, total, ending>>

\* The sample ends with the reward it has.
GenerateError(p) ==
    /\ kind # "sync" /\ phase[p] = "generate"
    /\ turns' = [turns EXCEPT ![p] = @ + 1]
    /\ End(p, "error")
    /\ UNCHANGED <<kind, maxTurns, total>>

\* What step() returned is in: the reward is added, and the sample goes on
\* unless the environment ended it, the sequence is full or the turns are used up.
StepReturns(p, done, reward) ==
    /\ To(p, "observe")
    /\ over' = [over EXCEPT ![p] = done]
    /\ total' = [total EXCEPT ![p] = @ + reward]
    /\ UNCHANGED <<kind, maxTurns, turns, cut, ending>>

Observe(p) ==
    /\ phase[p] = "observe"
    /\ \/ over[p] /\ End(p, "terminated")
       \/ ~ over[p] /\ End(p, "truncated")     \* cut, or no room for the observation
       \/ ~ over[p] /\ ~ cut[p] /\ turns[p] >= MaxRolloutTurns /\ End(p, "max_turns")
       \/ ~ over[p] /\ ~ cut[p] /\ turns[p] < MaxRolloutTurns
          /\ To(p, "generate") /\ UNCHANGED <<cut, over, ending>>
    /\ UNCHANGED <<kind, maxTurns, turns, total>>

\* Sync: the environment steps the batch once all of it has generated.
InStep(p) == phase[p] = "step"

LoopNext ==
    \/ GenerateBatch \/ GenerateBatchError
    \/ \E p \in Samples : Generate(p) \/ GenerateError(p) \/ Observe(p)
=============================================================================
