------------------------------ MODULE Rollouts ------------------------------
(***************************************************************************)
(* A rollout of one of the three kinds with its environment.                 *)
(***************************************************************************)
EXTENDS SessionRollout, DesktopRollout

vars == <<loopVars, sessionVars, desktopVars>>

Init == LoopInit /\ SessionInit /\ DesktopInit

Next ==
    \/ LoopNext /\ UNCHANGED <<sessionVars, desktopVars>>
    \/ SessionNext /\ UNCHANGED desktopVars
    \/ DesktopNext /\ UNCHANGED sessionVars

Spec == Init /\ [][Next]_vars

\* One thread or coroutine per sample, the executor and its reaper.
FairSpec ==
    /\ Spec
    /\ WF_vars(LoopNext /\ UNCHANGED <<sessionVars, desktopVars>>)
    /\ \A p \in Samples : WF_vars(\/ ProcessOne(p) /\ UNCHANGED desktopVars
                                  \/ DesktopSample(p) /\ UNCHANGED sessionVars)
    /\ \A s \in Sids : /\ WF_vars(Executor(s) /\ UNCHANGED desktopVars)
                       /\ WF_vars(Reaped(s) /\ UNCHANGED desktopVars)

-------------------------------------------------------------------------------
Phases == {"begin", "build", "acquire", "setup", "generate", "step", "observe", "done",
           "poll", "act", "exec", "executing", "decide", "finish", "finishing"}

TypeOK ==
    /\ kind \in {"sync", "async", "desktop"} /\ maxTurns \in Budgets
    /\ phase \in [Samples -> Phases]
    /\ turns \in [Samples -> 0 .. MaxRolloutTurns]
    /\ cut \in [Samples -> BOOLEAN] /\ over \in [Samples -> BOOLEAN]
    /\ total \in [Samples -> 0 .. 1] /\ ending \in [Samples -> Endings]
    /\ status \in [Sids -> Statuses]
    /\ sid \in [Samples -> Sids \cup {NoSession}]
    /\ envTurn \in [Samples -> 0 .. maxTurns]
    /\ running \subseteq Sids /\ overran \subseteq Sids
    /\ verdict \in [Sids -> {"none", "pass", "fail"}]
    /\ lease \in [Samples -> Hosts \cup {NoHost}]
    /\ episodes \subseteq Samples /\ lost \subseteq Hosts

\* The rollout returns: every sample ends.  The only thing that can keep it is
\* a pool whose hosts have all gone with earlier episodes.
RolloutEnds == <>(AllDone \/ PoolExhausted)

\* A multi-turn episode is graded by its own session, alone with it unless a
\* command timed out there, before the loop takes the turns away.
SessionsSound == TypeOK /\ HarnessAlone /\ RewardEarned /\ NotCutOff

\* The rollout returns and leaves no session behind on the executor.
NothingLingers == RolloutEnds /\ SessionsGo
=============================================================================
