--------------------------- MODULE SessionRollout ---------------------------
(***************************************************************************)
(* MultiTurnSessionEnvironment._process_one and the session client           *)
(* (sandbox/task_executor_client.py) over a SessionService that requests     *)
(* may not reach and whose answers may be lost.  The client retries nothing. *)
(***************************************************************************)
EXTENDS RolloutLoop, SessionService

NoSession == "no session"

ASSUME SessionAssumption == NoSession \notin Sids

VARIABLES
    sid,        \* the session id _process_one knows for p (its metadata, or local)
    envTurn,    \* meta["_turn"]
    wants,      \* the response of p says it is complete
    running,    \* the sessions in which the executor waits for an agent command
    overran,    \* those in which it stopped waiting for one that runs on
    verdict,    \* session -> what the verifier found, once it has run
    failed      \* history: _process_one of p took its except branch

sessionVars == <<status, sid, envTurn, wants, running, overran, verdict, failed>>
clientVars == <<sid, envTurn, wants, running, overran, verdict, failed>>

SessionInit ==
    /\ ServiceInit
    /\ sid = [p \in Samples |-> NoSession]
    /\ envTurn = [p \in Samples |-> 0]
    /\ wants = [p \in Samples |-> FALSE]
    /\ running = {} /\ overran = {} /\ verdict = [s \in Sids |-> "none"]
    /\ failed = [p \in Samples |-> FALSE]

Sessions == kind # "desktop"

\* _teardown_session: the container goes, with whatever still runs in it.
Teardown(s) == Remove(s) /\ overran' = overran \ {s}

\* DELETE /session/<id>, best effort: lost, refused while starting, or too late.
Delete(s) ==
    \/ UNCHANGED <<status, overran>>
    \/ status[s] # "starting" /\ Teardown(s)

\* The except branch: the episode ends without a reward.
Fails(p) ==
    /\ StepReturns(p, TRUE, 0)
    /\ failed' = [failed EXCEPT ![p] = TRUE]

FailsAndDeletes(p) ==
    /\ Fails(p)
    /\ Delete(sid[p])
    /\ wants' = [wants EXCEPT ![p] = FALSE]
    /\ UNCHANGED <<sid, envTurn, running, verdict>>

\* start_session: POST.  If the answer is lost nobody knows the session's id.
StartSession(p) ==
    /\ Sessions /\ InStep(p) /\ sid[p] = NoSession
    /\ \/ \E s \in Sids :
            /\ Start(s)
            /\ \/ /\ sid' = [sid EXCEPT ![p] = s]
                  /\ To(p, "poll")
                  /\ UNCHANGED <<kind, maxTurns, turns, cut, over, total, ending, failed>>
               \/ Fails(p) /\ UNCHANGED sid
       \/ Fails(p) /\ UNCHANGED <<status, sid>>
    /\ UNCHANGED <<envTurn, wants, running, overran, verdict>>

ResumeSession(p) ==
    /\ Sessions /\ InStep(p) /\ sid[p] # NoSession
    /\ To(p, "act")
    /\ UNCHANGED <<kind, maxTurns, turns, cut, over, total, ending, sessionVars>>

\* GET until ready.  A failed session is deleted, and so is one that is still
\* starting at the deadline, in vain; a failed GET just raises.  The id is local
\* to start_session until it returns, so nobody else deletes the session.
PollReady(p) ==
    /\ phase[p] = "poll" /\ status[sid[p]] = "ready"
    /\ To(p, "act")
    /\ UNCHANGED <<kind, maxTurns, turns, cut, over, total, ending, sessionVars>>

PollRaises(p) ==
    /\ phase[p] = "poll"
    /\ \/ status[sid[p]] = "failed" /\ Delete(sid[p])
       \/ UNCHANGED <<status, overran>>
    /\ Fails(p)
    /\ sid' = [sid EXCEPT ![p] = NoSession]
    /\ UNCHANGED <<envTurn, wants, running, verdict>>

\* _after_start raises: by now the id is known.
AfterStartRaises(p) ==
    /\ phase[p] = "poll" /\ status[sid[p]] = "ready"
    /\ FailsAndDeletes(p)

\* The response asks for a command, for the end, for both or for neither.
Act(p) ==
    /\ phase[p] = "act"
    /\ \E complete \in BOOLEAN : wants' = [wants EXCEPT ![p] = complete]
    /\ \E command \in BOOLEAN : To(p, IF command THEN "exec" ELSE "decide")
    /\ UNCHANGED <<kind, maxTurns, turns, cut, over, total, ending,
                   status, sid, envTurn, running, overran, verdict, failed>>

\* POST exec: 404 or 409 unless the session is ready.
Exec(p) ==
    /\ phase[p] = "exec"
    /\ \/ /\ status[sid[p]] = "ready"
          /\ running' = running \cup {sid[p]}
          /\ To(p, "executing")
          /\ UNCHANGED <<kind, maxTurns, turns, cut, over, total, ending,
                         status, sid, envTurn, wants, overran, verdict, failed>>
       \/ FailsAndDeletes(p)

\* Mutant: a command the client gave up on is taken for an empty answer.
ExecutedAnyway(p) ==
    /\ phase[p] = "executing"
    /\ running' \in {running, running \ {sid[p]}}
    /\ To(p, "decide")
    /\ UNCHANGED <<kind, maxTurns, turns, cut, over, total, ending,
                   status, sid, envTurn, wants, overran, verdict, failed>>

\* The client gets the output; or the answer that the command timed out, for
\* which the executor killed docker's client and not the command; or it gives up
\* while the executor goes on.
Executed(p) ==
    /\ phase[p] = "executing"
    /\ \/ /\ running' = running \ {sid[p]}
          /\ overran' \in {overran, overran \cup {sid[p]}}
          /\ To(p, "decide")
          /\ UNCHANGED <<kind, maxTurns, turns, cut, over, total, ending,
                         status, sid, envTurn, wants, verdict, failed>>
       \/ FailsAndDeletes(p)

LastTurn(p) == envTurn[p] + 1 >= maxTurns

Decide(p) ==
    /\ phase[p] = "decide"
    /\ IF wants[p] \/ LastTurn(p)
       THEN /\ To(p, "finish")
            /\ UNCHANGED <<kind, maxTurns, turns, cut, over, total, ending, envTurn>>
       ELSE /\ envTurn' = [envTurn EXCEPT ![p] = @ + 1]
            /\ StepReturns(p, FALSE, 0)
    /\ wants' = [wants EXCEPT ![p] = FALSE]
    /\ UNCHANGED <<status, sid, running, overran, verdict, failed>>

FinishSession(p) ==
    /\ phase[p] = "finish"
    /\ \/ /\ Finish(sid[p])
          /\ To(p, "finishing")
          /\ UNCHANGED <<kind, maxTurns, turns, cut, over, total, ending, clientVars>>
       \/ FailsAndDeletes(p)

\* The executor runs the verifier, tears the session down and answers.
Verify(s) ==
    /\ status[s] = "finishing"
    /\ \E v \in {"pass", "fail"} : verdict' = [verdict EXCEPT ![s] = v]
    /\ Teardown(s)
    /\ UNCHANGED <<loopVars, sid, envTurn, wants, running, failed>>

Graded(p) ==
    /\ phase[p] = "finishing" /\ verdict[sid[p]] # "none"
    /\ StepReturns(p, TRUE, IF verdict[sid[p]] = "pass" THEN 1 ELSE 0)
    /\ UNCHANGED sessionVars

\* The answer is lost, or the client does not wait for it.
FinishRaises(p) ==
    /\ phase[p] = "finishing"
    /\ FailsAndDeletes(p)

\* The executor: bootstraps end, commands end, idle sessions are reaped.  A
\* generation may take longer than the maximum age of a session.
Bootstrapped(s) == (Ready(s) \/ Fail(s)) /\ UNCHANGED <<loopVars, clientVars>>

CommandEnds(s) ==
    /\ s \in running /\ \A p \in Samples : ~ (phase[p] = "executing" /\ sid[p] = s)
    /\ running' = running \ {s}
    /\ overran' \in {overran, overran \cup {s}}
    /\ UNCHANGED <<loopVars, status, sid, envTurn, wants, verdict, failed>>

Reaped(s) ==
    /\ status[s] # "finishing" /\ s \notin running
    /\ Teardown(s)
    /\ UNCHANGED <<loopVars, sid, envTurn, wants, running, verdict, failed>>

Executor(s) == Bootstrapped(s) \/ CommandEnds(s) \/ Verify(s)

ProcessOne(p) ==
    \/ StartSession(p) \/ ResumeSession(p) \/ PollReady(p) \/ PollRaises(p)
    \/ AfterStartRaises(p) \/ Act(p) \/ Exec(p) \/ Executed(p) \/ Decide(p)
    \/ FinishSession(p) \/ Graded(p) \/ FinishRaises(p)

SessionNext ==
    \/ \E p \in Samples : ProcessOne(p)
    \/ \E s \in Sids : Executor(s) \/ Reaped(s)

-------------------------------------------------------------------------------
\* "Tests are never present during the agent turns" (task_executor.py): no
\* command of the agent runs while the verifier does, although a client that
\* gives up on a command leaves it running.  But where a command ran into its
\* timeout the episode goes on, and may be graded beside it.
HarnessAlone ==
    \A s \in running \cup overran : status[s] = "finishing" => s \in overran \ running

\* A sample is rewarded exactly for what the verifier found in its own session;
\* an episode that ended by itself, without an error, was graded.
RewardEarned ==
    /\ \A p \in Samples : Sessions /\ total[p] # 0 => sid[p] # NoSession
    /\ \A p \in Samples :
        Sessions /\ sid[p] # NoSession /\ Done(p) =>
            total[p] = IF verdict[sid[p]] = "pass" /\ ~ failed[p] THEN 1 ELSE 0
    /\ \A p \in Samples :
        Sessions /\ ending[p] = "terminated" /\ ~ failed[p] => verdict[sid[p]] # "none"

\* "keep grpo.max_rollout_turns above the per-task max_turns"
\* (multi_turn_session_env.py): equality is enough, the environment ends the
\* episode before the loop runs out of turns.
NotCutOff ==
    \A p \in Samples : ending[p] = "max_turns" => MaxRolloutTurns < maxTurns

\* Every session goes in the end, also one whose sample was truncated, failed
\* to generate, lost the answer to its start, or could not delete it.
SessionsGo == \A s \in Sids : status[s] = "starting" ~> status[s] = "gone"
=============================================================================
