---------------------------- MODULE Rollouts_proofs ----------------------------
(***************************************************************************)
(* Theorems about the rollouts, for every number of samples, sessions, hosts *)
(* and turns: what an episode is rewarded for, and who has which host.       *)
(***************************************************************************)
EXTENDS Rollouts, FiniteSetTheorems, TLAPS

-------------------------------------------------------------------------------
(* What keeps the sessions sound.                                            *)

\* The places of a sample in a session's environment, and of an episode that
\* has not begun.
Client == {"poll", "act", "exec", "executing", "decide", "finish", "finishing"}
Beginning == {"begin", "build", "acquire", "setup"}

\* The environment let the sample go on, or it has not answered yet.
Open(p) == phase[p] # "done" /\ (phase[p] = "observe" => ~over[p])

LoopTypes ==
    /\ kind \in {"sync", "async", "desktop"} /\ maxTurns \in Budgets
    /\ phase \in [Samples -> Phases]
    /\ turns \in [Samples -> 0 .. MaxRolloutTurns]
    /\ cut \in [Samples -> BOOLEAN] /\ over \in [Samples -> BOOLEAN]
    /\ total \in [Samples -> 0 .. 1] /\ ending \in [Samples -> Endings]

SessionTypes ==
    /\ status \in [Sids -> Statuses]
    /\ sid \in [Samples -> Sids \cup {NoSession}]
    /\ envTurn \in [Samples -> 0 .. maxTurns]
    /\ wants \in [Samples -> BOOLEAN] /\ failed \in [Samples -> BOOLEAN]
    /\ running \subseteq Sids /\ overran \subseteq Sids
    /\ verdict \in [Sids -> {"none", "pass", "fail"}]

\* The turns of the loop and those of the environment.
InTurn(p) ==
    /\ kind = "desktop" => phase[p] \notin Client
    /\ kind # "desktop" => phase[p] \notin Beginning
    /\ phase[p] \in Beginning => turns[p] = 0
    /\ phase[p] = "generate" => turns[p] < MaxRolloutTurns
    /\ Open(p) => total[p] = 0
    /\ phase[p] # "done" => ending[p] = "none"
    /\ over[p] => phase[p] = "observe"
    /\ phase[p] = "observe" /\ ~over[p] => turns[p] < maxTurns
    /\ kind # "desktop" =>
        /\ phase[p] = "generate" \/ (phase[p] = "observe" /\ ~over[p]) =>
               turns[p] = envTurn[p]
        /\ phase[p] = "step" \/ phase[p] \in Client => turns[p] = envTurn[p] + 1
        /\ Open(p) => envTurn[p] < maxTurns
    /\ ending[p] = "max_turns" => MaxRolloutTurns < maxTurns

\* A sample in its environment knows its session, which runs no command of the
\* agent between two of its calls.
Knows(p) ==
    /\ kind = "desktop" => sid[p] = NoSession
    /\ phase[p] \in Client => sid[p] # NoSession
    /\ Open(p) => ~failed[p]
    /\ sid[p] # NoSession =>
        /\ status[sid[p]] # "none"
        /\ Open(p) /\ phase[p] # "executing" => sid[p] \notin running

\* What a sample has been given, and why.
Given(p) ==
    kind # "desktop" =>
        /\ sid[p] = NoSession =>
            /\ total[p] = 0
            /\ ~Open(p) /\ (over[p] \/ ending[p] = "terminated") => failed[p]
        /\ sid[p] # NoSession =>
            /\ Open(p) /\ phase[p] # "finishing" =>
                   status[sid[p]] # "finishing" /\ verdict[sid[p]] = "none"
            /\ ~Open(p) => total[p] = IF verdict[sid[p]] = "pass" /\ ~failed[p] THEN 1 ELSE 0
            /\ ~Open(p) /\ ~failed[p] => status[sid[p]] # "finishing"
            /\ ~Open(p) /\ ~failed[p] /\ (over[p] \/ ending[p] = "terminated") =>
                   verdict[sid[p]] # "none"

Sample(p) == InTurn(p) /\ Knows(p) /\ Given(p)

\* A session belongs to the sample that knows its id; only a session that is
\* gone has been verified, and only one that is ready is given a command.
Owned == \A p, q \in Samples : sid[p] = sid[q] /\ sid[p] # NoSession => p = q

Served ==
    /\ \A s \in Sids : verdict[s] # "none" => status[s] = "gone"
    /\ \A s \in running : status[s] \in {"ready", "gone"}

Episodes == LoopTypes /\ SessionTypes /\ Owned /\ Served /\ \A p \in Samples : Sample(p)

-------------------------------------------------------------------------------
(* A step that leaves a sample and its session alone.                        *)

Kept(q) ==
    /\ phase'[q] = phase[q] /\ turns'[q] = turns[q] /\ over'[q] = over[q]
    /\ total'[q] = total[q] /\ ending'[q] = ending[q] /\ sid'[q] = sid[q]
    /\ envTurn'[q] = envTurn[q] /\ failed'[q] = failed[q]
    /\ sid[q] # NoSession =>
        /\ status'[sid[q]] = status[sid[q]] /\ verdict'[sid[q]] = verdict[sid[q]]
        /\ sid[q] \in running' => sid[q] \in running

\* Such a sample remains sound.
LEMMA Stays ==
    ASSUME NEW q \in Samples, Sample(q), kind' = kind, maxTurns' = maxTurns, Kept(q)
    PROVE  Sample(q)'
BY DEF Sample, InTurn, Knows, Given, Open, Client, Beginning, Kept

\* A sample moves on in its environment, or its step returns.
Moves(p) ==
    \/ /\ \E x \in Phases : To(p, x)
       /\ UNCHANGED <<kind, maxTurns, turns, cut, over, total, ending>>
    \/ StepReturns(p, FALSE, 0) \/ StepReturns(p, TRUE, 0) \/ StepReturns(p, TRUE, 1)

\* A sample is rewarded once, when its environment ends the episode.
LEMMA MovesTyped ==
    ASSUME LoopTypes, NEW p \in Samples, total[p] = 0, Moves(p)
    PROVE  LoopTypes' /\ kind' = kind /\ maxTurns' = maxTurns
<1>1. CASE \E x \in Phases :
              To(p, x) /\ UNCHANGED <<kind, maxTurns, turns, cut, over, total, ending>>
  BY <1>1 DEF LoopTypes, To
<1>2. CASE StepReturns(p, FALSE, 0) \/ StepReturns(p, TRUE, 0) \/ StepReturns(p, TRUE, 1)
  <2>0. 0 \in 0 .. 1 /\ 1 \in 0 .. 1
    OBVIOUS
  <2>1. PICK done \in BOOLEAN, reward \in 0 .. 1 : StepReturns(p, done, reward)
    BY <1>2, <2>0, Zenon
  <2>2. "observe" \in Phases
    BY DEF Phases
  <2>3. phase' \in [Samples -> Phases]
    BY <2>1, <2>2 DEF LoopTypes, StepReturns, To
  <2>4. total' \in [Samples -> 0 .. 1]
    BY <2>1 DEF LoopTypes, StepReturns
  <2> QED
    BY <2>1, <2>3, <2>4 DEF LoopTypes, StepReturns
<1> QED
  BY <1>1, <1>2 DEF Moves

\* Where samples can be.
LEMMA Places ==
    {"poll", "act", "exec", "executing", "decide", "finish", "finishing"} \subseteq Phases
BY DEF Phases

\* start_session: the id of a new session, or none.
LEMMA Starts ==
    ASSUME Episodes, NEW p \in Samples, StartSession(p)
    PROVE  Episodes'
<1> USE DEF Episodes
<1>0. Moves(p)
  BY Places DEF StartSession, Fails, Start, SetStatus, InStep, Sessions, Moves
<1>o. Open(p)
  BY DEF StartSession, Fails, StepReturns, To, Start, SetStatus, InStep, Sessions, Sample,
     InTurn, Open, Client
<1>1. LoopTypes' /\ kind' = kind /\ maxTurns' = maxTurns
  BY <1>0, <1>o, MovesTyped DEF Sample, InTurn
<1> USE DEF StartSession, Fails, StepReturns, To, Start, SetStatus, InStep, Sessions
<1>2. SessionTypes'
  <2>1. status' \in [Sids -> Statuses]
    BY DEF SessionTypes, Statuses
  <2>2. sid' \in [Samples -> Sids \cup {NoSession}]
    BY DEF SessionTypes
  <2>3. envTurn' \in [Samples -> 0 .. maxTurns']
    BY <1>1, RolloutAssumption DEF SessionTypes, LoopTypes
  <2>4. wants' \in [Samples -> BOOLEAN] /\ failed' \in [Samples -> BOOLEAN]
    BY DEF SessionTypes
  <2>5. running' \subseteq Sids /\ overran' \subseteq Sids /\ verdict' \in [Sids -> {"none", "pass", "fail"}]
    BY DEF SessionTypes, Sample, Knows, Client
  <2> QED
    BY <2>1, <2>2, <2>3, <2>4, <2>5 DEF SessionTypes
<1>3. Owned' /\ Served'
  BY SessionAssumption DEF Owned, Served, SessionTypes, Sample, Knows, Given, Open, Client
<1>4. Sample(p)'
  <2>1. InTurn(p)'
    BY RolloutAssumption DEF Sample, InTurn, Knows, Open, Client, Beginning, LoopTypes,
       SessionTypes
  <2>2. Knows(p)'
    BY SessionAssumption DEF Sample, InTurn, Knows, Given, Open, Client, Served, LoopTypes,
       SessionTypes
  <2>3. Given(p)'
    BY SessionAssumption DEF Sample, InTurn, Knows, Given, Open, Client, Served, LoopTypes,
       SessionTypes
  <2> QED
    BY <2>1, <2>2, <2>3 DEF Sample
<1>5. ASSUME NEW q \in Samples, q # p PROVE Kept(q)
  BY <1>5, SessionAssumption DEF Kept, Owned, Sample, Knows, LoopTypes, SessionTypes, Client
<1> QED
  BY <1>1, <1>2, <1>3, <1>4, <1>5, Stays

\* The next turn of a session that has begun.
LEMMA Resumes ==
    ASSUME Episodes, NEW p \in Samples, ResumeSession(p)
    PROVE  Episodes'
<1> USE DEF Episodes
<1>0. Moves(p)
  BY Places DEF ResumeSession, InStep, Sessions, sessionVars, Moves
<1>o. Open(p)
  BY DEF ResumeSession, To, InStep, Sessions, sessionVars, Sample, InTurn, Open, Client
<1>1. LoopTypes' /\ kind' = kind /\ maxTurns' = maxTurns
  BY <1>0, <1>o, MovesTyped DEF Sample, InTurn
<1> USE DEF ResumeSession, To, InStep, Sessions, sessionVars
<1>2. SessionTypes'
  <2>1. status' \in [Sids -> Statuses]
    BY DEF SessionTypes, Statuses
  <2>2. sid' \in [Samples -> Sids \cup {NoSession}]
    BY DEF SessionTypes
  <2>3. envTurn' \in [Samples -> 0 .. maxTurns']
    BY <1>1, RolloutAssumption DEF SessionTypes, LoopTypes
  <2>4. wants' \in [Samples -> BOOLEAN] /\ failed' \in [Samples -> BOOLEAN]
    BY DEF SessionTypes
  <2>5. running' \subseteq Sids /\ overran' \subseteq Sids /\ verdict' \in [Sids -> {"none", "pass", "fail"}]
    BY DEF SessionTypes, Sample, Knows, Client
  <2> QED
    BY <2>1, <2>2, <2>3, <2>4, <2>5 DEF SessionTypes
<1>3. Owned' /\ Served'
  BY SessionAssumption DEF Owned, Served, SessionTypes, Sample, Knows, Given, Open, Client
<1>4. Sample(p)'
  <2>1. InTurn(p)'
    BY RolloutAssumption DEF Sample, InTurn, Knows, Open, Client, Beginning, LoopTypes,
       SessionTypes
  <2>2. Knows(p)'
    BY SessionAssumption DEF Sample, InTurn, Knows, Given, Open, Client, Served, LoopTypes,
       SessionTypes
  <2>3. Given(p)'
    BY SessionAssumption DEF Sample, InTurn, Knows, Given, Open, Client, Served, LoopTypes,
       SessionTypes
  <2> QED
    BY <2>1, <2>2, <2>3 DEF Sample
<1>5. ASSUME NEW q \in Samples, q # p PROVE Kept(q)
  BY <1>5, SessionAssumption DEF Kept, Owned, Sample, Knows, LoopTypes, SessionTypes, Client
<1> QED
  BY <1>1, <1>2, <1>3, <1>4, <1>5, Stays

\* The session is ready.
LEMMA Polls ==
    ASSUME Episodes, NEW p \in Samples, PollReady(p)
    PROVE  Episodes'
<1> USE DEF Episodes
<1>0. Moves(p)
  BY Places DEF PollReady, sessionVars, Moves
<1>o. Open(p)
  BY DEF PollReady, To, sessionVars, Sample, InTurn, Open, Client
<1>1. LoopTypes' /\ kind' = kind /\ maxTurns' = maxTurns
  BY <1>0, <1>o, MovesTyped DEF Sample, InTurn
<1> USE DEF PollReady, To, sessionVars
<1>2. SessionTypes'
  <2>1. status' \in [Sids -> Statuses]
    BY DEF SessionTypes, Statuses
  <2>2. sid' \in [Samples -> Sids \cup {NoSession}]
    BY DEF SessionTypes
  <2>3. envTurn' \in [Samples -> 0 .. maxTurns']
    BY <1>1, RolloutAssumption DEF SessionTypes, LoopTypes
  <2>4. wants' \in [Samples -> BOOLEAN] /\ failed' \in [Samples -> BOOLEAN]
    BY DEF SessionTypes
  <2>5. running' \subseteq Sids /\ overran' \subseteq Sids /\ verdict' \in [Sids -> {"none", "pass", "fail"}]
    BY DEF SessionTypes, Sample, Knows, Client
  <2> QED
    BY <2>1, <2>2, <2>3, <2>4, <2>5 DEF SessionTypes
<1>3. Owned' /\ Served'
  BY SessionAssumption DEF Owned, Served, SessionTypes, Sample, Knows, Given, Open, Client
<1>4. Sample(p)'
  <2>1. InTurn(p)'
    BY RolloutAssumption DEF Sample, InTurn, Knows, Open, Client, Beginning, LoopTypes,
       SessionTypes
  <2>2. Knows(p)'
    BY SessionAssumption DEF Sample, InTurn, Knows, Given, Open, Client, Served, LoopTypes,
       SessionTypes
  <2>3. Given(p)'
    BY SessionAssumption DEF Sample, InTurn, Knows, Given, Open, Client, Served, LoopTypes,
       SessionTypes
  <2> QED
    BY <2>1, <2>2, <2>3 DEF Sample
<1>5. ASSUME NEW q \in Samples, q # p PROVE Kept(q)
  BY <1>5, SessionAssumption DEF Kept, Owned, Sample, Knows, LoopTypes, SessionTypes, Client
<1> QED
  BY <1>1, <1>2, <1>3, <1>4, <1>5, Stays

\* start_session raises, and nobody knows the id any more.
LEMMA PollsInVain ==
    ASSUME Episodes, NEW p \in Samples, PollRaises(p)
    PROVE  Episodes'
<1> USE DEF Episodes
<1>0. Moves(p)
  BY Places DEF PollRaises, Fails, Delete, Teardown, Remove, Live, SetStatus, Moves
<1>o. Open(p)
  BY DEF PollRaises, Fails, StepReturns, To, Delete, Teardown, Remove, Live, SetStatus, Sample, InTurn,
     Open, Client
<1>1. LoopTypes' /\ kind' = kind /\ maxTurns' = maxTurns
  BY <1>0, <1>o, MovesTyped DEF Sample, InTurn
<1> USE DEF PollRaises, Fails, StepReturns, To, Delete, Teardown, Remove, Live, SetStatus
<1>2. SessionTypes'
  <2>1. status' \in [Sids -> Statuses]
    BY DEF SessionTypes, Statuses
  <2>2. sid' \in [Samples -> Sids \cup {NoSession}]
    BY DEF SessionTypes
  <2>3. envTurn' \in [Samples -> 0 .. maxTurns']
    BY <1>1, RolloutAssumption DEF SessionTypes, LoopTypes
  <2>4. wants' \in [Samples -> BOOLEAN] /\ failed' \in [Samples -> BOOLEAN]
    BY DEF SessionTypes
  <2>5. running' \subseteq Sids /\ overran' \subseteq Sids /\ verdict' \in [Sids -> {"none", "pass", "fail"}]
    BY DEF SessionTypes, Sample, Knows, Client
  <2> QED
    BY <2>1, <2>2, <2>3, <2>4, <2>5 DEF SessionTypes
<1>3. Owned' /\ Served'
  BY SessionAssumption DEF Owned, Served, SessionTypes, Sample, Knows, Given, Open, Client
<1>4. Sample(p)'
  <2>1. InTurn(p)'
    BY RolloutAssumption DEF Sample, InTurn, Knows, Open, Client, Beginning, LoopTypes,
       SessionTypes
  <2>2. Knows(p)'
    BY SessionAssumption DEF Sample, InTurn, Knows, Given, Open, Client, Served, LoopTypes,
       SessionTypes
  <2>3. Given(p)'
    BY SessionAssumption DEF Sample, InTurn, Knows, Given, Open, Client, Served, LoopTypes,
       SessionTypes
  <2> QED
    BY <2>1, <2>2, <2>3 DEF Sample
<1>5. ASSUME NEW q \in Samples, q # p PROVE Kept(q)
  BY <1>5, SessionAssumption DEF Kept, Owned, Sample, Knows, LoopTypes, SessionTypes, Client
<1> QED
  BY <1>1, <1>2, <1>3, <1>4, <1>5, Stays

\* _after_start raises.
LEMMA AfterStarts ==
    ASSUME Episodes, NEW p \in Samples, AfterStartRaises(p)
    PROVE  Episodes'
<1> USE DEF Episodes
<1>0. Moves(p)
  BY Places DEF AfterStartRaises, FailsAndDeletes, Fails, Delete, Teardown, Remove, Live, SetStatus, Moves
<1>o. Open(p)
  BY DEF AfterStartRaises, FailsAndDeletes, Fails, StepReturns, To, Delete, Teardown, Remove, Live,
     SetStatus, Sample, InTurn, Open, Client
<1>1. LoopTypes' /\ kind' = kind /\ maxTurns' = maxTurns
  BY <1>0, <1>o, MovesTyped DEF Sample, InTurn
<1> USE DEF AfterStartRaises, FailsAndDeletes, Fails, StepReturns, To, Delete, Teardown, Remove, Live,
   SetStatus
<1>2. SessionTypes'
  <2>1. status' \in [Sids -> Statuses]
    BY DEF SessionTypes, Statuses
  <2>2. sid' \in [Samples -> Sids \cup {NoSession}]
    BY DEF SessionTypes
  <2>3. envTurn' \in [Samples -> 0 .. maxTurns']
    BY <1>1, RolloutAssumption DEF SessionTypes, LoopTypes
  <2>4. wants' \in [Samples -> BOOLEAN] /\ failed' \in [Samples -> BOOLEAN]
    BY DEF SessionTypes
  <2>5. running' \subseteq Sids /\ overran' \subseteq Sids /\ verdict' \in [Sids -> {"none", "pass", "fail"}]
    BY DEF SessionTypes, Sample, Knows, Client
  <2> QED
    BY <2>1, <2>2, <2>3, <2>4, <2>5 DEF SessionTypes
<1>3. Owned' /\ Served'
  BY SessionAssumption DEF Owned, Served, SessionTypes, Sample, Knows, Given, Open, Client
<1>4. Sample(p)'
  <2>1. InTurn(p)'
    BY RolloutAssumption DEF Sample, InTurn, Knows, Open, Client, Beginning, LoopTypes,
       SessionTypes
  <2>2. Knows(p)'
    BY SessionAssumption DEF Sample, InTurn, Knows, Given, Open, Client, Served, LoopTypes,
       SessionTypes
  <2>3. Given(p)'
    BY SessionAssumption DEF Sample, InTurn, Knows, Given, Open, Client, Served, LoopTypes,
       SessionTypes
  <2> QED
    BY <2>1, <2>2, <2>3 DEF Sample
<1>5. ASSUME NEW q \in Samples, q # p PROVE Kept(q)
  BY <1>5, SessionAssumption DEF Kept, Owned, Sample, Knows, LoopTypes, SessionTypes, Client
<1> QED
  BY <1>1, <1>2, <1>3, <1>4, <1>5, Stays

\* The response is read.
LEMMA Acts ==
    ASSUME Episodes, NEW p \in Samples, Act(p)
    PROVE  Episodes'
<1> USE DEF Episodes
<1>0. Moves(p)
  BY Places DEF Act, Moves
<1>o. Open(p)
  BY DEF Act, To, Sample, InTurn, Open, Client
<1>1. LoopTypes' /\ kind' = kind /\ maxTurns' = maxTurns
  BY <1>0, <1>o, MovesTyped DEF Sample, InTurn
<1> USE DEF Act, To
<1>2. SessionTypes'
  <2>1. status' \in [Sids -> Statuses]
    BY DEF SessionTypes, Statuses
  <2>2. sid' \in [Samples -> Sids \cup {NoSession}]
    BY DEF SessionTypes
  <2>3. envTurn' \in [Samples -> 0 .. maxTurns']
    BY <1>1, RolloutAssumption DEF SessionTypes, LoopTypes
  <2>4. wants' \in [Samples -> BOOLEAN] /\ failed' \in [Samples -> BOOLEAN]
    BY DEF SessionTypes
  <2>5. running' \subseteq Sids /\ overran' \subseteq Sids /\ verdict' \in [Sids -> {"none", "pass", "fail"}]
    BY DEF SessionTypes, Sample, Knows, Client
  <2> QED
    BY <2>1, <2>2, <2>3, <2>4, <2>5 DEF SessionTypes
<1>3. Owned' /\ Served'
  BY SessionAssumption DEF Owned, Served, SessionTypes, Sample, Knows, Given, Open, Client
<1>4. Sample(p)'
  <2>1. InTurn(p)'
    BY RolloutAssumption DEF Sample, InTurn, Knows, Open, Client, Beginning, LoopTypes,
       SessionTypes
  <2>2. Knows(p)'
    BY SessionAssumption DEF Sample, InTurn, Knows, Given, Open, Client, Served, LoopTypes,
       SessionTypes
  <2>3. Given(p)'
    BY SessionAssumption DEF Sample, InTurn, Knows, Given, Open, Client, Served, LoopTypes,
       SessionTypes
  <2> QED
    BY <2>1, <2>2, <2>3 DEF Sample
<1>5. ASSUME NEW q \in Samples, q # p PROVE Kept(q)
  BY <1>5, SessionAssumption DEF Kept, Owned, Sample, Knows, LoopTypes, SessionTypes, Client
<1> QED
  BY <1>1, <1>2, <1>3, <1>4, <1>5, Stays

\* A command of the agent begins.
LEMMA Execs ==
    ASSUME Episodes, NEW p \in Samples, Exec(p)
    PROVE  Episodes'
<1> USE DEF Episodes
<1>0. Moves(p)
  BY Places DEF Exec, FailsAndDeletes, Fails, Delete, Teardown, Remove, Live, SetStatus, Moves
<1>o. Open(p)
  BY DEF Exec, FailsAndDeletes, Fails, StepReturns, To, Delete, Teardown, Remove, Live, SetStatus, Sample,
     InTurn, Open, Client
<1>1. LoopTypes' /\ kind' = kind /\ maxTurns' = maxTurns
  BY <1>0, <1>o, MovesTyped DEF Sample, InTurn
<1> USE DEF Exec, FailsAndDeletes, Fails, StepReturns, To, Delete, Teardown, Remove, Live, SetStatus
<1>2. SessionTypes'
  <2>1. status' \in [Sids -> Statuses]
    BY DEF SessionTypes, Statuses
  <2>2. sid' \in [Samples -> Sids \cup {NoSession}]
    BY DEF SessionTypes
  <2>3. envTurn' \in [Samples -> 0 .. maxTurns']
    BY <1>1, RolloutAssumption DEF SessionTypes, LoopTypes
  <2>4. wants' \in [Samples -> BOOLEAN] /\ failed' \in [Samples -> BOOLEAN]
    BY DEF SessionTypes
  <2>5. running' \subseteq Sids /\ overran' \subseteq Sids /\ verdict' \in [Sids -> {"none", "pass", "fail"}]
    BY DEF SessionTypes, Sample, Knows, Client
  <2> QED
    BY <2>1, <2>2, <2>3, <2>4, <2>5 DEF SessionTypes
<1>3. Owned' /\ Served'
  BY SessionAssumption DEF Owned, Served, SessionTypes, Sample, Knows, Given, Open, Client
<1>4. Sample(p)'
  <2>1. InTurn(p)'
    BY RolloutAssumption DEF Sample, InTurn, Knows, Open, Client, Beginning, LoopTypes,
       SessionTypes
  <2>2. Knows(p)'
    BY SessionAssumption DEF Sample, InTurn, Knows, Given, Open, Client, Served, LoopTypes,
       SessionTypes
  <2>3. Given(p)'
    BY SessionAssumption DEF Sample, InTurn, Knows, Given, Open, Client, Served, LoopTypes,
       SessionTypes
  <2> QED
    BY <2>1, <2>2, <2>3 DEF Sample
<1>5. ASSUME NEW q \in Samples, q # p PROVE Kept(q)
  BY <1>5, SessionAssumption DEF Kept, Owned, Sample, Knows, LoopTypes, SessionTypes, Client
<1> QED
  BY <1>1, <1>2, <1>3, <1>4, <1>5, Stays

\* It ends, or the client gives up and ends the episode.
LEMMA Execd ==
    ASSUME Episodes, NEW p \in Samples, Executed(p)
    PROVE  Episodes'
<1> USE DEF Episodes
<1>0. Moves(p)
  BY Places DEF Executed, FailsAndDeletes, Fails, Delete, Teardown, Remove, Live, SetStatus, Moves
<1>o. Open(p)
  BY DEF Executed, FailsAndDeletes, Fails, StepReturns, To, Delete, Teardown, Remove, Live, SetStatus,
     Sample, InTurn, Open, Client
<1>1. LoopTypes' /\ kind' = kind /\ maxTurns' = maxTurns
  BY <1>0, <1>o, MovesTyped DEF Sample, InTurn
<1> USE DEF Executed, FailsAndDeletes, Fails, StepReturns, To, Delete, Teardown, Remove, Live, SetStatus
<1>2. SessionTypes'
  <2>1. status' \in [Sids -> Statuses]
    BY DEF SessionTypes, Statuses
  <2>2. sid' \in [Samples -> Sids \cup {NoSession}]
    BY DEF SessionTypes
  <2>3. envTurn' \in [Samples -> 0 .. maxTurns']
    BY <1>1, RolloutAssumption DEF SessionTypes, LoopTypes
  <2>4. wants' \in [Samples -> BOOLEAN] /\ failed' \in [Samples -> BOOLEAN]
    BY DEF SessionTypes
  <2>5. running' \subseteq Sids /\ overran' \subseteq Sids /\ verdict' \in [Sids -> {"none", "pass", "fail"}]
    BY DEF SessionTypes, Sample, Knows, Client
  <2> QED
    BY <2>1, <2>2, <2>3, <2>4, <2>5 DEF SessionTypes
<1>3. Owned' /\ Served'
  BY SessionAssumption DEF Owned, Served, SessionTypes, Sample, Knows, Given, Open, Client
<1>4. Sample(p)'
  <2>1. InTurn(p)'
    BY RolloutAssumption DEF Sample, InTurn, Knows, Open, Client, Beginning, LoopTypes,
       SessionTypes
  <2>2. Knows(p)'
    BY SessionAssumption DEF Sample, InTurn, Knows, Given, Open, Client, Served, LoopTypes,
       SessionTypes
  <2>3. Given(p)'
    BY SessionAssumption DEF Sample, InTurn, Knows, Given, Open, Client, Served, LoopTypes,
       SessionTypes
  <2> QED
    BY <2>1, <2>2, <2>3 DEF Sample
<1>5. ASSUME NEW q \in Samples, q # p PROVE Kept(q)
  BY <1>5, SessionAssumption DEF Kept, Owned, Sample, Knows, LoopTypes, SessionTypes, Client
<1> QED
  BY <1>1, <1>2, <1>3, <1>4, <1>5, Stays

\* The turn was the last one, or the loop goes on.
LEMMA Decides ==
    ASSUME Episodes, NEW p \in Samples, Decide(p)
    PROVE  Episodes'
<1> USE DEF Episodes
<1>0. Moves(p)
  BY Places DEF Decide, LastTurn, Moves
<1>o. Open(p)
  BY DEF Decide, LastTurn, StepReturns, To, Sample, InTurn, Open, Client
<1>1. LoopTypes' /\ kind' = kind /\ maxTurns' = maxTurns
  BY <1>0, <1>o, MovesTyped DEF Sample, InTurn
<1> USE DEF Decide, LastTurn, StepReturns, To
<1>2. SessionTypes'
  <2>1. status' \in [Sids -> Statuses]
    BY DEF SessionTypes, Statuses
  <2>2. sid' \in [Samples -> Sids \cup {NoSession}]
    BY DEF SessionTypes
  <2>3. envTurn' \in [Samples -> 0 .. maxTurns']
    BY <1>1, RolloutAssumption DEF SessionTypes, LoopTypes
  <2>4. wants' \in [Samples -> BOOLEAN] /\ failed' \in [Samples -> BOOLEAN]
    BY DEF SessionTypes
  <2>5. running' \subseteq Sids /\ overran' \subseteq Sids /\ verdict' \in [Sids -> {"none", "pass", "fail"}]
    BY DEF SessionTypes, Sample, Knows, Client
  <2> QED
    BY <2>1, <2>2, <2>3, <2>4, <2>5 DEF SessionTypes
<1>3. Owned' /\ Served'
  BY SessionAssumption DEF Owned, Served, SessionTypes, Sample, Knows, Given, Open, Client
<1>4. Sample(p)'
  <2>1. InTurn(p)'
    BY RolloutAssumption DEF Sample, InTurn, Knows, Open, Client, Beginning, LoopTypes,
       SessionTypes
  <2>2. Knows(p)'
    BY SessionAssumption DEF Sample, InTurn, Knows, Given, Open, Client, Served, LoopTypes,
       SessionTypes
  <2>3. Given(p)'
    BY SessionAssumption DEF Sample, InTurn, Knows, Given, Open, Client, Served, LoopTypes,
       SessionTypes
  <2> QED
    BY <2>1, <2>2, <2>3 DEF Sample
<1>5. ASSUME NEW q \in Samples, q # p PROVE Kept(q)
  BY <1>5, SessionAssumption DEF Kept, Owned, Sample, Knows, LoopTypes, SessionTypes, Client
<1> QED
  BY <1>1, <1>2, <1>3, <1>4, <1>5, Stays

\* The session is to be verified.
LEMMA Finishes ==
    ASSUME Episodes, NEW p \in Samples, FinishSession(p)
    PROVE  Episodes'
<1> USE DEF Episodes
<1>0. Moves(p)
  BY Places DEF FinishSession, Finish, FailsAndDeletes, Fails, Delete, Teardown, Remove, Live, SetStatus,
     clientVars, Moves
<1>o. Open(p)
  BY DEF FinishSession, Finish, FailsAndDeletes, Fails, StepReturns, To, Delete, Teardown, Remove, Live,
     SetStatus, clientVars, Sample, InTurn, Open, Client
<1>1. LoopTypes' /\ kind' = kind /\ maxTurns' = maxTurns
  BY <1>0, <1>o, MovesTyped DEF Sample, InTurn
<1> USE DEF FinishSession, Finish, FailsAndDeletes, Fails, StepReturns, To, Delete, Teardown, Remove, Live,
   SetStatus, clientVars
<1>2. SessionTypes'
  <2>1. status' \in [Sids -> Statuses]
    BY DEF SessionTypes, Statuses
  <2>2. sid' \in [Samples -> Sids \cup {NoSession}]
    BY DEF SessionTypes
  <2>3. envTurn' \in [Samples -> 0 .. maxTurns']
    BY <1>1, RolloutAssumption DEF SessionTypes, LoopTypes
  <2>4. wants' \in [Samples -> BOOLEAN] /\ failed' \in [Samples -> BOOLEAN]
    BY DEF SessionTypes
  <2>5. running' \subseteq Sids /\ overran' \subseteq Sids /\ verdict' \in [Sids -> {"none", "pass", "fail"}]
    BY DEF SessionTypes, Sample, Knows, Client
  <2> QED
    BY <2>1, <2>2, <2>3, <2>4, <2>5 DEF SessionTypes
<1>3. Owned' /\ Served'
  BY SessionAssumption DEF Owned, Served, SessionTypes, Sample, Knows, Given, Open, Client
<1>4. Sample(p)'
  <2>1. InTurn(p)'
    BY RolloutAssumption DEF Sample, InTurn, Knows, Open, Client, Beginning, LoopTypes,
       SessionTypes
  <2>2. Knows(p)'
    BY SessionAssumption DEF Sample, InTurn, Knows, Given, Open, Client, Served, LoopTypes,
       SessionTypes
  <2>3. Given(p)'
    BY SessionAssumption DEF Sample, InTurn, Knows, Given, Open, Client, Served, LoopTypes,
       SessionTypes
  <2> QED
    BY <2>1, <2>2, <2>3 DEF Sample
<1>5. ASSUME NEW q \in Samples, q # p PROVE Kept(q)
  BY <1>5, SessionAssumption DEF Kept, Owned, Sample, Knows, LoopTypes, SessionTypes, Client
<1> QED
  BY <1>1, <1>2, <1>3, <1>4, <1>5, Stays

\* The verdict is the reward.
LEMMA Grades ==
    ASSUME Episodes, NEW p \in Samples, Graded(p)
    PROVE  Episodes'
<1> USE DEF Episodes
<1>0. Moves(p)
  BY Places DEF Graded, sessionVars, Moves
<1>o. Open(p)
  BY DEF Graded, StepReturns, To, sessionVars, Sample, InTurn, Open, Client
<1>1. LoopTypes' /\ kind' = kind /\ maxTurns' = maxTurns
  BY <1>0, <1>o, MovesTyped DEF Sample, InTurn
<1> USE DEF Graded, StepReturns, To, sessionVars
<1>2. SessionTypes'
  <2>1. status' \in [Sids -> Statuses]
    BY DEF SessionTypes, Statuses
  <2>2. sid' \in [Samples -> Sids \cup {NoSession}]
    BY DEF SessionTypes
  <2>3. envTurn' \in [Samples -> 0 .. maxTurns']
    BY <1>1, RolloutAssumption DEF SessionTypes, LoopTypes
  <2>4. wants' \in [Samples -> BOOLEAN] /\ failed' \in [Samples -> BOOLEAN]
    BY DEF SessionTypes
  <2>5. running' \subseteq Sids /\ overran' \subseteq Sids /\ verdict' \in [Sids -> {"none", "pass", "fail"}]
    BY DEF SessionTypes, Sample, Knows, Client
  <2> QED
    BY <2>1, <2>2, <2>3, <2>4, <2>5 DEF SessionTypes
<1>3. Owned' /\ Served'
  BY SessionAssumption DEF Owned, Served, SessionTypes, Sample, Knows, Given, Open, Client
<1>4. Sample(p)'
  <2>1. InTurn(p)'
    BY RolloutAssumption DEF Sample, InTurn, Knows, Open, Client, Beginning, LoopTypes,
       SessionTypes
  <2>2. Knows(p)'
    BY SessionAssumption DEF Sample, InTurn, Knows, Given, Open, Client, Served, LoopTypes,
       SessionTypes
  <2>3. Given(p)'
    BY SessionAssumption DEF Sample, InTurn, Knows, Given, Open, Client, Served, LoopTypes,
       SessionTypes
  <2> QED
    BY <2>1, <2>2, <2>3 DEF Sample
<1>5. ASSUME NEW q \in Samples, q # p PROVE Kept(q)
  BY <1>5, SessionAssumption DEF Kept, Owned, Sample, Knows, LoopTypes, SessionTypes, Client
<1> QED
  BY <1>1, <1>2, <1>3, <1>4, <1>5, Stays

\* The answer is lost, and the episode ends without a reward.
LEMMA FinishesInVain ==
    ASSUME Episodes, NEW p \in Samples, FinishRaises(p)
    PROVE  Episodes'
<1> USE DEF Episodes
<1>0. Moves(p)
  BY Places DEF FinishRaises, FailsAndDeletes, Fails, Delete, Teardown, Remove, Live, SetStatus, Moves
<1>o. Open(p)
  BY DEF FinishRaises, FailsAndDeletes, Fails, StepReturns, To, Delete, Teardown, Remove, Live, SetStatus,
     Sample, InTurn, Open, Client
<1>1. LoopTypes' /\ kind' = kind /\ maxTurns' = maxTurns
  BY <1>0, <1>o, MovesTyped DEF Sample, InTurn
<1> USE DEF FinishRaises, FailsAndDeletes, Fails, StepReturns, To, Delete, Teardown, Remove, Live, SetStatus
<1>2. SessionTypes'
  <2>1. status' \in [Sids -> Statuses]
    BY DEF SessionTypes, Statuses
  <2>2. sid' \in [Samples -> Sids \cup {NoSession}]
    BY DEF SessionTypes
  <2>3. envTurn' \in [Samples -> 0 .. maxTurns']
    BY <1>1, RolloutAssumption DEF SessionTypes, LoopTypes
  <2>4. wants' \in [Samples -> BOOLEAN] /\ failed' \in [Samples -> BOOLEAN]
    BY DEF SessionTypes
  <2>5. running' \subseteq Sids /\ overran' \subseteq Sids /\ verdict' \in [Sids -> {"none", "pass", "fail"}]
    BY DEF SessionTypes, Sample, Knows, Client
  <2> QED
    BY <2>1, <2>2, <2>3, <2>4, <2>5 DEF SessionTypes
<1>3. Owned' /\ Served'
  BY SessionAssumption DEF Owned, Served, SessionTypes, Sample, Knows, Given, Open, Client
<1>4. Sample(p)'
  <2>1. InTurn(p)'
    BY RolloutAssumption DEF Sample, InTurn, Knows, Open, Client, Beginning, LoopTypes,
       SessionTypes
  <2>2. Knows(p)'
    BY SessionAssumption DEF Sample, InTurn, Knows, Given, Open, Client, Served, LoopTypes,
       SessionTypes
  <2>3. Given(p)'
    BY SessionAssumption DEF Sample, InTurn, Knows, Given, Open, Client, Served, LoopTypes,
       SessionTypes
  <2> QED
    BY <2>1, <2>2, <2>3 DEF Sample
<1>5. ASSUME NEW q \in Samples, q # p PROVE Kept(q)
  BY <1>5, SessionAssumption DEF Kept, Owned, Sample, Knows, LoopTypes, SessionTypes, Client
<1> QED
  BY <1>1, <1>2, <1>3, <1>4, <1>5, Stays

-------------------------------------------------------------------------------
(* The loop takes its steps between those of the environment.                *)

\* One call generates for all of the batch.
LEMMA GeneratesBatch ==
    ASSUME Episodes, GenerateBatch, UNCHANGED sessionVars
    PROVE  Episodes'
<1> USE DEF Episodes
<1>1. LoopTypes' /\ kind' = kind /\ maxTurns' = maxTurns
  <2>1. phase' \in [Samples -> Phases]
    BY RolloutAssumption DEF GenerateBatch, Done, LoopTypes, Phases
  <2>2. turns' \in [Samples -> 0 .. MaxRolloutTurns]
    BY RolloutAssumption DEF GenerateBatch, Done, LoopTypes, Sample, InTurn
  <2> QED
    BY <2>1, <2>2 DEF GenerateBatch, Done, LoopTypes
<1>2. SessionTypes'
  BY <1>1 DEF sessionVars, SessionTypes
<1>3. Owned' /\ Served'
  BY DEF sessionVars, Owned, Served
<1>4. ASSUME NEW p \in Samples PROVE Sample(p)'
  <2>1. InTurn(p)'
    BY RolloutAssumption DEF GenerateBatch, Done, sessionVars, Sample, InTurn, Knows, Open,
       Client, Beginning, LoopTypes, SessionTypes
  <2>2. Knows(p)'
    BY DEF GenerateBatch, Done, sessionVars, Sample, InTurn, Knows, Open, Client, LoopTypes
  <2>3. Given(p)'
    BY DEF GenerateBatch, Done, sessionVars, Sample, InTurn, Knows, Given, Open, Client, LoopTypes
  <2> QED
    BY <2>1, <2>2, <2>3 DEF Sample
<1> QED
  BY <1>1, <1>2, <1>3, <1>4

\* It fails, and the rollout with it.
LEMMA FailsBatch ==
    ASSUME Episodes, GenerateBatchError, UNCHANGED sessionVars
    PROVE  Episodes'
<1> USE DEF Episodes
<1>1. LoopTypes' /\ kind' = kind /\ maxTurns' = maxTurns
  <2>1. phase' \in [Samples -> Phases]
    BY RolloutAssumption DEF GenerateBatchError, Done, LoopTypes, Phases
  <2>2. ending' \in [Samples -> Endings]
    BY RolloutAssumption DEF GenerateBatchError, Done, LoopTypes, Endings
  <2> QED
    BY <2>1, <2>2 DEF GenerateBatchError, Done, LoopTypes
<1>2. SessionTypes'
  BY <1>1 DEF sessionVars, SessionTypes
<1>3. Owned' /\ Served'
  BY DEF sessionVars, Owned, Served
<1>4. ASSUME NEW p \in Samples PROVE Sample(p)'
  <2>1. InTurn(p)'
    BY RolloutAssumption DEF GenerateBatchError, Done, sessionVars, Sample, InTurn, Knows, Open,
       Client, Beginning, LoopTypes, SessionTypes
  <2>2. Knows(p)'
    BY DEF GenerateBatchError, Done, sessionVars, Sample, InTurn, Knows, Open, Client, LoopTypes
  <2>3. Given(p)'
    BY DEF GenerateBatchError, Done, sessionVars, Sample, InTurn, Knows, Given, Open, Client,
       LoopTypes
  <2> QED
    BY <2>1, <2>2, <2>3 DEF Sample
<1> QED
  BY <1>1, <1>2, <1>3, <1>4

\* A sample generates.
LEMMA Generates ==
    ASSUME Episodes, NEW p \in Samples, Generate(p), UNCHANGED sessionVars
    PROVE  Episodes'
<1> USE DEF Episodes
<1>1. LoopTypes' /\ kind' = kind /\ maxTurns' = maxTurns
  <2>1. phase' \in [Samples -> Phases]
    BY RolloutAssumption DEF Generate, To, LoopTypes, Phases
  <2>2. turns' \in [Samples -> 0 .. MaxRolloutTurns]
    BY RolloutAssumption DEF Generate, To, LoopTypes, Sample, InTurn
  <2>3. cut' \in [Samples -> BOOLEAN]
    BY RolloutAssumption DEF Generate, To, LoopTypes
  <2> QED
    BY <2>1, <2>2, <2>3 DEF Generate, To, LoopTypes
<1>2. SessionTypes'
  BY <1>1 DEF sessionVars, SessionTypes
<1>3. Owned' /\ Served'
  BY DEF sessionVars, Owned, Served
<1>4. Sample(p)'
  <2>1. InTurn(p)'
    BY RolloutAssumption DEF Generate, To, sessionVars, Sample, InTurn, Knows, Open, Client,
       Beginning, LoopTypes, SessionTypes
  <2>2. Knows(p)'
    BY DEF Generate, To, sessionVars, Sample, InTurn, Knows, Open, Client, LoopTypes
  <2>3. Given(p)'
    BY DEF Generate, To, sessionVars, Sample, InTurn, Knows, Given, Open, Client, LoopTypes
  <2> QED
    BY <2>1, <2>2, <2>3 DEF Sample
<1>5. ASSUME NEW q \in Samples, q # p PROVE Kept(q)
  BY <1>5 DEF Generate, To, sessionVars, Kept, LoopTypes
<1> QED
  BY <1>1, <1>2, <1>3, <1>4, <1>5, Stays

\* It fails to, and ends with the reward it has.
LEMMA FailsToGenerate ==
    ASSUME Episodes, NEW p \in Samples, GenerateError(p), UNCHANGED sessionVars
    PROVE  Episodes'
<1> USE DEF Episodes
<1>1. LoopTypes' /\ kind' = kind /\ maxTurns' = maxTurns
  <2>1. phase' \in [Samples -> Phases]
    BY RolloutAssumption DEF GenerateError, End, To, LoopTypes, Phases
  <2>2. cut' \in [Samples -> BOOLEAN]
    BY RolloutAssumption DEF GenerateError, End, To, LoopTypes
  <2>3. over' \in [Samples -> BOOLEAN]
    BY RolloutAssumption DEF GenerateError, End, To, LoopTypes
  <2>4. ending' \in [Samples -> Endings]
    BY RolloutAssumption DEF GenerateError, End, To, LoopTypes, Endings
  <2>5. turns' \in [Samples -> 0 .. MaxRolloutTurns]
    BY RolloutAssumption DEF GenerateError, End, To, LoopTypes, Sample, InTurn
  <2> QED
    BY <2>1, <2>2, <2>3, <2>4, <2>5 DEF GenerateError, End, To, LoopTypes
<1>2. SessionTypes'
  BY <1>1 DEF sessionVars, SessionTypes
<1>3. Owned' /\ Served'
  BY DEF sessionVars, Owned, Served
<1>4. Sample(p)'
  <2>1. InTurn(p)'
    BY RolloutAssumption DEF GenerateError, End, To, sessionVars, Sample, InTurn, Knows, Open,
       Client, Beginning, LoopTypes, SessionTypes
  <2>2. Knows(p)'
    BY DEF GenerateError, End, To, sessionVars, Sample, InTurn, Knows, Open, Client, LoopTypes
  <2>3. Given(p)'
    BY DEF GenerateError, End, To, sessionVars, Sample, InTurn, Knows, Given, Open, Client,
       LoopTypes
  <2> QED
    BY <2>1, <2>2, <2>3 DEF Sample
<1>5. ASSUME NEW q \in Samples, q # p PROVE Kept(q)
  BY <1>5 DEF GenerateError, End, To, sessionVars, Kept, LoopTypes
<1> QED
  BY <1>1, <1>2, <1>3, <1>4, <1>5, Stays

\* The loop ends the sample or goes on with it.
LEMMA Observes ==
    ASSUME Episodes, NEW p \in Samples, Observe(p), UNCHANGED sessionVars
    PROVE  Episodes'
<1> USE DEF Episodes
<1>1. LoopTypes' /\ kind' = kind /\ maxTurns' = maxTurns
  <2>1. phase' \in [Samples -> Phases]
    BY RolloutAssumption DEF Observe, End, To, LoopTypes, Phases
  <2>2. cut' \in [Samples -> BOOLEAN]
    BY RolloutAssumption DEF Observe, End, To, LoopTypes
  <2>3. over' \in [Samples -> BOOLEAN]
    BY RolloutAssumption DEF Observe, End, To, LoopTypes
  <2>4. ending' \in [Samples -> Endings]
    BY RolloutAssumption DEF Observe, End, To, LoopTypes, Endings
  <2> QED
    BY <2>1, <2>2, <2>3, <2>4 DEF Observe, End, To, LoopTypes
<1>2. SessionTypes'
  BY <1>1 DEF sessionVars, SessionTypes
<1>3. Owned' /\ Served'
  BY DEF sessionVars, Owned, Served
<1>4. Sample(p)'
  <2>1. InTurn(p)'
    BY RolloutAssumption DEF Observe, End, To, sessionVars, Sample, InTurn, Knows, Open, Client,
       Beginning, LoopTypes, SessionTypes
  <2>2. Knows(p)'
    BY DEF Observe, End, To, sessionVars, Sample, InTurn, Knows, Open, Client, LoopTypes
  <2>3. Given(p)'
    BY DEF Observe, End, To, sessionVars, Sample, InTurn, Knows, Given, Open, Client, LoopTypes
  <2> QED
    BY <2>1, <2>2, <2>3 DEF Sample
<1>5. ASSUME NEW q \in Samples, q # p PROVE Kept(q)
  BY <1>5 DEF Observe, End, To, sessionVars, Kept, LoopTypes
<1> QED
  BY <1>1, <1>2, <1>3, <1>4, <1>5, Stays

-------------------------------------------------------------------------------
(* The executor.                                                             *)

\* A bootstrap ends.
LEMMA Boots ==
    ASSUME Episodes, NEW s \in Sids, Bootstrapped(s)
    PROVE  Episodes'
<1> USE DEF Episodes
<1>1. LoopTypes' /\ kind' = kind /\ maxTurns' = maxTurns
  BY DEF Bootstrapped, Ready, Fail, SetStatus, loopVars, LoopTypes
<1>2. SessionTypes'
  BY <1>1 DEF Bootstrapped, Ready, Fail, SetStatus, clientVars, loopVars, SessionTypes, Statuses
<1>3. Owned' /\ Served'
  BY DEF Bootstrapped, Ready, Fail, SetStatus, clientVars, loopVars, Owned, Served, SessionTypes
<1>4. ASSUME NEW p \in Samples PROVE Sample(p)'
  <2>1. InTurn(p)'
    BY DEF Bootstrapped, Ready, Fail, SetStatus, clientVars, loopVars, Sample, InTurn, Open
  <2>2. Knows(p)'
    BY SessionAssumption DEF Bootstrapped, Ready, Fail, SetStatus, clientVars, loopVars, Sample,
       Knows, Open, SessionTypes
  <2>3. Given(p)'
    BY SessionAssumption DEF Bootstrapped, Ready, Fail, SetStatus, clientVars, loopVars, Sample,
       Knows, Given, Open, SessionTypes, Served
  <2> QED
    BY <2>1, <2>2, <2>3 DEF Sample
<1> QED
  BY <1>1, <1>2, <1>3, <1>4

\* A command that nobody waits for ends.
LEMMA Ends ==
    ASSUME Episodes, NEW s \in Sids, CommandEnds(s)
    PROVE  Episodes'
<1> USE DEF Episodes
<1>1. LoopTypes' /\ kind' = kind /\ maxTurns' = maxTurns
  BY DEF CommandEnds, loopVars, LoopTypes
<1>2. SessionTypes'
  BY <1>1 DEF CommandEnds, clientVars, loopVars, SessionTypes, Statuses
<1>3. Owned' /\ Served'
  BY DEF CommandEnds, clientVars, loopVars, Owned, Served, SessionTypes
<1>4. ASSUME NEW p \in Samples PROVE Sample(p)'
  <2>1. InTurn(p)'
    BY DEF CommandEnds, clientVars, loopVars, Sample, InTurn, Open
  <2>2. Knows(p)'
    BY SessionAssumption DEF CommandEnds, clientVars, loopVars, Sample, Knows, Open, SessionTypes
  <2>3. Given(p)'
    BY SessionAssumption DEF CommandEnds, clientVars, loopVars, Sample, Knows, Given, Open,
       SessionTypes, Served
  <2> QED
    BY <2>1, <2>2, <2>3 DEF Sample
<1> QED
  BY <1>1, <1>2, <1>3, <1>4

\* The verifier runs, for the sample that asked for it.
LEMMA Verifies ==
    ASSUME Episodes, NEW s \in Sids, Verify(s)
    PROVE  Episodes'
<1> USE DEF Episodes
<1>1. LoopTypes' /\ kind' = kind /\ maxTurns' = maxTurns
  BY DEF Verify, Teardown, Remove, Live, SetStatus, loopVars, LoopTypes
<1>2. SessionTypes'
  BY <1>1 DEF Verify, Teardown, Remove, Live, SetStatus, clientVars, loopVars, SessionTypes, Statuses
<1>3. Owned' /\ Served'
  BY DEF Verify, Teardown, Remove, Live, SetStatus, clientVars, loopVars, Owned, Served, SessionTypes
<1>4. ASSUME NEW p \in Samples PROVE Sample(p)'
  <2>1. InTurn(p)'
    BY DEF Verify, Teardown, Remove, Live, SetStatus, clientVars, loopVars, Sample, InTurn, Open
  <2>2. Knows(p)'
    BY SessionAssumption DEF Verify, Teardown, Remove, Live, SetStatus, clientVars, loopVars, Sample,
       Knows, Open, SessionTypes
  <2>3. Given(p)'
    BY SessionAssumption DEF Verify, Teardown, Remove, Live, SetStatus, clientVars, loopVars, Sample,
       Knows, Given, Open, SessionTypes, Served
  <2> QED
    BY <2>1, <2>2, <2>3 DEF Sample
<1> QED
  BY <1>1, <1>2, <1>3, <1>4

\* An idle session is reaped.
LEMMA Reaps ==
    ASSUME Episodes, NEW s \in Sids, Reaped(s)
    PROVE  Episodes'
<1> USE DEF Episodes
<1>1. LoopTypes' /\ kind' = kind /\ maxTurns' = maxTurns
  BY DEF Reaped, Teardown, Remove, Live, SetStatus, loopVars, LoopTypes
<1>2. SessionTypes'
  BY <1>1 DEF Reaped, Teardown, Remove, Live, SetStatus, clientVars, loopVars, SessionTypes, Statuses
<1>3. Owned' /\ Served'
  BY DEF Reaped, Teardown, Remove, Live, SetStatus, clientVars, loopVars, Owned, Served, SessionTypes
<1>4. ASSUME NEW p \in Samples PROVE Sample(p)'
  <2>1. InTurn(p)'
    BY DEF Reaped, Teardown, Remove, Live, SetStatus, clientVars, loopVars, Sample, InTurn, Open
  <2>2. Knows(p)'
    BY SessionAssumption DEF Reaped, Teardown, Remove, Live, SetStatus, clientVars, loopVars, Sample,
       Knows, Open, SessionTypes
  <2>3. Given(p)'
    BY SessionAssumption DEF Reaped, Teardown, Remove, Live, SetStatus, clientVars, loopVars, Sample,
       Knows, Given, Open, SessionTypes, Served
  <2> QED
    BY <2>1, <2>2, <2>3 DEF Sample
<1> QED
  BY <1>1, <1>2, <1>3, <1>4

-------------------------------------------------------------------------------
(* A desktop has no session.                                                 *)

\* The pool is there, or has to be built.
LEMMA GetsProvisioner ==
    ASSUME Episodes, NEW p \in Samples, GetProvisioner(p), UNCHANGED sessionVars
    PROVE  Episodes'
<1> USE DEF Episodes
<1>1. LoopTypes' /\ kind' = kind /\ maxTurns' = maxTurns
  <2>1. phase' \in [Samples -> Phases]
    BY RolloutAssumption DEF GetProvisioner, To, LoopTypes, Phases
  <2> QED
    BY <2>1 DEF GetProvisioner, To, LoopTypes
<1>2. SessionTypes'
  BY <1>1 DEF sessionVars, SessionTypes
<1>3. Owned' /\ Served'
  BY DEF sessionVars, Owned, Served
<1>4. Sample(p)'
  <2>1. InTurn(p)'
    BY RolloutAssumption DEF GetProvisioner, To, sessionVars, Sample, InTurn, Knows, Open,
       Client, Beginning, LoopTypes, SessionTypes
  <2>2. Knows(p)'
    BY DEF GetProvisioner, To, sessionVars, Sample, InTurn, Knows, Open, Client, LoopTypes
  <2>3. Given(p)'
    BY DEF GetProvisioner, To, sessionVars, Sample, InTurn, Knows, Given, Open, Client, LoopTypes
  <2> QED
    BY <2>1, <2>2, <2>3 DEF Sample
<1>5. ASSUME NEW q \in Samples, q # p PROVE Kept(q)
  BY <1>5 DEF GetProvisioner, To, sessionVars, Kept, LoopTypes
<1> QED
  BY <1>1, <1>2, <1>3, <1>4, <1>5, Stays

\* It is built.
LEMMA BuildsProvisioner ==
    ASSUME Episodes, NEW p \in Samples, BuildProvisioner(p), UNCHANGED sessionVars
    PROVE  Episodes'
<1> USE DEF Episodes
<1>1. LoopTypes' /\ kind' = kind /\ maxTurns' = maxTurns
  <2>1. phase' \in [Samples -> Phases]
    BY RolloutAssumption DEF BuildProvisioner, To, LoopTypes, Phases
  <2> QED
    BY <2>1 DEF BuildProvisioner, To, LoopTypes
<1>2. SessionTypes'
  BY <1>1 DEF sessionVars, SessionTypes
<1>3. Owned' /\ Served'
  BY DEF sessionVars, Owned, Served
<1>4. Sample(p)'
  <2>1. InTurn(p)'
    BY RolloutAssumption DEF BuildProvisioner, To, sessionVars, Sample, InTurn, Knows, Open,
       Client, Beginning, LoopTypes, SessionTypes
  <2>2. Knows(p)'
    BY DEF BuildProvisioner, To, sessionVars, Sample, InTurn, Knows, Open, Client, LoopTypes
  <2>3. Given(p)'
    BY DEF BuildProvisioner, To, sessionVars, Sample, InTurn, Knows, Given, Open, Client,
       LoopTypes
  <2> QED
    BY <2>1, <2>2, <2>3 DEF Sample
<1>5. ASSUME NEW q \in Samples, q # p PROVE Kept(q)
  BY <1>5 DEF BuildProvisioner, To, sessionVars, Kept, LoopTypes
<1> QED
  BY <1>1, <1>2, <1>3, <1>4, <1>5, Stays

\* A host is leased.
LEMMA Acquires ==
    ASSUME Episodes, NEW p \in Samples, Acquire(p), UNCHANGED sessionVars
    PROVE  Episodes'
<1> USE DEF Episodes
<1>1. LoopTypes' /\ kind' = kind /\ maxTurns' = maxTurns
  <2>1. phase' \in [Samples -> Phases]
    BY RolloutAssumption DEF Acquire, To, LoopTypes, Phases
  <2> QED
    BY <2>1 DEF Acquire, To, LoopTypes
<1>2. SessionTypes'
  BY <1>1 DEF sessionVars, SessionTypes
<1>3. Owned' /\ Served'
  BY DEF sessionVars, Owned, Served
<1>4. Sample(p)'
  <2>1. InTurn(p)'
    BY RolloutAssumption DEF Acquire, To, sessionVars, Sample, InTurn, Knows, Open, Client,
       Beginning, LoopTypes, SessionTypes
  <2>2. Knows(p)'
    BY DEF Acquire, To, sessionVars, Sample, InTurn, Knows, Open, Client, LoopTypes
  <2>3. Given(p)'
    BY DEF Acquire, To, sessionVars, Sample, InTurn, Knows, Given, Open, Client, LoopTypes
  <2> QED
    BY <2>1, <2>2, <2>3 DEF Sample
<1>5. ASSUME NEW q \in Samples, q # p PROVE Kept(q)
  BY <1>5 DEF Acquire, To, sessionVars, Kept, LoopTypes
<1> QED
  BY <1>1, <1>2, <1>3, <1>4, <1>5, Stays

\* None is free in time.
LEMMA TimesOut ==
    ASSUME Episodes, NEW p \in Samples, AcquireTimesOut(p), UNCHANGED sessionVars
    PROVE  Episodes'
<1> USE DEF Episodes
<1>1. LoopTypes' /\ kind' = kind /\ maxTurns' = maxTurns
  <2>1. phase' \in [Samples -> Phases]
    BY RolloutAssumption DEF AcquireTimesOut, End, To, LoopTypes, Phases
  <2>2. cut' \in [Samples -> BOOLEAN]
    BY RolloutAssumption DEF AcquireTimesOut, End, To, LoopTypes
  <2>3. over' \in [Samples -> BOOLEAN]
    BY RolloutAssumption DEF AcquireTimesOut, End, To, LoopTypes
  <2>4. ending' \in [Samples -> Endings]
    BY RolloutAssumption DEF AcquireTimesOut, End, To, LoopTypes, Endings
  <2> QED
    BY <2>1, <2>2, <2>3, <2>4 DEF AcquireTimesOut, End, To, LoopTypes
<1>2. SessionTypes'
  BY <1>1 DEF sessionVars, SessionTypes
<1>3. Owned' /\ Served'
  BY DEF sessionVars, Owned, Served
<1>4. Sample(p)'
  <2>1. InTurn(p)'
    BY RolloutAssumption DEF AcquireTimesOut, End, To, sessionVars, Sample, InTurn, Knows, Open,
       Client, Beginning, LoopTypes, SessionTypes
  <2>2. Knows(p)'
    BY DEF AcquireTimesOut, End, To, sessionVars, Sample, InTurn, Knows, Open, Client, LoopTypes
  <2>3. Given(p)'
    BY DEF AcquireTimesOut, End, To, sessionVars, Sample, InTurn, Knows, Given, Open, Client,
       LoopTypes
  <2> QED
    BY <2>1, <2>2, <2>3 DEF Sample
<1>5. ASSUME NEW q \in Samples, q # p PROVE Kept(q)
  BY <1>5 DEF AcquireTimesOut, End, To, sessionVars, Kept, LoopTypes
<1> QED
  BY <1>1, <1>2, <1>3, <1>4, <1>5, Stays

\* The episode begins.
LEMMA SetsUp ==
    ASSUME Episodes, NEW p \in Samples, Setup(p), UNCHANGED sessionVars
    PROVE  Episodes'
<1> USE DEF Episodes
<1>1. LoopTypes' /\ kind' = kind /\ maxTurns' = maxTurns
  <2>1. phase' \in [Samples -> Phases]
    BY RolloutAssumption DEF Setup, To, LoopTypes, Phases
  <2> QED
    BY <2>1 DEF Setup, To, LoopTypes
<1>2. SessionTypes'
  BY <1>1 DEF sessionVars, SessionTypes
<1>3. Owned' /\ Served'
  BY DEF sessionVars, Owned, Served
<1>4. Sample(p)'
  <2>1. InTurn(p)'
    BY RolloutAssumption DEF Setup, To, sessionVars, Sample, InTurn, Knows, Open, Client,
       Beginning, LoopTypes, SessionTypes
  <2>2. Knows(p)'
    BY DEF Setup, To, sessionVars, Sample, InTurn, Knows, Open, Client, LoopTypes
  <2>3. Given(p)'
    BY DEF Setup, To, sessionVars, Sample, InTurn, Knows, Given, Open, Client, LoopTypes
  <2> QED
    BY <2>1, <2>2, <2>3 DEF Sample
<1>5. ASSUME NEW q \in Samples, q # p PROVE Kept(q)
  BY <1>5 DEF Setup, To, sessionVars, Kept, LoopTypes
<1> QED
  BY <1>1, <1>2, <1>3, <1>4, <1>5, Stays

\* It does not.
LEMMA SetUpRaises ==
    ASSUME Episodes, NEW p \in Samples, SetupRaises(p), UNCHANGED sessionVars
    PROVE  Episodes'
<1> USE DEF Episodes
<1>1. LoopTypes' /\ kind' = kind /\ maxTurns' = maxTurns
  <2>1. phase' \in [Samples -> Phases]
    BY RolloutAssumption DEF SetupRaises, End, To, LoopTypes, Phases
  <2>2. cut' \in [Samples -> BOOLEAN]
    BY RolloutAssumption DEF SetupRaises, End, To, LoopTypes
  <2>3. over' \in [Samples -> BOOLEAN]
    BY RolloutAssumption DEF SetupRaises, End, To, LoopTypes
  <2>4. ending' \in [Samples -> Endings]
    BY RolloutAssumption DEF SetupRaises, End, To, LoopTypes, Endings
  <2> QED
    BY <2>1, <2>2, <2>3, <2>4 DEF SetupRaises, End, To, LoopTypes
<1>2. SessionTypes'
  BY <1>1 DEF sessionVars, SessionTypes
<1>3. Owned' /\ Served'
  BY DEF sessionVars, Owned, Served
<1>4. Sample(p)'
  <2>1. InTurn(p)'
    BY RolloutAssumption DEF SetupRaises, End, To, sessionVars, Sample, InTurn, Knows, Open,
       Client, Beginning, LoopTypes, SessionTypes
  <2>2. Knows(p)'
    BY DEF SetupRaises, End, To, sessionVars, Sample, InTurn, Knows, Open, Client, LoopTypes
  <2>3. Given(p)'
    BY DEF SetupRaises, End, To, sessionVars, Sample, InTurn, Knows, Given, Open, Client,
       LoopTypes
  <2> QED
    BY <2>1, <2>2, <2>3 DEF Sample
<1>5. ASSUME NEW q \in Samples, q # p PROVE Kept(q)
  BY <1>5 DEF SetupRaises, End, To, sessionVars, Kept, LoopTypes
<1> QED
  BY <1>1, <1>2, <1>3, <1>4, <1>5, Stays

\* The actor takes a step.
LEMMA StepsDesktop ==
    ASSUME Episodes, NEW p \in Samples, StepDesktop(p), UNCHANGED sessionVars
    PROVE  Episodes'
<1> USE DEF Episodes
<1>1. LoopTypes' /\ kind' = kind /\ maxTurns' = maxTurns
  <2>1. phase' \in [Samples -> Phases]
    BY RolloutAssumption DEF StepDesktop, StepReturns, To, InStep, LoopTypes, Phases
  <2>2. over' \in [Samples -> BOOLEAN]
    BY RolloutAssumption DEF StepDesktop, StepReturns, To, InStep, LoopTypes
  <2>3. total' \in [Samples -> 0 .. 1]
    BY RolloutAssumption DEF StepDesktop, StepReturns, To, InStep, LoopTypes, Sample, InTurn, Open
  <2> QED
    BY <2>1, <2>2, <2>3 DEF StepDesktop, StepReturns, To, InStep, LoopTypes
<1>2. SessionTypes'
  BY <1>1 DEF sessionVars, SessionTypes
<1>3. Owned' /\ Served'
  BY DEF sessionVars, Owned, Served
<1>4. Sample(p)'
  <2>1. InTurn(p)'
    BY RolloutAssumption DEF StepDesktop, StepReturns, To, InStep, sessionVars, Sample, InTurn,
       Knows, Open, Client, Beginning, LoopTypes, SessionTypes
  <2>2. Knows(p)'
    BY DEF StepDesktop, StepReturns, To, InStep, sessionVars, Sample, InTurn, Knows, Open,
       Client, LoopTypes
  <2>3. Given(p)'
    BY DEF StepDesktop, StepReturns, To, InStep, sessionVars, Sample, InTurn, Knows, Given, Open,
       Client, LoopTypes
  <2> QED
    BY <2>1, <2>2, <2>3 DEF Sample
<1>5. ASSUME NEW q \in Samples, q # p PROVE Kept(q)
  BY <1>5 DEF StepDesktop, StepReturns, To, InStep, sessionVars, Kept, LoopTypes
<1> QED
  BY <1>1, <1>2, <1>3, <1>4, <1>5, Stays

-------------------------------------------------------------------------------
(* Who has a host, and from where.                                           *)

PoolTypes ==
    /\ pools \in Seq([Hosts -> Nat]) /\ provisioner \in 0 .. Len(pools)
    /\ asked \in [Samples -> Nat]
    /\ lease \in [Samples -> Hosts \cup {NoHost}]
    /\ episodes \subseteq Samples /\ lost \subseteq Hosts
    /\ provisioner = 0 <=> Len(pools) = 0
    /\ kind # "desktop" => Len(pools) = 0
    /\ Len(pools) = 0 => lost = {} /\ \A p \in Samples : lease[p] = NoHost

\* An episode has a host from the lease on, until it ends.
Lends(p) ==
    kind = "desktop" =>
        /\ phase[p] \in {"begin", "build", "acquire"} => lease[p] = NoHost
        /\ phase[p] = "acquire" => asked[p] \in 1 .. Len(pools)
        /\ Open(p) /\ phase[p] \notin {"begin", "build", "acquire"} => lease[p] \in Hosts

\* A host is used once for every pool that was built.
Counted(h) ==
    LET uses == Cardinality(Free(h)) + Cardinality(Leased(h))
    IN  /\ IsFiniteSet(Free(h))
        /\ uses <= Len(pools)
        /\ Len(pools) = 1 => uses + (IF h \in lost THEN 1 ELSE 0) = 1

Hosting ==
    /\ PoolTypes
    /\ \A p \in Samples : Lends(p)
    /\ \A h \in Hosts : Counted(h)

\* The places of a host that are free in pools P.
In(P, h) == UNION {{k} \X (1 .. P[k][h]) : k \in 1 .. Len(P)}

\* A member of the set that is counted.
LEMMA IsIn ==
    ASSUME NEW P, NEW h, NEW x
    PROVE  x \in In(P, h) <=> \E k \in 1 .. Len(P) : \E i \in 1 .. P[k][h] : x = <<k, i>>
BY DEF In

\* P and Q differ in one place of one host.
Differ(P, Q, a, g) ==
    /\ P \in Seq([Hosts -> Nat]) /\ Q \in Seq([Hosts -> Nat]) /\ Len(P) = Len(Q)
    /\ a \in 1 .. Len(P) /\ g \in Hosts
    /\ \A k \in 1 .. Len(P), h \in Hosts :
         P[k][h] = IF k = a /\ h = g THEN Q[k][h] + 1 ELSE Q[k][h]

\* A host is counted once less when one pool gives it up.
LEMMA OnePlace ==
    ASSUME NEW P, NEW Q, NEW a, NEW g, Differ(P, Q, a, g)
    PROVE  /\ <<a, P[a][g]>> \in In(P, g)
           /\ \A h \in Hosts : In(Q, h) = IF h = g THEN In(P, h) \ {<<a, P[a][g]>>} ELSE In(P, h)
<1> DEFINE x == <<a, P[a][g]>>
<1>1. \A k \in 1 .. Len(P), h \in Hosts : P[k][h] \in Nat /\ Q[k][h] \in Nat
  BY DEF Differ
<1>2. x \in In(P, g)
  <2>1. P[a][g] \in 1 .. P[a][g] /\ a \in 1 .. Len(P)
    BY <1>1 DEF Differ
  <2> QED
    BY <2>1, IsIn
<1>3. ASSUME NEW h \in Hosts, NEW y
      PROVE  y \in In(Q, h) <=> y \in (IF h = g THEN In(P, h) \ {x} ELSE In(P, h))
  <2>1. y \in In(P, h) <=> \E k \in 1 .. Len(P) : \E i \in 1 .. P[k][h] : y = <<k, i>>
    BY IsIn
  <2>2. y \in In(Q, h) <=> \E k \in 1 .. Len(P) : \E i \in 1 .. Q[k][h] : y = <<k, i>>
    <3>1. Len(Q) = Len(P)
      BY DEF Differ
    <3> QED
      BY <3>1, IsIn
  <2>3. CASE h # g
    BY <2>1, <2>2, <2>3 DEF Differ
  <2>4. CASE h = g
    <3>1. \A k \in 1 .. Len(P) : k # a => 1 .. Q[k][h] = 1 .. P[k][h]
      BY DEF Differ
    <3>2. 1 .. Q[a][h] = (1 .. P[a][h]) \ {P[a][h]}
      BY <1>1, <2>4 DEF Differ
    <3>3. ASSUME NEW k \in 1 .. Len(P), NEW i, y = <<k, i>>
          PROVE  i \in 1 .. Q[k][h] <=> i \in 1 .. P[k][h] /\ y # x
      <4>1. y = x <=> k = a /\ i = P[a][h]
        BY <3>3, <2>4
      <4> QED
        BY <3>1, <3>2, <4>1
    <3>4. y \in In(Q, h) <=> y \in In(P, h) /\ y # x
      BY <2>1, <2>2, <3>3
    <3> QED
      BY <3>4, <2>4
  <2> QED
    BY <2>3, <2>4
<1> QED
  BY <1>2, <1>3

\* A use of a host that takes none of another away, or adds one.
LEMMA Fewer ==
    ASSUME NEW S, IsFiniteSet(S), NEW x, x \in S
    PROVE  IsFiniteSet(S \ {x}) /\ Cardinality(S \ {x}) = Cardinality(S) - 1
           /\ Cardinality(S) \in Nat /\ Cardinality(S \ {x}) \in Nat
<1>1. IsFiniteSet(S \ {x}) /\ Cardinality(S \ {x}) = Cardinality(S) - 1
  BY FS_RemoveElement, Zenon
<1> QED
  BY <1>1, FS_CardinalityType

\* One more member.
LEMMA More ==
    ASSUME NEW S, IsFiniteSet(S), NEW x, x \notin S
    PROVE  IsFiniteSet(S \cup {x}) /\ Cardinality(S \cup {x}) = Cardinality(S) + 1
           /\ Cardinality(S) \in Nat /\ Cardinality(S \cup {x}) \in Nat
<1>1. IsFiniteSet(S \cup {x}) /\ Cardinality(S \cup {x}) = Cardinality(S) + 1
  BY FS_AddElement, Zenon
<1> QED
  BY <1>1, FS_CardinalityType

\* As many samples lease a host as there are, at most.
LEMMA FewLease ==
    ASSUME NEW h PROVE IsFiniteSet(Leased(h)) /\ Cardinality(Leased(h)) \in Nat
<1>1. Leased(h) \subseteq Samples
  BY DEF Leased
<1>2. IsFiniteSet(Leased(h))
  BY <1>1, RolloutAssumption, FS_Subset
<1> QED
  BY <1>2, FS_CardinalityType

\* Nothing happens to a host whose places and leases stay.
LEMMA Idle ==
    ASSUME NEW h, Counted(h), Free(h)' = Free(h), Leased(h)' = Leased(h),
           Len(pools)' = Len(pools), (h \in lost') <=> (h \in lost)
    PROVE  Counted(h)'
BY DEF Counted

\* A host is leased: a place less, a lease more.
LEMMA Leases ==
    ASSUME PoolTypes, NEW p \in Samples, Lends(p), \A h \in Hosts : Counted(h), kind = "desktop",
           Acquire(p)
    PROVE  \A h \in Hosts : Counted(h)'
<1>1. PICK g \in Hosts :
         /\ pools[asked[p]][g] > 0
         /\ pools' = [pools EXCEPT ![asked[p]][g] = @ - 1]
         /\ lease' = [lease EXCEPT ![p] = g]
  BY DEF Acquire
<1> DEFINE a == asked[p]
<1>2. a \in 1 .. Len(pools) /\ lease[p] = NoHost /\ lost' = lost
  BY DEF Acquire, Lends
<1>3. pools' \in Seq([Hosts -> Nat]) /\ Len(pools') = Len(pools)
  BY <1>1, <1>2 DEF PoolTypes
<1>4. Differ(pools, pools', a, g)
  BY <1>1, <1>2, <1>3, SMTT(60) DEF PoolTypes, Differ
<1>5. \A h \in Hosts : Leased(h)' = IF h = g THEN Leased(h) \cup {p} ELSE Leased(h)
  BY <1>1, <1>2, DesktopAssumption DEF PoolTypes, Leased
<1>6. p \notin Leased(g)
  BY <1>2, DesktopAssumption DEF Leased
<1> DEFINE x == <<a, pools[a][g]>>
<1>7. \A h \in Hosts : Free(h) = In(pools, h) /\ Free(h)' = In(pools', h)
  BY DEF Free, In
<1>8. /\ x \in Free(g)
      /\ \A h \in Hosts : Free(h)' = IF h = g THEN Free(h) \ {x} ELSE Free(h)
  BY <1>4, <1>7, OnePlace
<1>9. SUFFICES ASSUME NEW h \in Hosts PROVE Counted(h)'
  OBVIOUS
<1>10. CASE h # g
  BY <1>3, <1>5, <1>8, <1>10, <1>2, Idle
<1>11. CASE h = g
  <2>1. Cardinality(Free(g))' = Cardinality(Free(g)) - 1 /\ IsFiniteSet(Free(g))'
        /\ Cardinality(Free(g)) \in Nat
    BY <1>8, Fewer DEF Counted
  <2>2. Cardinality(Leased(g))' = Cardinality(Leased(g)) + 1 /\ Cardinality(Leased(g)) \in Nat
    BY <1>5, <1>6, FewLease, More
  <2>3. Cardinality(Free(g))' + Cardinality(Leased(g))' = Cardinality(Free(g)) + Cardinality(Leased(g))
    BY <2>1, <2>2
  <2> QED
    BY <1>2, <1>3, <1>11, <2>1, <2>3 DEF Counted
<1> QED
  BY <1>10, <1>11

\* A host is returned: a lease less, a place more, in the pool there is now.
LEMMA Returns ==
    ASSUME PoolTypes, NEW p \in Samples, lease[p] \in Hosts, \A h \in Hosts : Counted(h),
           Stop(p)
    PROVE  \A h \in Hosts : Counted(h)'
<1>g. PICK g \in Hosts : g = lease[p]
  OBVIOUS
<1> DEFINE a == provisioner
           x == <<a, pools'[a][g]>>
<1>1. a \in 1 .. Len(pools) /\ lost' = lost
  BY DesktopAssumption DEF PoolTypes, Stop
<1>2. pools' \in Seq([Hosts -> Nat]) /\ Len(pools') = Len(pools)
  BY <1>1 DEF PoolTypes, Stop
<1>3. Differ(pools', pools, a, g)
  BY <1>g, <1>1, <1>2, SMTT(60) DEF PoolTypes, Stop, Differ
<1>4. \A h \in Hosts : Free(h) = In(pools, h) /\ Free(h)' = In(pools', h)
  BY DEF Free, In
<1>5. /\ x \in Free(g)'
      /\ \A h \in Hosts : Free(h) = IF h = g THEN Free(h)' \ {x} ELSE Free(h)'
  BY <1>3, <1>4, OnePlace
<1>6. x \notin Free(g) /\ Free(g)' = Free(g) \cup {x}
  BY <1>5
<1>7. \A h \in Hosts : Leased(h)' = IF h = g THEN Leased(h) \ {p} ELSE Leased(h)
  BY <1>g, DesktopAssumption DEF PoolTypes, Leased, Stop
<1>8. p \in Leased(g)
  BY <1>g DEF Leased
<1>9. SUFFICES ASSUME NEW h \in Hosts PROVE Counted(h)'
  OBVIOUS
<1>10. CASE h # g
  BY <1>1, <1>2, <1>5, <1>7, <1>10, Idle
<1>11. CASE h = g
  <2>1. Cardinality(Free(g))' = Cardinality(Free(g)) + 1 /\ IsFiniteSet(Free(g))'
        /\ Cardinality(Free(g)) \in Nat
    <3>1. IsFiniteSet(Free(g))
      BY DEF Counted
    <3> HIDE DEF x
    <3> QED
      BY <1>6, <3>1, More
  <2>2. Cardinality(Leased(g))' = Cardinality(Leased(g)) - 1 /\ Cardinality(Leased(g)) \in Nat
    BY <1>7, <1>8, FewLease, Fewer
  <2>3. Cardinality(Free(g))' + Cardinality(Leased(g))' = Cardinality(Free(g)) + Cardinality(Leased(g))
    BY <2>1, <2>2
  <2> QED
    BY <1>1, <1>2, <1>11, <2>1, <2>3 DEF Counted
<1> QED
  BY <1>10, <1>11

\* A pool is built: one place more for every host.
LEMMA Builds ==
    ASSUME PoolTypes, NEW p \in Samples, \A h \in Hosts : Counted(h), BuildProvisioner(p)
    PROVE  \A h \in Hosts : Counted(h)'
<1> DEFINE n == Len(pools)
<1>1. pools' = Append(pools, Full) /\ lease' = lease /\ lost' = lost
  BY DEF BuildProvisioner
<1>2. pools \in Seq([Hosts -> Nat]) /\ Full \in [Hosts -> Nat] /\ n \in Nat
  BY DEF PoolTypes, Full
<1>3. /\ Len(pools') = n + 1 /\ pools'[n + 1] = Full
      /\ \A k \in 1 .. n : pools'[k] = pools[k]
  BY <1>1, <1>2
<1>4. SUFFICES ASSUME NEW h \in Hosts PROVE Counted(h)'
  OBVIOUS
<1> DEFINE x == <<n + 1, 1>>
<1>5. x \notin Free(h) /\ Free(h)' = Free(h) \cup {x}
  <2>1. Free(h) = In(pools, h) /\ Free(h)' = In(pools', h)
    BY DEF Free, In
  <2>2. x \notin Free(h)
    BY <1>2, <2>1, IsIn
  <2>3. ASSUME NEW y PROVE y \in Free(h)' <=> y \in Free(h) \cup {x}
    <3>1. y \in Free(h)' <=> \E k \in 1 .. n + 1 : \E i \in 1 .. pools'[k][h] : y = <<k, i>>
      BY <1>3, <2>1, IsIn
    <3>2. y \in Free(h) <=> \E k \in 1 .. n : \E i \in 1 .. pools[k][h] : y = <<k, i>>
      BY <2>1, IsIn
    <3>3. \A i : i \in 1 .. pools'[n + 1][h] <=> i = 1
      BY <1>3 DEF Full
    <3>4. \A k : k \in 1 .. n + 1 <=> k \in 1 .. n \/ k = n + 1
      BY <1>2
    <3> QED
      BY <1>3, <3>1, <3>2, <3>3, <3>4
  <2> QED
    BY <2>2, <2>3
<1>6. Cardinality(Free(h))' = Cardinality(Free(h)) + 1 /\ IsFiniteSet(Free(h))'
      /\ Cardinality(Free(h)) \in Nat
  BY <1>5, More DEF Counted
<1>7. Leased(h)' = Leased(h) /\ Cardinality(Leased(h)) \in Nat
  BY <1>1, FewLease DEF Leased
<1>8. n = 0 => h \notin lost'
  BY <1>1 DEF PoolTypes
<1> QED
  BY <1>1, <1>2, <1>3, <1>6, <1>7, <1>8 DEF Counted

\* An episode that was not stored loses its host.
LEMMA Loses ==
    ASSUME PoolTypes, NEW p \in Samples, lease[p] \in Hosts, \A h \in Hosts : Counted(h),
           pools' = pools, lost' = lost \cup {lease[p]},
           lease' = [lease EXCEPT ![p] = NoHost]
    PROVE  \A h \in Hosts : Counted(h)'
<1>g. PICK g \in Hosts : g = lease[p]
  OBVIOUS
<1>1. \A h \in Hosts : Leased(h)' = IF h = g THEN Leased(h) \ {p} ELSE Leased(h)
  BY <1>g, DesktopAssumption DEF PoolTypes, Leased
<1>2. p \in Leased(g)
  BY <1>g DEF Leased
<1>3. \A h \in Hosts : Free(h)' = Free(h)
  BY DEF Free
<1>4. SUFFICES ASSUME NEW h \in Hosts PROVE Counted(h)'
  OBVIOUS
<1>5. CASE h # g
  BY <1>g, <1>1, <1>3, <1>5, Idle
<1>6. CASE h = g
  <2>1. Cardinality(Leased(g))' = Cardinality(Leased(g)) - 1 /\ Cardinality(Leased(g)) \in Nat
        /\ Cardinality(Leased(g))' \in Nat
    BY <1>1, <1>2, FewLease, Fewer
  <2>2. Cardinality(Free(g)) \in Nat /\ Free(g)' = Free(g)
    BY <1>3, FS_CardinalityType DEF Counted
  <2>3. Len(pools) \in Nat /\ Len(pools)' = Len(pools) /\ g \in lost'
    BY <1>g DEF PoolTypes
  <2>4. Counted(g)
    OBVIOUS
  <2> QED
    BY <1>6, <2>1, <2>2, <2>3, <2>4 DEF Counted
<1> QED
  BY <1>5, <1>6

\* A step in which the provisioners and the leases have no part.
Remains(q) ==
    kind = "desktop" =>
        /\ phase'[q] \in {"begin", "build", "acquire"} => phase'[q] = phase[q]
        /\ Open(q)' /\ phase'[q] \notin {"begin", "build", "acquire"} =>
               Open(q) /\ phase[q] \notin {"begin", "build", "acquire"}

\* Steps that touch no pool.
LEMMA HostsStay ==
    ASSUME Hosting, UNCHANGED desktopVars, kind' = kind, \A q \in Samples : Remains(q)
    PROVE  Hosting'
<1>1. PoolTypes'
  BY DEF Hosting, PoolTypes, desktopVars
<1>2. \A q \in Samples : Lends(q)'
  BY DEF Hosting, Lends, Remains, desktopVars
<1>3. \A h \in Hosts : Free(h)' = Free(h) /\ Leased(h)' = Leased(h)
  BY DEF Free, Leased, desktopVars
<1>4. \A h \in Hosts : Counted(h)'
  BY <1>3, Idle DEF Hosting, desktopVars
<1> QED
  BY <1>1, <1>2, <1>4 DEF Hosting

\* The loop has no part in them, and neither have the sessions.
LEMMA HostsStayInLoop ==
    ASSUME Episodes, Hosting, LoopNext, UNCHANGED <<sessionVars, desktopVars>>
    PROVE  Hosting'
<1>1. kind' = kind
  BY DEF LoopNext, GenerateBatch, GenerateBatchError, Generate, GenerateError, Observe
<1>2. ASSUME NEW q \in Samples PROVE Remains(q)
  <2>1. CASE GenerateBatch \/ GenerateBatchError
    BY <2>1 DEF GenerateBatch, GenerateBatchError, Remains
  <2>2. CASE \E p \in Samples : Generate(p) \/ GenerateError(p) \/ Observe(p)
    BY <2>2 DEF Generate, GenerateError, Observe, End, To, Remains, Open, Episodes, LoopTypes
  <2> QED
    BY <2>1, <2>2 DEF LoopNext
<1> QED
  BY <1>1, <1>2, HostsStay

\* Steps of a session touch none.
LEMMA HostsStayInSession ==
    ASSUME Episodes, Hosting, SessionNext, UNCHANGED desktopVars
    PROVE  Hosting'
<1>1. CASE \E p \in Samples : ProcessOne(p)
  <2>1. PICK p \in Samples : ProcessOne(p)
    BY <1>1
  <2>2. InTurn(p)
    BY DEF Episodes, Sample
  <2>3. kind # "desktop"
    BY <2>1, <2>2 DEF ProcessOne, StartSession, ResumeSession, PollReady, PollRaises,
       AfterStartRaises, Act, Exec, Executed, Decide, FinishSession, Graded, FinishRaises,
       Sessions, InTurn, Client
  <2>4. kind' = kind
    BY <2>1 DEF ProcessOne, StartSession, ResumeSession, PollReady, PollRaises,
       AfterStartRaises, Act, Exec, Executed, Decide, FinishSession, Graded, FinishRaises,
       FailsAndDeletes, Fails, StepReturns
  <2> QED
    BY <2>3, <2>4, HostsStay DEF Remains
<1>2. CASE \E s \in Sids : Executor(s) \/ Reaped(s)
  <2>1. UNCHANGED loopVars
    BY <1>2 DEF Executor, Bootstrapped, CommandEnds, Verify, Reaped
  <2> QED
    BY <2>1, HostsStay DEF Remains, Open, loopVars
<1> QED
  BY <1>1, <1>2 DEF SessionNext

\* What a step of an episode does to the leases.
LEMMA EpisodeSteps ==
    ASSUME Episodes, Hosting, NEW p \in Samples, DesktopSample(p)
    PROVE  Hosting'
<1> USE DEF Hosting
<1>t. phase \in [Samples -> Phases] /\ over \in [Samples -> BOOLEAN]
  BY DEF Episodes, LoopTypes
<1>i. InTurn(p)
  BY DEF Episodes, Sample
<1>k. kind = "desktop" /\ kind' = kind
  BY <1>i DEF DesktopSample, GetProvisioner, BuildProvisioner, Acquire, AcquireTimesOut,
     Setup, SetupRaises, StepDesktop, StepReturns, InTurn, Beginning
<1>1. CASE GetProvisioner(p)
  <2>1. PoolTypes'
    BY <1>k, <1>1 DEF GetProvisioner, PoolTypes
  <2>2. ASSUME NEW q \in Samples PROVE Lends(q)'
    <3>1. Lends(q) /\ PoolTypes /\ UNCHANGED <<kind, over, pools, provisioner, lease>>
      BY <1>1 DEF GetProvisioner
    <3>2. CASE q # p
      <4>1. phase'[q] = phase[q] /\ asked'[q] = asked[q]
        BY <1>1, <1>t, <3>1, <3>2 DEF GetProvisioner, PoolTypes, To
      <4> QED
        BY <3>1, <4>1 DEF Lends, Open
    <3>3. CASE q = p
      <4>1. /\ phase[p] = "begin" /\ phase'[p] = IF provisioner = 0 THEN "build" ELSE "acquire"
            /\ provisioner # 0 => asked'[p] = provisioner
        BY <1>1, <1>t, <3>1 DEF GetProvisioner, PoolTypes, To
      <4>2. lease'[p] = NoHost
        BY <1>k, <3>1, <3>3, <4>1 DEF Lends
      <4>3. pools' = pools /\ provisioner \in 0 .. Len(pools) /\ Len(pools) \in Nat
        BY <3>1 DEF PoolTypes
      <4> QED
        BY <3>3, <4>1, <4>2, <4>3 DEF Lends, Open
    <3> QED
      BY <3>2, <3>3
  <2>3. \A h \in Hosts : Free(h)' = Free(h) /\ Leased(h)' = Leased(h)
    BY <1>1 DEF GetProvisioner, Free, Leased
  <2> QED
    BY <1>1, <2>1, <2>2, <2>3, Idle DEF GetProvisioner
<1>2. CASE BuildProvisioner(p)
  <2>1. PoolTypes'
    BY <1>k, <1>2 DEF BuildProvisioner, PoolTypes, Full
  <2>2. \A q \in Samples : Lends(q)'
    BY <1>k, <1>t, <1>2 DEF BuildProvisioner, PoolTypes, Lends, Open, To
  <2> QED
    BY <1>2, <2>1, <2>2, Builds
<1>3. CASE Acquire(p)
  <2>1. PoolTypes'
    BY <1>k, <1>3 DEF Acquire, PoolTypes, Lends
  <2>2. \A q \in Samples : Lends(q)'
    BY <1>k, <1>t, <1>3 DEF Acquire, PoolTypes, Lends, Open, To
  <2> QED
    BY <1>k, <1>3, <2>1, <2>2, Leases
<1>4. CASE AcquireTimesOut(p)
  <2>1. \A q \in Samples : Remains(q)
    BY <1>t, <1>4 DEF AcquireTimesOut, End, To, Remains, Open
  <2> QED
    BY <1>k, <1>4, <2>1, HostsStay DEF AcquireTimesOut
<1>5. CASE Setup(p)
  <2>1. PoolTypes'
    BY <1>k, <1>5 DEF Setup, PoolTypes
  <2>2. \A q \in Samples : Lends(q)'
    BY <1>k, <1>t, <1>5 DEF Setup, PoolTypes, Lends, Open, To
  <2>3. \A h \in Hosts : Free(h)' = Free(h) /\ Leased(h)' = Leased(h)
    BY <1>5 DEF Setup, Free, Leased
  <2> QED
    BY <1>5, <2>1, <2>2, <2>3, Idle DEF Setup
<1>6. CASE SetupRaises(p)
  <2>1. lease[p] \in Hosts
    BY <1>k, <1>6 DEF SetupRaises, Lends, Open
  <2>2. Len(pools) # 0
    BY <2>1, DesktopAssumption DEF PoolTypes
  <2>3. PoolTypes'
    BY <1>k, <1>6, <2>1, <2>2 DEF SetupRaises, PoolTypes
  <2>4. \A q \in Samples : Lends(q)'
    BY <1>k, <1>t, <1>6 DEF SetupRaises, PoolTypes, Lends, Open, End, To
  <2>5. CASE UNCHANGED <<lost, lease>>
    <3>1. \A h \in Hosts : Free(h)' = Free(h) /\ Leased(h)' = Leased(h)
      BY <1>6, <2>5 DEF SetupRaises, Free, Leased
    <3> QED
      BY <1>6, <2>3, <2>4, <2>5, <3>1, Idle DEF SetupRaises
  <2>6. CASE lost' = lost \cup {lease[p]} /\ lease' = [lease EXCEPT ![p] = NoHost]
    BY <1>6, <2>1, <2>3, <2>4, <2>6, Loses DEF SetupRaises
  <2> QED
    BY <1>6, <2>5, <2>6 DEF SetupRaises
<1>7. CASE StepDesktop(p)
  <2>1. CASE StepReturns(p, FALSE, 0) /\ UNCHANGED desktopVars
    <3>1. \A q \in Samples : Remains(q)
      BY <1>t, <1>7, <2>1 DEF StepDesktop, StepReturns, To, InStep, Remains, Open
    <3> QED
      BY <1>k, <2>1, <3>1, HostsStay
  <2>2. CASE \E r \in 0 .. 1 : StepReturns(p, TRUE, r) /\ Stop(p)
    <3>1. lease[p] \in Hosts
      BY <1>k, <1>7 DEF StepDesktop, InStep, Lends, Open
    <3>2. provisioner \in 1 .. Len(pools)
      BY <3>1, DesktopAssumption DEF PoolTypes
    <3>3. PoolTypes'
      BY <1>k, <2>2, <3>1, <3>2 DEF Stop, PoolTypes
    <3>4. Len(pools') = Len(pools)
      BY <2>2, <3>2 DEF Stop, PoolTypes
    <3>5. \A q \in Samples : Lends(q)'
      BY <1>k, <1>t, <2>2, <3>4 DEF StepReturns, Stop, PoolTypes, Lends, Open, To
    <3> QED
      BY <2>2, <3>1, <3>3, <3>5, Returns
  <2> QED
    BY <1>7, <2>1, <2>2 DEF StepDesktop
<1> QED
  BY <1>1, <1>2, <1>3, <1>4, <1>5, <1>6, <1>7 DEF DesktopSample

-------------------------------------------------------------------------------
(* Theorems.                                                                 *)

Rolling == Episodes /\ Hosting

\* Nothing has begun.
LEMMA RollingAtFirst == Init => Rolling
<1> SUFFICES ASSUME Init PROVE Rolling
  OBVIOUS
<1> USE DEF Init, LoopInit, SessionInit, DesktopInit, ServiceInit
<1>1. LoopTypes
  BY RolloutAssumption DEF LoopTypes, Phases, Endings
<1>2. SessionTypes
  BY <1>1, RolloutAssumption DEF SessionTypes, Statuses, LoopTypes
<1>3. Owned /\ Served
  BY DEF Owned, Served
<1>4. ASSUME NEW p \in Samples PROVE Sample(p)
  BY <1>1, RolloutAssumption DEF LoopTypes, Sample, InTurn, Knows, Given, Open, Client, Beginning
<1>5. PoolTypes
  BY DEF PoolTypes
<1>6. ASSUME NEW p \in Samples PROVE Lends(p)
  BY DEF Lends, Open
<1>7. ASSUME NEW h \in Hosts PROVE Counted(h)
  <2>1. Free(h) = {} /\ Leased(h) = {}
    BY DesktopAssumption DEF Free, Leased
  <2>2. IsFiniteSet({}) /\ Cardinality({}) = 0
    BY FS_EmptySet
  <2> QED
    BY <2>1, <2>2 DEF Counted
<1> QED
  BY <1>1, <1>2, <1>3, <1>4, <1>5, <1>6, <1>7 DEF Rolling, Episodes, Hosting

\* Every step of the loop, of the sessions and of the desktops.
LEMMA RollingStays == Rolling /\ [Next]_vars => Rolling'
<1> SUFFICES ASSUME Rolling, [Next]_vars PROVE Rolling'
  OBVIOUS
<1> USE DEF Rolling
<1>1. CASE LoopNext /\ UNCHANGED <<sessionVars, desktopVars>>
  <2>1. Episodes'
    BY <1>1, GeneratesBatch, FailsBatch, Generates, FailsToGenerate, Observes DEF LoopNext
  <2> QED
    BY <1>1, <2>1, HostsStayInLoop
<1>2. CASE SessionNext /\ UNCHANGED desktopVars
  <2>1. ASSUME NEW p \in Samples, ProcessOne(p) PROVE Episodes'
    BY <2>1, Starts, Resumes, Polls, PollsInVain, AfterStarts, Acts, Execs, Execd, Decides,
       Finishes, Grades, FinishesInVain DEF ProcessOne
  <2>2. ASSUME NEW s \in Sids, Executor(s) \/ Reaped(s) PROVE Episodes'
    BY <2>2, Boots, Ends, Verifies, Reaps DEF Executor
  <2>3. Episodes'
    BY <1>2, <2>1, <2>2 DEF SessionNext
  <2> QED
    BY <1>2, <2>3, HostsStayInSession
<1>3. CASE DesktopNext /\ UNCHANGED sessionVars
  <2>1. PICK p \in Samples : DesktopSample(p)
    BY <1>3 DEF DesktopNext
  <2>2. Episodes'
    BY <1>3, <2>1, GetsProvisioner, BuildsProvisioner, Acquires, TimesOut, SetsUp,
       SetUpRaises, StepsDesktop DEF DesktopSample
  <2> QED
    BY <2>1, <2>2, EpisodeSteps
<1>4. CASE UNCHANGED vars
  <2>1. UNCHANGED loopVars /\ UNCHANGED sessionVars /\ UNCHANGED desktopVars
    BY <1>4 DEF vars
  <2>2. LoopTypes' /\ SessionTypes' /\ Owned' /\ Served'
    BY <2>1 DEF Episodes, LoopTypes, SessionTypes, Owned, Served, loopVars, sessionVars
  <2>3. \A p \in Samples : Kept(p)
    BY <2>1 DEF Kept, loopVars, sessionVars
  <2>4. Episodes'
    BY <2>1, <2>2, <2>3, Stays DEF Episodes, loopVars
  <2> QED
    BY <2>1, <2>4, HostsStay DEF Remains, Open, loopVars
<1> QED
  BY <1>1, <1>2, <1>3, <1>4 DEF Next

\* The rollout keeps to both, whatever the executor, the reaper and the actor do.
THEOREM RollingAlways == Spec => []Rolling
BY RollingAtFirst, RollingStays, PTL DEF Spec

\* Whatever the executor and the reaper do and whichever answers are lost, a
\* multi-turn episode is graded once, by its own session and with no command of
\* the agent running but one answered as timed out, and the loop does not take its
\* turns away.
THEOREM EpisodesAreSound == Spec => []SessionsSound
<1>1. Rolling => SessionsSound
  <2> SUFFICES ASSUME Rolling PROVE SessionsSound
    OBVIOUS
  <2>1. TypeOK
    BY DEF Rolling, Episodes, LoopTypes, SessionTypes, Hosting, PoolTypes, TypeOK
  <2>2. HarnessAlone
    BY DEF Rolling, Episodes, Served, HarnessAlone
  <2>3. RewardEarned
    BY DEF Rolling, Episodes, Sample, InTurn, Given, Open, RewardEarned, Sessions, Done
  <2>4. NotCutOff
    BY DEF Rolling, Episodes, Sample, InTurn, NotCutOff
  <2> QED
    BY <2>1, <2>2, <2>3, <2>4 DEF SessionsSound
<1> QED
  BY <1>1, RollingAlways, PTL

\* A host is free, or leased to one episode, or lost, once for every provisioner
\* that the first episodes built, however many samples race for it.
THEOREM HostsAreSound == Spec => []HostsSound
<1>1. Rolling => HostsSound
  BY DEF Rolling, Hosting, Counted, HostsSound
<1> QED
  BY <1>1, RollingAlways, PTL

===============================================================================
