---------------------- MODULE SandboxExecutor_proofs ----------------------
(***************************************************************************)
(* Theorems about the sandbox executor, for any number of sessions, tasks    *)
(* and images, any size of the cache, and with docker timeouts anywhere.     *)
(***************************************************************************)
EXTENDS SandboxExecutor, FiniteSetTheorems, TLAPS

-------------------------------------------------------------------------------
(* Steps of the same kind.                                                   *)

\* A request that leaves the session, its container and its image in place.
Talk(s) ==
    SessionExec(s) \/ SessionExport(s) \/ SessionExecEnd(s) \/ SessionFinish(s) \/ Age(s)

\* What may take a session's record away: finish, DELETE and the reaper.
End(s) == SessionFinishEnd(s) \/ SessionDelete(s) \/ Reap(s)

Scan == ReapScan \/ ReapDone

Start(s) == \E i \in Images : SessionStart(s, i)
Enqueue(t) == \E i \in (Images \ Built) \cup {NoImage} : Submit(t, i)

\* The steps of the executor, by the thread that takes them.
LEMMA NextSplits ==
    ASSUME Next
    PROVE  \/ \E s \in Sids : Start(s) \/ Talk(s) \/ End(s) \/ Bootstrap(s) \/ Teardown(s)
           \/ Scan
           \/ \E t \in Tasks : Enqueue(t) \/ Delete(t) \/ Execute(t)
BY DEF Next, Request, Reaper, Talk, End, Scan, Start, Enqueue

\* A record disappears only through Pop.
LEMMA EndEffect ==
    ASSUME NEW s \in Sids, End(s)
    PROVE  /\ \/ Recorded(s) /\ Pop(s)
              \/ UNCHANGED <<early, status, held, idle, tear>>
           /\ stale' \subseteq stale /\ reaping' \in {reaping, s}
           /\ call' \in {call, [call EXCEPT ![s].finish = FALSE]}
           /\ UNCHANGED <<execs, image, boot, containers, taskVars, cacheVars>>
<1>1. CASE SessionFinishEnd(s)
  BY <1>1 DEF SessionFinishEnd, reaperVars
<1>2. CASE SessionDelete(s)
  BY <1>2 DEF SessionDelete, reaperVars
<1>3. CASE Reap(s)
  BY <1>3 DEF Reap
<1> QED
  BY <1>1, <1>2, <1>3 DEF End

-------------------------------------------------------------------------------
(* Types.                                                                    *)

CacheTyped ==
    /\ inUse \in [Images -> Nat] /\ leaked \in [Images -> Nat]
    /\ lru \subseteq Images \X Images /\ present \subseteq Images

\* A session, and a task that is past its reservation, has an image.
ImageKnown ==
    /\ \A s \in Sids : status[s] # "none" => image[s] \in Images
    /\ \A t \in Tasks : work[t] \in {"reserve", "pull", "run", "ended"} => image[t] \in Images

\* A count that is lowered stays a number.
LEMMA DroppedTyped ==
    ASSUME CacheTyped, NEW i \in Images
    PROVE  Dropped(i) \in [Images -> Nat]
BY DEF CacheTyped, Dropped

\* The order of use stays one of images.
LEMMA TouchedTyped ==
    ASSUME CacheTyped, NEW i \in Images
    PROVE  Touched(i) \subseteq Images \X Images
<1>1. Without(lru, {i}) \subseteq Images \X Images
  <2>1. \A p : p \in Without(lru, {i}) => p \in lru
    BY Zenon DEF Without
  <2>2. lru \subseteq Images \X Images
    BY DEF CacheTyped
  <2> QED
    BY <2>1, <2>2, Zenon
<1>2. {<<j, i>> : j \in TrackedIn(lru) \cup {i}} \subseteq Images \X Images
  <2>1. TrackedIn(lru) \cup {i} \subseteq Images
    BY DEF TrackedIn
  <2>2. \A j \in Images : <<j, i>> \in Images \X Images
    OBVIOUS
  <2> QED
    BY <2>1, <2>2, Zenon
<1> QED
  BY <1>1, <1>2 DEF Touched

\* The cache keeps its type, whatever is done to it.
LEMMA CacheStep ==
    ASSUME CacheTyped, NEW i \in Images,
           \/ UNCHANGED cacheVars \/ Reserve(i) \/ Obtain(i) \/ ObtainFails(i)
           \/ Leak(i) \/ \E r \in BOOLEAN : Release(i, r)
    PROVE  CacheTyped'
<1>1. CASE UNCHANGED cacheVars
  BY <1>1 DEF cacheVars, CacheTyped
<1>2. CASE Reserve(i) \/ Obtain(i) \/ Leak(i)
  BY <1>2, TouchedTyped DEF Reserve, Obtain, Leak, CacheTyped
<1>3. CASE ObtainFails(i)
  BY <1>3, DroppedTyped DEF ObtainFails, CacheTyped
<1>4. CASE \E r \in BOOLEAN : Release(i, r)
  <2>1. PICK gone : /\ lru' = Without(Touched(i), gone)
                    /\ present' = present \ gone
                    /\ inUse' = Dropped(i) /\ leaked' = leaked
    BY <1>4 DEF Release
  <2> QED
    BY <2>1, DroppedTyped, TouchedTyped DEF CacheTyped, Without
<1> QED
  BY <1>1, <1>2, <1>3, <1>4

\* The image that a session or a task works on, where it does.
LEMMA SessionsTyped ==
    ASSUME TypeOK, ImageKnown, NEW s \in Sids,
           Start(s) \/ Talk(s) \/ End(s)
    PROVE  TypeOK'
<1>1. CASE Start(s)
  <2>1. PICK i \in Images : SessionStart(s, i)
    BY <1>1 DEF Start
  <2>2. image' \in [Sids \cup Tasks -> Images \cup {NoImage}]
    BY <2>1 DEF SessionStart, TypeOK
  <2>3. /\ status' \in [Sids -> {"none", "starting", "ready", "finishing", "failed", "gone"}]
        /\ boot' \in [Sids -> {"none", "begin", "pull", "record", "run", "settle", "fail",
                               "fail0", "unwind", "unwound", "undo", "clean",
                               "release", "done", "dead"}]
        /\ UNCHANGED <<early, held, idle, call, execs, tear, containers, reaperVars,
                       taskVars, cacheVars>>
    BY <2>1 DEF SessionStart, TypeOK
  <2>4. CacheTyped'
    BY <2>3 DEF TypeOK, CacheTyped, cacheVars
  <2> QED
    BY <2>2, <2>3, <2>4 DEF TypeOK, CacheTyped, reaperVars, taskVars
<1>2. CASE SessionExec(s) \/ SessionExport(s)
  <2>1. execs' \in 0 .. MaxExecs
    BY <1>2, SandboxAssumption DEF SessionExec, SessionExport, TypeOK
  <2>2. idle' \in [Sids -> BOOLEAN]
    BY <1>2 DEF SessionExec, SessionExport, TypeOK
  <2>4. call' \in [Sids -> [execs : Nat, finish : BOOLEAN]]
    <3>1. call \in [Sids -> [execs : Nat, finish : BOOLEAN]]
      BY DEF TypeOK
    <3>2. call' = call \/ call' = [call EXCEPT ![s].execs = @ + 1]
      BY <1>2 DEF SessionExec, SessionExport
    <3>3. [call[s] EXCEPT !.execs = @ + 1] \in [execs : Nat, finish : BOOLEAN]
      BY <3>1
    <3> QED
      BY <3>1, <3>2, <3>3
  <2>3. UNCHANGED <<early, status, held, tear, image, boot, containers, reaperVars,
                    taskVars, cacheVars>>
    BY <1>2 DEF SessionExec, SessionExport
  <2> QED
    BY <2>1, <2>2, <2>3, <2>4 DEF TypeOK, reaperVars, taskVars, cacheVars
<1>3. CASE SessionFinish(s) \/ Age(s)
  BY <1>3, ZenonT(60) DEF SessionFinish, Age, TypeOK, reaperVars, taskVars, cacheVars
<1>4. CASE SessionExecEnd(s)
  <2>1. CacheTyped
    BY DEF TypeOK, CacheTyped
  <2>2. lru' \subseteq Images \X Images
    BY <1>4, <2>1, TouchedTyped DEF SessionExecEnd, CacheTyped, TrackedIn
  <2> QED
    BY <1>4, <2>2 DEF SessionExecEnd, TypeOK, reaperVars, taskVars
<1>5. CASE End(s)
  <2>1. /\ status' \in [Sids -> {"none", "starting", "ready", "finishing", "failed", "gone"}]
        /\ held' \in [Sids -> BOOLEAN] /\ idle' \in [Sids -> BOOLEAN]
        /\ tear' \in [Sids -> {"none", "rm", "rm_held", "release", "done", "dead"}]
        /\ early' \subseteq Images
    <3>1. CASE Recorded(s) /\ Pop(s)
      BY <3>1 DEF Pop, Recorded, TypeOK, ImageKnown
    <3>2. CASE UNCHANGED <<early, status, held, idle, tear>>
      BY <3>2 DEF TypeOK
    <3> QED
      BY <1>5, <3>1, <3>2, EndEffect
  <2>2. /\ stale' \subseteq stale /\ reaping' \in {reaping, s}
        /\ call' \in {call, [call EXCEPT ![s].finish = FALSE]}
        /\ UNCHANGED <<execs, image, boot, containers, taskVars, cacheVars>>
    BY <1>5, EndEffect
  <2>3. call' \in [Sids -> [execs : Nat, finish : BOOLEAN]]
    <3>1. call \in [Sids -> [execs : Nat, finish : BOOLEAN]]
      BY DEF TypeOK
    <3>2. [call[s] EXCEPT !.finish = FALSE] \in [execs : Nat, finish : BOOLEAN]
      BY <3>1
    <3> QED
      BY <2>2, <3>1, <3>2
  <2>4. UNCHANGED <<execs, image, boot, containers, taskVars, cacheVars>>
    BY <2>2
  <2>5. stale' \subseteq Sids /\ reaping' \in Sids \cup {Nobody}
    BY <2>2 DEF TypeOK
  <2> QED
    BY <2>1, <2>3, <2>4, <2>5 DEF TypeOK, taskVars, cacheVars
<1> QED
  BY <1>1, <1>2, <1>3, <1>4, <1>5 DEF Talk

\* The threads that remove a session.
LEMMA TeardownTyped ==
    ASSUME TypeOK, ImageKnown, NEW s \in Sids, image[s] \in Images, Teardown(s)
    PROVE  TypeOK'
<1>1. /\ tear' \in [Sids -> {"none", "rm", "rm_held", "release", "done", "dead"}]
      /\ containers' \subseteq containers
      /\ stale' \subseteq stale
      /\ UNCHANGED <<early, status, held, idle, call, execs, image, boot, reaping, taskVars>>
  BY DEF Teardown, TearRm, TearRmTimeout, TearRelease, TypeOK, reaperVars
<1>2. \/ UNCHANGED cacheVars \/ Leak(image[s])
      \/ \E r \in BOOLEAN : Release(image[s], r)
  BY DEF Teardown, TearRm, TearRmTimeout, TearRelease
<1>3. CacheTyped /\ CacheTyped'
  <2>1. CacheTyped
    BY DEF TypeOK, CacheTyped
  <2> QED
    BY <1>2, <2>1, CacheStep
<1> QED
  BY <1>1, <1>3 DEF TypeOK, CacheTyped, taskVars

\* The thread that starts a session.
LEMMA BootstrapTyped ==
    ASSUME TypeOK, ImageKnown, NEW s \in Sids, image[s] \in Images, Bootstrap(s)
    PROVE  TypeOK'
<1>1. CacheTyped
  BY DEF TypeOK, CacheTyped
<1>2. CacheTyped'
  <2>1. CASE BootRun(s)
    BY <1>1, <2>1 DEF BootRun, CacheTyped
  <2>2. CASE ~BootRun(s)
    <3>1. \/ UNCHANGED cacheVars \/ Reserve(image[s]) \/ Obtain(image[s])
          \/ ObtainFails(image[s]) \/ Leak(image[s])
          \/ \E r \in BOOLEAN : Release(image[s], r)
      BY <2>2 DEF Bootstrap, BootReserve, BootObtain, BootRecord, BootSettle, BootFail,
                  BootRm, BootRmTimeout, BootRelease
    <3> QED
      BY <1>1, <3>1, CacheStep
  <2> QED
    BY <2>1, <2>2
<1>3. /\ boot' \in [Sids -> {"none", "begin", "pull", "record", "run", "settle", "fail",
                             "fail0", "unwind", "unwound", "undo", "clean",
                               "release", "done", "dead"}]
      /\ status' \in [Sids -> {"none", "starting", "ready", "finishing", "failed", "gone"}]
      /\ held' \in [Sids -> BOOLEAN] /\ idle' \in [Sids -> BOOLEAN]
      /\ containers' \subseteq Sids
      /\ UNCHANGED <<early, call, execs, tear, image, reaperVars, taskVars>>
  <2>1. CASE BootReserve(s) \/ BootObtain(s)
    BY <2>1 DEF BootReserve, BootObtain, BootTo, TypeOK, sessionVars
  <2>2. CASE BootRecord(s)
    BY <2>2, ZenonT(60) DEF BootRecord, BootTo, TypeOK
  <2>3. CASE BootRun(s)
    BY <2>3 DEF BootRun, BootTo, TypeOK, sessionVars
  <2>4. CASE BootSettle(s)
    <3>1. CASE Recorded(s)
      BY <2>4, <3>1, ZenonT(60) DEF BootSettle, BootTo, TypeOK
    <3>2. CASE ~Recorded(s)
      BY <2>4, <3>2 DEF BootSettle, BootTo, TypeOK
    <3> QED
      BY <3>1, <3>2
  <2>5. CASE BootFail(s)
    <3>1. CASE Recorded(s)
      BY <2>5, <3>1, ZenonT(60) DEF BootFail, BootTo, TypeOK
    <3>2. CASE ~Recorded(s)
      BY <2>5, <3>2 DEF BootFail, BootTo, TypeOK
    <3> QED
      BY <3>1, <3>2
  <2>6. CASE BootRm(s) \/ BootRmTimeout(s) \/ \E r \in BOOLEAN : BootRelease(s, r)
    BY <2>6 DEF BootRm, Cleared, BootRmTimeout, BootRelease, BootTo, TypeOK, sessionVars
  <2> QED
    BY <2>1, <2>2, <2>3, <2>4, <2>5, <2>6 DEF Bootstrap
<1> QED
  BY <1>2, <1>3 DEF TypeOK, CacheTyped, reaperVars, taskVars

\* Tasks.
LEMMA TasksTyped ==
    ASSUME TypeOK, ImageKnown, NEW t \in Tasks,
           Enqueue(t) \/ Delete(t) \/ Execute(t)
    PROVE  TypeOK'
<1>1. CacheTyped
  BY DEF TypeOK, CacheTyped
<1>2. CASE Enqueue(t)
  <2>1. PICK i \in (Images \ Built) \cup {NoImage} : Submit(t, i)
    BY <1>2 DEF Enqueue
  <2>2. image' \in [Sids \cup Tasks -> Images \cup {NoImage}]
    BY <2>1 DEF Submit, TypeOK
  <2>3. tstatus' \in [Tasks -> {"none", "pending", "running", "completed", "failed", "gone"}]
    BY <2>1 DEF Submit, TypeOK
  <2>4. work' \in [Tasks -> {"none", "begin", "clone", "reserve", "pull", "run", "ended",
                             "completed", "failed", "lost", "done"}]
    BY <2>1 DEF Submit, WorkTo, TypeOK
  <2> QED
    BY <2>1, <2>2, <2>3, <2>4
       DEF Submit, TypeOK, sessionVars, reaperVars, cacheVars
<1>3. CASE Delete(t)
  BY <1>3 DEF Delete, TypeOK, sessionVars, reaperVars, cacheVars
<1>4. CASE Execute(t)
  <2>1. CacheTyped'
    <3>1. \/ UNCHANGED cacheVars
          \/ /\ image[t] \in Images
             /\ \/ Reserve(image[t]) \/ Obtain(image[t]) \/ ObtainFails(image[t])
                \/ \E r \in BOOLEAN : Release(image[t], r)
      BY <1>4 DEF Execute, TaskBegin, TaskClone, TaskReserve, TaskObtain, TaskFinal,
                  TaskRun, TaskRelease, ImageKnown
    <3> QED
      BY <1>1, <3>1, CacheStep DEF cacheVars, CacheTyped
  <2>2. /\ tstatus' \in [Tasks -> {"none", "pending", "running", "completed", "failed", "gone"}]
        /\ work' \in [Tasks -> {"none", "begin", "clone", "reserve", "pull", "run", "ended",
                                "completed", "failed", "lost", "done"}]
        /\ UNCHANGED <<sessionVars, image, boot, containers, reaperVars>>
    <3>1. CASE TaskBegin(t)
      BY <3>1 DEF TaskBegin, WorkTo, TypeOK
    <3>2. CASE TaskClone(t) \/ TaskReserve(t) \/ TaskObtain(t)
      BY <3>2 DEF TaskClone, TaskReserve, TaskObtain, WorkTo, TypeOK
    <3>3. CASE TaskFinal(t)
      BY <3>3 DEF TaskFinal, WorkTo, TypeOK
    <3>4. CASE TaskRun(t) \/ \E r \in BOOLEAN : TaskRelease(t, r)
      BY <3>4 DEF TaskRun, TaskRelease, WorkTo, TypeOK
    <3> QED
      BY <1>4, <3>1, <3>2, <3>3, <3>4 DEF Execute
  <2> QED
    BY <2>1, <2>2 DEF TypeOK, CacheTyped, sessionVars, reaperVars
<1> QED
  BY <1>2, <1>3, <1>4

-------------------------------------------------------------------------------
(* How the status of a session, its bootstrap and its teardown fit.          *)

Starting == {"begin", "pull", "record", "run", "settle", "fail", "fail0"}

\* Its bootstrap decides a session; only the reaper can take one from under
\* it, and then its image is among the early ones.
SessionShape(s) ==
    /\ status[s] = "none" <=> boot[s] = "none"
    /\ boot[s] \in Starting =>
        status[s] = "starting" \/ (status[s] = "gone" /\ image[s] \in early)
    /\ status[s] = "starting" => boot[s] \in Starting
    /\ status[s] \in {"ready", "finishing"} => boot[s] = "done"
    /\ held[s] => /\ status[s] \in {"starting", "ready", "finishing"}
                  /\ boot[s] \in {"run", "settle", "fail", "done"}
    /\ tear[s] = "none" <=> status[s] # "gone"
    /\ boot[s] \in {"none", "begin", "pull", "record", "fail0"} =>
        tear[s] \notin {"rm_held", "release"}
    /\ boot[s] \in {"undo", "release"} /\ tear[s] \in {"rm_held", "release"} =>
        image[s] \in early
    /\ boot[s] \in {"unwind", "unwound"} => status[s] = "gone" /\ image[s] \in early
    /\ status[s] # "none" => image[s] \in Images

TaskShape(t) ==
    /\ tstatus[t] = "none" <=> work[t] = "none"
    /\ work[t] \in {"reserve", "pull", "run", "ended"} => image[t] \in Images

Shape == (\A s \in Sids : SessionShape(s)) /\ (\A t \in Tasks : TaskShape(t))

\* What a step of session s may change.
LEMMA OnlySession ==
    ASSUME TypeOK, NEW s \in Sids,
           Start(s) \/ Talk(s) \/ End(s) \/ Bootstrap(s) \/ Teardown(s)
    PROVE  /\ \A r \in Sids : r # s =>
                /\ status'[r] = status[r] /\ image'[r] = image[r] /\ held'[r] = held[r]
                /\ boot'[r] = boot[r] /\ tear'[r] = tear[r]
           /\ \A t \in Tasks : image'[t] = image[t]
           /\ Start(s) \/ image' = image
           /\ tstatus' = tstatus /\ work' = work
           /\ early \subseteq early'
           /\ \A r : r # s => (r \in containers' <=> r \in containers)
<1>1. CASE Start(s)
  <2>1. s \notin Tasks
    BY SandboxAssumption
  <2>2. PICK i \in Images : SessionStart(s, i)
    BY <1>1 DEF Start
  <2> QED
    BY <2>1, <2>2, <1>1 DEF SessionStart, TypeOK, taskVars
<1>2. CASE Talk(s)
  BY <1>2 DEF Talk, SessionExec, SessionExport, SessionExecEnd, SessionFinish, Age,
              TypeOK, taskVars
<1>3. CASE End(s)
  BY <1>3, EndEffect DEF Pop, TypeOK, taskVars
<1>4. CASE Teardown(s)
  BY <1>4 DEF Teardown, TearRm, TearRmTimeout, TearRelease, TypeOK, taskVars
<1>5. CASE Bootstrap(s)
  <2>1. /\ \E pc : boot' = [boot EXCEPT ![s] = pc]
        /\ UNCHANGED <<early, tear, image, taskVars>>
    BY <1>5 DEF Bootstrap, BootReserve, BootObtain, BootRecord, BootRun, BootSettle,
                BootFail, BootRm, BootRmTimeout, BootRelease, BootTo, sessionVars
  <2>2. /\ \A r \in Sids : r # s => status'[r] = status[r] /\ held'[r] = held[r]
        /\ \A r : r # s => (r \in containers' <=> r \in containers)
    BY <1>5 DEF Bootstrap, BootReserve, BootObtain, BootRecord, BootRun, BootSettle,
                BootFail, BootRm, BootRmTimeout, BootRelease, sessionVars, TypeOK
  <2> QED
    BY <2>1, <2>2 DEF TypeOK, taskVars
<1> QED
  BY <1>1, <1>2, <1>3, <1>4, <1>5

\* What a step of task t may change.
LEMMA OnlyTask ==
    ASSUME TypeOK, NEW t \in Tasks, Enqueue(t) \/ Delete(t) \/ Execute(t)
    PROVE  /\ UNCHANGED <<sessionVars, boot, containers, reaperVars>>
           /\ \A s \in Sids : image'[s] = image[s]
           /\ Enqueue(t) \/ image' = image
           /\ \A u \in Tasks : u # t =>
                /\ image'[u] = image[u] /\ work'[u] = work[u]
                /\ tstatus'[u] = tstatus[u] \/ (Settled(u) /\ tstatus'[u] = "gone")
<1>1. CASE Enqueue(t)
  <2>1. t \notin Sids
    BY SandboxAssumption
  <2>2. PICK i \in (Images \ Built) \cup {NoImage} : Submit(t, i)
    BY <1>1 DEF Enqueue
  <2>3. PICK old \in SUBSET {x \in Tasks : Settled(x)} :
            tstatus' = [x \in Tasks |-> IF x = t THEN "pending"
                                        ELSE IF x \in old THEN "gone" ELSE tstatus[x]]
    BY <2>2 DEF Submit
  <2>4. \A u \in Tasks : u # t =>
            tstatus'[u] = tstatus[u] \/ (Settled(u) /\ tstatus'[u] = "gone")
    BY <2>3
  <2>5. \A u \in Tasks : u # t => image'[u] = image[u] /\ work'[u] = work[u]
    BY <2>2 DEF Submit, WorkTo, TypeOK
  <2>6. \A s \in Sids : image'[s] = image[s]
    BY <2>1, <2>2 DEF Submit, TypeOK
  <2>7. UNCHANGED <<sessionVars, boot, containers, reaperVars>>
    BY <2>2 DEF Submit
  <2> QED
    BY <1>1, <2>4, <2>5, <2>6, <2>7
<1>2. CASE Delete(t)
  BY <1>2 DEF Delete, TypeOK
<1>3. CASE Execute(t)
  BY <1>3 DEF Execute, TaskBegin, TaskClone, TaskReserve, TaskObtain, TaskFinal, TaskRun, TaskRelease,
              WorkTo, TypeOK
<1> QED
  BY <1>1, <1>2, <1>3

\* A session whose record and threads stay as they are keeps its shape.
LEMMA SessionStays ==
    ASSUME NEW r \in Sids, SessionShape(r), early \subseteq early',
           status'[r] = status[r], image'[r] = image[r], held'[r] = held[r],
           boot'[r] = boot[r], tear'[r] = tear[r]
    PROVE  SessionShape(r)'
BY DEF SessionShape

\* A session's threads stay in places that fit each other.
LEMMA SessionKeepsShape ==
    ASSUME TypeOK, NEW s \in Sids, SessionShape(s),
           Start(s) \/ Talk(s) \/ End(s) \/ Bootstrap(s) \/ Teardown(s)
    PROVE  SessionShape(s)'
<1>1. CASE Start(s)
  <2>1. PICK i \in Images : SessionStart(s, i)
    BY <1>1 DEF Start
  <2>2. /\ status[s] = "none" /\ status'[s] = "starting" /\ image'[s] = i
        /\ boot'[s] = "begin" /\ held'[s] = held[s] /\ tear'[s] = tear[s]
    BY <2>1 DEF SessionStart, TypeOK
  <2> QED
    BY <2>2 DEF SessionShape, Starting
<1>2. CASE Talk(s)
  <2>1. /\ \/ status'[s] = status[s]
           \/ status[s] = "ready" /\ status'[s] = "finishing"
        /\ UNCHANGED <<early, held, tear, image, boot>>
    BY <1>2 DEF Talk, SessionExec, SessionExport, SessionExecEnd, SessionFinish, Age, TypeOK
  <2> QED
    BY <2>1 DEF SessionShape, Starting
<1>3. CASE End(s)
  <2>1. CASE Recorded(s) /\ Pop(s)
    <3>1. /\ status'[s] = "gone" /\ held'[s] = FALSE
          /\ tear'[s] = IF held[s] THEN "rm_held" ELSE "rm"
          /\ early' = IF status[s] = "starting" THEN early \cup {image[s]} ELSE early
          /\ status[s] \notin {"none", "gone"}
      BY <2>1 DEF Pop, Recorded, TypeOK
    <3>2. UNCHANGED <<image, boot>>
      BY <1>3, EndEffect
    <3> QED
      BY <3>1, <3>2 DEF SessionShape, Starting
  <2>2. CASE UNCHANGED <<early, status, held, idle, tear>>
    <3>1. UNCHANGED <<image, boot>>
      BY <1>3, EndEffect
    <3> QED
      BY <2>2, <3>1 DEF SessionShape
  <2> QED
    BY <1>3, <2>1, <2>2, EndEffect
<1>4. CASE Teardown(s)
  <2>1. /\ \/ tear[s] \in {"rm", "rm_held"} /\ tear'[s] = IF tear[s] = "rm_held" THEN "release" ELSE "done"
           \/ tear[s] \in {"rm", "rm_held"} /\ tear'[s] = "dead"
           \/ tear[s] = "release" /\ tear'[s] = "done"
        /\ UNCHANGED <<early, status, held, image, boot>>
    BY <1>4 DEF Teardown, TearRm, TearRmTimeout, TearRelease, TypeOK
  <2> QED
    BY <2>1 DEF SessionShape
<1>5. CASE Bootstrap(s)
  <2>1. CASE BootReserve(s)
    <3>1. boot[s] = "begin" /\ boot'[s] \in {"fail0", "pull"}
      BY <2>1 DEF BootReserve, BootTo, TypeOK
    <3>2. UNCHANGED <<early, status, held, tear, image>>
      BY <2>1 DEF BootReserve, sessionVars
    <3> QED
      BY <3>1, <3>2 DEF SessionShape, Starting
  <2>2. CASE BootObtain(s)
    <3>1. boot[s] = "pull" /\ boot'[s] \in {"record", "fail0", "fail"}
      BY <2>2 DEF BootObtain, BootTo, TypeOK
    <3>2. UNCHANGED <<early, status, held, tear, image>>
      BY <2>2 DEF BootObtain, sessionVars
    <3> QED
      BY <3>1, <3>2 DEF SessionShape, Starting
  <2>3. CASE BootRecord(s)
    <3>1. /\ boot[s] = "record"
          /\ \/ Recorded(s) /\ held'[s] = TRUE /\ boot'[s] = "run"
             \/ ~Recorded(s) /\ held'[s] = held[s] /\ boot'[s] = "unwound"
      BY <2>3 DEF BootRecord, BootTo, TypeOK
    <3>2. UNCHANGED <<early, status, tear, image>>
      BY <2>3 DEF BootRecord
    <3> QED
      BY <3>1, <3>2 DEF SessionShape, Starting, Recorded
  <2>4. CASE BootRun(s)
    <3>1. boot[s] = "run" /\ boot'[s] \in {"settle", "fail"}
      BY <2>4 DEF BootRun, BootTo, TypeOK
    <3>2. UNCHANGED <<early, status, held, tear, image>>
      BY <2>4 DEF BootRun, sessionVars
    <3> QED
      BY <3>1, <3>2 DEF SessionShape, Starting
  <2>5. CASE BootSettle(s)
    <3>1. /\ boot[s] = "settle"
          /\ \/ Recorded(s) /\ status'[s] = "ready" /\ boot'[s] = "done"
             \/ ~Recorded(s) /\ status'[s] = status[s] /\ boot'[s] = "unwind"
      BY <2>5 DEF BootSettle, BootTo, TypeOK
    <3>2. UNCHANGED <<early, held, tear, image>>
      BY <2>5 DEF BootSettle
    <3> QED
      BY <3>1, <3>2 DEF SessionShape, Starting, Recorded
  <2>6. CASE BootFail(s)
    <3>1. UNCHANGED <<early, tear, image>> /\ boot[s] \in {"fail", "fail0"}
      BY <2>6 DEF BootFail
    <3>2. CASE Recorded(s)
      <4>1. /\ status'[s] = "failed" /\ held'[s] = FALSE
            /\ boot'[s] = IF held[s] THEN "undo" ELSE "clean"
        BY <2>6, <3>2 DEF BootFail, BootTo, TypeOK
      <4> QED
        BY <3>1, <3>2, <4>1 DEF SessionShape, Starting, Recorded
    <3>3. CASE ~Recorded(s)
      <4>1. /\ UNCHANGED <<status, held>>
            /\ boot'[s] = IF boot[s] = "fail" THEN "undo" ELSE "clean"
        BY <2>6, <3>3 DEF BootFail, BootTo, TypeOK
      <4> QED
        BY <3>1, <3>3, <4>1 DEF SessionShape, Starting, Recorded
    <3> QED
      BY <3>2, <3>3
  <2>7. CASE BootRm(s) \/ BootRmTimeout(s) \/ \E r \in BOOLEAN : BootRelease(s, r)
    <3>1. /\ boot[s] \in {"unwind", "unwound", "undo", "clean", "release"}
          /\ \/ boot[s] = "undo" /\ boot'[s] = "release"
             \/ boot[s] = "unwind" /\ boot'[s] \in {"unwound", "undo"}
             \/ boot[s] = "unwound" /\ boot'[s] = "undo"
             \/ boot'[s] \in {"done", "dead"}
      BY <2>7 DEF BootRm, Cleared, BootRmTimeout, BootRelease, BootTo, TypeOK
    <3>2. UNCHANGED <<early, status, held, tear, image>>
      BY <2>7 DEF BootRm, BootRmTimeout, BootRelease, sessionVars
    <3> QED
      BY <3>1, <3>2 DEF SessionShape, Starting
  <2> QED
    BY <1>5, <2>1, <2>2, <2>3, <2>4, <2>5, <2>6, <2>7 DEF Bootstrap
<1> QED
  BY <1>1, <1>2, <1>3, <1>4, <1>5

\* So does a task's.
LEMMA TaskKeepsShape ==
    ASSUME TypeOK, NEW t \in Tasks, TaskShape(t), Enqueue(t) \/ Delete(t) \/ Execute(t)
    PROVE  TaskShape(t)'
<1>1. CASE Enqueue(t)
  <2>1. PICK i \in (Images \ Built) \cup {NoImage} : Submit(t, i)
    BY <1>1 DEF Enqueue
  <2>2. tstatus'[t] = "pending" /\ work'[t] = "begin"
    BY <2>1 DEF Submit, WorkTo, TypeOK
  <2> QED
    BY <2>2 DEF TaskShape
<1>2. CASE Delete(t)
  BY <1>2 DEF Delete, Known, TypeOK, TaskShape
<1>3. CASE Execute(t)
  <2>1. CASE TaskBegin(t)
    <3>1. /\ work[t] = "begin" /\ image' = image
          /\ \/ /\ tstatus'[t] = "running"
                /\ work'[t] = IF image[t] = NoImage THEN "clone" ELSE "reserve"
             \/ work'[t] = "done" /\ tstatus' = tstatus
      BY <2>1 DEF TaskBegin, WorkTo, TypeOK
    <3> QED
      BY <3>1 DEF TaskShape, TypeOK
  <2>2. CASE TaskClone(t) \/ TaskReserve(t) \/ TaskObtain(t)
    <3>1. /\ UNCHANGED <<image, tstatus>> /\ work[t] # "none"
          /\ work'[t] \in {"completed", "failed", "pull", "run"}
          /\ work'[t] \in {"pull", "run"} => work[t] \in {"reserve", "pull"}
      BY <2>2 DEF TaskClone, TaskReserve, TaskObtain, WorkTo, TypeOK
    <3> QED
      BY <3>1 DEF TaskShape
  <2>3. CASE TaskFinal(t) \/ \E r \in BOOLEAN : TaskRelease(t, r)
    <3>1. /\ work[t] # "none" /\ work'[t] \in {"done", "lost", "completed", "failed"}
          /\ tstatus'[t] = tstatus[t] \/ tstatus'[t] \in {"completed", "failed"}
      BY <2>3 DEF TaskFinal, TaskRelease, WorkTo, TypeOK
    <3> QED
      BY <3>1 DEF TaskShape
  <2>4. CASE TaskRun(t)
    <3>1. work[t] = "run" /\ work'[t] = "ended" /\ UNCHANGED <<image, tstatus>>
      BY <2>4 DEF TaskRun, WorkTo, TypeOK
    <3> QED
      BY <3>1 DEF TaskShape
  <2> QED
    BY <1>3, <2>1, <2>2, <2>3, <2>4 DEF Execute
<1> QED
  BY <1>1, <1>2, <1>3

\* Whoever works on an image has one.
LEMMA ShapeKnowsImages ==
    ASSUME Shape
    PROVE  ImageKnown
BY DEF Shape, SessionShape, TaskShape, ImageKnown

\* A thread that works on a session works on its image.
LEMMA ThreadHasImage ==
    ASSUME Shape, NEW s \in Sids, Bootstrap(s) \/ Teardown(s)
    PROVE  image[s] \in Images
<1>1. status[s] # "none"
  <2>1. boot[s] # "none" \/ tear[s] # "none"
    BY DEF Bootstrap, BootReserve, BootObtain, BootRecord, BootRun, BootSettle, BootFail,
           BootRm, BootRmTimeout, BootRelease, Teardown, TearRm, TearRmTimeout, TearRelease
  <2> QED
    BY <2>1 DEF Shape, SessionShape
<1> QED
  BY <1>1 DEF Shape, SessionShape

\* The reaper's scan.
LEMMA ScanTyped ==
    ASSUME TypeOK, Scan
    PROVE  TypeOK' /\ UNCHANGED <<sessionVars, image, boot, containers, taskVars, cacheVars>>
<1>1. /\ stale' \subseteq Sids /\ reaping' \in {reaping, Nobody}
      /\ UNCHANGED <<sessionVars, image, boot, containers, taskVars, cacheVars>>
  BY DEF Scan, ReapScan, ReapDone, TypeOK
<1> QED
  BY <1>1 DEF TypeOK, sessionVars, taskVars, cacheVars

\* Nothing runs at first.
LEMMA WellFormedInit ==
    ASSUME Init
    PROVE  TypeOK /\ Shape
<1>1. TypeOK
  BY SandboxAssumption DEF Init, TypeOK, Nobody, NoCall
<1>2. Shape
  BY DEF Init, Shape, SessionShape, TaskShape, Starting
<1> QED
  BY <1>1, <1>2

\* Types and shape are inductive together.
LEMMA WellFormedStep ==
    ASSUME TypeOK, Shape, [Next]_vars
    PROVE  TypeOK' /\ Shape'
<1>1. CASE UNCHANGED vars
  BY <1>1 DEF vars, sessionVars, reaperVars, taskVars, cacheVars, TypeOK, Shape,
              SessionShape, TaskShape
<1>2. ASSUME NEW s \in Sids,
             Start(s) \/ Talk(s) \/ End(s) \/ Bootstrap(s) \/ Teardown(s)
      PROVE  TypeOK' /\ Shape'
  <2>1. TypeOK'
    BY <1>2, ShapeKnowsImages, ThreadHasImage, SessionsTyped, BootstrapTyped, TeardownTyped
  <2>2. ASSUME NEW r \in Sids
        PROVE  SessionShape(r)'
    <3>1. CASE r = s
      BY <1>2, <3>1, SessionKeepsShape DEF Shape
    <3>2. CASE r # s
      BY <1>2, <3>2, OnlySession, SessionStays DEF Shape
    <3> QED
      BY <3>1, <3>2
  <2>3. ASSUME NEW t \in Tasks
        PROVE  TaskShape(t)'
    BY <1>2, OnlySession DEF Shape, TaskShape
  <2> QED
    BY <2>1, <2>2, <2>3 DEF Shape
<1>3. CASE Scan
  BY <1>3, ScanTyped DEF Shape, SessionShape, TaskShape, sessionVars, taskVars
<1>4. ASSUME NEW t \in Tasks, Enqueue(t) \/ Delete(t) \/ Execute(t)
      PROVE  TypeOK' /\ Shape'
  <2>1. TypeOK'
    BY <1>4, ShapeKnowsImages, TasksTyped
  <2>2. ASSUME NEW s \in Sids
        PROVE  SessionShape(s)'
    BY <1>4, OnlyTask, SessionStays DEF Shape, sessionVars
  <2>3. ASSUME NEW u \in Tasks
        PROVE  TaskShape(u)'
    <3>1. CASE u = t
      BY <1>4, <3>1, TaskKeepsShape DEF Shape
    <3>2. CASE u # t
      <4>1. /\ image'[u] = image[u] /\ work'[u] = work[u]
            /\ tstatus'[u] = tstatus[u] \/ (Settled(u) /\ tstatus'[u] = "gone")
        BY <1>4, <3>2, OnlyTask
      <4> QED
        BY <4>1 DEF Shape, TaskShape, Settled
    <3> QED
      BY <3>1, <3>2
  <2> QED
    BY <2>1, <2>2, <2>3 DEF Shape
<1> QED
  BY <1>1, <1>2, <1>3, <1>4, NextSplits

\* The executor's state is always of its type and shape.
THEOREM WellFormed == Spec => [](TypeOK /\ Shape)
<1>1. Init => TypeOK /\ Shape
  BY WellFormedInit
<1>2. TypeOK /\ Shape /\ [Next]_vars => TypeOK' /\ Shape'
  BY WellFormedStep
<1> QED
  BY <1>1, <1>2, PTL DEF Spec

-------------------------------------------------------------------------------
(* Nothing is left without an owner.                                         *)

OrphanFree(s) ==
    \/ Recorded(s) /\ status[s] # "failed"
    \/ boot[s] \in {"run", "settle", "unwind", "undo", "clean", "fail", "dead"}
    \/ tear[s] \in {"rm", "rm_held", "dead"}

\* The session that a step is about has an owner for its container afterwards.
LEMMA OwnContainer ==
    ASSUME TypeOK, NEW s \in Sids, SessionShape(s), s \in containers => OrphanFree(s),
           Start(s) \/ Talk(s) \/ End(s) \/ Bootstrap(s) \/ Teardown(s),
           s \in containers'
    PROVE  OrphanFree(s)'
<1>1. CASE Start(s)
  <2>1. status'[s] = "starting"
    BY <1>1 DEF Start, SessionStart, TypeOK
  <2> QED
    BY <2>1 DEF OrphanFree, Recorded
<1>2. CASE Talk(s)
  <2>1. /\ \/ status'[s] = status[s]
           \/ status[s] = "ready" /\ status'[s] = "finishing"
        /\ UNCHANGED <<tear, boot, containers>>
    BY <1>2 DEF Talk, SessionExec, SessionExport, SessionExecEnd, SessionFinish, Age, TypeOK
  <2> QED
    BY <2>1 DEF OrphanFree, Recorded
<1>3. CASE End(s)
  <2>1. CASE Recorded(s) /\ Pop(s)
    <3>1. tear'[s] \in {"rm", "rm_held"}
      BY <2>1 DEF Pop, TypeOK
    <3> QED
      BY <3>1 DEF OrphanFree
  <2>2. CASE UNCHANGED <<early, status, held, idle, tear>>
    <3>1. UNCHANGED <<boot, containers>>
      BY <1>3, EndEffect
    <3> QED
      BY <2>2, <3>1 DEF OrphanFree, Recorded
  <2> QED
    BY <1>3, <2>1, <2>2, EndEffect
<1>4. CASE Teardown(s)
  <2>1. \/ tear'[s] = "dead"
        \/ tear[s] = "release" /\ UNCHANGED <<status, boot, containers>>
    BY <1>4 DEF Teardown, TearRm, TearRmTimeout, TearRelease, TypeOK
  <2> QED
    BY <2>1 DEF OrphanFree, Recorded
<1>5. CASE Bootstrap(s)
  <2>1. CASE BootReserve(s) \/ BootObtain(s) \/ BootRecord(s) \/ BootRelease(s, TRUE)
             \/ BootRelease(s, FALSE)
    <3>1. /\ boot[s] \in {"begin", "pull", "record", "unwound", "release"}
          /\ UNCHANGED <<status, tear, containers>>
      BY <2>1 DEF BootReserve, BootObtain, BootRecord, BootRelease, sessionVars
    <3> QED
      BY <3>1 DEF OrphanFree, Recorded
  <2>2. CASE BootRun(s) \/ BootFail(s) \/ BootRmTimeout(s)
    <3>1. boot'[s] \in {"settle", "fail", "undo", "clean", "dead"}
      BY <2>2 DEF BootRun, BootFail, BootRmTimeout, BootTo, TypeOK
    <3> QED
      BY <3>1 DEF OrphanFree
  <2>3. CASE BootSettle(s)
    <3>1. boot'[s] = "unwind" \/ status'[s] = "ready"
      BY <2>3 DEF BootSettle, BootTo, TypeOK
    <3> QED
      BY <3>1 DEF OrphanFree, Recorded
  <2>4. CASE BootRm(s)
    BY <2>4 DEF BootRm
  <2> QED
    BY <1>5, <2>1, <2>2, <2>3, <2>4 DEF Bootstrap
<1> QED
  BY <1>1, <1>2, <1>3, <1>4, <1>5

\* The step that ends a task's thread leaves a result, if there is a record.
LEMMA OwnResult ==
    ASSUME TypeOK, NEW t \in Tasks, TaskShape(t),
           work[t] = "done" => Settled(t) \/ tstatus[t] = "gone",
           Enqueue(t) \/ Delete(t) \/ Execute(t), work'[t] = "done"
    PROVE  (Settled(t) \/ tstatus[t] = "gone")'
<1>1. CASE Enqueue(t)
  BY <1>1 DEF Enqueue, Submit, WorkTo, TypeOK
<1>2. CASE Delete(t)
  BY <1>2 DEF Delete, TypeOK
<1>3. CASE TaskBegin(t)
  <2>1. work[t] = "begin" /\ tstatus' = tstatus /\ ~Known(t)
    BY <1>3 DEF TaskBegin, WorkTo, TypeOK
  <2> QED
    BY <2>1 DEF Known, TaskShape
<1>4. CASE TaskFinal(t)
  <2>1. /\ work[t] \in {"completed", "failed"}
        /\ IF Known(t) THEN tstatus'[t] = work[t] ELSE tstatus' = tstatus
    BY <1>4 DEF TaskFinal, TypeOK
  <2> QED
    BY <2>1 DEF Known, Settled, TaskShape
<1>5. CASE \/ TaskClone(t) \/ TaskReserve(t) \/ TaskObtain(t) \/ TaskRun(t)
           \/ \E r \in BOOLEAN : TaskRelease(t, r)
  BY <1>5 DEF TaskClone, TaskReserve, TaskObtain, TaskRun, TaskRelease, WorkTo, TypeOK
<1> QED
  BY <1>1, <1>2, <1>3, <1>4, <1>5 DEF Execute

\* No step leaves a container without a session, or a task without a result.
LEMMA NothingLostStep ==
    ASSUME TypeOK, Shape, NoOrphanContainer, ResultWritten, [Next]_vars
    PROVE  NoOrphanContainer' /\ ResultWritten'
<1>0. \A s \in containers : OrphanFree(s)
  BY DEF NoOrphanContainer, OrphanFree
<1>1. CASE UNCHANGED vars
  BY <1>1 DEF vars, sessionVars, taskVars, NoOrphanContainer, ResultWritten, Recorded, Settled
<1>2. ASSUME NEW s \in Sids,
             Start(s) \/ Talk(s) \/ End(s) \/ Bootstrap(s) \/ Teardown(s)
      PROVE  NoOrphanContainer' /\ ResultWritten'
  <2>1. ASSUME NEW r \in containers'
        PROVE  OrphanFree(r)'
    <3>1. CASE r = s
      BY <1>0, <1>2, <2>1, <3>1, OwnContainer DEF Shape
    <3>2. CASE r # s
      <4>1. r \in containers /\ r \in Sids
        BY <1>2, <2>1, <3>2, OnlySession DEF TypeOK
      <4> QED
        BY <1>0, <1>2, <3>2, <4>1, OnlySession DEF OrphanFree, Recorded
    <3> QED
      BY <3>1, <3>2
  <2>2. ResultWritten'
    BY <1>2, OnlySession DEF ResultWritten, Settled
  <2> QED
    BY <2>1, <2>2 DEF NoOrphanContainer, OrphanFree
<1>3. CASE Scan
  BY <1>3, ScanTyped DEF sessionVars, taskVars, NoOrphanContainer, ResultWritten,
                         Recorded, Settled
<1>4. ASSUME NEW t \in Tasks, Enqueue(t) \/ Delete(t) \/ Execute(t)
      PROVE  NoOrphanContainer' /\ ResultWritten'
  <2>1. NoOrphanContainer'
    BY <1>4, OnlyTask DEF sessionVars, NoOrphanContainer, Recorded
  <2>2. ASSUME NEW u \in Tasks, work'[u] = "done"
        PROVE  (Settled(u) \/ tstatus[u] = "gone")'
    <3>1. CASE u = t
      BY <1>4, <2>2, <3>1, OwnResult DEF Shape, ResultWritten
    <3>2. CASE u # t
      BY <1>4, <2>2, <3>2, OnlyTask DEF ResultWritten, Settled
    <3> QED
      BY <3>1, <3>2
  <2> QED
    BY <2>1, <2>2 DEF ResultWritten
<1> QED
  BY <1>1, <1>2, <1>3, <1>4, NextSplits

\* Whatever the interleaving of requests, bootstraps, teardowns, tasks and the
\* reaper: every container has its session or somebody who removes it, and the
\* thread of a task ends with the task's result written.
THEOREM NothingIsLost == Spec => []NothingLost
<1>1. Init => NoOrphanContainer /\ ResultWritten
  BY DEF Init, NoOrphanContainer, ResultWritten
<1>2. /\ TypeOK /\ Shape /\ NoOrphanContainer /\ ResultWritten /\ [Next]_vars
      => NoOrphanContainer' /\ ResultWritten'
  BY NothingLostStep
<1>3. TypeOK /\ NoOrphanContainer /\ ResultWritten => NothingLost
  BY DEF NothingLost
<1> QED
  BY <1>1, <1>2, <1>3, WellFormed, PTL DEF Spec

-------------------------------------------------------------------------------
(* The executor is a SessionService.                                         *)

\* A step of a session is one of the service, or none.
LEMMA ServesSession ==
    ASSUME TypeOK, Shape, NEW s \in Sids,
           Start(s) \/ Talk(s) \/ End(s) \/ Bootstrap(s) \/ Teardown(s)
    PROVE  [Service!ServiceNext]_status
<1>1. CASE Start(s)
  <2>1. Service!Start(s)
    BY <1>1 DEF Start, SessionStart, Service!Start, Service!SetStatus
  <2> QED
    BY <2>1 DEF Service!ServiceNext
<1>2. CASE Talk(s)
  <2>1. Service!Finish(s) \/ status' = status
    BY <1>2 DEF Talk, SessionExec, SessionExport, SessionExecEnd, SessionFinish, Age,
                Service!Finish, Service!SetStatus
  <2> QED
    BY <2>1 DEF Service!ServiceNext
<1>3. CASE End(s)
  <2>1. Service!Remove(s) \/ status' = status
    BY <1>3, EndEffect DEF Pop, Recorded, Service!Remove, Service!Live, Service!SetStatus
  <2> QED
    BY <2>1 DEF Service!ServiceNext
<1>4. CASE Teardown(s)
  BY <1>4 DEF Teardown, TearRm, TearRmTimeout, TearRelease
<1>5. CASE BootSettle(s) /\ Recorded(s)
  <2>1. status[s] = "starting"
    BY <1>5 DEF BootSettle, Recorded, Shape, SessionShape, Starting
  <2>2. Service!Ready(s)
    BY <1>5, <2>1 DEF BootSettle, Service!Ready, Service!SetStatus
  <2> QED
    BY <2>2 DEF Service!ServiceNext
<1>6. CASE BootFail(s) /\ Recorded(s)
  <2>1. status[s] = "starting"
    BY <1>6 DEF BootFail, Recorded, Shape, SessionShape, Starting
  <2>2. Service!Fail(s)
    BY <1>6, <2>1 DEF BootFail, Service!Fail, Service!SetStatus
  <2> QED
    BY <2>2 DEF Service!ServiceNext
<1>7. CASE Bootstrap(s) /\ ~((BootSettle(s) \/ BootFail(s)) /\ Recorded(s))
  BY <1>7 DEF Bootstrap, BootReserve, BootObtain, BootRecord, BootRun, BootSettle,
              BootFail, BootRm, BootRmTimeout, BootRelease, sessionVars
<1> QED
  BY <1>1, <1>2, <1>3, <1>4, <1>5, <1>6, <1>7

\* What GET /session/<id> answers, request by request, is what SessionService
\* allows: each status is left for the next one only, and a removed session
\* never comes back, however the threads of the executor meet.
THEOREM ServesSessions == Spec => ImplementsService
<1>1. Init => Service!ServiceInit
  BY DEF Init, Service!ServiceInit
<1>2. TypeOK /\ Shape /\ [Next]_vars => [Service!ServiceNext]_status
  <2> SUFFICES ASSUME TypeOK, Shape, [Next]_vars
               PROVE  [Service!ServiceNext]_status
    OBVIOUS
  <2>1. CASE UNCHANGED vars
    BY <2>1 DEF vars, sessionVars
  <2>2. CASE Scan
    BY <2>2, ScanTyped DEF sessionVars
  <2>3. ASSUME NEW s \in Sids,
               Start(s) \/ Talk(s) \/ End(s) \/ Bootstrap(s) \/ Teardown(s)
        PROVE  [Service!ServiceNext]_status
    BY <2>3, ServesSession
  <2>4. ASSUME NEW t \in Tasks, Enqueue(t) \/ Delete(t) \/ Execute(t)
        PROVE  [Service!ServiceNext]_status
    BY <2>4, OnlyTask DEF sessionVars
  <2> QED
    BY <2>1, <2>2, <2>3, <2>4, NextSplits
<1> QED
  BY <1>1, <1>2, WellFormed, PTL DEF Spec, ImplementsService, Service!ServiceSpec

-------------------------------------------------------------------------------
(* Counting references.                                                      *)

One(b) == IF b THEN 1 ELSE 0

\* What x still owes to image i: a use, a release, or both.
Owes(x, i) == One(x \in Users(i)) + One(x \in Releasers(i))
Claims(i) == Cardinality(Users(i)) + Cardinality(Releasers(i))

\* Two sets that differ in at most one member.
LEMMA OneMember ==
    ASSUME NEW S, NEW T, IsFiniteSet(S), NEW x, \A y : y # x => (y \in T <=> y \in S)
    PROVE  /\ IsFiniteSet(T)
           /\ Cardinality(S) \in Nat /\ Cardinality(T) \in Nat
           /\ Cardinality(T) = Cardinality(S) + One(x \in T) - One(x \in S)
<1>1. Cardinality(S) \in Nat
  BY FS_CardinalityType
<1>2. CASE x \in S <=> x \in T
  <2>1. T = S
    BY <1>2
  <2> QED
    BY <1>1, <2>1 DEF One
<1>3. CASE x \in T /\ x \notin S
  <2>1. T = S \cup {x}
    BY <1>3
  <2>2. IsFiniteSet(S \cup {x}) /\ Cardinality(S \cup {x}) = Cardinality(S) + 1
    BY <1>3, FS_AddElement, Zenon
  <2> QED
    BY <1>1, <1>3, <2>1, <2>2 DEF One
<1>4. CASE x \in S /\ x \notin T
  <2>1. T = S \ {x}
    BY <1>4
  <2>2. IsFiniteSet(S \ {x}) /\ Cardinality(S \ {x}) = Cardinality(S) - 1
    BY <1>4, FS_RemoveElement, Zenon
  <2>3. Cardinality(T) \in Nat
    BY <2>1, <2>2, FS_CardinalityType
  <2> QED
    BY <1>1, <1>4, <2>1, <2>2, <2>3 DEF One
<1> QED
  BY <1>2, <1>3, <1>4

\* Finitely many use an image.
LEMMA ClaimantsFinite ==
    ASSUME NEW i
    PROVE  IsFiniteSet(Users(i)) /\ IsFiniteSet(Releasers(i))
<1>1. IsFiniteSet(Sids \cup Tasks)
  BY SandboxAssumption, FS_Union
<1>2. Users(i) \subseteq Sids \cup Tasks /\ Releasers(i) \subseteq Sids \cup Tasks
  BY DEF Users, Releasers
<1> QED
  BY <1>1, <1>2, FS_Subset

\* When only x changes, so do the claims on an image by what x owes.
LEMMA ClaimsMove ==
    ASSUME NEW i, NEW x,
           \A y : y # x => /\ y \in Users(i)' <=> y \in Users(i)
                           /\ y \in Releasers(i)' <=> y \in Releasers(i)
    PROVE  /\ Claims(i) \in Nat /\ Claims(i)' \in Nat
           /\ Claims(i)' = Claims(i) + Owes(x, i)' - Owes(x, i)
<1> DEFINE U == Users(i)
           V == Users(i)'
           R == Releasers(i)
           Q == Releasers(i)'
<1>1. IsFiniteSet(U) /\ IsFiniteSet(R)
  BY ClaimantsFinite
<1>2. /\ Cardinality(U) \in Nat /\ Cardinality(V) \in Nat
      /\ Cardinality(V) = Cardinality(U) + One(x \in V) - One(x \in U)
  <2>1. \A y : y # x => (y \in V <=> y \in U)
    OBVIOUS
  <2> HIDE DEF U, V
  <2> QED
    BY <1>1, <2>1, OneMember
<1>3. /\ Cardinality(R) \in Nat /\ Cardinality(Q) \in Nat
      /\ Cardinality(Q) = Cardinality(R) + One(x \in Q) - One(x \in R)
  <2>1. \A y : y # x => (y \in Q <=> y \in R)
    OBVIOUS
  <2> HIDE DEF R, Q
  <2> QED
    BY <1>1, <2>1, OneMember
<1>4. /\ Claims(i) = Cardinality(U) + Cardinality(R)
      /\ Claims(i)' = Cardinality(V) + Cardinality(Q)
      /\ Owes(x, i) = One(x \in U) + One(x \in R)
      /\ Owes(x, i)' = One(x \in V) + One(x \in Q)
  BY DEF Claims, Owes
<1>5. \A b : One(b) \in Int
  BY DEF One
<1> DEFINE u == Cardinality(U)
           v == Cardinality(V)
           r == Cardinality(R)
           q == Cardinality(Q)
           ou == One(x \in U)
           ov == One(x \in V)
           or == One(x \in R)
           oq == One(x \in Q)
<1>6. ou \in Int /\ ov \in Int /\ or \in Int /\ oq \in Int
  BY <1>5
<1>7. (u + r) \in Nat /\ (v + q) \in Nat /\ v + q = u + r + (ov + oq) - (ou + or)
  <2>1. u \in Nat /\ v \in Nat /\ v = u + ov - ou
    BY <1>2
  <2>2. r \in Nat /\ q \in Nat /\ q = r + oq - or
    BY <1>3
  <2> HIDE DEF u, v, r, q, ou, ov, or, oq
  <2> QED
    BY <1>6, <2>1, <2>2
<1> QED
  BY <1>4, <1>7

\* Whoever owes something is counted.
LEMMA ClaimsCover ==
    ASSUME NEW i, NEW x
    PROVE  Claims(i) \in Nat /\ Owes(x, i) \in 0 .. 2 /\ Owes(x, i) <= Claims(i)
<1> DEFINE U == Users(i)
           R == Releasers(i)
<1>1. /\ IsFiniteSet(U) /\ IsFiniteSet(R)
      /\ Cardinality(U) \in Nat /\ Cardinality(R) \in Nat
  BY ClaimantsFinite, FS_CardinalityType
<1> HIDE DEF U, R
<1>2. ASSUME NEW S, IsFiniteSet(S), Cardinality(S) \in Nat
      PROVE  One(x \in S) <= Cardinality(S)
  <2>1. CASE x \in S
    <3>1. S # {}
      BY <2>1
    <3>2. Cardinality(S) # 0
      BY <1>2, <3>1, FS_EmptySet
    <3> QED
      BY <1>2, <2>1, <3>2 DEF One
  <2>2. CASE x \notin S
    BY <1>2, <2>2 DEF One
  <2> QED
    BY <2>1, <2>2
<1>3. One(x \in U) <= Cardinality(U) /\ One(x \in R) <= Cardinality(R)
  BY <1>1, <1>2
<1>4. One(x \in U) \in 0 .. 1 /\ One(x \in R) \in 0 .. 1
  BY DEF One
<1>5. Claims(i) = Cardinality(U) + Cardinality(R) /\ Owes(x, i) = One(x \in U) + One(x \in R)
  BY DEF U, R, Claims, Owes
<1> QED
  BY <1>1, <1>3, <1>4, <1>5

\* The count of an image and the claims on it, with the exception of images
\* whose session was reaped while it started.
ExactAt(i) ==
    inUse[i] <= Claims(i) + leaked[i]
        /\ (i \notin early => inUse[i] = Claims(i) + leaked[i])

\* The ways a step of x may change the count of its image i, each with what it
\* does to what x owes.
Moves(x, i) ==
    \/ /\ inUse' = inUse /\ leaked' = leaked
       /\ Owes(x, i)' = Owes(x, i) \/ (Owes(x, i)' >= Owes(x, i) /\ i \in early')
    \/ /\ inUse' = [inUse EXCEPT ![i] = @ + 1] /\ leaked' = leaked
       /\ Owes(x, i)' = Owes(x, i) + 1
    \/ /\ inUse' = Dropped(i) /\ leaked' = leaked
       /\ Owes(x, i)' = Owes(x, i) - 1 \/ (Owes(x, i)' = Owes(x, i) /\ i \in early')
    \/ /\ inUse' = inUse /\ leaked' = [leaked EXCEPT ![i] = @ + 1]
       /\ Owes(x, i)' = Owes(x, i) - 1 \/ (Owes(x, i)' = Owes(x, i) /\ i \in early')

\* A step of one claimant that moves the count by what it owes keeps it exact.
LEMMA ExactMoves ==
    ASSUME CacheTyped, NEW i \in Images, NEW x, ExactAt(i), Moves(x, i), early \subseteq early',
           \A y : y # x => /\ y \in Users(i)' <=> y \in Users(i)
                           /\ y \in Releasers(i)' <=> y \in Releasers(i)
    PROVE  ExactAt(i)'
<1> DEFINE c == Claims(i)
           d == Claims(i)'
           o == Owes(x, i)
           p == Owes(x, i)'
           n == inUse[i]
           m == inUse'[i]
           k == leaked[i]
           l == leaked'[i]
<1>1. c \in Nat /\ d \in Nat /\ d = c + p - o
  BY ClaimsMove
<1>2. o \in 0 .. 2 /\ o <= c
  BY ClaimsCover
<1>3. p \in Int
  <2>1. \A b : One(b) \in Int
    BY DEF One
  <2> QED
    BY <2>1 DEF Owes
<1>4. n \in Nat /\ k \in Nat
  BY DEF CacheTyped
<1>5. n <= c + k /\ (i \notin early => n = c + k)
  BY DEF ExactAt
<1>6. \/ m = n /\ l = k /\ (p = o \/ (p >= o /\ i \in early'))
      \/ m = n + 1 /\ l = k /\ p = o + 1
      \/ m = (IF n > 0 THEN n - 1 ELSE 0) /\ l = k /\ (p = o - 1 \/ (p = o /\ i \in early'))
      \/ m = n /\ l = k + 1 /\ (p = o - 1 \/ (p = o /\ i \in early'))
  BY DEF Moves, Dropped, CacheTyped
<1>7. i \notin early' => i \notin early
  OBVIOUS
<1>8. m <= d + l /\ (i \notin early' => m = d + l)
  <2> HIDE DEF c, d, o, p, n, m, k, l
  <2> QED
    BY <1>1, <1>2, <1>3, <1>4, <1>5, <1>6, <1>7
<1> QED
  BY <1>8 DEF ExactAt

\* A session uses its image, and has it to release.
Uses(s) == held[s] \/ boot[s] \in {"pull", "record"}
Returns(s) == tear[s] \in {"rm_held", "release"} \/ boot[s] \in {"unwind", "unwound", "undo", "release"}

\* When a session counts for an image.
LEMMA SessionMembers ==
    ASSUME NEW s \in Sids, NEW i
    PROVE  /\ s \in Users(i) <=> image[s] = i /\ Uses(s)
           /\ s \in Releasers(i) <=> image[s] = i /\ Returns(s)
           /\ s \in Users(i)' <=> image'[s] = i /\ Uses(s)'
           /\ s \in Releasers(i)' <=> image'[s] = i /\ Returns(s)'
<1>1. s \notin Tasks
  BY SandboxAssumption
<1> QED
  BY <1>1 DEF Users, Releasers, Uses, Returns

\* A task at this place of its thread counts for its image.
Holds(pc) == pc \in {"pull", "run", "ended"}

\* When a task does.
LEMMA TaskMembers ==
    ASSUME NEW t \in Tasks, NEW i
    PROVE  /\ t \in Users(i) <=> image[t] = i /\ Holds(work[t])
           /\ t \notin Releasers(i)
           /\ t \in Users(i)' <=> image'[t] = i /\ Holds(work'[t])
           /\ t \notin Releasers(i)'
<1>1. t \notin Sids
  BY SandboxAssumption
<1> QED
  BY <1>1 DEF Users, Releasers, Holds

\* What a session owes to its image, before and after a step.
LEMMA SessionOwes ==
    ASSUME NEW s \in Sids, NEW i, image[s] = i, image'[s] = i
    PROVE  /\ Owes(s, i) = (IF Uses(s) THEN 1 ELSE 0) + (IF Returns(s) THEN 1 ELSE 0)
           /\ Owes(s, i)' = (IF Uses(s)' THEN 1 ELSE 0) + (IF Returns(s)' THEN 1 ELSE 0)
<1>1. One(s \in Users(i)) = IF Uses(s) THEN 1 ELSE 0
  BY SessionMembers DEF One
<1>2. One(s \in Releasers(i)) = IF Returns(s) THEN 1 ELSE 0
  BY SessionMembers DEF One
<1>3. One(s \in Users(i)') = IF Uses(s)' THEN 1 ELSE 0
  BY SessionMembers DEF One
<1>4. One(s \in Releasers(i)') = IF Returns(s)' THEN 1 ELSE 0
  BY SessionMembers DEF One
<1> QED
  BY <1>1, <1>2, <1>3, <1>4 DEF Owes

\* What a task owes its image.
LEMMA TaskOwes ==
    ASSUME NEW t \in Tasks, NEW i, image[t] = i, image'[t] = i
    PROVE  /\ Owes(t, i) = IF Holds(work[t]) THEN 1 ELSE 0
           /\ Owes(t, i)' = IF Holds(work'[t]) THEN 1 ELSE 0
<1>1. One(t \in Users(i)) = IF Holds(work[t]) THEN 1 ELSE 0
  BY TaskMembers DEF One
<1>2. One(t \in Releasers(i)) = 0
  BY TaskMembers DEF One
<1>3. One(t \in Users(i)') = IF Holds(work'[t]) THEN 1 ELSE 0
  BY TaskMembers DEF One
<1>4. One(t \in Releasers(i)') = 0
  BY TaskMembers DEF One
<1> QED
  BY <1>1, <1>2, <1>3, <1>4 DEF Owes

\* A step of session s leaves what the others owe.
LEMMA OthersOweSession ==
    ASSUME TypeOK, NEW s \in Sids, NEW i,
           Start(s) \/ Talk(s) \/ End(s) \/ Bootstrap(s) \/ Teardown(s)
    PROVE  \A y : y # s => /\ y \in Users(i)' <=> y \in Users(i)
                           /\ y \in Releasers(i)' <=> y \in Releasers(i)
<1> SUFFICES ASSUME NEW y, y # s
             PROVE  /\ y \in Users(i)' <=> y \in Users(i)
                    /\ y \in Releasers(i)' <=> y \in Releasers(i)
  OBVIOUS
<1>1. CASE y \in Sids
  <2>1. /\ image'[y] = image[y] /\ held'[y] = held[y]
        /\ boot'[y] = boot[y] /\ tear'[y] = tear[y]
    BY <1>1, OnlySession
  <2>2. (Uses(y)' <=> Uses(y)) /\ (Returns(y)' <=> Returns(y))
    BY <2>1 DEF Uses, Returns
  <2> QED
    BY <1>1, <2>1, <2>2, SessionMembers
<1>2. CASE y \in Tasks
  <2>1. image'[y] = image[y] /\ work' = work
    BY <1>2, OnlySession
  <2> QED
    BY <1>2, <2>1, TaskMembers
<1>3. CASE y \notin Sids \cup Tasks
  BY <1>3 DEF Users, Releasers
<1> QED
  BY <1>1, <1>2, <1>3

\* A task's step leaves what others owe.
LEMMA OthersOweTask ==
    ASSUME TypeOK, NEW t \in Tasks, NEW i, Enqueue(t) \/ Delete(t) \/ Execute(t)
    PROVE  \A y : y # t => /\ y \in Users(i)' <=> y \in Users(i)
                           /\ y \in Releasers(i)' <=> y \in Releasers(i)
<1> SUFFICES ASSUME NEW y, y # t
             PROVE  /\ y \in Users(i)' <=> y \in Users(i)
                    /\ y \in Releasers(i)' <=> y \in Releasers(i)
  OBVIOUS
<1>1. CASE y \in Sids
  <2>1. image'[y] = image[y] /\ held' = held /\ boot' = boot /\ tear' = tear
    BY <1>1, OnlyTask DEF sessionVars
  <2>2. (Uses(y)' <=> Uses(y)) /\ (Returns(y)' <=> Returns(y))
    BY <2>1 DEF Uses, Returns
  <2> QED
    BY <1>1, <2>1, <2>2, SessionMembers
<1>2. CASE y \in Tasks
  <2>1. image'[y] = image[y] /\ work'[y] = work[y]
    BY <1>2, OnlyTask
  <2> QED
    BY <1>2, <2>1, TaskMembers
<1>3. CASE y \notin Sids \cup Tasks
  BY <1>3 DEF Users, Releasers
<1> QED
  BY <1>1, <1>2, <1>3

\* The steps of a session, but its start, move the count of its image with what
\* it owes: a reference is handed on, and nobody releases it twice.
LEMMA BootstrapMoves ==
    ASSUME TypeOK, NEW s \in Sids, SessionShape(s), Bootstrap(s)
    PROVE  Moves(s, image[s])
<1> DEFINE i == image[s]
           was == (IF Uses(s) THEN 1 ELSE 0) + (IF Returns(s) THEN 1 ELSE 0)
           now == (IF Uses(s)' THEN 1 ELSE 0) + (IF Returns(s)' THEN 1 ELSE 0)
<1>1. image' = image /\ tear' = tear /\ early' = early
  BY DEF Bootstrap, BootReserve, BootObtain, BootRecord, BootRun, BootSettle,
         BootFail, BootRm, BootRmTimeout, BootRelease, sessionVars
<1>2. Owes(s, i) = was /\ Owes(s, i)' = now
  BY <1>1, SessionOwes
<1>3. CASE BootReserve(s)
  <2>1. /\ boot[s] = "begin" /\ held' = held
        /\ \/ boot'[s] = "fail0" /\ inUse' = inUse /\ leaked' = leaked
           \/ /\ boot'[s] = "pull" /\ inUse' = [inUse EXCEPT ![i] = @ + 1]
              /\ leaked' = leaked
    BY <1>3 DEF BootReserve, BootTo, Reserve, TypeOK, sessionVars, cacheVars
  <2>2. was = 0 /\ now = IF boot'[s] = "pull" THEN 1 ELSE 0
    BY <1>1, <2>1 DEF SessionShape, Uses, Returns
  <2> QED
    BY <1>2, <2>1, <2>2 DEF Moves
<1>4. CASE BootObtain(s)
  <2>1. /\ boot[s] = "pull" /\ held' = held
        /\ \/ boot'[s] = "record" /\ inUse' = inUse /\ leaked' = leaked
           \/ /\ boot'[s] \in {"fail0", "fail"}
              /\ \/ inUse' = Dropped(i) /\ leaked' = leaked
                 \/ inUse' = inUse /\ leaked' = [leaked EXCEPT ![i] = @ + 1]
    BY <1>4 DEF BootObtain, BootTo, Obtain, ObtainFails, TypeOK, sessionVars
  <2>2. was = 1 /\ now = IF boot'[s] = "record" THEN 1 ELSE 0
    BY <1>1, <2>1 DEF SessionShape, Uses, Returns
  <2> QED
    BY <1>2, <2>1, <2>2 DEF Moves
<1>5. CASE BootRecord(s)
  <2>1. /\ boot[s] = "record" /\ inUse' = inUse /\ leaked' = leaked
        /\ \/ held'[s] = TRUE /\ boot'[s] = "run"
           \/ held'[s] = held[s] /\ boot'[s] = "unwound"
    BY <1>5 DEF BootRecord, BootTo, TypeOK, cacheVars
  <2>2. was = 1 /\ now = 1
    BY <1>1, <2>1 DEF SessionShape, Uses, Returns
  <2> QED
    BY <1>2, <2>1, <2>2 DEF Moves
<1>6. CASE BootRun(s)
  <2>1. /\ boot[s] = "run" /\ boot'[s] \in {"settle", "fail"}
        /\ held' = held /\ inUse' = inUse /\ leaked' = leaked
    BY <1>6 DEF BootRun, BootTo, TypeOK, sessionVars
  <2>2. was = now
    BY <1>1, <2>1 DEF SessionShape, Uses, Returns
  <2> QED
    BY <1>2, <2>1, <2>2 DEF Moves
<1>7. CASE BootSettle(s) \/ BootFail(s)
  <2>1. inUse' = inUse /\ leaked' = leaked
    BY <1>7 DEF BootSettle, BootFail, cacheVars
  <2>2. was = now \/ (now >= was /\ i \in early')
    <3>1. CASE Recorded(s)
      <4>1. \/ boot[s] = "settle" /\ boot'[s] = "done" /\ held' = held
            \/ /\ boot[s] \in {"fail", "fail0"} /\ held'[s] = FALSE
               /\ boot'[s] = IF held[s] THEN "undo" ELSE "clean"
        BY <1>7, <3>1 DEF BootSettle, BootFail, BootTo, TypeOK
      <4>2. tear[s] = "none"
        BY <3>1 DEF SessionShape, Recorded
      <4> QED
        BY <1>1, <4>1, <4>2 DEF SessionShape, Uses, Returns
    <3>2. CASE ~Recorded(s)
      <4>1. /\ boot[s] \in {"settle", "fail", "fail0"} /\ held' = held
            /\ boot'[s] \in {"unwind", "undo", "clean"}
        BY <1>7, <3>2 DEF BootSettle, BootFail, BootTo, TypeOK
      <4>2. i \in early'
        BY <1>1, <3>2, <4>1 DEF SessionShape, Recorded, Starting
      <4> QED
        BY <1>1, <4>1, <4>2 DEF SessionShape, Uses, Returns
    <3> QED
      BY <3>1, <3>2
  <2> HIDE DEF was, now
  <2> QED
    BY <1>2, <2>1, <2>2 DEF Moves
<1>8. CASE BootRm(s)
  <2>1. /\ \/ boot[s] = "undo" /\ boot'[s] = "release"
           \/ boot[s] = "unwind" /\ boot'[s] = "unwound"
           \/ boot[s] = "clean" /\ boot'[s] = "done"
        /\ held' = held /\ inUse' = inUse /\ leaked' = leaked
    BY <1>8 DEF BootRm, Cleared, BootTo, TypeOK, sessionVars, cacheVars
  <2>2. was = now
    BY <1>1, <2>1 DEF SessionShape, Uses, Returns
  <2> QED
    BY <1>2, <2>1, <2>2 DEF Moves
<1>9. CASE BootRmTimeout(s)
  <2>1. /\ \/ /\ boot[s] = "undo" /\ boot'[s] = "dead" /\ inUse' = inUse
              /\ leaked' = [leaked EXCEPT ![i] = @ + 1]
           \/ /\ boot[s] = "clean" /\ boot'[s] = "dead"
              /\ inUse' = inUse /\ leaked' = leaked
           \/ /\ boot[s] = "unwind" /\ boot'[s] = "undo"
              /\ inUse' = inUse /\ leaked' = leaked
        /\ held' = held
    BY <1>9 DEF BootRmTimeout, BootTo, Leak, TypeOK, sessionVars, cacheVars
  <2>2. IF boot[s] \in {"clean", "unwind"} THEN now = was
        ELSE now = was - 1 \/ (now = was /\ i \in early')
    BY <1>1, <2>1 DEF SessionShape, Uses, Returns
  <2> HIDE DEF was, now
  <2> QED
    BY <1>2, <2>1, <2>2 DEF Moves
<1>10. CASE \E r \in BOOLEAN : BootRelease(s, r)
  <2>1. /\ \/ boot[s] \in {"unwound", "release"} /\ boot'[s] = "done"
           \/ boot[s] = "unwound" /\ boot'[s] = "undo"
        /\ held' = held /\ inUse' = Dropped(i) /\ leaked' = leaked
    BY <1>10 DEF BootRelease, BootTo, Release, TypeOK, sessionVars
  <2>2. now = was - 1 \/ (now = was /\ i \in early')
    BY <1>1, <2>1 DEF SessionShape, Uses, Returns
  <2> HIDE DEF was, now
  <2> QED
    BY <1>2, <2>1, <2>2 DEF Moves
<1> QED
  BY <1>3, <1>4, <1>5, <1>6, <1>7, <1>8, <1>9, <1>10 DEF Bootstrap

\* A session's steps move the count by what it owes.
LEMMA RecordMoves ==
    ASSUME TypeOK, NEW s \in Sids, SessionShape(s), Talk(s) \/ End(s) \/ Teardown(s)
    PROVE  Moves(s, image[s])
<1> DEFINE i == image[s]
           was == (IF Uses(s) THEN 1 ELSE 0) + (IF Returns(s) THEN 1 ELSE 0)
           now == (IF Uses(s)' THEN 1 ELSE 0) + (IF Returns(s)' THEN 1 ELSE 0)
<1>1. image' = image /\ boot' = boot
  <2>1. CASE Talk(s)
    BY <2>1 DEF Talk, SessionExec, SessionExport, SessionExecEnd, SessionFinish, Age
  <2>2. CASE End(s)
    BY <2>2, EndEffect
  <2>3. CASE Teardown(s)
    BY <2>3 DEF Teardown, TearRm, TearRmTimeout, TearRelease
  <2> QED
    BY <2>1, <2>2, <2>3
<1>2. Owes(s, i) = was /\ Owes(s, i)' = now
  BY <1>1, SessionOwes
<1>3. CASE Talk(s)
  <2>1. held' = held /\ tear' = tear /\ inUse' = inUse /\ leaked' = leaked
    BY <1>3 DEF Talk, SessionExec, SessionExport, SessionExecEnd, SessionFinish, Age, cacheVars
  <2>2. was = now
    BY <1>1, <2>1 DEF Uses, Returns
  <2> QED
    BY <1>2, <2>1, <2>2 DEF Moves
<1>4. CASE End(s)
  <2>1. inUse' = inUse /\ leaked' = leaked
    BY <1>4, EndEffect DEF cacheVars
  <2>2. was = now
    <3>1. CASE Recorded(s) /\ Pop(s)
      <4>1. /\ held'[s] = FALSE /\ tear'[s] = IF held[s] THEN "rm_held" ELSE "rm"
            /\ tear[s] = "none"
        BY <3>1 DEF Pop, Recorded, SessionShape, TypeOK
      <4> QED
        BY <1>1, <4>1 DEF SessionShape, Uses, Returns
    <3>2. CASE UNCHANGED <<early, status, held, idle, tear>>
      BY <1>1, <3>2 DEF Uses, Returns
    <3> QED
      BY <1>4, <3>1, <3>2, EndEffect
  <2> QED
    BY <1>2, <2>1, <2>2 DEF Moves
<1>5. CASE TearRm(s)
  <2>1. /\ \/ tear[s] = "rm" /\ tear'[s] = "done"
           \/ tear[s] = "rm_held" /\ tear'[s] = "release"
        /\ held' = held /\ inUse' = inUse /\ leaked' = leaked
    BY <1>5 DEF TearRm, TypeOK, cacheVars
  <2>2. was = now
    BY <1>1, <2>1 DEF Uses, Returns
  <2> QED
    BY <1>2, <2>1, <2>2 DEF Moves
<1>6. CASE TearRmTimeout(s)
  <2>1. /\ \/ /\ tear[s] = "rm_held" /\ inUse' = inUse
              /\ leaked' = [leaked EXCEPT ![i] = @ + 1]
           \/ tear[s] = "rm" /\ inUse' = inUse /\ leaked' = leaked
        /\ tear'[s] = "dead" /\ held' = held /\ early' = early
    BY <1>6 DEF TearRmTimeout, Leak, TypeOK, cacheVars
  <2>2. IF tear[s] = "rm" THEN now = was
        ELSE now = was - 1 \/ (now = was /\ i \in early')
    BY <1>1, <2>1 DEF SessionShape, Uses, Returns
  <2> HIDE DEF was, now
  <2> QED
    BY <1>2, <2>1, <2>2 DEF Moves
<1>7. CASE \E r \in BOOLEAN : TearRelease(s, r)
  <2>1. /\ tear[s] = "release" /\ tear'[s] = "done" /\ held' = held
        /\ inUse' = Dropped(i) /\ leaked' = leaked /\ early' = early
    BY <1>7 DEF TearRelease, Release, TypeOK
  <2>2. now = was - 1 \/ (now = was /\ i \in early')
    BY <1>1, <2>1 DEF SessionShape, Uses, Returns
  <2> HIDE DEF was, now
  <2> QED
    BY <1>2, <2>1, <2>2 DEF Moves
<1> QED
  BY <1>3, <1>4, <1>5, <1>6, <1>7 DEF Teardown

\* So do a task's.
LEMMA TaskMoves ==
    ASSUME TypeOK, NEW t \in Tasks, Delete(t) \/ Execute(t)
    PROVE  Moves(t, image[t])
<1> DEFINE i == image[t]
           was == IF Holds(work[t]) THEN 1 ELSE 0
           now == IF Holds(work'[t]) THEN 1 ELSE 0
<1>1. image' = image
  BY DEF Delete, Execute, TaskBegin, TaskClone, TaskReserve, TaskObtain, TaskFinal, TaskRun, TaskRelease
<1>2. Owes(t, i) = was /\ Owes(t, i)' = now
  BY <1>1, TaskOwes
<1>3. CASE Delete(t) \/ TaskBegin(t) \/ TaskClone(t) \/ TaskRun(t) \/ TaskFinal(t)
  <2>1. /\ inUse' = inUse /\ leaked' = leaked
        /\ \/ work' = work
           \/ /\ work[t] \in {"begin", "clone", "completed", "failed"}
              /\ work'[t] \in {"done", "clone", "reserve", "completed", "failed"}
           \/ work[t] = "run" /\ work'[t] = "ended"
    BY <1>3 DEF Delete, TaskBegin, TaskClone, TaskRun, TaskFinal, WorkTo, TypeOK, cacheVars
  <2>2. was = now
    BY <2>1 DEF Holds
  <2> QED
    BY <1>2, <2>1, <2>2 DEF Moves, Holds
<1>4. CASE TaskReserve(t)
  <2>1. /\ work[t] = "reserve" /\ leaked' = leaked
        /\ \/ work'[t] = "failed" /\ inUse' = inUse
           \/ work'[t] = "pull" /\ inUse' = [inUse EXCEPT ![i] = @ + 1]
    BY <1>4 DEF TaskReserve, Reserve, WorkTo, TypeOK, cacheVars
  <2> QED
    BY <1>2, <2>1 DEF Moves, Holds
<1>5. CASE TaskObtain(t)
  <2>1. /\ work[t] = "pull"
        /\ \/ work'[t] = "run" /\ inUse' = inUse /\ leaked' = leaked
           \/ /\ work'[t] = "failed"
              /\ \/ inUse' = Dropped(i) /\ leaked' = leaked
                 \/ inUse' = inUse /\ leaked' = [leaked EXCEPT ![i] = @ + 1]
    BY <1>5 DEF TaskObtain, Obtain, ObtainFails, WorkTo, TypeOK
  <2> QED
    BY <1>2, <2>1 DEF Moves, Holds
<1>6. CASE \E r \in BOOLEAN : TaskRelease(t, r)
  <2>1. /\ work[t] = "ended" /\ work'[t] \in {"lost", "completed", "failed"}
        /\ inUse' = Dropped(i) /\ leaked' = leaked
    BY <1>6 DEF TaskRelease, Release, WorkTo, TypeOK
  <2> QED
    BY <1>2, <2>1 DEF Moves, Holds
<1> QED
  BY <1>3, <1>4, <1>5, <1>6 DEF Execute

\* Nothing was owed on account of x before and after, and the counts stand.
LEMMA ExactStays ==
    ASSUME NEW i, ExactAt(i), inUse' = inUse, leaked' = leaked, early \subseteq early',
           \A y : /\ y \in Users(i)' <=> y \in Users(i)
                  /\ y \in Releasers(i)' <=> y \in Releasers(i)
    PROVE  ExactAt(i)'
<1>1. Users(i)' = Users(i)
  OBVIOUS
<1>2. Releasers(i)' = Releasers(i)
  OBVIOUS
<1>3. Claims(i)' = Claims(i)
  BY <1>1, <1>2 DEF Claims
<1> QED
  BY <1>3 DEF ExactAt

\* The counts of the other images stand too.
LEMMA MovesOnly ==
    ASSUME CacheTyped, NEW i, NEW x, Moves(x, i), NEW j \in Images, j # i
    PROVE  inUse'[j] = inUse[j] /\ leaked'[j] = leaked[j]
BY DEF Moves, Dropped, CacheTyped

\* Another image than that of the one who moves keeps its users and its count.
LEMMA ElsewhereExact ==
    ASSUME CacheTyped, NEW i, NEW x, Moves(x, i), NEW j \in Images, j # i,
           ExactAt(j), early \subseteq early',
           \A y : /\ y \in Users(j)' <=> y \in Users(j)
                  /\ y \in Releasers(j)' <=> y \in Releasers(j)
    PROVE  ExactAt(j)'
<1>1. Users(j)' = Users(j)
  OBVIOUS
<1>2. Releasers(j)' = Releasers(j)
  OBVIOUS
<1>3. Claims(j)' = Claims(j)
  BY <1>1, <1>2 DEF Claims
<1>4. inUse'[j] = inUse[j] /\ leaked'[j] = leaked[j]
  BY MovesOnly
<1> QED
  BY <1>3, <1>4 DEF ExactAt

\* The count stays exact.
LEMMA ExactStep ==
    ASSUME TypeOK, Shape, ReferencesExact, [Next]_vars
    PROVE  ReferencesExact'
<1>0. CacheTyped /\ (\A i \in Images : ExactAt(i))
  BY DEF TypeOK, CacheTyped, ReferencesExact, ExactAt, Claims
<1>1. CASE UNCHANGED vars
  <2>1. ASSUME NEW i \in Images
        PROVE  Users(i)' = Users(i) /\ Releasers(i)' = Releasers(i)
    BY <1>1 DEF vars, sessionVars, taskVars, Users, Releasers
  <2> QED
    BY <1>1, <2>1 DEF vars, sessionVars, cacheVars, ReferencesExact
<1>2. CASE Scan
  <2>1. UNCHANGED <<sessionVars, image, boot, containers, taskVars, cacheVars>>
    BY <1>2, ScanTyped
  <2>2. ASSUME NEW i \in Images
        PROVE  Users(i)' = Users(i) /\ Releasers(i)' = Releasers(i)
    BY <2>1 DEF sessionVars, taskVars, Users, Releasers
  <2> QED
    BY <2>1, <2>2 DEF sessionVars, cacheVars, ReferencesExact
<1>3. ASSUME NEW s \in Sids, Start(s), NEW i \in Images
      PROVE  ExactAt(i)'
  <2>1. /\ status[s] = "none" /\ boot'[s] = "begin" /\ held' = held /\ tear' = tear
        /\ UNCHANGED <<inUse, leaked>>
    BY <1>3 DEF Start, SessionStart, TypeOK, cacheVars
  <2>2. ~Uses(s) /\ ~Returns(s) /\ ~Uses(s)' /\ ~Returns(s)'
    BY <2>1 DEF Shape, SessionShape, Uses, Returns
  <2>3. \A y : /\ y \in Users(i)' <=> y \in Users(i)
               /\ y \in Releasers(i)' <=> y \in Releasers(i)
    BY <1>3, <2>2, OthersOweSession, SessionMembers
  <2>4. early \subseteq early'
    BY <1>3, OnlySession
  <2> QED
    BY <1>0, <2>1, <2>3, <2>4, ExactStays
<1>4. ASSUME NEW s \in Sids, Talk(s) \/ End(s) \/ Bootstrap(s) \/ Teardown(s),
             NEW j \in Images
      PROVE  ExactAt(j)'
  <2>1. /\ \A y : y # s => /\ y \in Users(j)' <=> y \in Users(j)
                           /\ y \in Releasers(j)' <=> y \in Releasers(j)
        /\ early \subseteq early'
    BY <1>4, OthersOweSession, OnlySession
  <2>2. Moves(s, image[s])
    BY <1>4, BootstrapMoves, RecordMoves DEF Shape
  <2>3. image' = image
    <3>1. CASE Talk(s)
      BY <3>1 DEF Talk, SessionExec, SessionExport, SessionExecEnd, SessionFinish, Age
    <3>2. CASE End(s)
      BY <3>2, EndEffect
    <3>3. CASE Bootstrap(s)
      BY <3>3 DEF Bootstrap, BootReserve, BootObtain, BootRecord, BootRun, BootSettle,
                  BootFail, BootRm, BootRmTimeout, BootRelease
    <3>4. CASE Teardown(s)
      BY <3>4 DEF Teardown, TearRm, TearRmTimeout, TearRelease
    <3> QED
      BY <1>4, <3>1, <3>2, <3>3, <3>4
  <2>4. CASE j = image[s]
    BY <1>0, <2>1, <2>2, <2>4, ExactMoves
  <2>5. CASE j # image[s]
    <3>1. \A y : /\ y \in Users(j)' <=> y \in Users(j)
                 /\ y \in Releasers(j)' <=> y \in Releasers(j)
      BY <2>1, <2>3, <2>5, SessionMembers
    <3> QED
      BY <1>0, <2>1, <2>2, <2>5, <3>1, ElsewhereExact
  <2> QED
    BY <2>4, <2>5
<1>5. ASSUME NEW t \in Tasks, Enqueue(t), NEW i \in Images
      PROVE  ExactAt(i)'
  <2>1. /\ tstatus[t] = "none" /\ work'[t] = "begin" /\ UNCHANGED <<inUse, leaked, early>>
    BY <1>5 DEF Enqueue, Submit, WorkTo, TypeOK, cacheVars, sessionVars
  <2>2. work[t] = "none"
    BY <2>1 DEF Shape, TaskShape
  <2>3. \A y : /\ y \in Users(i)' <=> y \in Users(i)
               /\ y \in Releasers(i)' <=> y \in Releasers(i)
    BY <1>5, <2>1, <2>2, OthersOweTask, TaskMembers DEF Holds
  <2> QED
    BY <1>0, <2>1, <2>3, ExactStays
<1>6. ASSUME NEW t \in Tasks, Delete(t) \/ Execute(t), NEW j \in Images
      PROVE  ExactAt(j)'
  <2>1. /\ \A y : y # t => /\ y \in Users(j)' <=> y \in Users(j)
                           /\ y \in Releasers(j)' <=> y \in Releasers(j)
        /\ early' = early
    BY <1>6, OthersOweTask, OnlyTask DEF sessionVars
  <2>2. Moves(t, image[t])
    BY <1>6, TaskMoves
  <2>3. image' = image
    BY <1>6 DEF Delete, Execute, TaskBegin, TaskClone, TaskReserve, TaskObtain,
                TaskFinal, TaskRun, TaskRelease
  <2>4. CASE j = image[t]
    BY <1>0, <2>1, <2>2, <2>4, ExactMoves
  <2>5. CASE j # image[t]
    <3>1. \A y : /\ y \in Users(j)' <=> y \in Users(j)
                 /\ y \in Releasers(j)' <=> y \in Releasers(j)
      BY <2>1, <2>3, <2>5, TaskMembers
    <3> QED
      BY <1>0, <2>1, <2>2, <2>5, <3>1, ElsewhereExact
  <2> QED
    BY <2>4, <2>5
<1>7. (\A i \in Images : ExactAt(i)') => ReferencesExact'
  BY DEF ReferencesExact, ExactAt, Claims
<1> QED
  BY <1>1, <1>2, <1>3, <1>4, <1>5, <1>6, <1>7, NextSplits

-------------------------------------------------------------------------------
(* Images in use stay.                                                       *)

\* No step takes an image from docker unless it leaves it without a reference:
\* a pull adds one, and the eviction looks at the counts under the lock.
LEMMA EvictionLooks ==
    ASSUME [Next]_vars, NEW i \in Images, i \in present
    PROVE  i \in present' \/ inUse'[i] = 0
<1>1. ASSUME NEW x, NEW r \in BOOLEAN, Release(x, r)
      PROVE  i \in present' \/ inUse'[i] = 0
  <2>1. inUse' = Dropped(x)
    BY <1>1 DEF Release
  <2>2. PICK keep : present' = present \ Victims(Dropped(x), Touched(x), keep \cup Running)
    BY <1>1 DEF Release
  <2>3. i \in Victims(Dropped(x), Touched(x), keep \cup Running) => Dropped(x)[i] = 0
    BY DEF Victims
  <2> QED
    BY <2>1, <2>2, <2>3
<1>2. CASE UNCHANGED vars
  BY <1>2 DEF vars, cacheVars
<1>3. CASE Scan
  BY <1>3 DEF Scan, ReapScan, ReapDone, cacheVars
<1>4. ASSUME NEW s \in Sids, Start(s) \/ Talk(s)
      PROVE  i \in present'
  BY <1>4 DEF Start, SessionStart, Talk, SessionExec, SessionExport, SessionExecEnd,
              SessionFinish, Age, cacheVars
<1>5. ASSUME NEW s \in Sids, End(s)
      PROVE  i \in present'
  BY <1>5, EndEffect DEF cacheVars
<1>6. ASSUME NEW s \in Sids, Bootstrap(s)
      PROVE  i \in present' \/ inUse'[i] = 0
  <2>1. CASE \E r \in BOOLEAN : BootRelease(s, r)
    BY <1>1, <2>1 DEF BootRelease
  <2>2. CASE ~ \E r \in BOOLEAN : BootRelease(s, r)
    BY <1>6, <2>2 DEF Bootstrap, BootReserve, BootObtain, BootRecord, BootRun, BootSettle,
                      BootFail, BootRm, BootRmTimeout, Reserve, Obtain, ObtainFails, Leak,
                      cacheVars
  <2> QED
    BY <2>1, <2>2
<1>7. ASSUME NEW s \in Sids, Teardown(s)
      PROVE  i \in present' \/ inUse'[i] = 0
  <2>1. CASE \E r \in BOOLEAN : TearRelease(s, r)
    BY <1>1, <2>1 DEF TearRelease
  <2>2. CASE TearRm(s) \/ TearRmTimeout(s)
    BY <2>2 DEF TearRm, TearRmTimeout, Leak, cacheVars
  <2> QED
    BY <1>7, <2>1, <2>2 DEF Teardown
<1>8. ASSUME NEW t \in Tasks, Enqueue(t) \/ Delete(t) \/ Execute(t)
      PROVE  i \in present' \/ inUse'[i] = 0
  <2>1. CASE \E r \in BOOLEAN : TaskRelease(t, r)
    BY <1>1, <2>1 DEF TaskRelease
  <2>2. CASE ~ \E r \in BOOLEAN : TaskRelease(t, r)
    BY <1>8, <2>2 DEF Enqueue, Submit, Delete, Execute, TaskBegin, TaskClone, TaskReserve,
                      TaskObtain, TaskRun, TaskFinal, Reserve, Obtain, ObtainFails, cacheVars
  <2> QED
    BY <2>1, <2>2
<1> QED
  BY <1>2, <1>3, <1>4, <1>5, <1>6, <1>7, <1>8, NextSplits

\* Sessions and tasks that have obtained their image and still count on it.
Owns(x) ==
    \/ x \in Sids /\ (held[x] \/ boot[x] = "record")
    \/ x \in Tasks /\ work[x] = "run"

\* An owner has either just obtained its image or been one before.
LEMMA SessionOwns ==
    ASSUME TypeOK, NEW s \in Sids, SessionShape(s),
           Start(s) \/ Talk(s) \/ End(s) \/ Bootstrap(s) \/ Teardown(s),
           held'[s] \/ boot'[s] = "record"
    PROVE  /\ image'[s] = image[s]
           /\ held[s] \/ boot[s] = "record" \/ image[s] \in present'
<1>1. CASE Start(s)
  <2>1. /\ status[s] = "none" /\ held' = held /\ boot'[s] = "begin"
    BY <1>1 DEF Start, SessionStart, TypeOK
  <2> QED
    BY <2>1 DEF SessionShape
<1>2. CASE Talk(s)
  BY <1>2 DEF Talk, SessionExec, SessionExport, SessionExecEnd, SessionFinish, Age
<1>3. CASE End(s)
  BY <1>3, EndEffect DEF Pop, TypeOK
<1>4. CASE Teardown(s)
  BY <1>4 DEF Teardown, TearRm, TearRmTimeout, TearRelease
<1>5. CASE Bootstrap(s)
  <2>1. CASE BootObtain(s)
    BY <2>1 DEF BootObtain, Obtain, BootTo, sessionVars, TypeOK
  <2>2. CASE BootRecord(s)
    BY <2>2 DEF BootRecord
  <2>3. CASE ~BootObtain(s) /\ ~BootRecord(s)
    BY <1>5, <2>3 DEF Bootstrap, BootReserve, BootRun, BootSettle, BootFail, BootRm,
                      Cleared, BootRmTimeout, BootRelease, BootTo, sessionVars, TypeOK
  <2> QED
    BY <1>5, <2>1, <2>2, <2>3
<1> QED
  BY <1>1, <1>2, <1>3, <1>4, <1>5

\* A task runs on an image that is present.
LEMMA TaskOwns ==
    ASSUME TypeOK, NEW t \in Tasks, TaskShape(t), Enqueue(t) \/ Delete(t) \/ Execute(t),
           work'[t] = "run"
    PROVE  image'[t] = image[t] /\ (work[t] = "run" \/ image[t] \in present')
<1>1. CASE Enqueue(t)
  BY <1>1 DEF Enqueue, Submit, WorkTo, TypeOK
<1>2. CASE Delete(t)
  BY <1>2 DEF Delete
<1>3. CASE Execute(t)
  BY <1>3 DEF Execute, TaskBegin, TaskClone, TaskReserve, TaskObtain, TaskFinal, TaskRun, TaskRelease,
              Obtain, ObtainFails, WorkTo, TypeOK
<1> QED
  BY <1>1, <1>2, <1>3

\* Whoever owns an image keeps it, and got it when it was present.
LEMMA OwnersStay ==
    ASSUME TypeOK, Shape, [Next]_vars, NEW x \in Sids \cup Tasks, Owns(x)'
    PROVE  image'[x] = image[x] /\ (Owns(x) \/ image[x] \in present')
<1>0. Sids \cap Tasks = {}
  BY SandboxAssumption
<1>1. CASE UNCHANGED vars
  BY <1>1 DEF vars, sessionVars, taskVars, Owns
<1>2. CASE Scan
  BY <1>2, ScanTyped DEF sessionVars, taskVars, Owns
<1>3. ASSUME NEW s \in Sids,
             Start(s) \/ Talk(s) \/ End(s) \/ Bootstrap(s) \/ Teardown(s)
      PROVE  image'[x] = image[x] /\ (Owns(x) \/ image[x] \in present')
  <2>1. CASE x = s
    BY <1>0, <1>3, <2>1, SessionOwns DEF Owns, Shape
  <2>2. CASE x # s
    BY <1>3, <2>2, OnlySession DEF Owns
  <2> QED
    BY <2>1, <2>2
<1>4. ASSUME NEW t \in Tasks, Enqueue(t) \/ Delete(t) \/ Execute(t)
      PROVE  image'[x] = image[x] /\ (Owns(x) \/ image[x] \in present')
  <2>1. CASE x = t
    BY <1>0, <1>4, <2>1, TaskOwns DEF Owns, Shape
  <2>2. CASE x # t
    BY <1>4, <2>2, OnlyTask DEF Owns, sessionVars
  <2> QED
    BY <2>1, <2>2
<1> QED
  BY <1>1, <1>2, <1>3, <1>4, NextSplits

\* An owner is a user, so that its image is counted.
OwnersCounted ==
    \A x \in Sids \cup Tasks :
        Owns(x) => image[x] \in Images /\ (image[x] \in early \/ inUse[image[x]] # 0)

\* An owned image is counted, so it is not evicted.
LEMMA OwnedIsCounted == TypeOK /\ Shape /\ ReferencesExact => OwnersCounted
<1> SUFFICES ASSUME TypeOK, Shape, ReferencesExact, NEW x \in Sids \cup Tasks, Owns(x)
             PROVE  image[x] \in Images /\ (image[x] \in early \/ inUse[image[x]] # 0)
  BY DEF OwnersCounted
<1>1. image[x] \in Images
  BY DEF Owns, Shape, SessionShape, TaskShape
<1>2. x \in Users(image[x])
  BY DEF Owns, Users
<1>3. Claims(image[x]) \in Nat /\ Claims(image[x]) # 0
  <2>1. One(x \in Users(image[x])) = 1 /\ One(x \in Releasers(image[x])) \in 0 .. 1
    BY <1>2 DEF One
  <2>2. Owes(x, image[x]) # 0
    BY <2>1 DEF Owes
  <2> QED
    BY <2>2, ClaimsCover
<1>4. leaked[image[x]] \in Nat
  BY <1>1 DEF TypeOK
<1>5. image[x] \in early \/ inUse[image[x]] = Claims(image[x]) + leaked[image[x]]
  BY <1>1 DEF ReferencesExact, Claims
<1> QED
  BY <1>1, <1>3, <1>4, <1>5

\* That a session was reaped while it started is not forgotten.
LEMMA EarlyGrows ==
    ASSUME TypeOK, [Next]_vars
    PROVE  early \subseteq early'
<1>1. CASE UNCHANGED vars
  BY <1>1 DEF vars, sessionVars
<1>2. CASE Scan
  BY <1>2, ScanTyped DEF sessionVars
<1>3. ASSUME NEW s \in Sids,
             Start(s) \/ Talk(s) \/ End(s) \/ Bootstrap(s) \/ Teardown(s)
      PROVE  early \subseteq early'
  BY <1>3, OnlySession
<1>4. ASSUME NEW t \in Tasks, Enqueue(t) \/ Delete(t) \/ Execute(t)
      PROVE  early \subseteq early'
  BY <1>4, OnlyTask DEF sessionVars
<1> QED
  BY <1>1, <1>2, <1>3, <1>4, NextSplits

\* An owned image stays present.
LEMMA OwnedPresentStep ==
    ASSUME TypeOK, Shape, ReferencesExact, OwnedImagePresent, OwnersCounted', [Next]_vars
    PROVE  OwnedImagePresent'
<1>1. ASSUME NEW x \in Sids \cup Tasks, Owns(x)'
      PROVE  image'[x] \in present' \cup early'
  <2>1. image'[x] \in Images /\ (image'[x] \in early' \/ inUse'[image'[x]] # 0)
    BY <1>1 DEF OwnersCounted
  <2>2. image'[x] = image[x] /\ (Owns(x) \/ image[x] \in present')
    BY <1>1, OwnersStay
  <2>3. Owns(x) => image[x] \in present \cup early
    BY DEF Owns, OwnedImagePresent
  <2>4. early \subseteq early'
    BY EarlyGrows
  <2> QED
    BY <2>1, <2>2, <2>3, <2>4, EvictionLooks
<1> QED
  BY <1>1 DEF OwnedImagePresent, Owns

\* No image is in use at first.
LEMMA ImagesExactInit ==
    ASSUME Init
    PROVE  ImagesExact
<1>1. OwnedImagePresent
  BY DEF Init, OwnedImagePresent
<1>2. ASSUME NEW i \in Images
      PROVE  Users(i) = {} /\ Releasers(i) = {}
  BY DEF Init, Users, Releasers
<1>3. ASSUME NEW i \in Images
      PROVE  inUse[i] = Cardinality(Users(i)) + Cardinality(Releasers(i)) + leaked[i]
  <2>1. Cardinality({}) = 0
    BY FS_EmptySet
  <2> QED
    BY <1>2, <2>1 DEF Init
<1>4. ReferencesExact
  BY <1>2, <1>3, FS_EmptySet DEF ReferencesExact, Init
<1> QED
  BY <1>1, <1>4 DEF ImagesExact

\* The image cache and its users agree wherever threads meet: for any number of
\* sessions, tasks and images and docker timeouts at any command, _image_in_use
\* counts exactly the users and the releases still to come (but for the double
\* release after the reaper takes a starting session), and the eviction never
\* takes an image that a session holds or a task runs.
THEOREM ImagesAreExact == Spec => []ImagesExact
<1>1. Init => ImagesExact
  BY ImagesExactInit
<1>2. TypeOK /\ Shape /\ ReferencesExact /\ [Next]_vars => ReferencesExact'
  BY ExactStep
<1>3. TypeOK /\ Shape /\ ImagesExact /\ OwnersCounted' /\ [Next]_vars => OwnedImagePresent'
  BY OwnedPresentStep DEF ImagesExact
<1>4. ImagesExact <=> ReferencesExact /\ OwnedImagePresent
  BY DEF ImagesExact
<1> QED
  BY <1>1, <1>2, <1>3, <1>4, OwnedIsCounted, WellFormed, PTL DEF Spec

===============================================================================
