--------------------------- MODULE SandboxExecutor ---------------------------
(***************************************************************************)
(* The task executor of a sandbox (ubuntu-base/scripts/tools/                *)
(* task_executor.py): interactive sessions, single-shot tasks, and the image *)
(* cache both use.  Every HTTP request, every bootstrap and every task runs   *)
(* in a thread of its own, and one more thread reaps idle sessions; they      *)
(* meet only under _sessions_lock, _image_lock and _tasks_lock, and run       *)
(* docker outside of the first and the last.  An action is one critical       *)
(* section or one docker command.                                             *)
(***************************************************************************)
EXTENDS Integers, FiniteSets

CONSTANTS
    Sids,           \* bound: the session ids, numbered as they are handed out
    Tasks,          \* bound: the tasks ever submitted
    Images,         \* the image references, all of one size
    Built,          \* the images of build mode (a Dockerfile, not a registry)
    Cap,            \* _IMAGE_CACHE_MAX_BYTES in images; 0: no eviction
    MaxJobs,        \* bound on the sessions and tasks together
    MaxExecs,       \* bound on the commands and exports
    Timeouts        \* the docker commands that may time out: "pull", "run", "rm"

NoImage == "no image"   \* a clone task runs no container

ASSUME SandboxAssumption ==
    /\ Sids \subseteq Nat \ {0} /\ IsFiniteSet(Sids)
    /\ IsFiniteSet(Tasks) /\ Sids \cap Tasks = {}
    /\ IsFiniteSet(Images) /\ NoImage \notin Images
    /\ Built \subseteq Images
    /\ Cap \in Nat /\ MaxJobs \in Nat /\ MaxExecs \in Nat
    /\ Timeouts \subseteq {"pull", "run", "rm"}

VARIABLES
    status,     \* _sessions[s]["status"]; "none", "gone": no record
    image,      \* the image of session or task x
    held,       \* _sessions[s]["image_held"]
    idle,       \* _sessions[s]["_last_used"] is before the reaper's cutoff
    boot,       \* where the bootstrap thread of s is
    call,       \* the requests on s being served: how many execs, and finish
    execs,      \* commands and exports run so far
    tear,       \* where the one winning _teardown_session(s) is
    containers, \* the sessions whose container exists
    stale,      \* the reaper's list; a sid leaves it when its turn comes
    reaping,    \* the sid being reaped, or Nobody
    tstatus,    \* _tasks[t]["status"]; "none", "gone": no record
    work,       \* where the thread of task t is
    inUse,      \* _image_in_use; 0: no entry
    lru,        \* _image_last_used: <<i, j>>, i was last used no later than j
    present,    \* the images docker has
    leaked,     \* history: references whose owner died without releasing them
    early       \* history: the images of sessions reaped while still starting

sessionVars == <<status, held, idle, call, execs, tear, early>>
reaperVars == <<stale, reaping>>
taskVars == <<tstatus, work>>
cacheVars == <<inUse, lru, present, leaked>>
vars == <<sessionVars, image, boot, containers, reaperVars, taskVars, cacheVars>>

Nobody == 0
NoCall == [execs |-> 0, finish |-> FALSE]

Init ==
    /\ status = [s \in Sids |-> "none"] /\ held = [s \in Sids |-> FALSE]
    /\ image = [x \in Sids \cup Tasks |-> NoImage]
    /\ idle = [s \in Sids |-> FALSE]
    /\ boot = [s \in Sids |-> "none"]
    /\ call = [s \in Sids |-> NoCall] /\ execs = 0
    /\ tear = [s \in Sids |-> "none"]
    /\ containers = {}
    /\ stale = {} /\ reaping = Nobody
    /\ tstatus = [t \in Tasks |-> "none"] /\ work = [t \in Tasks |-> "none"]
    /\ inUse = [i \in Images |-> 0] /\ lru = {} /\ present = {}
    /\ leaked = [i \in Images |-> 0] /\ early = {}

\* The bound on jobs, for SessionStart and Submit.
MoreJobs ==
    Cardinality({s \in Sids : status[s] # "none"})
        + Cardinality({t \in Tasks : tstatus[t] # "none"}) < MaxJobs

-------------------------------------------------------------------------------
(* The image cache.                                                          *)

Recorded(s) == status[s] \notin {"none", "gone"}

\* The images with a time of last use.
TrackedIn(order) == {i \in Images : <<i, i>> \in order}
Without(order, gone) == {p \in order : p[1] \notin gone /\ p[2] \notin gone}

Touched(i) ==
    Without(lru, {i}) \cup {<<j, i>> : j \in TrackedIn(lru) \cup {i}}
Dropped(i) == [inUse EXCEPT ![i] = IF @ > 0 THEN @ - 1 ELSE 0]

\* _ensure_image, _ensure_built: the reference is taken before the image exists.
Reserve(i) ==
    /\ inUse' = [inUse EXCEPT ![i] = @ + 1]
    /\ lru' = Touched(i)
    /\ UNCHANGED <<present, leaked>>

\* ... and the image pulled or built, if docker does not have it.
Obtain(i) ==
    /\ present' = present \cup {i}
    /\ UNCHANGED <<inUse, lru, leaked>>

\* The pull fails: the reference is dropped.  If it times out the exception
\* passes the code that drops it.
ObtainFails(i) ==
    /\ i \notin present
    /\ \/ /\ inUse' = Dropped(i) /\ UNCHANGED leaked
       \/ /\ "pull" \in Timeouts
          /\ leaked' = [leaked EXCEPT ![i] = @ + 1] /\ UNCHANGED inUse
    /\ UNCHANGED <<lru, present>>

\* The images of the running containers: docker refuses to remove them.
Running == {image[s] : s \in containers}
           \cup {image[t] : t \in {x \in Tasks : work[x] = "run"}}

OverCap(tracked, gone) == Cap > 0 /\ Cardinality((present \cap tracked) \ gone) > Cap

\* _evict_lru_locked: unused images go, least recently used first, until the
\* rest fits.  Docker fails to remove the images of keep, which are skipped.
Victims(use, order, keep) ==
    LET removable == {i \in TrackedIn(order) : use[i] = 0} \ keep
        older(i) == {j \in removable \ {i} : <<j, i>> \in order}
    IN {i \in removable : OverCap(TrackedIn(order), older(i))}

\* _release_image.  raised: a docker command of the eviction timed out, and
\* the exception reaches the caller with the reference already dropped.
Release(i, raised) ==
    /\ raised => "rm" \in Timeouts /\ OverCap(TrackedIn(Touched(i)), {})
    /\ inUse' = Dropped(i)
    /\ \E keep \in SUBSET (IF OverCap(TrackedIn(Touched(i)), {}) THEN Images \ Running ELSE {}) :
        LET gone == Victims(Dropped(i), Touched(i), keep \cup Running)
        IN /\ lru' = Without(Touched(i), gone)
           /\ present' = present \ gone
    /\ UNCHANGED leaked

Leak(i) ==
    /\ leaked' = [leaked EXCEPT ![i] = @ + 1]
    /\ UNCHANGED <<inUse, lru, present>>

-------------------------------------------------------------------------------
(* Teardown: the record is popped under the lock, so there is one winner;    *)
(* it removes the container and then releases the image.                     *)

\* Mutant: image_held is not looked at.
PopUnheld(s) ==
    /\ status' = [status EXCEPT ![s] = "gone"]
    /\ held' = [held EXCEPT ![s] = FALSE]
    /\ idle' = [idle EXCEPT ![s] = FALSE]
    /\ tear' = [tear EXCEPT ![s] = "rm_held"]
    /\ early' = IF status[s] = "starting" THEN early \cup {image[s]} ELSE early

Pop(s) ==
    /\ status' = [status EXCEPT ![s] = "gone"]
    /\ held' = [held EXCEPT ![s] = FALSE]
    /\ idle' = [idle EXCEPT ![s] = FALSE]
    /\ tear' = [tear EXCEPT ![s] = IF held[s] THEN "rm_held" ELSE "rm"]
    /\ early' = IF status[s] = "starting" THEN early \cup {image[s]} ELSE early

TearRm(s) ==
    /\ tear[s] \in {"rm", "rm_held"}
    /\ tear' = [tear EXCEPT ![s] = IF @ = "rm_held" THEN "release" ELSE "done"]
    /\ containers' = containers \ {s}
    /\ UNCHANGED <<early, status, held, idle, call, execs, image, boot, reaperVars,
                   taskVars, cacheVars>>

\* docker rm times out: the exception leaves _teardown_session, the image is
\* never released, and the reaper gives up the rest of its list.
TearRmTimeout(s) ==
    /\ "rm" \in Timeouts
    /\ tear[s] \in {"rm", "rm_held"}
    /\ tear' = [tear EXCEPT ![s] = "dead"]
    /\ IF tear[s] = "rm_held" THEN Leak(image[s]) ELSE UNCHANGED cacheVars
    /\ stale' = IF reaping = s THEN {} ELSE stale
    /\ UNCHANGED <<early, status, held, idle, call, execs, image, boot, containers,
                   reaping, taskVars>>

TearRelease(s, raised) ==
    /\ tear[s] = "release"
    /\ Release(image[s], raised)
    /\ tear' = [tear EXCEPT ![s] = "done"]
    /\ stale' = IF raised /\ reaping = s THEN {} ELSE stale
    /\ UNCHANGED <<early, status, held, idle, call, execs, image, boot, containers,
                   reaping, taskVars>>

-------------------------------------------------------------------------------
(* Requests on a session.                                                    *)

SessionStart(s, i) ==
    /\ status[s] = "none" /\ MoreJobs
    /\ \A r \in Sids : r < s => status[r] # "none"
    /\ status' = [status EXCEPT ![s] = "starting"]
    /\ image' = [image EXCEPT ![s] = i]
    /\ boot' = [boot EXCEPT ![s] = "begin"]
    /\ UNCHANGED <<early, held, idle, call, execs, tear, containers, reaperVars,
                   taskVars, cacheVars>>

\* exec and export read the record and run without the lock; they may outlive
\* the session.
SessionExec(s) ==
    /\ status[s] = "ready" /\ execs < MaxExecs
    /\ call' = [call EXCEPT ![s].execs = @ + 1]
    /\ execs' = execs + 1
    /\ idle' = [idle EXCEPT ![s] = FALSE]
    /\ UNCHANGED <<early, status, held, tear, image, boot, containers, reaperVars,
                   taskVars, cacheVars>>

SessionExport(s) ==
    /\ status[s] = "ready" /\ execs < MaxExecs
    /\ execs' = execs + 1
    /\ idle' = [idle EXCEPT ![s] = FALSE]
    /\ UNCHANGED <<early, status, held, call, tear, image, boot, containers, reaperVars,
                   taskVars, cacheVars>>

SessionExecEnd(s) ==
    /\ call[s].execs > 0
    /\ call' = [call EXCEPT ![s].execs = @ - 1]
    /\ lru' = IF image[s] \in TrackedIn(lru) THEN Touched(image[s]) ELSE lru
    /\ UNCHANGED <<early, status, held, idle, execs, tear, image, boot, containers,
                   reaperVars, taskVars, inUse, present, leaked>>

\* Mutant: a failed session can be finished.
SessionFinishAny(s) ==
    /\ status[s] \in {"ready", "failed"}
    /\ status' = [status EXCEPT ![s] = "finishing"]
    /\ call' = [call EXCEPT ![s].finish = TRUE]
    /\ idle' = [idle EXCEPT ![s] = FALSE]
    /\ UNCHANGED <<early, held, execs, tear, image, boot, containers, reaperVars,
                   taskVars, cacheVars>>

\* A command that still runs does not keep finish back.
SessionFinish(s) ==
    /\ status[s] = "ready"
    /\ status' = [status EXCEPT ![s] = "finishing"]
    /\ call' = [call EXCEPT ![s].finish = TRUE]
    /\ idle' = [idle EXCEPT ![s] = FALSE]
    /\ UNCHANGED <<early, held, execs, tear, image, boot, containers, reaperVars,
                   taskVars, cacheVars>>

\* The verifier is over, whatever came of it; finally: _teardown_session.
SessionFinishEnd(s) ==
    /\ call[s].finish
    /\ call' = [call EXCEPT ![s].finish = FALSE]
    /\ IF Recorded(s) THEN Pop(s) ELSE UNCHANGED <<early, status, held, idle, tear>>
    /\ UNCHANGED <<execs, image, boot, containers, reaperVars, taskVars,
                   cacheVars>>

\* DELETE is refused while the bootstrap runs.
SessionDelete(s) ==
    /\ Recorded(s) /\ status[s] # "starting"
    /\ Pop(s)
    /\ UNCHANGED <<call, execs, image, boot, containers, reaperVars,
                   taskVars, cacheVars>>

\* Time passes without a request.  Commands are given timeouts well below
\* _SESSION_MAX_AGE, so a session ages only between them.
Age(s) ==
    /\ Recorded(s) /\ ~ idle[s] /\ call[s] = NoCall
    /\ idle' = [idle EXCEPT ![s] = TRUE]
    /\ UNCHANGED <<early, status, held, call, execs, tear, image, boot, containers,
                   reaperVars, taskVars, cacheVars>>

\* Mutant: failed sessions are left to their clients.
ReapScanReady ==
    /\ stale = {} /\ reaping = Nobody
    /\ stale' = {s \in Sids : Recorded(s) /\ status[s] # "failed" /\ idle[s]}
    /\ stale' # {}
    /\ UNCHANGED <<sessionVars, image, boot, containers, reaping, taskVars, cacheVars>>

\* _reap_sessions_once: the list is made under the lock, ...
ReapScan ==
    /\ stale = {} /\ reaping = Nobody
    /\ stale' = {s \in Sids : Recorded(s) /\ idle[s]}
    /\ stale' # {}
    /\ UNCHANGED <<sessionVars, image, boot, containers, reaping, taskVars, cacheVars>>

\* ... and its sessions are torn down one after the other, without a second look.
Reap(s) ==
    /\ s \in stale /\ reaping = Nobody
    /\ stale' = stale \ {s}
    /\ IF Recorded(s)
       THEN Pop(s) /\ reaping' = s
       ELSE UNCHANGED <<early, status, held, idle, tear, reaping>>
    /\ UNCHANGED <<call, execs, image, boot, containers, taskVars, cacheVars>>

ReapDone ==
    /\ reaping # Nobody
    /\ tear[reaping] \in {"done", "dead"}
    /\ reaping' = Nobody
    /\ UNCHANGED <<sessionVars, image, boot, containers, stale, taskVars, cacheVars>>

-------------------------------------------------------------------------------
(* _session_bootstrap.  "fail": the except clause with ref set; "fail0":     *)
(* with ref still None.  "unwind", "unwound": the record was gone, which the   *)
(* try clears up after itself, "undo", "clean", "release": the except clause.  *)

BootTo(s, pc) == boot' = [boot EXCEPT ![s] = pc]

\* Docker may be down: nothing was acquired yet.
BootReserve(s) ==
    /\ boot[s] = "begin"
    /\ \/ BootTo(s, "fail0") /\ UNCHANGED cacheVars
       \/ BootTo(s, "pull") /\ Reserve(image[s])
    /\ UNCHANGED <<sessionVars, image, containers, reaperVars, taskVars>>

\* _ensure_built returns ref only if it succeeds; image mode sets it first.
BootObtain(s) ==
    /\ boot[s] = "pull"
    /\ \/ BootTo(s, "record") /\ Obtain(image[s])
       \/ /\ BootTo(s, IF image[s] \in Built THEN "fail0" ELSE "fail")
          /\ ObtainFails(image[s])
    /\ UNCHANGED <<sessionVars, image, containers, reaperVars, taskVars>>

BootRecord(s) ==
    /\ boot[s] = "record"
    /\ IF Recorded(s)
       THEN held' = [held EXCEPT ![s] = TRUE] /\ BootTo(s, "run")
       ELSE BootTo(s, "unwound") /\ UNCHANGED held
    /\ UNCHANGED <<early, status, idle, call, execs, tear, image, containers,
                   reaperVars, taskVars, cacheVars>>

\* docker run and the startup command.  docker run pulls an absent image
\* again; it cannot build one.  A failure may leave a container behind.
BootRun(s) ==
    /\ boot[s] = "run"
    /\ \/ /\ image[s] \in present \/ image[s] \notin Built
          /\ present' = present \cup {image[s]}
          /\ containers' = containers \cup {s}
          /\ BootTo(s, "settle")
       \/ /\ containers' \in {containers, containers \cup {s}}
          /\ BootTo(s, "fail")
          /\ UNCHANGED present
    /\ UNCHANGED <<sessionVars, image, reaperVars, taskVars, inUse, lru, leaked>>

BootSettle(s) ==
    /\ boot[s] = "settle"
    /\ IF Recorded(s)
       THEN /\ status' = [status EXCEPT ![s] = "ready"]
            /\ idle' = [idle EXCEPT ![s] = FALSE]
            /\ BootTo(s, "done")
       ELSE BootTo(s, "unwind") /\ UNCHANGED <<status, idle>>
    /\ UNCHANGED <<early, held, call, execs, tear, image, containers, reaperVars,
                   taskVars, cacheVars>>

\* The except clause; rel is the image if the record still holds it.  With no
\* record ref is released, whether or not the reference is still there.
BootFail(s) ==
    /\ boot[s] \in {"fail", "fail0"}
    /\ IF Recorded(s)
       THEN /\ status' = [status EXCEPT ![s] = "failed"]
            /\ held' = [held EXCEPT ![s] = FALSE]
            /\ BootTo(s, IF held[s] THEN "undo" ELSE "clean")
       ELSE /\ BootTo(s, IF boot[s] = "fail" THEN "undo" ELSE "clean")
            /\ UNCHANGED <<status, held>>
    /\ UNCHANGED <<early, idle, call, execs, tear, image, containers, reaperVars,
                   taskVars, cacheVars>>

Cleared(pc) == CASE pc = "unwind" -> "unwound" [] pc = "undo" -> "release" [] OTHER -> "done"

\* Mutant: the container of a failed bootstrap is left alone.
BootRmNone(s) ==
    /\ boot[s] \in {"unwind", "undo", "clean"}
    /\ BootTo(s, Cleared(boot[s]))
    /\ UNCHANGED <<sessionVars, image, containers, reaperVars, taskVars, cacheVars>>

\* docker rm -f, then the release if there is one to do.
BootRm(s) ==
    /\ boot[s] \in {"unwind", "undo", "clean"}
    /\ containers' = containers \ {s}
    /\ BootTo(s, Cleared(boot[s]))
    /\ UNCHANGED <<sessionVars, image, reaperVars, taskVars, cacheVars>>

\* Inside the try an exception comes to the except clause, which finds no record
\* and clears up again.  There the thread dies, and the reference with it.
BootRmTimeout(s) ==
    /\ "rm" \in Timeouts
    /\ boot[s] \in {"unwind", "undo", "clean"}
    /\ BootTo(s, IF boot[s] = "unwind" THEN "undo" ELSE "dead")
    /\ IF boot[s] = "undo" THEN Leak(image[s]) ELSE UNCHANGED cacheVars
    /\ UNCHANGED <<sessionVars, image, containers, reaperVars, taskVars>>

\* Likewise: what raised has dropped the reference, the except clause drops it again.
BootRelease(s, raised) ==
    /\ boot[s] \in {"unwound", "release"}
    /\ Release(image[s], raised)
    /\ BootTo(s, IF raised /\ boot[s] = "unwound" THEN "undo" ELSE "done")
    /\ UNCHANGED <<sessionVars, image, containers, reaperVars, taskVars>>

-------------------------------------------------------------------------------
(* Tasks.                                                                    *)

WorkTo(t, pc) == work' = [work EXCEPT ![t] = pc]
Known(t) == tstatus[t] \notin {"none", "gone"}
Settled(t) == tstatus[t] \in {"completed", "failed"}

\* Settled records past _TASK_MAX_AGE are dropped first.
Submit(t, i) ==
    /\ tstatus[t] = "none" /\ MoreJobs
    /\ \E old \in SUBSET {x \in Tasks : Settled(x)} :
        tstatus' = [x \in Tasks |-> IF x = t THEN "pending"
                                    ELSE IF x \in old THEN "gone" ELSE tstatus[x]]
    /\ image' = [image EXCEPT ![t] = i]
    /\ WorkTo(t, "begin")
    /\ UNCHANGED <<sessionVars, boot, containers, reaperVars, cacheVars>>

\* DELETE /task/<id> pops a record in any state.
Delete(t) ==
    /\ Known(t)
    /\ tstatus' = [tstatus EXCEPT ![t] = "gone"]
    /\ UNCHANGED <<sessionVars, image, boot, containers, reaperVars, work, cacheVars>>

\* The first _update is outside the try: a deleted record ends the thread.
TaskBegin(t) ==
    /\ work[t] = "begin"
    /\ IF Known(t)
       THEN /\ tstatus' = [tstatus EXCEPT ![t] = "running"]
            /\ WorkTo(t, IF image[t] = NoImage THEN "clone" ELSE "reserve")
       ELSE WorkTo(t, "done") /\ UNCHANGED tstatus
    /\ UNCHANGED <<sessionVars, image, boot, containers, reaperVars, cacheVars>>

\* _execute_clone: git, patches, tests, lint; any of them may fail or time out.
TaskClone(t) ==
    /\ work[t] = "clone"
    /\ \E pc \in {"completed", "failed"} : WorkTo(t, pc)
    /\ UNCHANGED <<sessionVars, image, boot, containers, reaperVars, tstatus, cacheVars>>

\* _execute_image: docker may be down, or a file of the harness refused.
TaskReserve(t) ==
    /\ work[t] = "reserve"
    /\ \/ WorkTo(t, "failed") /\ UNCHANGED cacheVars
       \/ WorkTo(t, "pull") /\ Reserve(image[t])
    /\ UNCHANGED <<sessionVars, image, boot, containers, reaperVars, tstatus>>

TaskObtain(t) ==
    /\ work[t] = "pull"
    /\ \/ WorkTo(t, "run") /\ Obtain(image[t])
       \/ WorkTo(t, "failed") /\ ObtainFails(image[t])
    /\ UNCHANGED <<sessionVars, image, boot, containers, reaperVars, tstatus>>

\* The container runs to its end, or times out and is removed.
TaskRun(t) ==
    /\ work[t] = "run"
    /\ WorkTo(t, "ended")
    /\ UNCHANGED <<sessionVars, image, boot, containers, reaperVars, tstatus, cacheVars>>

\* Then the image is released.  If that raises, the result is never written; else it
\* is "failed" if the container timed out.
TaskRelease(t, raised) ==
    /\ work[t] = "ended"
    /\ Release(image[t], raised)
    /\ \/ WorkTo(t, IF raised THEN "lost" ELSE "completed")
       \/ "run" \in Timeouts /\ WorkTo(t, IF raised THEN "lost" ELSE "failed")
    /\ UNCHANGED <<sessionVars, image, boot, containers, reaperVars, tstatus>>

\* The last _update of finally: a KeyError if the record was deleted.
TaskFinal(t) ==
    /\ work[t] \in {"completed", "failed"}
    /\ tstatus' = IF Known(t) THEN [tstatus EXCEPT ![t] = work[t]] ELSE tstatus
    /\ WorkTo(t, "done")
    /\ UNCHANGED <<sessionVars, image, boot, containers, reaperVars, cacheVars>>

-------------------------------------------------------------------------------
Teardown(s) == TearRm(s) \/ TearRmTimeout(s) \/ \E r \in BOOLEAN : TearRelease(s, r)

Bootstrap(s) ==
    \/ BootReserve(s) \/ BootObtain(s) \/ BootRecord(s) \/ BootRun(s)
    \/ BootSettle(s) \/ BootFail(s) \/ BootRm(s) \/ BootRmTimeout(s)
    \/ \E r \in BOOLEAN : BootRelease(s, r)

Request(s) ==
    \/ \E i \in Images : SessionStart(s, i)
    \/ SessionExec(s) \/ SessionExport(s) \/ SessionFinish(s) \/ SessionDelete(s)

Reaper == ReapScan \/ ReapDone \/ \E s \in Sids : Reap(s)

Execute(t) ==
    \/ TaskBegin(t) \/ TaskClone(t) \/ TaskReserve(t) \/ TaskObtain(t)
    \/ TaskRun(t) \/ TaskFinal(t) \/ \E r \in BOOLEAN : TaskRelease(t, r)

Next ==
    \/ \E s \in Sids : \/ Request(s) \/ Bootstrap(s) \/ Teardown(s) \/ Age(s)
                       \/ SessionExecEnd(s) \/ SessionFinishEnd(s)
    \/ Reaper
    \/ \E t \in Tasks : \/ \E i \in (Images \ Built) \cup {NoImage} : Submit(t, i)
                        \/ Delete(t) \/ Execute(t)

Spec == Init /\ [][Next]_vars

\* Threads run, time passes, and the reaper wakes up every minute.  Nothing
\* makes a client send a request, and no session waits for a task.  A thread has
\* finitely many steps and a session is idle once after each request, so it is
\* enough that one of them goes on.
Threads ==
    \E s \in Sids : SessionExecEnd(s) \/ SessionFinishEnd(s) \/ Teardown(s) \/ Bootstrap(s)

FairSpec == Spec /\ WF_vars((\E s \in Sids : Age(s)) \/ Reaper \/ Threads)

-------------------------------------------------------------------------------
TypeOK ==
    /\ status \in [Sids -> {"none", "starting", "ready", "finishing", "failed", "gone"}]
    /\ image \in [Sids \cup Tasks -> Images \cup {NoImage}]
    /\ held \in [Sids -> BOOLEAN] /\ idle \in [Sids -> BOOLEAN]
    /\ boot \in [Sids -> {"none", "begin", "pull", "record", "run", "settle", "fail",
                          "fail0", "unwind", "unwound", "undo", "clean", "release",
                          "done", "dead"}]
    /\ call \in [Sids -> [execs : Nat, finish : BOOLEAN]]
    /\ execs \in 0 .. MaxExecs
    /\ tear \in [Sids -> {"none", "rm", "rm_held", "release", "done", "dead"}]
    /\ containers \subseteq Sids
    /\ stale \subseteq Sids /\ reaping \in Sids \cup {Nobody}
    /\ tstatus \in [Tasks -> {"none", "pending", "running", "completed", "failed", "gone"}]
    /\ work \in [Tasks -> {"none", "begin", "clone", "reserve", "pull", "run", "ended",
                           "completed", "failed", "lost", "done"}]
    /\ inUse \in [Images -> Nat] /\ leaked \in [Images -> Nat]
    /\ lru \subseteq Images \X Images /\ present \subseteq Images /\ early \subseteq Images

\* A session uses its image from the reservation until its record is popped or
\* its bootstrap fails, a task until it releases it.
Users(i) ==
    {s \in Sids : image[s] = i /\ (held[s] \/ boot[s] \in {"pull", "record"})}
    \cup {t \in Tasks : image[t] = i /\ work[t] \in {"pull", "run", "ended"}}

\* Whoever popped the record, or cleans up after the bootstrap, has the
\* reference to release.
Releasers(i) ==
    {s \in Sids : image[s] = i /\ (\/ tear[s] \in {"rm_held", "release"}
                                  \/ boot[s] \in {"unwind", "unwound", "undo", "release"})}

\* _image_in_use counts exactly the users and the releases still to come, plus
\* the references a docker timeout left without an owner: whatever the order of
\* finish, DELETE, reaper and bootstrap, none is forgotten, and none is released
\* twice but by the bootstrap of a session that was reaped while it started.
ReferencesExact ==
    \A i \in Images :
        LET owed == Cardinality(Users(i)) + Cardinality(Releasers(i)) + leaked[i]
        IN  inUse[i] <= owed /\ (i \notin early => inUse[i] = owed)

\* Eviction never takes an image from under a session that has obtained it or
\* a task that runs it, with the same exception.
OwnedImagePresent ==
    /\ \A s \in Sids : held[s] \/ boot[s] = "record" => image[s] \in present \cup early
    /\ \A t \in Tasks : work[t] = "run" => image[t] \in present \cup early

\* The image cache and its users agree at every point where threads meet.
ImagesExact == ReferencesExact /\ OwnedImagePresent

\* A container exists only while its session does, or somebody is on the way
\* to remove it, or a docker rm of it timed out.
NoOrphanContainer ==
    \A s \in containers :
        \/ Recorded(s) /\ status[s] # "failed"
        \/ boot[s] \in {"run", "settle", "unwind", "undo", "clean", "fail", "dead"}
        \/ tear[s] \in {"rm", "rm_held", "dead"}

\* A task whose thread has ended has its result, unless the client deleted it
\* or the eviction after its run timed out.
ResultWritten == \A t \in Tasks : work[t] = "done" => Settled(t) \/ tstatus[t] = "gone"

\* Whatever the interleaving of the threads, nothing is left without an owner:
\* no container, and no task without its result.
NothingLost == TypeOK /\ NoOrphanContainer /\ ResultWritten

\* Once clients start no more sessions (Sids is finite) every session is removed,
\* also one its client has forgotten, and none comes back.
SessionsReclaimed == <>[](\A s \in Sids : ~ Recorded(s))

Service == INSTANCE SessionService
\* To a client the executor is a SessionService.
ImplementsService == Service!ServiceSpec
=============================================================================
