------------------------------ MODULE Launcher ------------------------------
(***************************************************************************)
(* dockyard-k8s: commands of several users against one namespace, in which   *)
(* their recipes name the same RayCluster, RayJob and sandbox pool.          *)
(*                                                                           *)
(* A command is the sequence of the calls it makes to the API server, to     *)
(* KubeRay's dashboard and to the head pod; every call is a step, and a       *)
(* command may stop before any of them (an error the retries did not cure, a  *)
(* timeout of a wait, an interrupt).                                         *)
(***************************************************************************)
EXTENDS Integers, Sequences, TLC

CONSTANTS
    Users,          \* the users
    Labelled,       \* those whose infra sets the dockyard-k8s/owner label
    Batch,          \* those who run in batch mode, over kubectl exec
    Specs,          \* rendered RayCluster specs
    Kinds,          \* the commands given
    Extras,         \* optional parts of the sandbox: netpol, sandbox_pdb
    MaxCommands,    \* bound: commands of all users together
    MaxOverlap,     \* bound: commands that may begin while another is under way
    MaxRuns,        \* bound: training runs launched
    Ids,            \* run ids
    ReuseIds        \* whether --run-id may name an id that was used before

ASSUME LauncherAssumption ==
    /\ Labelled \subseteq Users /\ Batch \subseteq Users
    /\ Ids \subseteq Nat \ {0}
    /\ Extras \subseteq {"netpol", "sandbox_pdb"}
    /\ Kinds \subseteq {"up", "down", "bringup", "attach", "rayjob", "stop"}
    /\ {MaxCommands, MaxOverlap, MaxRuns} \subseteq Nat

VARIABLES
    ps,         \* each user's command
    begun,      \* commands begun
    rc,         \* the RayCluster
    rj,         \* the RayJob's deployment status
    parts,      \* the other objects that exist
    pool,       \* the owner label of the sandbox Deployment
    runs,       \* the training runs launched on the cluster, in order
    dir,        \* the directory of each exec run on the head pod
    handles     \* the handles each user's cache holds

vars == <<ps, begun, rc, rj, parts, pool, runs, dir, handles>>

kube == <<rc, rj, parts, pool>>
head == <<runs, dir, handles>>

NoOwner == "none"
NoSpec == "none"
OwnerLabel(u) == IF u \in Labelled THEN u ELSE NoOwner

NoCluster == [owner |-> NoOwner, spec |-> NoSpec, ready |-> FALSE, deleting |-> FALSE]
Cluster(u, spec) == [owner |-> OwnerLabel(u), spec |-> spec, ready |-> FALSE, deleting |-> FALSE]
HasCluster == rc # NoCluster

NoDir == [pid |-> 0, exitcode |-> "none"]
Ended == {"succeeded", "failed", "stopped"}

-------------------------------------------------------------------------------
(* The commands.                                                             *)

\* The optional parts in the order they are applied.
Optional(x, step) == IF x \in Extras THEN <<step>> ELSE <<>>

ExtraParts == Optional("netpol", "netpol") \o Optional("sandbox_pdb", "sandbox_pdb")

AppliedParts == {"deployment", "service", "dra", "cluster_pdb"} \cup Extras

DeleteOf(x) ==
    CASE x = "deployment" -> "delete_deployment"
      [] x = "service" -> "delete_service"
      [] x = "netpol" -> "delete_netpol"
      [] x = "sandbox_pdb" -> "delete_sandbox_pdb"
      [] x = "dra" -> "delete_dra"
      [] x = "cluster_pdb" -> "delete_cluster_pdb"

SandboxUp ==
    <<"get_deployment", "deployment", "service">> \o ExtraParts \o <<"wait_deployment">>

\* What follows depends on the cluster it finds: see Ensure.
ClusterUp == <<"get_cluster">>

\* Mutant: --replace stops the runs of its own transport alone.
StopRunningOwn(via) ==
    IF via = "exec" THEN <<"scan", "wait_exit">> ELSE <<"list_jobs", "wait_stopped">>
StopRunning(via) ==
    (IF via = "exec" THEN <<"scan", "wait_exit">> ELSE <<>>) \o <<"list_jobs", "wait_stopped">>

Submit(via, replace) ==
    (IF replace THEN StopRunning(via) ELSE <<>>)
        \o (IF via = "exec" THEN <<"launch", "poll_pid">> ELSE <<"submit">>)
        \o <<"save_handle">>

Teardown(wait) ==
    <<"delete_cluster">> \o (IF wait THEN <<"wait_gone">> ELSE <<>>)
        \o <<"delete_cluster_pdb", "delete_dra">>
        \o Optional("sandbox_pdb", "delete_sandbox_pdb") \o Optional("netpol", "delete_netpol")
        \o <<"delete_service", "delete_deployment">>

Program(c) ==
    CASE c.kind = "up" -> SandboxUp \o <<"no_rayjob">> \o ClusterUp
      [] c.kind = "bringup" -> <<"no_rayjob">> \o SandboxUp \o ClusterUp \o Submit(c.via, c.replace)
      [] c.kind = "attach" -> SandboxUp \o Submit(c.via, c.replace)
      [] c.kind = "rayjob" ->
            <<"no_cluster">> \o SandboxUp \o <<"dra", "apply_rayjob", "wait_rayjob", "delete_dra">>
      [] c.kind = "down" -> Teardown(c.wait)
      [] c.kind = "stop" -> <<"stop_run">>

\* calm: no other command has changed anything since this one began;
\* dying: the RayCluster it reads is being deleted; slow: a run it waits for has
\* not ended in time; escaped: a run that is there is not one it waits for.
Shell == [kind |-> "none", prog |-> <<>>, outcome |-> "none", spec |-> NoSpec, id |-> 0,
          via |-> "ray", replace |-> FALSE, recreate |-> FALSE, wait |-> TRUE,
          todo |-> {}, run |-> 0, calm |-> TRUE, warned |-> FALSE, dying |-> FALSE,
          slow |-> FALSE, escaped |-> FALSE]

\* --mode interactive submits Ray jobs, --mode batch execs.
Options(u, kind) ==
    [spec : IF kind \in {"up", "bringup"} THEN Specs ELSE {NoSpec},
     id : IF kind \in {"bringup", "attach", "stop"} THEN Ids ELSE {0},
     via : IF kind \in {"bringup", "attach"} /\ u \in Batch THEN {"exec"} ELSE {"ray"},
     replace : IF kind \in {"bringup", "attach"} THEN BOOLEAN ELSE {FALSE},
     recreate : IF kind \in {"up", "bringup"} THEN BOOLEAN ELSE {FALSE},
     wait : IF kind = "down" THEN BOOLEAN ELSE {TRUE}]

\* A command that has made none of its calls.
Command(kind, o) ==
    LET c == [Shell EXCEPT !.kind = kind, !.spec = o.spec, !.id = o.id, !.via = o.via,
                           !.replace = o.replace, !.recreate = o.recreate, !.wait = o.wait]
    IN  [c EXCEPT !.prog = Program(c)]

Init ==
    /\ ps = [u \in Users |-> Shell]
    /\ begun = 0
    /\ rc = NoCluster
    /\ rj = "none"
    /\ parts = {}
    /\ pool = NoOwner
    /\ runs = <<>>
    /\ dir = [i \in Ids |-> NoDir]
    /\ handles = [u \in Users |-> {}]

\* Fresh ids are taken in order.
Fresh(id) ==
    \A i \in Ids : i <= id =>
        (i < id <=> \/ \E r \in DOMAIN runs : runs[r].id = i
                    \/ \E v \in Users : ps[v].prog # <<>> /\ ps[v].id = i)

Begin(u) ==
    /\ ps[u].prog = <<>>
    /\ begun < MaxCommands
    /\ begun < MaxOverlap \/ \A v \in Users : ps[v].prog = <<>>
    /\ \E kind \in Kinds : \E o \in Options(u, kind) :
        /\ kind \in {"bringup", "attach"} => ReuseIds \/ Fresh(o.id)
        /\ ps' = [ps EXCEPT ![u] = Command(kind, o)]
    /\ begun' = begun + 1
    /\ UNCHANGED <<kube, head>>

\* User u's command is at a step.
At(u, step) == ps[u].prog # <<>> /\ Head(ps[u].prog) = step

\* Command c past its first call.
Advance(c) == [c EXCEPT !.prog = Tail(@), !.outcome = IF Len(c.prog) = 1 THEN "ok" ELSE "none"]

\* The step is done and changes nothing that others see.
Done(u, c) == ps' = [ps EXCEPT ![u] = Advance(c)]

\* The step is done and changes something that others see.
Wrote(u, c) ==
    ps' = [v \in Users |-> IF v = u THEN Advance(c) ELSE [ps[v] EXCEPT !.calm = FALSE]]

Failed(u) == ps' = [ps EXCEPT ![u] = [Shell EXCEPT !.kind = ps[u].kind, !.outcome = "error"]]

\* An API error, a timeout or an interrupt.
Abort(u) ==
    /\ ps[u].prog # <<>>
    /\ Failed(u)
    /\ UNCHANGED <<begun, kube, head>>

-------------------------------------------------------------------------------
(* The sandbox pool, and parts that are created or patched, or left alone.    *)

GetDeployment(u) ==
    /\ At(u, "get_deployment")
    /\ IF "deployment" \in parts /\ pool \notin {NoOwner, u}
       THEN Failed(u)
       ELSE Done(u, ps[u])
    /\ UNCHANGED <<begun, kube, head>>

\* The label of a patch is added to the Deployment's.
ApplyPart(u) ==
    \E x \in AppliedParts :
        /\ At(u, x)
        /\ parts' = parts \cup {x}
        /\ pool' = IF x = "deployment" /\ (u \in Labelled \/ x \notin parts) THEN OwnerLabel(u) ELSE pool
        /\ Wrote(u, ps[u])
        /\ UNCHANGED <<begun, rc, rj, head>>

WaitDeployment(u) ==
    /\ At(u, "wait_deployment")
    /\ "deployment" \in parts
    /\ Done(u, ps[u])
    /\ UNCHANGED <<begun, kube, head>>

\* A part that is missing is no error.
DeletePart(u) ==
    \E x \in AppliedParts :
        /\ At(u, DeleteOf(x))
        /\ parts' = parts \ {x}
        /\ pool' = IF x = "deployment" THEN NoOwner ELSE pool
        /\ Wrote(u, ps[u])
        /\ UNCHANGED <<begun, rc, rj, head>>

-------------------------------------------------------------------------------
(* The RayCluster and the RayJob.                                            *)

\* _check_head_svc_collision.
CheckCollision(u) ==
    /\ At(u, "no_rayjob") \/ At(u, "no_cluster")
    /\ IF (At(u, "no_rayjob") /\ rj # "none") \/ (At(u, "no_cluster") /\ HasCluster)
       THEN Failed(u)
       ELSE Done(u, ps[u])
    /\ UNCHANGED <<begun, kube, head>>

\* What is left to do once ensure_cluster has read the cluster: create it,
\* replace it, or leave it, with the DRA objects first.
\* Mutant: a drifted cluster is deleted and not waited for.
EnsureHasty(u) ==
    LET drifted == rc.spec # ps[u].spec
        calls == CASE ~HasCluster -> <<"apply_cluster">>
                   [] HasCluster /\ drifted /\ ps[u].recreate -> <<"delete_cluster", "apply_cluster">>
                   [] OTHER -> <<>>
    IN  <<"get_cluster", "dra">> \o calls \o <<"cluster_pdb", "wait_ready">> \o Tail(ps[u].prog)
Ensure(u) ==
    LET drifted == rc.spec # ps[u].spec
        calls == CASE ~HasCluster -> <<"apply_cluster">>
                   [] HasCluster /\ drifted /\ ps[u].recreate ->
                          <<"delete_cluster", "wait_gone", "apply_cluster">>
                   [] OTHER -> <<>>
    IN  <<"get_cluster", "dra">> \o calls \o <<"cluster_pdb", "wait_ready">> \o Tail(ps[u].prog)

Found(u) ==
    [ps[u] EXCEPT !.prog = Ensure(u),
                  !.warned = HasCluster /\ rc.spec # ps[u].spec /\ ~ps[u].recreate,
                  !.dying = rc.deleting]

\* Mutant: the owner is not looked at.
GetClusterAny(u) ==
    /\ At(u, "get_cluster")
    /\ Done(u, Found(u))
    /\ UNCHANGED <<begun, kube, head>>
GetCluster(u) ==
    /\ At(u, "get_cluster")
    /\ IF HasCluster /\ rc.owner \notin {NoOwner, u}
       THEN Failed(u)
       ELSE Done(u, Found(u))
    /\ UNCHANGED <<begun, kube, head>>

\* create; on a conflict, patch.
ApplyCluster(u) ==
    /\ At(u, "apply_cluster")
    /\ rc' = IF HasCluster
             THEN [rc EXCEPT !.spec = ps[u].spec,
                             !.owner = IF u \in Labelled THEN u ELSE @]
             ELSE Cluster(u, ps[u].spec)
    /\ Wrote(u, ps[u])
    /\ UNCHANGED <<begun, rj, parts, pool, head>>

WaitReady(u) ==
    /\ At(u, "wait_ready")
    /\ rc.ready
    /\ Done(u, ps[u])
    /\ UNCHANGED <<begun, kube, head>>

DeleteCluster(u) ==
    /\ At(u, "delete_cluster")
    /\ rc' = IF HasCluster THEN [rc EXCEPT !.deleting = TRUE] ELSE rc
    /\ Wrote(u, ps[u])
    /\ UNCHANGED <<begun, rj, parts, pool, head>>

WaitGone(u) ==
    /\ At(u, "wait_gone")
    /\ ~HasCluster
    /\ Done(u, [ps[u] EXCEPT !.dying = FALSE])
    /\ UNCHANGED <<begun, kube, head>>

ApplyRayJob(u) ==
    /\ At(u, "apply_rayjob")
    /\ rj' = IF rj = "none" THEN "initializing" ELSE rj
    /\ Wrote(u, ps[u])
    /\ UNCHANGED <<begun, rc, parts, pool, head>>

\* A RayJob that is gone is an error.
WaitRayJob(u) ==
    /\ At(u, "wait_rayjob")
    /\ rj \in {"none", "complete", "failed"}
    /\ IF rj = "none" THEN Failed(u) ELSE Done(u, ps[u])
    /\ UNCHANGED <<begun, kube, head>>

-------------------------------------------------------------------------------
(* KubeRay and the cluster (external).  One head Service serves either the    *)
(* RayCluster or the RayJob of that name; the workers wait for the DRA        *)
(* objects they claim.                                                       *)

ClusterReady ==
    /\ HasCluster /\ ~rc.ready /\ ~rc.deleting
    /\ rj \notin {"running"}
    /\ "dra" \in parts
    /\ rc' = [rc EXCEPT !.ready = TRUE]
    /\ UNCHANGED <<ps, begun, rj, parts, pool, head>>

ClusterGone ==
    /\ rc.deleting
    /\ rc' = NoCluster
    /\ runs' = [r \in DOMAIN runs |-> IF runs[r].state \in Ended THEN runs[r] ELSE [runs[r] EXCEPT !.state = "stopped"]]
    /\ dir' = [i \in Ids |-> NoDir]
    /\ UNCHANGED <<ps, begun, rj, parts, pool, handles>>

RayJobStep ==
    /\ \/ rj = "initializing" /\ ~rc.ready /\ "dra" \in parts /\ rj' = "running"
       \/ rj = "running" /\ rj' \in {"complete", "failed"}
       \/ rj \in {"complete", "failed"} /\ rj' = "none"
    /\ UNCHANGED <<ps, begun, rc, parts, pool, head>>

-------------------------------------------------------------------------------
(* Training runs.                                                            *)

Live(r) == runs[r].state \in {"pending", "running", "stopping"}

SetRun(r, state) == runs' = [runs EXCEPT ![r].state = state]

\* A run starts; an exec run writes its pid.
RunStarts(r) ==
    /\ runs[r].state = "pending"
    /\ SetRun(r, "running")
    /\ dir' = IF runs[r].via = "exec" THEN [dir EXCEPT ![runs[r].id].pid = r] ELSE dir
    /\ UNCHANGED <<ps, begun, kube, handles>>

\* The entrypoint is a part of the launcher script, which writes the exit code
\* unless the entrypoint has ended the shell: by exit, set -e or an unset variable.
RunEnds(r) ==
    /\ runs[r].state = "running"
    /\ \E state \in {"succeeded", "failed"} :
        /\ SetRun(r, state)
        /\ \/ runs[r].via = "exec" /\ dir' = [dir EXCEPT ![runs[r].id].exitcode = state]
           \/ UNCHANGED dir
    /\ UNCHANGED <<ps, begun, kube, handles>>

\* A run that was told to stop stops; its launcher dies with it.
RunStops(r) ==
    /\ runs[r].state = "stopping"
    /\ SetRun(r, "stopped")
    /\ UNCHANGED <<ps, begun, kube, dir, handles>>

Stopping(S) ==
    runs' = [r \in DOMAIN runs |-> IF r \in S THEN [runs[r] EXCEPT !.state = "stopping"] ELSE runs[r]]

\* A head pod runs before the cluster is ready, and while it is being deleted.
HeadUp == HasCluster

\* The runs of S are told to stop, those of found are waited for.
StopsFor(u, via, S, found) ==
    /\ Stopping(S)
    /\ Wrote(u, [ps[u] EXCEPT
                    !.todo = found,
                    !.escaped = @ \/ \E r \in DOMAIN runs \ found : runs[r].via = via /\ Live(r)])

\* stop_all_running: the processes the pidfiles name.  A scan that fails, perhaps
\* half way, is a warning: nothing is waited for and the launch goes on.
Scan(u) ==
    LET alive == {r \in DOMAIN runs : runs[r].via = "exec" /\ runs[r].state = "running"
                                        /\ dir[runs[r].id].pid = r}
    IN  /\ At(u, "scan")
        /\ HeadUp
        /\ \/ StopsFor(u, "exec", alive, alive)
           \/ \E S \in SUBSET alive : StopsFor(u, "exec", S, {})
        /\ UNCHANGED <<begun, kube, dir, handles>>

\* _stop_running_jobs: the jobs listed as RUNNING that have a submission id,
\* which an exec run's driver has not; one that cannot be stopped is a warning.
\* It stops and waits for one after the other, here for all of them.
ListJobs(u) ==
    LET running == {r \in DOMAIN runs : runs[r].via = "ray" /\ runs[r].state = "running"}
    IN  /\ At(u, "list_jobs")
        /\ HeadUp
        /\ \E S \in SUBSET running : StopsFor(u, "ray", S, running)
        /\ UNCHANGED <<begun, kube, dir, handles>>

\* Neither wait is for ever.
WaitStopped(u) ==
    /\ At(u, "wait_stopped") \/ At(u, "wait_exit")
    /\ Done(u, [ps[u] EXCEPT !.slow = @ \/ \E r \in ps[u].todo : Live(r)])
    /\ UNCHANGED <<begun, kube, head>>

NewRun(u) == [id |-> ps[u].id, via |-> ps[u].via, state |-> "pending"]

\* Ray refuses a submission id it knows.
SubmitJob(u) ==
    /\ At(u, "submit")
    /\ HeadUp
    /\ Len(runs) < MaxRuns
    /\ IF \E r \in DOMAIN runs : runs[r].id = ps[u].id /\ runs[r].via = "ray"
       THEN Failed(u) /\ UNCHANGED runs
       ELSE runs' = Append(runs, NewRun(u)) /\ Wrote(u, [ps[u] EXCEPT !.run = Len(runs) + 1])
    /\ UNCHANGED <<begun, kube, dir, handles>>

\* The launcher is copied to the head pod and started in the background.
Launch(u) ==
    /\ At(u, "launch")
    /\ HeadUp
    /\ Len(runs) < MaxRuns
    /\ runs' = Append(runs, NewRun(u))
    /\ Wrote(u, [ps[u] EXCEPT !.run = Len(runs) + 1])
    /\ UNCHANGED <<begun, kube, dir, handles>>

PollPid(u) ==
    /\ At(u, "poll_pid")
    /\ HeadUp
    /\ dir[ps[u].id].pid # 0
    /\ Done(u, ps[u])
    /\ UNCHANGED <<begun, kube, head>>

SaveHandle(u) ==
    /\ At(u, "save_handle")
    /\ handles' = [handles EXCEPT ![u] =
                      {h \in @ : h.id # ps[u].id} \cup {[id |-> ps[u].id, via |-> ps[u].via]}]
    /\ Done(u, ps[u])
    /\ UNCHANGED <<begun, kube, runs, dir>>

\* The transport is that of the cached handle, Ray's without one.
StopRun(u) ==
    LET byPid == {r \in DOMAIN runs : dir[ps[u].id].pid = r /\ runs[r].state = "running"}
        byId == {r \in DOMAIN runs : runs[r].via = "ray" /\ runs[r].id = ps[u].id}
    IN  /\ At(u, "stop_run")
        /\ HeadUp
        /\ IF [id |-> ps[u].id, via |-> "exec"] \in handles[u]
           THEN Stopping(byPid) /\ Wrote(u, [ps[u] EXCEPT !.run = 0])
           ELSE IF byId = {}
           THEN Failed(u) /\ UNCHANGED runs
           ELSE Stopping({r \in byId : runs[r].state \in {"pending", "running"}}) /\ Wrote(u, [ps[u] EXCEPT !.run = 0])
        /\ UNCHANGED <<begun, kube, dir, handles>>

\* ExecSubmitter.status.
ExecStatus(id) ==
    IF dir[id].pid # 0 /\ Live(dir[id].pid) THEN "running"
    ELSE IF dir[id].exitcode # "none" THEN dir[id].exitcode
    ELSE "stopped"

-------------------------------------------------------------------------------
Step(u) ==
    \/ Begin(u) \/ Abort(u)
    \/ GetDeployment(u) \/ ApplyPart(u) \/ WaitDeployment(u) \/ DeletePart(u)
    \/ CheckCollision(u) \/ GetCluster(u) \/ ApplyCluster(u) \/ WaitReady(u)
    \/ DeleteCluster(u) \/ WaitGone(u) \/ ApplyRayJob(u) \/ WaitRayJob(u)
    \/ Scan(u) \/ ListJobs(u) \/ WaitStopped(u) \/ SubmitJob(u) \/ Launch(u)
    \/ PollPid(u) \/ SaveHandle(u) \/ StopRun(u)

External ==
    \/ ClusterReady \/ ClusterGone \/ RayJobStep
    \/ \E r \in DOMAIN runs : RunStarts(r) \/ RunEnds(r) \/ RunStops(r)

Next == (\E u \in Users : Step(u)) \/ External

Spec == Init /\ [][Next]_vars
\* The specs are alike.
Symmetry == Permutations(Specs)

-------------------------------------------------------------------------------
(* Properties.                                                               *)

AllParts == AppliedParts
SandboxParts == {"deployment", "service"} \cup Extras

\* The state is well formed, and a command that has ended has an outcome.
TypeOK ==
    /\ rj \in {"none", "initializing", "running", "complete", "failed"}
    /\ rc \in [owner : Labelled \cup {NoOwner}, spec : Specs \cup {NoSpec}, ready : BOOLEAN, deleting : BOOLEAN]
    /\ parts \subseteq AllParts
    /\ \A u \in Users :
        /\ ps[u].prog = <<>> /\ ps[u].kind # "none" => ps[u].outcome \in {"ok", "error"}
        /\ ps[u].run \in 0..Len(runs)
    /\ \A i \in Ids : dir[i].pid \in 0..Len(runs)

\* Whatever earlier commands were cut short, and whatever others do that changes
\* nothing: `cluster up' and `run' succeed only with the whole sandbox pool in
\* place and a ready RayCluster of the rendered spec, or of the live one when
\* the user was warned; a cluster that was already being deleted is not covered.
UpDelivers ==
    \A u \in Users :
        /\ ps[u].kind \in {"up", "bringup"} /\ ps[u].outcome = "ok"
        /\ ps[u].calm /\ ~ps[u].dying
        => /\ rc.ready /\ ~rc.deleting
           /\ rc.spec = ps[u].spec \/ ps[u].warned
           /\ parts = AllParts

\* `cluster down' leaves nothing behind, whatever half-made state it finds.
DownClean ==
    \A u \in Users :
        ps[u].kind = "down" /\ ps[u].outcome = "ok" /\ ps[u].calm =>
            /\ parts = {}
            /\ ps[u].wait => ~HasCluster

\* A command that reports success has done what it is for.
CommandsDeliver == TypeOK /\ UpDelivers /\ DownClean

\* No command but `cluster down' changes or deletes a RayCluster labelled with
\* another user's name, if nobody else changed anything since it began.
OwnerRespected ==
    [][\A u \in Users :
         (ApplyCluster(u) \/ DeleteCluster(u)) /\ ps[u].kind # "down" /\ ps[u].calm
             => rc.owner \in {NoOwner, u}]_vars

\* With --replace the exec transport launches its run alone on the cluster, and
\* the Ray transport the only Ray job, but for runs that the command did not find
\* (they had not started, or the scan failed) and those that did not end within
\* the wait.
ReplaceAlone ==
    \A u \in Users :
        /\ ps[u].replace /\ ps[u].run # 0 /\ ps[u].calm /\ ~ps[u].slow /\ ~ps[u].escaped
        => \A r \in DOMAIN runs \ {ps[u].run} :
               Live(r) => ps[u].via = "ray" /\ runs[r].via = "exec"

\* An exec submission keeps a handle only of a run that has started: the pid it
\* waited for is that of the run it launched, or the run and its cluster are gone.
OwnPid ==
    \A u \in Users :
        At(u, "save_handle") /\ ps[u].via = "exec" =>
            dir[ps[u].id].pid = ps[u].run \/ runs[ps[u].run].state \in Ended

\* ExecSubmitter.status says "running" exactly while the run lives, and
\* "succeeded" or "failed" only of one that did; "stopped" may also be a run that
\* ended by itself without writing its exit code.
StatusHonest ==
    \A r \in DOMAIN runs :
        runs[r].via = "exec" /\ dir[runs[r].id].pid = r =>
            ExecStatus(runs[r].id) \in
                IF Live(r) THEN {"running"} ELSE {runs[r].state, "stopped"}

\* A submission, its handle and the status read through it are about one run,
\* which is alone when the user asked for that.
RunsSound == ReplaceAlone /\ OwnPid /\ StatusHonest
=============================================================================
