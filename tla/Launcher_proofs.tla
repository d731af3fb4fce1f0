-------------------------- MODULE Launcher_proofs --------------------------
(***************************************************************************)
(* Theorems about dockyard-k8s, for any users, specs, optional parts and     *)
(* number of commands: what a successful command promises of the cluster,    *)
(* the sandbox and the runs.                                                 *)
(***************************************************************************)
EXTENDS Launcher, SequenceTheorems, TLAPS

-------------------------------------------------------------------------------
(* The calls of a command.                                                   *)

\* Where a call stands in the commands that make it.
Place(kind, step) ==
    CASE step = "no_rayjob" -> IF kind = "up" THEN 7 ELSE 0
      [] step = "no_cluster" -> 0
      [] step \in {"get_deployment", "stop_run"} -> 1
      [] step = "deployment" -> 2
      [] step = "service" -> 3
      [] step = "netpol" -> 4
      [] step = "sandbox_pdb" -> 5
      [] step = "wait_deployment" -> 6
      [] step = "get_cluster" -> 8
      [] step = "dra" -> 9
      [] step = "delete_cluster" -> 10
      [] step = "wait_gone" -> 11
      [] step \in {"apply_cluster", "apply_rayjob"} -> 12
      [] step \in {"cluster_pdb", "wait_rayjob"} -> 13
      [] step = "wait_ready" -> 14
      [] step = "delete_cluster_pdb" -> 15
      [] step = "delete_dra" -> 16
      [] step = "delete_sandbox_pdb" -> 17
      [] step = "delete_netpol" -> 18
      [] step = "delete_service" -> 19
      [] step = "delete_deployment" -> 20
      [] step = "scan" -> 21
      [] step = "wait_exit" -> 22
      [] step = "list_jobs" -> 23
      [] step = "wait_stopped" -> 24
      [] step \in {"launch", "submit"} -> 25
      [] step = "poll_pid" -> 26
      [] step = "save_handle" -> 27
      [] OTHER -> 28

Steps ==
    {"no_rayjob", "no_cluster", "get_deployment", "stop_run", "deployment", "service", "netpol",
     "sandbox_pdb", "wait_deployment", "get_cluster", "dra", "delete_cluster", "wait_gone",
     "apply_cluster", "apply_rayjob", "cluster_pdb", "wait_rayjob", "wait_ready",
     "delete_cluster_pdb", "delete_dra", "delete_sandbox_pdb", "delete_netpol", "delete_service",
     "delete_deployment", "scan", "wait_exit", "list_jobs", "wait_stopped", "launch", "submit",
     "poll_pid", "save_handle"}

Calls(s) == {s[i] : i \in 1 .. Len(s)}

\* Calls in their order, between two places.
InOrder(kind, s) ==
    s \in Seq(Steps) /\ \A i, j \in 1 .. Len(s) : i < j => Place(kind, s[i]) < Place(kind, s[j])

Between(kind, s, a, b) == InOrder(kind, s) /\ \A x \in Calls(s) : Place(kind, x) \in a .. b

Fits(kind, s, a, b, C) == Between(kind, s, a, b) /\ Calls(s) = C

Pending(c) == Calls(c.prog)

SandboxCalls == {"get_deployment", "deployment", "service", "wait_deployment"} \cup Extras
ClusterCalls ==
    {"get_cluster", "dra", "delete_cluster", "wait_gone", "apply_cluster", "cluster_pdb", "wait_ready"}
StopCalls == {"scan", "wait_exit", "list_jobs", "wait_stopped"}
LaunchCalls == {"launch", "poll_pid", "submit", "save_handle"}
DeleteCalls ==
    {"delete_cluster_pdb", "delete_dra", "delete_sandbox_pdb", "delete_netpol", "delete_service",
     "delete_deployment"}

\* The calls each command may make.
CallsOf(kind) ==
    CASE kind = "up" -> SandboxCalls \cup ClusterCalls \cup {"no_rayjob"}
      [] kind = "bringup" -> SandboxCalls \cup ClusterCalls \cup {"no_rayjob"} \cup StopCalls \cup LaunchCalls
      [] kind = "attach" -> SandboxCalls \cup StopCalls \cup LaunchCalls
      [] kind = "rayjob" ->
            SandboxCalls \cup {"no_cluster", "dra", "apply_rayjob", "wait_rayjob", "delete_dra"}
      [] kind = "down" -> {"delete_cluster", "wait_gone"} \cup DeleteCalls
      [] kind = "stop" -> {"stop_run"}
      [] OTHER -> {}

Commands ==
    [kind : {"none", "up", "down", "bringup", "attach", "rayjob", "stop"}, prog : Seq(Steps),
     outcome : {"none", "ok", "error"}, spec : Specs \cup {NoSpec}, id : Ids \cup {0},
     via : {"ray", "exec"}, replace : BOOLEAN, recreate : BOOLEAN, wait : BOOLEAN,
     todo : SUBSET Nat, run : Nat, calm : BOOLEAN, warned : BOOLEAN, dying : BOOLEAN,
     slow : BOOLEAN, escaped : BOOLEAN]

Raises == {"up", "bringup"}
Trains == {"bringup", "attach"}

\* A cluster that `cluster up' deletes is waited for and created again; what is
\* created is waited for, and so are what is told to stop and what is launched.
Paired(c) ==
    /\ c.kind \in Raises /\ "delete_cluster" \in Pending(c) => "wait_gone" \in Pending(c)
    /\ c.kind \in Raises /\ "wait_gone" \in Pending(c) => "apply_cluster" \in Pending(c)
    /\ "apply_cluster" \in Pending(c) => "wait_ready" \in Pending(c)
    /\ "scan" \in Pending(c) => "wait_exit" \in Pending(c)
    /\ "wait_exit" \in Pending(c) => "list_jobs" \in Pending(c)
    /\ "list_jobs" \in Pending(c) => "wait_stopped" \in Pending(c)
    /\ "launch" \in Pending(c) => "poll_pid" \in Pending(c)

\* The calls left are those of the command, in their order; one transport
\* launches, after the runs it replaces were stopped.
Formed(c) ==
    /\ c \in Commands
    /\ InOrder(c.kind, c.prog)
    /\ Pending(c) \subseteq CallsOf(c.kind)
    /\ c.prog # <<>> => c.outcome = "none" /\ c.kind # "none"
    /\ c.prog = <<>> /\ c.kind # "none" => c.outcome \in {"ok", "error"}
    /\ c.kind \in Raises /\ c.prog # <<>> => c.spec \in Specs
    /\ c.kind \in Trains /\ c.prog # <<>> => c.id \in Ids
    /\ Paired(c)
    /\ "get_cluster" \in Pending(c) => Pending(c) \cap ClusterCalls = {"get_cluster"}
    /\ Pending(c) \cap (StopCalls \cup {"launch", "submit"}) # {} => c.run = 0
    /\ Pending(c) \cap {"launch", "poll_pid"} # {} => c.via = "exec"
    /\ "submit" \in Pending(c) => c.via = "ray"
    /\ c.replace => c.kind \in Trains

-------------------------------------------------------------------------------
(* What a command can count on, as long as nobody else changes anything.      *)

\* `cluster up': each part is there or still to be applied; once the cluster
\* has been read, it is the one asked for or still to be created.
UpSound(c, cl, present) ==
    c.kind \in Raises /\ c.outcome # "error" /\ c.calm =>
        /\ \A x \in AllParts : \/ x \in present \cup Pending(c)
                               \/ "get_cluster" \in Pending(c) /\ x \in {"dra", "cluster_pdb"}
        /\ "get_cluster" \notin Pending(c) /\ ~c.dying =>
            /\ IF "apply_cluster" \in Pending(c)
               THEN "wait_gone" \in Pending(c) \/ cl = NoCluster
               ELSE ~cl.deleting /\ (cl.spec = c.spec \/ c.warned)
            /\ Pending(c) \cap {"apply_cluster", "wait_ready"} = {} => cl.ready

\* `cluster down': what is there is still to be deleted.
DownSound(c, cl, present) ==
    c.kind = "down" /\ c.outcome # "error" /\ c.calm =>
        /\ \A x \in present : DeleteOf(x) \in Pending(c)
        /\ c.wait => "wait_gone" \in Pending(c) \/ cl = NoCluster

\* Once the cluster has been read, it is nobody else's.
OwnerSound(u, c, cl) ==
    c.kind \in Raises /\ c.outcome # "error" /\ c.calm /\ "get_cluster" \notin Pending(c) =>
        cl.owner \in {NoOwner, u}

LiveIn(rs, r) == rs[r].state \in {"pending", "running", "stopping"}

\* --replace: the live runs of a transport that has been listed are those waited
\* for, and after the wait none but its own.
AloneSound(c, rs) ==
    c.replace /\ c.calm /\ ~c.slow /\ ~c.escaped =>
        /\ c.via = "exec" /\ "scan" \notin Pending(c) =>
            \A r \in DOMAIN rs : rs[r].via = "exec" /\ LiveIn(rs, r) =>
                IF "wait_exit" \in Pending(c) THEN r \in c.todo ELSE r = c.run
        /\ "list_jobs" \notin Pending(c) =>
            \A r \in DOMAIN rs : rs[r].via = "ray" /\ LiveIn(rs, r) =>
                IF "wait_stopped" \in Pending(c) THEN r \in c.todo ELSE r = c.run

CommandSound(u, c, cl, present, rs) ==
    /\ Formed(c) /\ c.run \in 0 .. Len(rs)
    /\ UpSound(c, cl, present) /\ DownSound(c, cl, present) /\ OwnerSound(u, c, cl)
    /\ AloneSound(c, rs)

Clusters ==
    [owner : Labelled \cup {NoOwner}, spec : Specs \cup {NoSpec}, ready : BOOLEAN, deleting : BOOLEAN]

States == {"pending", "running", "stopping"} \cup Ended
Run == [id : Ids, via : {"ray", "exec"}, state : States]

\* The runs, and the directories of those that were launched by exec.
HeadTyped(rs, d) ==
    /\ rs \in Seq(Run)
    /\ d \in [Ids -> [pid : 0 .. Len(rs), exitcode : {"none", "succeeded", "failed"}]]

\* What the commands share.
WorldTyped ==
    /\ rc \in Clusters /\ parts \subseteq AllParts
    /\ rj \in {"none", "initializing", "running", "complete", "failed"}
    /\ HeadTyped(runs, dir)

\* The inductive invariant: every command, whatever the others have done.
Sound ==
    /\ ps \in [Users -> Commands]
    /\ WorldTyped
    /\ \A u \in Users : CommandSound(u, ps[u], rc, parts, runs)

-------------------------------------------------------------------------------
(* Run ids that are used once.                                               *)

\* What may be in the exit code file of a run in a state: a run that ended the
\* launcher's shell has not written it.
Codes(state) == IF state \in {"succeeded", "failed"} THEN {state, "none"} ELSE {"none"}

\* A directory tells of the one run of its id, and of no run before it starts.
HeadSound(rs, d) ==
    /\ \A r, s \in DOMAIN rs : rs[r].id = rs[s].id => r = s
    /\ \A i \in Ids :
        LET p == d[i].pid
        IN  IF p = 0
            THEN d[i].exitcode = "none"
            ELSE /\ rs[p].id = i /\ rs[p].via = "exec" /\ rs[p].state # "pending"
                 /\ d[i].exitcode \in Codes(rs[p].state)
    /\ \A r \in DOMAIN rs :
        rs[r].via = "exec" /\ rs[r].state \in {"running", "stopping"} => d[rs[r].id].pid = r

\* A submission's id is nobody's until it launches, its own from then on, and
\* the pid it has waited for is that of its run.
LaunchSound(c, rs, d) ==
    c.kind \in Trains /\ c.prog # <<>> =>
        IF Pending(c) \cap {"launch", "submit"} # {}
        THEN \A r \in DOMAIN rs : rs[r].id # c.id
        ELSE /\ c.run # 0 /\ rs[c.run].id = c.id /\ rs[c.run].via = c.via
             /\ c.via = "exec" /\ "poll_pid" \notin Pending(c) =>
                    d[c.id].pid = c.run \/ rs[c.run].state \in Ended

Launching(c) == Pending(c) \cap {"launch", "submit"} # {}

IdsSound ==
    /\ HeadSound(runs, dir)
    /\ \A u \in Users : LaunchSound(ps[u], runs, dir)
    /\ \A u, v \in Users :
        Launching(ps[u]) /\ Launching(ps[v]) /\ ps[u].id = ps[v].id => u = v

-------------------------------------------------------------------------------
(* Sequences of calls.                                                       *)

\* Places are numbers.
LEMMA PlaceIs == ASSUME NEW kind, NEW x PROVE Place(kind, x) \in Int
BY DEF Place

\* Calls one after the other.
LEMMA Joined ==
    ASSUME NEW kind, NEW s, NEW t, NEW a \in Int, NEW b \in Int, NEW c \in Int, NEW d \in Int,
           NEW A, NEW B, Fits(kind, s, a, b, A), Fits(kind, t, c, d, B), a <= b, b < c, c <= d
    PROVE  Fits(kind, s \o t, a, d, A \cup B)
<1>0. Between(kind, s, a, b) /\ Between(kind, t, c, d) /\ Calls(s) = A /\ Calls(t) = B
  BY DEF Fits
<1>1. s \in Seq(Steps) /\ t \in Seq(Steps) /\ Len(s) \in Nat /\ Len(t) \in Nat
  BY <1>0, LenProperties DEF Between, InOrder
<1>2. /\ s \o t \in Seq(Steps) /\ Len(s \o t) = Len(s) + Len(t)
      /\ \A i \in 1 .. Len(s) + Len(t) :
            (s \o t)[i] = IF i <= Len(s) THEN s[i] ELSE t[i - Len(s)]
  BY <1>1, ConcatProperties
<1> DEFINE r == s \o t
<1>3. \A i \in 1 .. Len(s) : r[i] = s[i] /\ i \in 1 .. Len(r)
  BY <1>1, <1>2
<1>4. \A i \in 1 .. Len(t) : r[Len(s) + i] = t[i] /\ Len(s) + i \in 1 .. Len(r)
  BY <1>1, <1>2
<1>5. \A i \in 1 .. Len(r) : i \in 1 .. Len(s) \/ i - Len(s) \in 1 .. Len(t)
  BY <1>1, <1>2
<1>6. r \in Seq(Steps) /\ Len(r) \in Nat
  BY <1>1, <1>2
<1> HIDE DEF r
<1>7. Calls(r) = Calls(s) \cup Calls(t)
  <2>1. Calls(s) \subseteq Calls(r) /\ Calls(t) \subseteq Calls(r)
    BY <1>3, <1>4 DEF Calls
  <2>2. ASSUME NEW i \in 1 .. Len(r) PROVE r[i] \in Calls(s) \cup Calls(t)
    <3>1. CASE i \in 1 .. Len(s)
      BY <1>3, <3>1 DEF Calls
    <3>2. CASE i - Len(s) \in 1 .. Len(t)
      <4>1. Len(s) + (i - Len(s)) = i
        BY <1>1
      <4> QED
        BY <1>4, <3>2, <4>1 DEF Calls
    <3> QED
      BY <1>5, <3>1, <3>2
  <2> QED
    BY <2>1, <2>2 DEF Calls
<1>8. ASSUME NEW i \in 1 .. Len(r), NEW j \in 1 .. Len(r), i < j
      PROVE  Place(kind, r[i]) < Place(kind, r[j])
  <2>1. CASE j \in 1 .. Len(s)
    <3>1. i \in 1 .. Len(s)
      BY <1>1, <1>8, <2>1
    <3> QED
      BY <1>0, <1>3, <1>8, <2>1, <3>1 DEF Between, InOrder
  <2>2. CASE i - Len(s) \in 1 .. Len(t)
    <3>1. j - Len(s) \in 1 .. Len(t) /\ i - Len(s) < j - Len(s)
          /\ Len(s) + (i - Len(s)) = i /\ Len(s) + (j - Len(s)) = j
      BY <1>1, <1>5, <1>6, <1>8, <2>2
    <3>2. r[i] = t[i - Len(s)] /\ r[j] = t[j - Len(s)]
      BY <1>4, <2>2, <3>1
    <3> QED
      BY <1>0, <2>2, <3>1, <3>2 DEF Between, InOrder
  <2>3. CASE i \in 1 .. Len(s) /\ j - Len(s) \in 1 .. Len(t)
    <3>1. Len(s) + (j - Len(s)) = j
      BY <1>1
    <3>2. r[i] \in Calls(s) /\ r[j] \in Calls(t)
      BY <1>3, <1>4, <2>3, <3>1 DEF Calls
    <3>3. Place(kind, r[i]) \in a .. b /\ Place(kind, r[j]) \in c .. d
      BY <1>0, <3>2 DEF Between
    <3> QED
      BY <3>3
  <2> QED
    BY <1>5, <2>1, <2>2, <2>3
<1>9. \A x \in Calls(r) : Place(kind, x) \in a .. d
  <2>1. \A x \in Calls(s) : Place(kind, x) \in a .. b
    BY <1>0 DEF Between
  <2>2. \A x \in Calls(t) : Place(kind, x) \in c .. d
    BY <1>0 DEF Between
  <2> QED
    BY <1>7, <2>1, <2>2
<1>10. Between(kind, r, a, d)
  BY <1>6, <1>8, <1>9 DEF Between, InOrder
<1> QED
  BY <1>0, <1>7, <1>10 DEF r, Fits

\* No call, one, two or three.
LEMMA None == ASSUME NEW kind, NEW a, NEW b PROVE Fits(kind, <<>>, a, b, {})
BY DEF Fits, Between, InOrder, Calls

\* A single call.
LEMMA One ==
    ASSUME NEW kind, NEW x, x \in Steps, NEW p, p \in Int, Place(kind, x) = p
    PROVE  Fits(kind, <<x>>, p, p, {x})
<1>1. <<x>> \in Seq(Steps) /\ Len(<<x>>) = 1 /\ <<x>>[1] = x
  OBVIOUS
<1>2. Calls(<<x>>) = {x}
  BY <1>1 DEF Calls
<1> QED
  BY <1>1, <1>2 DEF Fits, Between, InOrder

\* Two calls one after the other.
LEMMA Two ==
    ASSUME NEW kind, NEW x, x \in Steps, NEW y, y \in Steps, NEW p, p \in Int, NEW q, q \in Int,
           Place(kind, x) = p, Place(kind, y) = q, p < q
    PROVE  Fits(kind, <<x, y>>, p, q, {x, y})
<1> DEFINE s == <<x, y>>
<1>1. s \in Seq(Steps) /\ Len(s) = 2 /\ s[1] = x /\ s[2] = y
  OBVIOUS
<1>2. 1 .. 2 = {1, 2}
  OBVIOUS
<1> HIDE DEF s
<1>3. Calls(s) = {x, y}
  BY <1>1, <1>2 DEF Calls
<1>4. InOrder(kind, s)
  BY <1>1, <1>2 DEF InOrder
<1>5. Place(kind, x) \in p .. q /\ Place(kind, y) \in p .. q
  OBVIOUS
<1> QED
  BY <1>3, <1>4, <1>5 DEF Fits, Between, s

\* Three calls one after the other.
LEMMA Three ==
    ASSUME NEW kind, NEW x, x \in Steps, NEW y, y \in Steps, NEW z, z \in Steps,
           NEW p, p \in Int, NEW q, q \in Int, NEW r, r \in Int,
           Place(kind, x) = p, Place(kind, y) = q, Place(kind, z) = r, p < q, q < r
    PROVE  Fits(kind, <<x, y, z>>, p, r, {x, y, z})
<1> DEFINE s == <<x, y, z>>
<1>1. s \in Seq(Steps) /\ Len(s) = 3 /\ s[1] = x /\ s[2] = y /\ s[3] = z
  OBVIOUS
<1>2. 1 .. 3 = {1, 2, 3}
  OBVIOUS
<1> HIDE DEF s
<1>3. Calls(s) = {x, y, z}
  BY <1>1, <1>2 DEF Calls
<1>4. InOrder(kind, s)
  BY <1>1, <1>2 DEF InOrder
<1>5. Place(kind, x) \in p .. r /\ Place(kind, y) \in p .. r /\ Place(kind, z) \in p .. r
  OBVIOUS
<1> QED
  BY <1>3, <1>4, <1>5 DEF Fits, Between, s

\* Past the first call, those that follow it are left.
LEMMA Followed ==
    ASSUME NEW kind, NEW s, InOrder(kind, s), s # <<>>
    PROVE  /\ Head(s) \in Calls(s) /\ InOrder(kind, Tail(s))
           /\ Calls(Tail(s)) = Calls(s) \ {Head(s)}
           /\ \A x \in Calls(Tail(s)) : Place(kind, Head(s)) < Place(kind, x)
           /\ Len(s) = 1 <=> Tail(s) = <<>>
<1> DEFINE t == Tail(s)
           h == Head(s)
<1>1. s \in Seq(Steps) /\ Len(s) \in Nat /\ Len(s) # 0 /\ h = s[1]
  BY LenProperties, EmptySeq DEF InOrder
<1>2. t \in Seq(Steps) /\ Len(t) = Len(s) - 1 /\ \A i \in 1 .. Len(t) : t[i] = s[i + 1]
  BY HeadTailProperties DEF InOrder
<1> HIDE DEF t, h
<1>3. Len(s) = 1 <=> t = <<>>
  <2>1. t # <<>> => Len(t) # 0
    BY <1>2, EmptySeq
  <2>2. t = <<>> => Len(t) = 0
    BY EmptySeq
  <2>3. Len(t) = 0 <=> Len(s) = 1
    BY <1>1, <1>2
  <2> QED
    BY <2>1, <2>2, <2>3
<1>4. h \in Calls(s)
  BY <1>1 DEF Calls
<1>5. \A i \in 1 .. Len(t) : i + 1 \in 1 .. Len(s) /\ 1 < i + 1
  BY <1>1, <1>2
<1>6. \A i, j \in 1 .. Len(s) : i < j => Place(kind, s[i]) < Place(kind, s[j])
  BY DEF InOrder
<1>7. ASSUME NEW x \in Calls(t) PROVE x \in Calls(s) /\ Place(kind, h) < Place(kind, x)
  <2>1. PICK i \in 1 .. Len(t) : x = s[i + 1]
    BY <1>2 DEF Calls
  <2>2. i + 1 \in 1 .. Len(s) /\ 1 \in 1 .. Len(s) /\ 1 < i + 1
    BY <1>1, <1>5
  <2>3. Place(kind, s[1]) < Place(kind, s[i + 1])
    BY <1>6, <2>2
  <2> QED
    BY <1>1, <2>1, <2>2, <2>3 DEF Calls
<1>8. h \notin Calls(t)
  BY <1>7, PlaceIs
<1>9. ASSUME NEW x \in Calls(s), x # h PROVE x \in Calls(t)
  <2>1. PICK i \in 1 .. Len(s) : x = s[i]
    BY DEF Calls
  <2>2. i # 1
    BY <1>1, <1>9, <2>1
  <2>3. i - 1 \in 1 .. Len(t) /\ (i - 1) + 1 = i
    BY <1>1, <1>2, <2>2
  <2>4. t[i - 1] = x
    BY <1>2, <2>1, <2>3
  <2> QED
    BY <2>3, <2>4 DEF Calls
<1>10. Calls(t) = Calls(s) \ {h}
  BY <1>7, <1>8, <1>9
<1>11. InOrder(kind, t)
  <2>1. ASSUME NEW i \in 1 .. Len(t), NEW j \in 1 .. Len(t), i < j
        PROVE  Place(kind, t[i]) < Place(kind, t[j])
    <3>1. i + 1 \in 1 .. Len(s) /\ j + 1 \in 1 .. Len(s) /\ i + 1 < j + 1
      BY <1>5, <2>1
    <3>2. Place(kind, s[i + 1]) < Place(kind, s[j + 1])
      BY <1>6, <3>1
    <3> QED
      BY <1>2, <3>2
  <2> QED
    BY <1>2, <2>1 DEF InOrder
<1> QED
  BY <1>3, <1>4, <1>7, <1>10, <1>11 DEF t, h

\* Nothing is left of no calls.
LEMMA Finished == ASSUME NEW s \in Seq(Steps), Calls(s) = {} PROVE s = <<>>
<1>1. ASSUME s # <<>> PROVE FALSE
  <2>1. Len(s) \in Nat \ {0}
    BY <1>1, EmptySeq
  <2>2. 1 \in 1 .. Len(s)
    BY <2>1
  <2> QED
    BY <2>2 DEF Calls
<1> QED
  BY <1>1

-------------------------------------------------------------------------------
(* The programs of the commands.                                             *)

\* The places, one by one.
LEMMA PlacesAre ==
    ASSUME NEW kind
    PROVE  /\ Place(kind, "no_rayjob") = IF kind = "up" THEN 7 ELSE 0
           /\ Place(kind, "no_cluster") = 0
           /\ Place(kind, "get_deployment") = 1 /\ Place(kind, "stop_run") = 1
           /\ Place(kind, "deployment") = 2 /\ Place(kind, "service") = 3
           /\ Place(kind, "netpol") = 4 /\ Place(kind, "sandbox_pdb") = 5
           /\ Place(kind, "wait_deployment") = 6 /\ Place(kind, "get_cluster") = 8
           /\ Place(kind, "dra") = 9 /\ Place(kind, "delete_cluster") = 10
           /\ Place(kind, "wait_gone") = 11
           /\ Place(kind, "apply_cluster") = 12 /\ Place(kind, "apply_rayjob") = 12
           /\ Place(kind, "cluster_pdb") = 13 /\ Place(kind, "wait_rayjob") = 13
           /\ Place(kind, "wait_ready") = 14 /\ Place(kind, "delete_cluster_pdb") = 15
           /\ Place(kind, "delete_dra") = 16 /\ Place(kind, "delete_sandbox_pdb") = 17
           /\ Place(kind, "delete_netpol") = 18 /\ Place(kind, "delete_service") = 19
           /\ Place(kind, "delete_deployment") = 20
           /\ Place(kind, "scan") = 21 /\ Place(kind, "wait_exit") = 22
           /\ Place(kind, "list_jobs") = 23 /\ Place(kind, "wait_stopped") = 24
           /\ Place(kind, "launch") = 25 /\ Place(kind, "submit") = 25
           /\ Place(kind, "poll_pid") = 26 /\ Place(kind, "save_handle") = 27
BY DEF Place

\* An optional part is one call or none.
LEMMA OptionalIs ==
    ASSUME NEW kind, NEW x, NEW step, step \in Steps, NEW p, p \in Int, Place(kind, step) = p
    PROVE  Fits(kind, Optional(x, step), p, p, IF x \in Extras THEN {step} ELSE {})
<1>1. CASE x \in Extras
  <2>1. Fits(kind, <<step>>, p, p, {step})
    BY One
  <2> QED
    BY <1>1, <2>1 DEF Optional
<1>2. CASE x \notin Extras
  <2>1. Fits(kind, <<>>, p, p, {})
    BY None
  <2> QED
    BY <1>2, <2>1 DEF Optional
<1> QED
  BY <1>1, <1>2

\* ensure_sandbox.
LEMMA SandboxIs == ASSUME NEW kind PROVE Fits(kind, SandboxUp, 1, 6, SandboxCalls)
<1> DEFINE s == <<"get_deployment", "deployment", "service">>
           n == Optional("netpol", "netpol")
           p == Optional("sandbox_pdb", "sandbox_pdb")
           w == <<"wait_deployment">>
           S == {"get_deployment", "deployment", "service"}
           N == IF "netpol" \in Extras THEN {"netpol"} ELSE {}
           P == IF "sandbox_pdb" \in Extras THEN {"sandbox_pdb"} ELSE {}
<1>1. Fits(kind, s, 1, 3, S)
  <2>1. /\ "get_deployment" \in Steps /\ "deployment" \in Steps /\ "service" \in Steps
        /\ Place(kind, "get_deployment") = 1 /\ Place(kind, "deployment") = 2 /\ Place(kind, "service") = 3
        /\ 1 \in Int /\ 2 \in Int /\ 3 \in Int /\ 1 < 2 /\ 2 < 3
    BY PlacesAre DEF Steps
  <2> QED
    BY <2>1, Three, Zenon
<1>2. Fits(kind, n, 4, 4, N)
  <2>1. /\ "netpol" \in Steps
        /\ Place(kind, "netpol") = 4
        /\ 4 \in Int
    BY PlacesAre DEF Steps
  <2> QED
    BY <2>1, OptionalIs, Zenon
<1>3. Fits(kind, p, 5, 5, P)
  <2>1. /\ "sandbox_pdb" \in Steps
        /\ Place(kind, "sandbox_pdb") = 5
        /\ 5 \in Int
    BY PlacesAre DEF Steps
  <2> QED
    BY <2>1, OptionalIs, Zenon
<1>4. Fits(kind, w, 6, 6, {"wait_deployment"})
  <2>1. /\ "wait_deployment" \in Steps
        /\ Place(kind, "wait_deployment") = 6
        /\ 6 \in Int
    BY PlacesAre DEF Steps
  <2> QED
    BY <2>1, One, Zenon
<1>5. SandboxUp = (s \o (n \o p)) \o w
  BY DEF SandboxUp, ExtraParts
<1>6. SandboxCalls = (S \cup (N \cup P)) \cup {"wait_deployment"}
  BY LauncherAssumption DEF SandboxCalls
<1> HIDE DEF s, n, p, w, S, N, P
<1>7. Fits(kind, n \o p, 4, 5, N \cup P)
  BY <1>2, <1>3, Joined
<1>8. Fits(kind, s \o (n \o p), 1, 5, S \cup (N \cup P))
  BY <1>1, <1>7, Joined
<1>9. Fits(kind, (s \o (n \o p)) \o w, 1, 6, (S \cup (N \cup P)) \cup {"wait_deployment"})
  BY <1>4, <1>8, Joined
<1> QED
  BY <1>5, <1>6, <1>9

\* What submit_training does before it launches, and from then on.
StopsOf(via, replace) ==
    IF ~replace THEN {} ELSE IF via = "exec" THEN StopCalls ELSE {"list_jobs", "wait_stopped"}
LaunchesOf(via) ==
    (IF via = "exec" THEN {"launch", "poll_pid"} ELSE {"submit"}) \cup {"save_handle"}

\* What --replace has a submission stop first.
LEMMA StopIs ==
    ASSUME NEW kind, NEW via
    PROVE  Fits(kind, StopRunning(via), 21, 24, StopsOf(via, TRUE))
<1> DEFINE e == <<"scan", "wait_exit">>
           j == <<"list_jobs", "wait_stopped">>
<1>1. Fits(kind, e, 21, 22, {"scan", "wait_exit"})
  <2>1. /\ "scan" \in Steps /\ "wait_exit" \in Steps
        /\ Place(kind, "scan") = 21 /\ Place(kind, "wait_exit") = 22
        /\ 21 \in Int /\ 22 \in Int /\ 21 < 22
    BY PlacesAre DEF Steps
  <2> QED
    BY <2>1, Two, Zenon
<1>2. Fits(kind, j, 23, 24, {"list_jobs", "wait_stopped"})
  <2>1. /\ "list_jobs" \in Steps /\ "wait_stopped" \in Steps
        /\ Place(kind, "list_jobs") = 23 /\ Place(kind, "wait_stopped") = 24
        /\ 23 \in Int /\ 24 \in Int /\ 23 < 24
    BY PlacesAre DEF Steps
  <2> QED
    BY <2>1, Two, Zenon
<1>3. StopRunning(via) = (IF via = "exec" THEN e ELSE <<>>) \o j
  BY DEF StopRunning
<1> HIDE DEF e, j
<1>4. CASE via = "exec"
  <2>1. Fits(kind, e \o j, 21, 24, {"scan", "wait_exit"} \cup {"list_jobs", "wait_stopped"})
    BY <1>1, <1>2, Joined
  <2>2. StopsOf(via, TRUE) = {"scan", "wait_exit"} \cup {"list_jobs", "wait_stopped"}
    BY <1>4 DEF StopsOf, StopCalls
  <2> QED
    BY <1>3, <1>4, <2>1, <2>2
<1>5. CASE via # "exec"
  <2>1. j \in Seq(Steps)
    BY <1>2 DEF Fits, Between, InOrder
  <2>2. <<>> \o j = j
    BY <2>1, ConcatEmptySeq
  <2>3. Fits(kind, j, 21, 24, {"list_jobs", "wait_stopped"})
    BY <1>2 DEF Fits, Between
  <2>4. StopsOf(via, TRUE) = {"list_jobs", "wait_stopped"}
    BY <1>5 DEF StopsOf
  <2> QED
    BY <1>3, <1>5, <2>2, <2>3, <2>4
<1> QED
  BY <1>4, <1>5

\* A submission: stop what it replaces, launch, save the handle.
LEMMA SubmitIs ==
    ASSUME NEW kind, NEW via, NEW replace, replace \in BOOLEAN
    PROVE  Fits(kind, Submit(via, replace), 21, 27, StopsOf(via, replace) \cup LaunchesOf(via))
<1> DEFINE r == IF replace THEN StopRunning(via) ELSE <<>>
           l == IF via = "exec" THEN <<"launch", "poll_pid">> ELSE <<"submit">>
           h == <<"save_handle">>
           L == IF via = "exec" THEN {"launch", "poll_pid"} ELSE {"submit"}
<1>1. Fits(kind, r, 21, 24, StopsOf(via, replace))
  <2>1. Fits(kind, <<>>, 21, 24, {})
    BY None
  <2>2. CASE replace
    <3>1. r = StopRunning(via) /\ replace = TRUE
      BY <2>2
    <3> QED
      BY <3>1, StopIs
  <2>3. CASE ~replace
    <3>1. r = <<>> /\ StopsOf(via, replace) = {}
      BY <2>3 DEF StopsOf
    <3> QED
      BY <2>1, <3>1
  <2> QED
    BY <2>2, <2>3
<1>2. Fits(kind, <<"launch", "poll_pid">>, 25, 26, {"launch", "poll_pid"})
  <2>1. /\ "launch" \in Steps /\ "poll_pid" \in Steps
        /\ Place(kind, "launch") = 25 /\ Place(kind, "poll_pid") = 26
        /\ 25 \in Int /\ 26 \in Int /\ 25 < 26
    BY PlacesAre DEF Steps
  <2> QED
    BY <2>1, Two, Zenon
<1>3. Fits(kind, <<"submit">>, 25, 25, {"submit"})
  <2>1. /\ "submit" \in Steps
        /\ Place(kind, "submit") = 25
        /\ 25 \in Int
    BY PlacesAre DEF Steps
  <2> QED
    BY <2>1, One, Zenon
<1>4. Fits(kind, h, 27, 27, {"save_handle"})
  <2>1. /\ "save_handle" \in Steps
        /\ Place(kind, "save_handle") = 27
        /\ 27 \in Int
    BY PlacesAre DEF Steps
  <2> QED
    BY <2>1, One, Zenon
<1>5. Submit(via, replace) = (r \o l) \o h
  BY DEF Submit
<1>6. StopsOf(via, replace) \cup LaunchesOf(via) = (StopsOf(via, replace) \cup L) \cup {"save_handle"}
  BY DEF LaunchesOf
<1>7. \/ Fits(kind, l, 25, 26, L)
      \/ Fits(kind, l, 25, 25, L)
  BY <1>2, <1>3
<1> HIDE DEF r, l, h, L
<1>8. \/ Fits(kind, r \o l, 21, 26, StopsOf(via, replace) \cup L)
      \/ Fits(kind, r \o l, 21, 25, StopsOf(via, replace) \cup L)
  BY <1>1, <1>7, Joined
<1>9. Fits(kind, (r \o l) \o h, 21, 27, (StopsOf(via, replace) \cup L) \cup {"save_handle"})
  BY <1>4, <1>8, Joined
<1> QED
  BY <1>5, <1>6, <1>9

\* `cluster down'.
DeletesOf ==
    {"delete_cluster", "delete_cluster_pdb", "delete_dra", "delete_service", "delete_deployment"}
        \cup (IF "sandbox_pdb" \in Extras THEN {"delete_sandbox_pdb"} ELSE {})
        \cup (IF "netpol" \in Extras THEN {"delete_netpol"} ELSE {})

\* `cluster down': the cluster, then what goes with it.
LEMMA TeardownIs ==
    ASSUME NEW kind, NEW wait, wait \in BOOLEAN
    PROVE  Fits(kind, Teardown(wait), 10, 20, DeletesOf \cup (IF wait THEN {"wait_gone"} ELSE {}))
<1> DEFINE c == <<"delete_cluster">>
           w == IF wait THEN <<"wait_gone">> ELSE <<>>
           d == <<"delete_cluster_pdb", "delete_dra">>
           p == Optional("sandbox_pdb", "delete_sandbox_pdb")
           n == Optional("netpol", "delete_netpol")
           s == <<"delete_service", "delete_deployment">>
           W == IF wait THEN {"wait_gone"} ELSE {}
           P == IF "sandbox_pdb" \in Extras THEN {"delete_sandbox_pdb"} ELSE {}
           N == IF "netpol" \in Extras THEN {"delete_netpol"} ELSE {}
           C == {"delete_cluster"}
           D == {"delete_cluster_pdb", "delete_dra"}
           S == {"delete_service", "delete_deployment"}
<1>1. Fits(kind, c, 10, 10, C)
  <2>1. /\ "delete_cluster" \in Steps
        /\ Place(kind, "delete_cluster") = 10
        /\ 10 \in Int
    BY PlacesAre DEF Steps
  <2> QED
    BY <2>1, One, Zenon
<1>2. Fits(kind, w, 11, 11, W)
  <2>1. Fits(kind, <<>>, 11, 11, {})
    BY None
  <2>2. Fits(kind, <<"wait_gone">>, 11, 11, {"wait_gone"})
    <3>1. "wait_gone" \in Steps /\ Place(kind, "wait_gone") = 11 /\ 11 \in Int
      BY PlacesAre DEF Steps
    <3> QED
      BY <3>1, One, Zenon
  <2> QED
    BY <2>1, <2>2
<1>3. Fits(kind, d, 15, 16, D)
  <2>1. /\ "delete_cluster_pdb" \in Steps /\ "delete_dra" \in Steps
        /\ Place(kind, "delete_cluster_pdb") = 15 /\ Place(kind, "delete_dra") = 16
        /\ 15 \in Int /\ 16 \in Int /\ 15 < 16
    BY PlacesAre DEF Steps
  <2> QED
    BY <2>1, Two, Zenon
<1>4. Fits(kind, p, 17, 17, P)
  <2>1. /\ "delete_sandbox_pdb" \in Steps
        /\ Place(kind, "delete_sandbox_pdb") = 17
        /\ 17 \in Int
    BY PlacesAre DEF Steps
  <2> QED
    BY <2>1, OptionalIs, Zenon
<1>5. Fits(kind, n, 18, 18, N)
  <2>1. /\ "delete_netpol" \in Steps
        /\ Place(kind, "delete_netpol") = 18
        /\ 18 \in Int
    BY PlacesAre DEF Steps
  <2> QED
    BY <2>1, OptionalIs, Zenon
<1>6. Fits(kind, s, 19, 20, S)
  <2>1. /\ "delete_service" \in Steps /\ "delete_deployment" \in Steps
        /\ Place(kind, "delete_service") = 19 /\ Place(kind, "delete_deployment") = 20
        /\ 19 \in Int /\ 20 \in Int /\ 19 < 20
    BY PlacesAre DEF Steps
  <2> QED
    BY <2>1, Two, Zenon
<1>7. Teardown(wait) = ((((c \o w) \o d) \o p) \o n) \o s
  BY DEF Teardown
<1>8. DeletesOf \cup W = ((((C \cup W) \cup D) \cup P) \cup N) \cup S
  BY DEF DeletesOf
<1> HIDE DEF c, w, d, p, n, s, C, W, D, P, N, S
<1>9. Fits(kind, c \o w, 10, 11, C \cup W)
  BY <1>1, <1>2, Joined
<1>10. Fits(kind, (c \o w) \o d, 10, 16, (C \cup W) \cup D)
  BY <1>3, <1>9, Joined
<1>11. Fits(kind, ((c \o w) \o d) \o p, 10, 17, ((C \cup W) \cup D) \cup P)
  BY <1>4, <1>10, Joined
<1>12. Fits(kind, (((c \o w) \o d) \o p) \o n, 10, 18, (((C \cup W) \cup D) \cup P) \cup N)
  BY <1>5, <1>11, Joined
<1>13. Fits(kind, ((((c \o w) \o d) \o p) \o n) \o s, 10, 20,
            ((((C \cup W) \cup D) \cup P) \cup N) \cup S)
  BY <1>6, <1>12, Joined
<1> QED
  BY <1>7, <1>8, <1>13 DEF W

\* `run --mode rayjob'.
RayJobCalls == {"no_cluster", "dra", "apply_rayjob", "wait_rayjob", "delete_dra"}

\* `run' in rayjob mode.
LEMMA RayJobIs ==
    Fits("rayjob",
         (<<"no_cluster">> \o SandboxUp) \o <<"dra", "apply_rayjob", "wait_rayjob", "delete_dra">>,
         0, 16, SandboxCalls \cup RayJobCalls)
<1> DEFINE c == <<"no_cluster">>
           j == <<"dra", "apply_rayjob", "wait_rayjob">>
           d == <<"delete_dra">>
           t == <<"dra", "apply_rayjob", "wait_rayjob", "delete_dra">>
           J == {"dra", "apply_rayjob", "wait_rayjob"}
<1>1. Fits("rayjob", c, 0, 0, {"no_cluster"})
  <2>1. /\ "no_cluster" \in Steps
        /\ Place("rayjob", "no_cluster") = 0
        /\ 0 \in Int
    BY PlacesAre DEF Steps
  <2> QED
    BY <2>1, One, Zenon
<1>2. Fits("rayjob", j, 9, 13, J)
  <2>1. /\ "dra" \in Steps /\ "apply_rayjob" \in Steps /\ "wait_rayjob" \in Steps
        /\ Place("rayjob", "dra") = 9 /\ Place("rayjob", "apply_rayjob") = 12 /\ Place("rayjob", "wait_rayjob") = 13
        /\ 9 \in Int /\ 12 \in Int /\ 13 \in Int /\ 9 < 12 /\ 12 < 13
    BY PlacesAre DEF Steps
  <2> QED
    BY <2>1, Three, Zenon
<1>3. Fits("rayjob", d, 16, 16, {"delete_dra"})
  <2>1. /\ "delete_dra" \in Steps
        /\ Place("rayjob", "delete_dra") = 16
        /\ 16 \in Int
    BY PlacesAre DEF Steps
  <2> QED
    BY <2>1, One, Zenon
<1>4. Fits("rayjob", SandboxUp, 1, 6, SandboxCalls)
  BY SandboxIs
<1>5. t = j \o d
  OBVIOUS
<1>6. SandboxCalls \cup RayJobCalls = ({"no_cluster"} \cup SandboxCalls) \cup (J \cup {"delete_dra"})
  BY DEF RayJobCalls
<1> HIDE DEF c, j, d, t, J
<1>7. Fits("rayjob", j \o d, 9, 16, J \cup {"delete_dra"})
  BY <1>2, <1>3, Joined
<1>8. Fits("rayjob", c \o SandboxUp, 0, 6, {"no_cluster"} \cup SandboxCalls)
  BY <1>1, <1>4, Joined
<1>9. Fits("rayjob", (c \o SandboxUp) \o t, 0, 16,
           ({"no_cluster"} \cup SandboxCalls) \cup (J \cup {"delete_dra"}))
  BY <1>5, <1>7, <1>8, Joined
<1> QED
  BY <1>6, <1>9 DEF c, t

\* What a command starts with.
FirstCalls(c) ==
    CASE c.kind = "up" -> SandboxCalls \cup {"no_rayjob", "get_cluster"}
      [] c.kind = "bringup" ->
            SandboxCalls \cup {"no_rayjob", "get_cluster"}
                \cup (StopsOf(c.via, c.replace) \cup LaunchesOf(c.via))
      [] c.kind = "attach" -> SandboxCalls \cup (StopsOf(c.via, c.replace) \cup LaunchesOf(c.via))
      [] c.kind = "rayjob" -> SandboxCalls \cup RayJobCalls
      [] c.kind = "down" -> DeletesOf \cup (IF c.wait THEN {"wait_gone"} ELSE {})
      [] c.kind = "stop" -> {"stop_run"}

\* Every command makes its calls in the order of their places.
LEMMA ProgramIs ==
    ASSUME NEW c, c.replace \in BOOLEAN, c.wait \in BOOLEAN,
           c.kind \in {"up", "bringup", "attach", "rayjob", "down", "stop"}
    PROVE  InOrder(c.kind, Program(c)) /\ Calls(Program(c)) = FirstCalls(c)
<1> DEFINE N == <<"no_rayjob">>
           G == <<"get_cluster">>
           T == Submit(c.via, c.replace)
           C == StopsOf(c.via, c.replace) \cup LaunchesOf(c.via)
<1>1. ASSUME NEW kind PROVE Fits(kind, G, 8, 8, {"get_cluster"})
  <2>1. /\ "get_cluster" \in Steps
        /\ Place(kind, "get_cluster") = 8
        /\ 8 \in Int
    BY PlacesAre DEF Steps
  <2> QED
    BY <2>1, One, Zenon
<1>2. Fits("up", N, 7, 7, {"no_rayjob"})
  <2>1. /\ "no_rayjob" \in Steps
        /\ Place("up", "no_rayjob") = 7
        /\ 7 \in Int
    BY PlacesAre DEF Steps
  <2> QED
    BY <2>1, One, Zenon
<1>3. Fits("bringup", N, 0, 0, {"no_rayjob"})
  <2>1. /\ "no_rayjob" \in Steps
        /\ Place("bringup", "no_rayjob") = 0
        /\ 0 \in Int
    BY PlacesAre DEF Steps
  <2> QED
    BY <2>1, One, Zenon
<1>4. \A kind : Fits(kind, SandboxUp, 1, 6, SandboxCalls) /\ Fits(kind, T, 21, 27, C)
  BY SandboxIs, SubmitIs
<1>5. CASE c.kind = "up"
  <2>1. Program(c) = (SandboxUp \o N) \o G
    BY <1>5 DEF Program, ClusterUp
  <2>2. FirstCalls(c) = (SandboxCalls \cup {"no_rayjob"}) \cup {"get_cluster"}
    BY <1>5 DEF FirstCalls
  <2> HIDE DEF N, G, T, C
  <2>3. Fits("up", SandboxUp \o N, 1, 7, SandboxCalls \cup {"no_rayjob"})
    BY <1>2, <1>4, Joined
  <2>4. Fits("up", (SandboxUp \o N) \o G, 1, 8, (SandboxCalls \cup {"no_rayjob"}) \cup {"get_cluster"})
    BY <1>1, <2>3, Joined
  <2> QED
    BY <1>5, <2>1, <2>2, <2>4 DEF Fits, Between
<1>6. CASE c.kind = "bringup"
  <2>1. Program(c) = ((N \o SandboxUp) \o G) \o T
    BY <1>6 DEF Program, ClusterUp
  <2>2. FirstCalls(c) = (({"no_rayjob"} \cup SandboxCalls) \cup {"get_cluster"}) \cup C
    BY <1>6 DEF FirstCalls
  <2> HIDE DEF N, G, T, C
  <2>3. Fits("bringup", N \o SandboxUp, 0, 6, {"no_rayjob"} \cup SandboxCalls)
    BY <1>3, <1>4, Joined
  <2>4. Fits("bringup", (N \o SandboxUp) \o G, 0, 8,
             ({"no_rayjob"} \cup SandboxCalls) \cup {"get_cluster"})
    BY <1>1, <2>3, Joined
  <2>5. Fits("bringup", ((N \o SandboxUp) \o G) \o T, 0, 27,
             (({"no_rayjob"} \cup SandboxCalls) \cup {"get_cluster"}) \cup C)
    BY <1>4, <2>4, Joined
  <2> QED
    BY <1>6, <2>1, <2>2, <2>5 DEF Fits, Between
<1>7. CASE c.kind = "attach"
  <2>1. Program(c) = SandboxUp \o T
    BY <1>7 DEF Program
  <2>2. FirstCalls(c) = SandboxCalls \cup C
    BY <1>7 DEF FirstCalls
  <2> HIDE DEF N, G, T, C
  <2>3. Fits("attach", SandboxUp \o T, 1, 27, SandboxCalls \cup C)
    BY <1>4, Joined
  <2> QED
    BY <1>7, <2>1, <2>2, <2>3 DEF Fits, Between
<1>8. CASE c.kind = "rayjob"
  <2>1. Program(c)
          = (<<"no_cluster">> \o SandboxUp) \o <<"dra", "apply_rayjob", "wait_rayjob", "delete_dra">>
    BY <1>8 DEF Program
  <2>2. FirstCalls(c) = SandboxCalls \cup RayJobCalls
    BY <1>8 DEF FirstCalls
  <2> QED
    BY <1>8, <2>1, <2>2, RayJobIs DEF Fits, Between
<1>9. CASE c.kind = "down"
  <2>1. Program(c) = Teardown(c.wait)
    BY <1>9 DEF Program
  <2>2. FirstCalls(c) = DeletesOf \cup (IF c.wait THEN {"wait_gone"} ELSE {})
    BY <1>9 DEF FirstCalls
  <2>3. Fits("down", Teardown(c.wait), 10, 20, DeletesOf \cup (IF c.wait THEN {"wait_gone"} ELSE {}))
    BY TeardownIs
  <2> QED
    BY <1>9, <2>1, <2>2, <2>3 DEF Fits, Between
<1>10. CASE c.kind = "stop"
  <2>1. Program(c) = <<"stop_run">> /\ FirstCalls(c) = {"stop_run"}
    BY <1>10 DEF Program, FirstCalls
  <2>2. Fits("stop", <<"stop_run">>, 1, 1, {"stop_run"})
    <3>1. "stop_run" \in Steps /\ Place("stop", "stop_run") = 1 /\ 1 \in Int
      BY PlacesAre DEF Steps
    <3> QED
      BY <3>1, One, Zenon
  <2> QED
    BY <1>10, <2>1, <2>2 DEF Fits, Between
<1> QED
  BY <1>5, <1>6, <1>7, <1>8, <1>9, <1>10

\* A command before its first call.
Fresher(c, kind, o) ==
    /\ c.kind = kind /\ c.spec = o.spec /\ c.id = o.id /\ c.via = o.via /\ c.replace = o.replace
    /\ c.recreate = o.recreate /\ c.wait = o.wait /\ c.outcome = "none" /\ c.run = 0
    /\ c.calm = TRUE /\ c.slow = FALSE /\ c.escaped = FALSE /\ c.dying = FALSE /\ c.warned = FALSE

\* A command that begins is well formed and has all its calls before it.
LEMMA CommandIs ==
    ASSUME NEW u, NEW kind \in Kinds, NEW o \in Options(u, kind)
    PROVE  LET c == Command(kind, o)
           IN  Formed(c) /\ Fresher(c, kind, o) /\ Pending(c) = FirstCalls(c) /\ c.prog # <<>>
<1> DEFINE b == [Shell EXCEPT !.kind = kind, !.spec = o.spec, !.id = o.id, !.via = o.via,
                              !.replace = o.replace, !.recreate = o.recreate, !.wait = o.wait]
           c == [b EXCEPT !.prog = Program(b)]
<1>1. Command(kind, o) = c
  BY DEF Command
<1>2. /\ kind \in {"up", "bringup", "attach", "rayjob", "down", "stop"}
      /\ o.spec \in Specs \cup {NoSpec} /\ (kind \in Raises => o.spec \in Specs)
      /\ kind \in Trains => o.id \in Ids
      /\ o.id \in Ids \cup {0} /\ o.via \in {"exec", "ray"}
      /\ o.replace \in BOOLEAN /\ o.recreate \in BOOLEAN /\ o.wait \in BOOLEAN
      /\ o.replace => kind \in Trains
  BY LauncherAssumption DEF Options, Raises, Trains
<1>3. b.kind = kind /\ b.via = o.via /\ b.replace = o.replace /\ b.wait = o.wait
  BY DEF Shell
<1>4. c \in Commands
  <2>1. b \in Commands
    BY <1>2, EmptySeq, ZenonT(60) DEF Shell, Commands
  <2> HIDE DEF b
  <2>2. Program(b) \in Seq(Steps)
    BY <1>2, <1>3, ProgramIs DEF InOrder
  <2> QED
    BY <2>1, <2>2 DEF Commands
<1>5. Fresher(c, kind, o) /\ c.prog = Program(b)
  BY DEF Shell, Fresher
<1> HIDE DEF c, b
<1>6. InOrder(b.kind, Program(b)) /\ Calls(Program(b)) = FirstCalls(b)
  BY <1>2, <1>3, ProgramIs
<1>7. Pending(c) = FirstCalls(c)
  <2>1. FirstCalls(b) = FirstCalls(c)
    BY <1>2, <1>3, <1>5 DEF FirstCalls, Fresher
  <2> QED
    BY <1>6, <1>5, <2>1 DEF Pending
<1>8. /\ Pending(c) \subseteq CallsOf(kind) /\ Pending(c) # {}
      /\ kind \in Raises => "delete_cluster" \notin Pending(c) /\ "wait_gone" \notin Pending(c)
      /\ "apply_cluster" \notin Pending(c)
      /\ "scan" \in Pending(c) => {"wait_exit", "list_jobs"} \subseteq Pending(c)
      /\ "wait_exit" \in Pending(c) => "list_jobs" \in Pending(c)
      /\ "list_jobs" \in Pending(c) => "wait_stopped" \in Pending(c)
      /\ "launch" \in Pending(c) => "poll_pid" \in Pending(c)
      /\ "get_cluster" \in Pending(c) => Pending(c) \cap ClusterCalls = {"get_cluster"}
      /\ Pending(c) \cap {"launch", "poll_pid"} # {} => c.via = "exec"
      /\ "submit" \in Pending(c) => c.via = "ray"
  <2>1. CASE kind = "up"
    <3>1. Pending(c) = SandboxCalls \cup {"no_rayjob", "get_cluster"}
      BY <1>5, <1>7, <2>1 DEF FirstCalls, Fresher
    <3> QED
      BY <1>2, <1>5, <2>1, <3>1, LauncherAssumption
         DEF CallsOf, Raises, Fresher, SandboxCalls, ClusterCalls
  <2>2. CASE kind = "bringup"
    <3>1. Pending(c) = SandboxCalls \cup {"no_rayjob", "get_cluster"}
                          \cup (StopsOf(c.via, c.replace) \cup LaunchesOf(c.via))
      BY <1>5, <1>7, <2>2 DEF FirstCalls, Fresher
    <3> QED
      BY <1>2, <1>5, <2>2, <3>1, LauncherAssumption
         DEF CallsOf, Raises, Fresher, SandboxCalls, ClusterCalls,
             StopCalls, LaunchCalls, StopsOf, LaunchesOf
  <2>3. CASE kind = "attach"
    <3>1. Pending(c) = SandboxCalls \cup (StopsOf(c.via, c.replace) \cup LaunchesOf(c.via))
      BY <1>5, <1>7, <2>3 DEF FirstCalls, Fresher
    <3> QED
      BY <1>2, <1>5, <2>3, <3>1, LauncherAssumption
         DEF CallsOf, Raises, Fresher, SandboxCalls, ClusterCalls, StopCalls,
             LaunchCalls, StopsOf, LaunchesOf
  <2>4. CASE kind = "rayjob"
    <3>1. Pending(c) = SandboxCalls \cup RayJobCalls
      BY <1>5, <1>7, <2>4 DEF FirstCalls, Fresher
    <3> QED
      BY <1>2, <1>5, <2>4, <3>1, LauncherAssumption
         DEF CallsOf, Raises, Fresher, SandboxCalls, ClusterCalls, RayJobCalls
  <2>5. CASE kind = "down"
    <3>1. Pending(c) = DeletesOf \cup (IF c.wait THEN {"wait_gone"} ELSE {})
      BY <1>5, <1>7, <2>5 DEF FirstCalls, Fresher
    <3> QED
      BY <1>2, <1>5, <2>5, <3>1, LauncherAssumption
         DEF CallsOf, Raises, Fresher, DeletesOf, DeleteCalls
  <2>6. CASE kind = "stop"
    <3>1. Pending(c) = {"stop_run"}
      BY <1>5, <1>7, <2>6 DEF FirstCalls, Fresher
    <3> QED
      BY <1>2, <1>5, <2>6, <3>1, LauncherAssumption
         DEF CallsOf, Raises, Fresher, SandboxCalls
  <2> QED
    BY <1>2, <2>1, <2>2, <2>3, <2>4, <2>5, <2>6
<1>9. c.prog # <<>>
  BY <1>8 DEF Pending, Calls
<1>10. Paired(c)
  BY <1>5, <1>8 DEF Paired, Fresher
<1> QED
  BY <1>1, <1>2, <1>3, <1>6, <1>4, <1>5, <1>7, <1>8, <1>9, <1>10 DEF Formed, Fresher

-------------------------------------------------------------------------------
(* A step of a command.                                                      *)

\* Command d is command c but for the calls left.
Keeps(c, d) ==
    /\ d.kind = c.kind /\ d.spec = c.spec /\ d.id = c.id /\ d.via = c.via /\ d.replace = c.replace
    /\ d.recreate = c.recreate /\ d.wait = c.wait /\ d.todo = c.todo /\ d.run = c.run
    /\ d.calm = c.calm /\ d.warned = c.warned /\ d.dying = c.dying /\ d.slow = c.slow
    /\ d.escaped = c.escaped

\* Command d is command c past its call h.
Past(c, h, d) ==
    /\ Formed(d) /\ Keeps(c, d) /\ h \in Pending(c) /\ Pending(d) = Pending(c) \ {h}
    /\ \A x \in Pending(d) : Place(c.kind, h) < Place(c.kind, x)
    /\ d.outcome # "error"

\* A call that is made alters nothing but the calls left and the outcome.
LEMMA AdvanceKeeps ==
    ASSUME NEW c, c \in Commands
    PROVE  /\ Keeps(c, Advance(c)) /\ Advance(c).prog = Tail(c.prog)
           /\ Advance(c).outcome = IF Len(c.prog) = 1 THEN "ok" ELSE "none"
           /\ Tail(c.prog) \in Seq(Steps) => Advance(c) \in Commands
BY ZenonT(60) DEF Advance, Keeps, Commands

\* A command past its first call is as sound as before.
LEMMA AdvanceIs ==
    ASSUME NEW c, Formed(c), c.prog # <<>>
    PROVE  Past(c, Head(c.prog), Advance(c))
<1> DEFINE d == Advance(c)
           h == Head(c.prog)
<1>0. /\ c \in Commands /\ c.prog \in Seq(Steps) /\ InOrder(c.kind, c.prog)
      /\ Pending(c) \subseteq CallsOf(c.kind) /\ c.kind # "none"
  BY DEF Formed, InOrder
<1>1. Keeps(c, d) /\ d.prog = Tail(c.prog) /\ d.outcome = IF Len(c.prog) = 1 THEN "ok" ELSE "none"
  BY <1>0, AdvanceKeeps
<1>2. /\ h \in Calls(c.prog) /\ InOrder(c.kind, d.prog) /\ Calls(d.prog) = Calls(c.prog) \ {h}
      /\ \A x \in Calls(d.prog) : Place(c.kind, h) < Place(c.kind, x)
      /\ Len(c.prog) = 1 <=> d.prog = <<>>
  <2>1. c.prog \in Seq(Steps) /\ InOrder(c.kind, c.prog) /\ c.prog # <<>>
    BY <1>0
  <2>2. /\ h \in Calls(c.prog) /\ InOrder(c.kind, Tail(c.prog))
        /\ Calls(Tail(c.prog)) = Calls(c.prog) \ {h}
        /\ \A x \in Calls(Tail(c.prog)) : Place(c.kind, h) < Place(c.kind, x)
        /\ Len(c.prog) = 1 <=> Tail(c.prog) = <<>>
    BY <2>1, Followed
  <2>3. d.prog = Tail(c.prog)
    BY <1>1
  <2> HIDE DEF d, h
  <2> QED
    BY <2>2, <2>3
<1>3. d.prog \in Seq(Steps)
  BY <1>2 DEF InOrder
<1>4. d \in Commands
  BY <1>0, <1>3, AdvanceKeeps
<1> HIDE DEF d, h
<1>5. h \in Pending(c) /\ Pending(d) = Pending(c) \ {h}
  BY <1>2 DEF Pending
<1>6. Paired(d)
  <2>1. \A x, y \in Steps :
          /\ x \in Pending(c) => y \in Pending(c)
          /\ Place(c.kind, x) < Place(c.kind, y)
          => (x \in Pending(d) => y \in Pending(d))
    BY <1>2, <1>5, PlaceIs DEF Pending
  <2>2. /\ {"delete_cluster", "wait_gone", "apply_cluster", "wait_ready"} \subseteq Steps
        /\ {"scan", "wait_exit", "list_jobs", "wait_stopped", "launch", "poll_pid"} \subseteq Steps
    BY DEF Steps
  <2>3. /\ Place(c.kind, "delete_cluster") < Place(c.kind, "wait_gone")
        /\ Place(c.kind, "wait_gone") < Place(c.kind, "apply_cluster")
        /\ Place(c.kind, "apply_cluster") < Place(c.kind, "wait_ready")
        /\ Place(c.kind, "scan") < Place(c.kind, "wait_exit")
        /\ Place(c.kind, "wait_exit") < Place(c.kind, "list_jobs")
        /\ Place(c.kind, "list_jobs") < Place(c.kind, "wait_stopped")
        /\ Place(c.kind, "launch") < Place(c.kind, "poll_pid")
    BY PlacesAre, SMTT(60)
  <2>4. Paired(c) /\ d.kind = c.kind
    BY <1>1 DEF Formed, Keeps
  <2> QED
    BY <2>1, <2>2, <2>3, <2>4, Zenon DEF Paired
<1>7. "get_cluster" \in Pending(d) => Pending(d) \cap ClusterCalls = {"get_cluster"}
  BY <1>5 DEF Formed
<1>8. Formed(d)
  BY <1>0, <1>1, <1>2, <1>4, <1>5, <1>6, <1>7 DEF Formed, Keeps
<1> QED
  BY <1>1, <1>2, <1>5, <1>8 DEF Past, d, h, Pending

\* ensure_cluster.
EnsureCalls(u) ==
    IF ~HasCluster THEN {"apply_cluster"}
    ELSE IF rc.spec # ps[u].spec /\ ps[u].recreate
    THEN {"delete_cluster", "wait_gone", "apply_cluster"}
    ELSE {}

\* What ensure_cluster adds comes between reading the cluster and submitting.
LEMMA EnsureIs ==
    ASSUME NEW u, Formed(ps[u]), At(u, "get_cluster")
    PROVE  /\ Fits(ps[u].kind, Ensure(u), 8, 27,
                   ({"get_cluster", "dra"} \cup EnsureCalls(u) \cup {"cluster_pdb", "wait_ready"})
                       \cup (Pending(ps[u]) \ {"get_cluster"}))
           /\ ps[u].kind \in Raises
<1> DEFINE k == ps[u].kind
           P == Pending(ps[u])
           t == Tail(ps[u].prog)
           gd == <<"get_cluster", "dra">>
           pw == <<"cluster_pdb", "wait_ready">>
           e == IF ~HasCluster THEN <<"apply_cluster">>
                ELSE IF rc.spec # ps[u].spec /\ ps[u].recreate
                THEN <<"delete_cluster", "wait_gone", "apply_cluster">>
                ELSE <<>>
<1>1. /\ InOrder(k, ps[u].prog) /\ P \subseteq CallsOf(k) /\ ps[u].prog # <<>>
      /\ Head(ps[u].prog) = "get_cluster" /\ k \in {"up", "down", "bringup", "attach", "rayjob", "stop"}
      /\ "get_cluster" \in P => P \cap ClusterCalls = {"get_cluster"}
  BY DEF Formed, At, Commands
<1>2. /\ "get_cluster" \in P /\ InOrder(k, t) /\ Calls(t) = P \ {"get_cluster"}
      /\ \A x \in Calls(t) : Place(k, "get_cluster") < Place(k, x)
  BY <1>1, Followed DEF Pending
<1> HIDE DEF k, P, t
<1>3. k \in Raises
  BY <1>1, <1>2, LauncherAssumption DEF CallsOf, SandboxCalls, StopCalls, LaunchCalls,
     DeleteCalls, Raises
<1>4. Calls(t) \subseteq StopCalls \cup LaunchCalls
  <2>1. \A x \in SandboxCalls \cup {"no_rayjob"} : ~ (8 < Place(k, x))
    BY LauncherAssumption, PlacesAre DEF SandboxCalls
  <2>2. \A x \in Calls(t) : 8 < Place(k, x)
    BY <1>2, PlacesAre
  <2>3. P \subseteq SandboxCalls \cup {"no_rayjob"} \cup ClusterCalls \cup StopCalls \cup LaunchCalls
    BY <1>1, <1>3 DEF CallsOf, Raises
  <2> QED
    BY <1>1, <1>2, <2>1, <2>2, <2>3
<1>5. Fits(k, t, 21, 27, P \ {"get_cluster"})
  <2>1. \A x \in StopCalls \cup LaunchCalls : Place(k, x) \in 21 .. 27
    BY PlacesAre DEF StopCalls, LaunchCalls
  <2> QED
    BY <1>2, <1>4, <2>1 DEF Fits, Between
<1>6. Fits(k, gd, 8, 9, {"get_cluster", "dra"})
  <2>1. /\ "get_cluster" \in Steps /\ "dra" \in Steps
        /\ Place(k, "get_cluster") = 8 /\ Place(k, "dra") = 9
        /\ 8 \in Int /\ 9 \in Int /\ 8 < 9
    BY PlacesAre DEF Steps
  <2> QED
    BY <2>1, Two, Zenon
<1>7. Fits(k, e, 10, 12, EnsureCalls(u))
  <2>1. Fits(k, <<"apply_cluster">>, 12, 12, {"apply_cluster"})
    <3>1. "apply_cluster" \in Steps /\ Place(k, "apply_cluster") = 12 /\ 12 \in Int
      BY PlacesAre DEF Steps
    <3> QED
      BY <3>1, One, Zenon
  <2>2. Fits(k, <<"apply_cluster">>, 10, 12, {"apply_cluster"})
    BY <2>1 DEF Fits, Between
  <2>3. Fits(k, <<"delete_cluster", "wait_gone", "apply_cluster">>, 10, 12,
             {"delete_cluster", "wait_gone", "apply_cluster"})
    <3>1. /\ "delete_cluster" \in Steps /\ "wait_gone" \in Steps /\ "apply_cluster" \in Steps
          /\ Place(k, "delete_cluster") = 10 /\ Place(k, "wait_gone") = 11
          /\ Place(k, "apply_cluster") = 12
          /\ 10 \in Int /\ 11 \in Int /\ 12 \in Int /\ 10 < 11 /\ 11 < 12
      BY PlacesAre DEF Steps
    <3> QED
      BY <3>1, Three, Zenon
  <2>4. Fits(k, <<>>, 10, 12, {})
    BY None
  <2> QED
    BY <2>2, <2>3, <2>4 DEF EnsureCalls
<1>8. Fits(k, pw, 13, 14, {"cluster_pdb", "wait_ready"})
  <2>1. /\ "cluster_pdb" \in Steps /\ "wait_ready" \in Steps
        /\ Place(k, "cluster_pdb") = 13 /\ Place(k, "wait_ready") = 14
        /\ 13 \in Int /\ 14 \in Int /\ 13 < 14
    BY PlacesAre DEF Steps
  <2> QED
    BY <2>1, Two, Zenon
<1>9. Ensure(u) = ((gd \o e) \o pw) \o t
  BY DEF Ensure, t
<1> HIDE DEF gd, e, pw
<1>10. Fits(k, gd \o e, 8, 12, {"get_cluster", "dra"} \cup EnsureCalls(u))
  BY <1>6, <1>7, Joined
<1>11. Fits(k, (gd \o e) \o pw, 8, 14,
            {"get_cluster", "dra"} \cup EnsureCalls(u) \cup {"cluster_pdb", "wait_ready"})
  BY <1>8, <1>10, Joined
<1>12. Fits(k, ((gd \o e) \o pw) \o t, 8, 27,
            ({"get_cluster", "dra"} \cup EnsureCalls(u) \cup {"cluster_pdb", "wait_ready"})
                \cup (P \ {"get_cluster"}))
  BY <1>5, <1>11, Joined
<1> QED
  BY <1>3, <1>9, <1>12 DEF k, P

\* A command that has read the cluster is well formed: what it deletes it waits for and creates again.
LEMMA FoundIs ==
    ASSUME NEW u, Formed(ps[u]), At(u, "get_cluster"), rc \in Clusters
    PROVE  LET c == ps[u]
               d == Advance(Found(u))
           IN  /\ Formed(d) /\ c.kind \in Raises /\ d.prog # <<>>
               /\ Pending(d) = ({"dra"} \cup EnsureCalls(u) \cup {"cluster_pdb", "wait_ready"})
                                    \cup (Pending(c) \ {"get_cluster"})
               /\ Pending(c) \cap ClusterCalls = {"get_cluster"}
               /\ d.dying = rc.deleting
               /\ d.warned = (HasCluster /\ rc.spec # c.spec /\ ~c.recreate)
               /\ Keeps([c EXCEPT !.warned = d.warned, !.dying = d.dying], d)
<1> DEFINE c == ps[u]
           f == Found(u)
           d == Advance(f)
           s == Ensure(u)
           M == {"dra"} \cup EnsureCalls(u) \cup {"cluster_pdb", "wait_ready"}
           R == Pending(c) \ {"get_cluster"}
<1>1. Fits(c.kind, s, 8, 27, ({"get_cluster"} \cup M) \cup R) /\ c.kind \in Raises
  <2>1. ({"get_cluster", "dra"} \cup EnsureCalls(u) \cup {"cluster_pdb", "wait_ready"})
            \cup (Pending(c) \ {"get_cluster"}) = ({"get_cluster"} \cup M) \cup R
    OBVIOUS
  <2> QED
    BY <2>1, EnsureIs
<1>2. c \in Commands /\ rc.deleting \in BOOLEAN /\ c.recreate \in BOOLEAN
  BY DEF Formed, Commands, Clusters
<1>3. /\ f.prog = s /\ f.dying = rc.deleting /\ f.kind = c.kind /\ f.spec = c.spec
      /\ f.via = c.via /\ f.replace = c.replace /\ f.run = c.run /\ f.id = c.id
      /\ f.warned = (HasCluster /\ rc.spec # c.spec /\ ~c.recreate)
      /\ Keeps([c EXCEPT !.warned = f.warned, !.dying = f.dying], f)
  BY <1>2 DEF Found, Commands, Keeps
<1>4. s \in Seq(Steps) /\ InOrder(c.kind, s) /\ Calls(s) = ({"get_cluster"} \cup M) \cup R
      /\ \A x \in Calls(s) : Place(c.kind, x) \in 8 .. 27
  BY <1>1 DEF Fits, Between, InOrder
<1>5. f \in Commands
  BY <1>2, <1>4, ZenonT(60) DEF Found, Commands
<1> HIDE DEF s, M, R, f
<1>6. d.prog = Tail(s) /\ d.outcome = (IF Len(s) = 1 THEN "ok" ELSE "none")
      /\ Keeps(f, d) /\ (Tail(s) \in Seq(Steps) => d \in Commands)
  BY <1>3, <1>5, AdvanceKeeps
<1>7. s # <<>>
  <2>1. "get_cluster" \in Calls(s)
    BY <1>4
  <2> QED
    BY <2>1 DEF Calls
<1>8. /\ Head(s) \in Calls(s) /\ InOrder(c.kind, Tail(s)) /\ Calls(Tail(s)) = Calls(s) \ {Head(s)}
      /\ \A x \in Calls(Tail(s)) : Place(c.kind, Head(s)) < Place(c.kind, x)
      /\ Len(s) = 1 <=> Tail(s) = <<>>
  BY <1>4, <1>7, Followed
<1>9. Head(s) = "get_cluster"
  <2>1. SUFFICES ASSUME Head(s) # "get_cluster" PROVE FALSE
    OBVIOUS
  <2>2. Place(c.kind, Head(s)) < Place(c.kind, "get_cluster")
    BY <1>4, <1>8, <2>1
  <2>3. Place(c.kind, "get_cluster") = 8 /\ Place(c.kind, Head(s)) \in 8 .. 27
    BY <1>4, <1>8, PlacesAre
  <2> QED
    BY <2>2, <2>3
<1>10. Pending(d) = M \cup R
  <2>1. "get_cluster" \notin M \cup R
    BY DEF M, R, EnsureCalls
  <2> QED
    BY <1>4, <1>6, <1>8, <1>9, <2>1 DEF Pending
<1>11. d.prog # <<>>
  <2>1. "dra" \in Pending(d)
    BY <1>10 DEF M
  <2> QED
    BY <2>1 DEF Pending, Calls
<1>12. d \in Commands
  <2>1. Tail(s) \in Seq(Steps)
    BY <1>8 DEF InOrder
  <2> QED
    BY <1>6, <2>1
<1> HIDE DEF d
<1>13. Pending(d) \subseteq CallsOf(c.kind)
  <2>1. M \subseteq CallsOf(c.kind)
    BY <1>1 DEF M, EnsureCalls, CallsOf, Raises, ClusterCalls
  <2>2. R \subseteq CallsOf(c.kind)
    BY DEF R, Formed
  <2> QED
    BY <1>10, <2>1, <2>2
<1>14. /\ "get_cluster" \notin Pending(d)
       /\ Pending(d) \cap (StopCalls \cup LaunchCalls) = Pending(c) \cap (StopCalls \cup LaunchCalls)
       /\ "delete_cluster" \in Pending(d) => "wait_gone" \in Pending(d)
       /\ "wait_gone" \in Pending(d) => "apply_cluster" \in Pending(d)
       /\ "wait_ready" \in Pending(d)
  <2>1. Pending(c) \cap ClusterCalls = {"get_cluster"}
    <3>1. "get_cluster" \in Pending(c)
      BY Followed DEF At, Pending, Formed
    <3> QED
      BY <3>1 DEF Formed
  <2>2. R \cap ClusterCalls = {}
    BY <2>1 DEF R
  <2>3. M \cap (StopCalls \cup LaunchCalls) = {}
    BY DEF M, EnsureCalls, StopCalls, LaunchCalls
  <2>4. "get_cluster" \notin StopCalls \cup LaunchCalls
    BY DEF StopCalls, LaunchCalls
  <2>5. Pending(d) \cap (StopCalls \cup LaunchCalls) = Pending(c) \cap (StopCalls \cup LaunchCalls)
    BY <1>10, <2>3, <2>4 DEF R
  <2> QED
    BY <1>10, <2>2, <2>5 DEF M, EnsureCalls, ClusterCalls
<1>15. Formed(d)
  <2>0. d.kind = c.kind /\ d.spec = c.spec /\ d.via = c.via /\ d.replace = c.replace
        /\ d.run = c.run /\ d.id = c.id
    BY <1>3, <1>6 DEF Keeps
  <2>1. /\ c.kind # "none" /\ c.spec \in Specs /\ c.prog # <<>>
        /\ Pending(c) \cap {"launch", "poll_pid"} # {} => c.via = "exec"
        /\ "submit" \in Pending(c) => c.via = "ray"
        /\ c.replace => c.kind \in Trains
        /\ c.kind \in Trains => c.id \in Ids
        /\ Pending(c) \cap (StopCalls \cup {"launch", "submit"}) # {} => c.run = 0
    BY <1>1 DEF Formed, At, Raises
  <2>2. InOrder(d.kind, d.prog) /\ d.outcome = "none"
    BY <1>6, <1>8, <1>11, <2>0
  <2>3. Pending(d) \subseteq CallsOf(d.kind)
    BY <1>13, <2>0
  <2>4. /\ Pending(d) \cap {"launch", "poll_pid"} # {} => d.via = "exec"
        /\ "submit" \in Pending(d) => d.via = "ray"
    BY <1>14, <2>0, <2>1 DEF LaunchCalls
  <2>5. Pending(d) \cap (StopCalls \cup {"launch", "submit"}) # {} => d.run = 0
    BY <1>14, <2>0, <2>1 DEF LaunchCalls
  <2>6. Paired(d)
    <3>1. Paired(c)
      BY DEF Formed
    <3> QED
      BY <1>14, <3>1 DEF Paired, StopCalls, LaunchCalls
  <2> HIDE DEF c
  <2> QED
    BY <1>11, <1>12, <1>14, <2>0, <2>1, <2>2, <2>3, <2>4, <2>5, <2>6 DEF Formed
<1>16. d.dying = f.dying /\ d.warned = f.warned
  BY <1>6 DEF Keeps
<1>17. Keeps([c EXCEPT !.warned = d.warned, !.dying = d.dying], d)
  BY <1>3, <1>6, <1>16 DEF Keeps
<1>18. Pending(c) \cap ClusterCalls = {"get_cluster"}
  <2>1. "get_cluster" \in Pending(c)
    BY Followed DEF At, Pending, Formed
  <2> QED
    BY <2>1 DEF Formed
<1> QED
  BY <1>1, <1>3, <1>10, <1>11, <1>15, <1>16, <1>17, <1>18 DEF d, M, R, f

-------------------------------------------------------------------------------
(* What a step leaves sound.                                                 *)

\* A command that is under way has not ended.
LEMMA UnderWay ==
    ASSUME NEW c, NEW h, NEW d, Formed(c), Past(c, h, d)
    PROVE  c.outcome = "none" /\ c.prog # <<>> /\ c.kind # "none" /\ h \in CallsOf(c.kind)
<1>1. c.prog # <<>>
  BY DEF Past, Pending, Calls
<1> QED
  BY <1>1 DEF Formed, Past

\* A command that stopped for an error promises nothing.
LEMMA StoppedIs ==
    ASSUME NEW u, NEW k \in {"none", "up", "down", "bringup", "attach", "rayjob", "stop"},
           NEW cl, NEW present, NEW rs, Len(rs) \in Nat
    PROVE  LET d == [Shell EXCEPT !.kind = k, !.outcome = "error"]
           IN  CommandSound(u, d, cl, present, rs) /\ d.prog = <<>>
<1> DEFINE d == [Shell EXCEPT !.kind = k, !.outcome = "error"]
<1>1. /\ d.kind = k /\ d.prog = <<>> /\ d.outcome = "error" /\ d.run = 0 /\ d.replace = FALSE
      /\ d \in Commands
  BY EmptySeq DEF Shell, Commands
<1> HIDE DEF d
<1>2. Pending(d) = {} /\ InOrder(d.kind, d.prog)
  BY <1>1, EmptySeq DEF Pending, Calls, InOrder
<1>3. Formed(d)
  BY <1>1, <1>2 DEF Formed, Paired
<1> QED
  BY <1>1, <1>3 DEF CommandSound, UpSound, DownSound, OwnerSound, AloneSound, d

\* A command that others have overtaken promises nothing.
LEMMA Muted ==
    ASSUME NEW u, NEW c, Formed(c), NEW cl, NEW present, NEW rs, c.run \in 0 .. Len(rs)
    PROVE  CommandSound(u, [c EXCEPT !.calm = FALSE], cl, present, rs)
<1> DEFINE d == [c EXCEPT !.calm = FALSE]
<1>1. c \in Commands
  BY DEF Formed
<1>2. /\ d.calm = FALSE /\ d.kind = c.kind /\ d.prog = c.prog /\ d.outcome = c.outcome
      /\ d.spec = c.spec /\ d.run = c.run /\ d.via = c.via /\ d.replace = c.replace
      /\ d.id = c.id /\ d \in Commands
  BY <1>1 DEF Commands
<1> HIDE DEF d
<1>3. Pending(d) = Pending(c)
  BY <1>2 DEF Pending
<1>4. Formed(d)
  BY <1>2, <1>3 DEF Formed, Paired
<1> QED
  BY <1>2, <1>4 DEF CommandSound, UpSound, DownSound, OwnerSound, AloneSound, d

\* `cluster up': a call that applies a part, or neither that nor about the cluster.
LEMMA UpKeeps ==
    ASSUME NEW c, NEW h, NEW d, Formed(c), Past(c, h, d), NEW cl, NEW before, NEW after,
           UpSound(c, cl, before), before \subseteq after, h \in AllParts => h \in after,
           h # "get_cluster", h # "apply_cluster", h # "wait_gone", h # "wait_ready"
    PROVE  UpSound(d, cl, after)
<1>1. c.outcome = "none"
  BY UnderWay
<1>2. /\ d.kind = c.kind /\ d.calm = c.calm /\ d.dying = c.dying /\ d.spec = c.spec
      /\ d.warned = c.warned /\ Pending(d) = Pending(c) \ {h}
  BY DEF Past, Keeps
<1> QED
  BY <1>1, <1>2 DEF UpSound

\* `cluster down': a call that deletes a part, or neither that nor the wait.
LEMMA DownKeeps ==
    ASSUME NEW c, NEW h, NEW d, Formed(c), Past(c, h, d), NEW cl, NEW cl2, NEW before, NEW after,
           DownSound(c, cl, before), cl = NoCluster => cl2 = NoCluster, h # "wait_gone",
           c.kind = "down" => \A x \in after : x \in before /\ DeleteOf(x) # h
    PROVE  DownSound(d, cl2, after)
<1>1. c.outcome = "none"
  BY UnderWay
<1>2. /\ d.kind = c.kind /\ d.calm = c.calm /\ d.wait = c.wait /\ Pending(d) = Pending(c) \ {h}
  BY DEF Past, Keeps
<1> QED
  BY <1>1, <1>2 DEF DownSound

\* The cluster is still nobody else's, once it has been read.
LEMMA OwnerKeeps ==
    ASSUME NEW u, NEW c, NEW h, NEW d, Formed(c), Past(c, h, d), NEW cl, NEW cl2,
           OwnerSound(u, c, cl), cl2.owner \in {NoOwner, u} \/ cl2.owner = cl.owner,
           h # "get_cluster"
    PROVE  OwnerSound(u, d, cl2)
<1>1. c.outcome = "none"
  BY UnderWay
<1>2. d.kind = c.kind /\ d.calm = c.calm /\ Pending(d) = Pending(c) \ {h}
  BY DEF Past, Keeps
<1> QED
  BY <1>1, <1>2 DEF OwnerSound

\* Runs are as they were, but for some that have ended.
Fewer(rs, rs2) ==
    /\ DOMAIN rs2 = DOMAIN rs
    /\ \A r \in DOMAIN rs :
        /\ rs2[r].id = rs[r].id /\ rs2[r].via = rs[r].via
        /\ LiveIn(rs2, r) => LiveIn(rs, r)

\* A call that lists and waits for no run leaves --replace's promise as it was.
LEMMA AloneKeeps ==
    ASSUME NEW c, NEW h, NEW d, Past(c, h, d), NEW rs, NEW rs2, Fewer(rs, rs2),
           AloneSound(c, rs), h \notin StopCalls
    PROVE  AloneSound(d, rs2)
<1>1. /\ d.replace = c.replace /\ d.calm = c.calm /\ d.slow = c.slow /\ d.escaped = c.escaped
      /\ d.via = c.via /\ d.todo = c.todo /\ d.run = c.run /\ Pending(d) = Pending(c) \ {h}
  BY DEF Past, Keeps
<1>2. /\ "scan" \in Pending(d) <=> "scan" \in Pending(c)
      /\ "wait_exit" \in Pending(d) <=> "wait_exit" \in Pending(c)
      /\ "list_jobs" \in Pending(d) <=> "list_jobs" \in Pending(c)
      /\ "wait_stopped" \in Pending(d) <=> "wait_stopped" \in Pending(c)
  BY <1>1 DEF StopCalls
<1> QED
  BY <1>1, <1>2 DEF AloneSound, Fewer

\* So does the end of a run.
LEMMA AloneFewer ==
    ASSUME NEW c, NEW rs, NEW rs2, Fewer(rs, rs2), AloneSound(c, rs)
    PROVE  AloneSound(c, rs2)
BY DEF AloneSound, Fewer

\* A step that only its own command sees.
LEMMA Quiet ==
    ASSUME Sound, NEW u \in Users, NEW d, ps' = [ps EXCEPT ![u] = d],
           UNCHANGED <<rc, rj, parts, runs, dir>>, CommandSound(u, d, rc, parts, runs)
    PROVE  Sound'
<1>1. ps \in [Users -> Commands] /\ WorldTyped
      /\ \A v \in Users : CommandSound(v, ps[v], rc, parts, runs)
  BY DEF Sound
<1>2. d \in Commands
  BY DEF CommandSound, Formed
<1>3. ps' \in [Users -> Commands] /\ WorldTyped'
  BY <1>1, <1>2 DEF WorldTyped
<1>4. ASSUME NEW v \in Users PROVE CommandSound(v, ps'[v], rc', parts', runs')
  BY <1>1, Zenon
<1> QED
  BY <1>3, <1>4 DEF Sound

\* A step that stops its command.
LEMMA Stops ==
    ASSUME Sound, NEW u \in Users, Failed(u), UNCHANGED <<rc, rj, parts, runs, dir>>
    PROVE  Sound'
<1> DEFINE d == [Shell EXCEPT !.kind = ps[u].kind, !.outcome = "error"]
<1>1. ps[u].kind \in {"none", "up", "down", "bringup", "attach", "rayjob", "stop"}
  BY DEF Sound, Commands
<1>2. Len(runs) \in Nat
  BY LenProperties DEF Sound, WorldTyped, HeadTyped
<1>3. CommandSound(u, d, rc, parts, runs)
  BY <1>1, <1>2, StoppedIs
<1>4. ps' = [ps EXCEPT ![u] = d]
  BY DEF Failed
<1> HIDE DEF d
<1> QED
  BY <1>3, <1>4, Quiet

\* A step that others see.
LEMMA Overtakes ==
    ASSUME Sound, NEW u \in Users, NEW c, Wrote(u, c), WorldTyped', Len(runs) <= Len(runs'),
           CommandSound(u, Advance(c), rc', parts', runs')
    PROVE  Sound'
<1>1. ps \in [Users -> Commands] /\ WorldTyped
      /\ \A v \in Users : CommandSound(v, ps[v], rc, parts, runs)
  BY DEF Sound
<1>2. Len(runs) \in Nat /\ Len(runs') \in Nat
  BY <1>1, LenProperties DEF WorldTyped, HeadTyped
<1>3. ASSUME NEW v \in Users PROVE CommandSound(v, ps'[v], rc', parts', runs')
  <2>1. CASE v = u
    BY <2>1 DEF Wrote
  <2>2. CASE v # u
    <3>1. ps'[v] = [ps[v] EXCEPT !.calm = FALSE]
      BY <2>2 DEF Wrote
    <3>2. Formed(ps[v]) /\ ps[v].run \in 0 .. Len(runs)
      BY <1>1 DEF CommandSound
    <3>3. ps[v].run \in 0 .. Len(runs')
      BY <1>2, <3>2
    <3>4. CommandSound(v, [ps[v] EXCEPT !.calm = FALSE], rc', parts', runs')
      BY <3>2, <3>3, Muted, Zenon
    <3> QED
      BY <3>1, <3>4
  <2> QED
    BY <2>1, <2>2
<1>4. ps' \in [Users -> Commands]
  <2>1. ps' = [v \in Users |-> ps'[v]]
    BY DEF Wrote
  <2>2. \A v \in Users : ps'[v] \in Commands
    BY <1>3 DEF CommandSound, Formed
  <2> QED
    BY <2>1, <2>2
<1> QED
  BY <1>3, <1>4 DEF Sound

\* A step of nobody's command.
LEMMA Elsewhere ==
    ASSUME Sound, ps' = ps, WorldTyped',
           \A u \in Users : CommandSound(u, ps[u], rc', parts', runs')
    PROVE  Sound'
BY DEF Sound

\* A call that tells the command nothing and changes nothing it counts on.
Idle ==
    {"get_deployment", "wait_deployment", "no_rayjob", "no_cluster", "apply_rayjob", "wait_rayjob",
     "poll_pid", "save_handle"}

\* A call that only reads leaves what a command can count on as it was.
LEMMA IdleKeeps ==
    ASSUME NEW u, NEW c, NEW h, NEW d, Past(c, h, d), h \in Idle, NEW cl, NEW present, NEW rs,
           CommandSound(u, c, cl, present, rs)
    PROVE  CommandSound(u, d, cl, present, rs)
<1>1. Formed(c) /\ UpSound(c, cl, present) /\ DownSound(c, cl, present) /\ OwnerSound(u, c, cl)
      /\ AloneSound(c, rs) /\ c.run \in 0 .. Len(rs)
  BY DEF CommandSound
<1>2. /\ h # "get_cluster" /\ h # "apply_cluster" /\ h # "wait_gone" /\ h # "wait_ready"
      /\ h \notin AllParts /\ h \notin StopCalls
  BY LauncherAssumption DEF Idle, AllParts, AppliedParts, StopCalls
<1>3. c.kind = "down" => h \notin Idle
  BY <1>1, UnderWay DEF CallsOf, DeleteCalls, Idle
<1>4. UpSound(d, cl, present)
  BY <1>1, <1>2, UpKeeps
<1>5. DownSound(d, cl, present)
  BY <1>1, <1>2, <1>3, DownKeeps
<1>6. OwnerSound(u, d, cl)
  BY <1>1, <1>2, OwnerKeeps
<1>7. AloneSound(d, rs)
  <2>1. Fewer(rs, rs)
    BY DEF Fewer
  <2> QED
    BY <1>1, <1>2, <2>1, AloneKeeps
<1>8. Formed(d) /\ d.run = c.run
  BY DEF Past, Keeps
<1> QED
  BY <1>1, <1>4, <1>5, <1>6, <1>7, <1>8 DEF CommandSound

\* What a sound state says of the command that takes a step.
LEMMA StepIs ==
    ASSUME Sound, NEW u \in Users, NEW h, At(u, h)
    PROVE  LET c == ps[u]
           IN  /\ Past(c, h, Advance(c)) /\ h \in Pending(c) /\ h \in CallsOf(c.kind)
               /\ c.outcome = "none" /\ c.prog # <<>> /\ c \in Commands
               /\ CommandSound(u, c, rc, parts, runs)
               /\ Formed(c) /\ c.run \in 0 .. Len(runs)
               /\ UpSound(c, rc, parts) /\ DownSound(c, rc, parts) /\ OwnerSound(u, c, rc)
               /\ AloneSound(c, runs)
               /\ WorldTyped /\ Len(runs) \in Nat
<1> DEFINE c == ps[u]
<1>1. CommandSound(u, c, rc, parts, runs) /\ WorldTyped
  BY DEF Sound
<1>2. Formed(c) /\ c.prog # <<>> /\ Head(c.prog) = h
  BY <1>1 DEF CommandSound, At
<1> HIDE DEF c
<1>3. Past(c, h, Advance(c))
  BY <1>2, AdvanceIs
<1>4. c.outcome = "none" /\ h \in CallsOf(c.kind) /\ h \in Pending(c)
  BY <1>2, <1>3, UnderWay DEF Past
<1>5. Len(runs) \in Nat
  BY <1>1, LenProperties DEF WorldTyped, HeadTyped
<1>6. c \in Commands
  BY <1>2 DEF Formed
<1> QED
  BY <1>1, <1>2, <1>3, <1>4, <1>5, <1>6 DEF CommandSound, c

-------------------------------------------------------------------------------
(* The steps of a command.                                                   *)

\* Steps that only read.
LEMMA IdleSound ==
    ASSUME Sound, NEW u \in Users, NEW h, h \in Idle, At(u, h), Done(u, ps[u]),
           UNCHANGED <<rc, rj, parts, runs, dir>>
    PROVE  Sound'
<1>1. Past(ps[u], h, Advance(ps[u])) /\ CommandSound(u, ps[u], rc, parts, runs)
  BY StepIs
<1>2. CommandSound(u, Advance(ps[u]), rc, parts, runs)
  BY <1>1, IdleKeeps
<1>3. ps' = [ps EXCEPT ![u] = Advance(ps[u])]
  BY DEF Done
<1> QED
  BY <1>2, <1>3, Quiet

\* The owner check of the sandbox pool.
LEMMA GetDeploymentSound ==
    ASSUME Sound, NEW u \in Users, GetDeployment(u) PROVE Sound'
<1>1. "get_deployment" \in Idle /\ At(u, "get_deployment")
  BY DEF Idle, GetDeployment
<1>2. UNCHANGED <<rc, rj, parts, runs, dir>> /\ (Failed(u) \/ Done(u, ps[u]))
  BY DEF GetDeployment, kube, head
<1> QED
  BY <1>1, <1>2, IdleSound, Stops

\* The wait for the sandbox pool.
LEMMA WaitDeploymentSound ==
    ASSUME Sound, NEW u \in Users, WaitDeployment(u) PROVE Sound'
<1>1. "wait_deployment" \in Idle /\ At(u, "wait_deployment")
  BY DEF Idle, WaitDeployment
<1>2. UNCHANGED <<rc, rj, parts, runs, dir>> /\ Done(u, ps[u])
  BY DEF WaitDeployment, kube, head
<1> QED
  BY <1>1, <1>2, IdleSound

\* The check for another head Service.
LEMMA CheckCollisionSound ==
    ASSUME Sound, NEW u \in Users, CheckCollision(u) PROVE Sound'
<1>1. /\ "no_rayjob" \in Idle /\ "no_cluster" \in Idle
      /\ At(u, "no_rayjob") \/ At(u, "no_cluster")
  BY DEF Idle, CheckCollision
<1>2. UNCHANGED <<rc, rj, parts, runs, dir>> /\ (Failed(u) \/ Done(u, ps[u]))
  BY DEF CheckCollision, kube, head
<1> QED
  BY <1>1, <1>2, IdleSound, Stops

\* The wait for a RayJob.
LEMMA WaitRayJobSound ==
    ASSUME Sound, NEW u \in Users, WaitRayJob(u) PROVE Sound'
<1>1. "wait_rayjob" \in Idle /\ At(u, "wait_rayjob")
  BY DEF Idle, WaitRayJob
<1>2. UNCHANGED <<rc, rj, parts, runs, dir>> /\ (Failed(u) \/ Done(u, ps[u]))
  BY DEF WaitRayJob, kube, head
<1> QED
  BY <1>1, <1>2, IdleSound, Stops

\* The wait for the pid file.
LEMMA PollPidSound ==
    ASSUME Sound, NEW u \in Users, PollPid(u) PROVE Sound'
<1>1. "poll_pid" \in Idle /\ At(u, "poll_pid")
  BY DEF Idle, PollPid
<1>2. UNCHANGED <<rc, rj, parts, runs, dir>> /\ Done(u, ps[u])
  BY DEF PollPid, kube, head
<1> QED
  BY <1>1, <1>2, IdleSound

\* The handle is saved.
LEMMA SaveHandleSound ==
    ASSUME Sound, NEW u \in Users, SaveHandle(u) PROVE Sound'
<1>1. "save_handle" \in Idle /\ At(u, "save_handle")
  BY DEF Idle, SaveHandle
<1>2. UNCHANGED <<rc, rj, parts, runs, dir>> /\ Done(u, ps[u])
  BY DEF SaveHandle, kube
<1> QED
  BY <1>1, <1>2, IdleSound

\* A RayJob is created; no promise is about it.
LEMMA ApplyRayJobSound ==
    ASSUME Sound, NEW u \in Users, ApplyRayJob(u) PROVE Sound'
<1>1. "apply_rayjob" \in Idle /\ At(u, "apply_rayjob") /\ Wrote(u, ps[u])
      /\ UNCHANGED <<rc, parts, runs, dir>> /\ rj' \in {rj, "initializing"}
  BY DEF Idle, ApplyRayJob, head
<1>2. /\ Past(ps[u], "apply_rayjob", Advance(ps[u])) /\ CommandSound(u, ps[u], rc, parts, runs)
      /\ WorldTyped /\ Len(runs) \in Nat
  BY <1>1, StepIs
<1>3. CommandSound(u, Advance(ps[u]), rc, parts, runs)
  BY <1>1, <1>2, IdleKeeps
<1>4. WorldTyped' /\ Len(runs) <= Len(runs')
  BY <1>1, <1>2 DEF WorldTyped
<1>5. CommandSound(u, Advance(ps[u]), rc', parts', runs')
  BY <1>1, <1>3
<1> QED
  BY <1>1, <1>4, <1>5, Overtakes

\* A command that stops half-way promises nothing.
LEMMA AbortSound == ASSUME Sound, NEW u \in Users, Abort(u) PROVE Sound'
<1>1. Failed(u) /\ UNCHANGED <<rc, rj, parts, runs, dir>>
  BY DEF Abort, kube, head
<1> QED
  BY <1>1, Stops

\* Nothing happens to the runs.
LEMMA FewerSame == ASSUME NEW rs PROVE Fewer(rs, rs)
BY DEF Fewer

\* A part is there from its call on; the others' promises are void.
LEMMA ApplyPartSound == ASSUME Sound, NEW u \in Users, ApplyPart(u) PROVE Sound'
<1> DEFINE c == ps[u]
           d == Advance(ps[u])
<1>1. PICK x \in AppliedParts :
          At(u, x) /\ parts' = parts \cup {x} /\ Wrote(u, ps[u]) /\ UNCHANGED <<rc, rj, runs, dir>>
  BY DEF ApplyPart, head
<1>2. /\ Past(c, x, d) /\ x \in CallsOf(c.kind) /\ Formed(c) /\ c.run \in 0 .. Len(runs)
      /\ UpSound(c, rc, parts) /\ DownSound(c, rc, parts) /\ OwnerSound(u, c, rc)
      /\ AloneSound(c, runs) /\ WorldTyped /\ Len(runs) \in Nat
  BY <1>1, StepIs
<1>3. /\ x # "get_cluster" /\ x # "apply_cluster" /\ x # "wait_gone" /\ x # "wait_ready"
      /\ x \notin StopCalls
  BY <1>1, LauncherAssumption DEF AppliedParts, StopCalls
<1>4. c.kind # "down"
  BY <1>1, <1>2, LauncherAssumption DEF AppliedParts, CallsOf, DeleteCalls
<1> HIDE DEF c, d
<1>5. UpSound(d, rc, parts \cup {x})
  <2>1. parts \subseteq parts \cup {x} /\ x \in parts \cup {x}
    OBVIOUS
  <2> QED
    BY <1>2, <1>3, <2>1, UpKeeps
<1>6. DownSound(d, rc, parts \cup {x})
  BY <1>2, <1>3, <1>4, DownKeeps
<1>7. OwnerSound(u, d, rc)
  BY <1>2, <1>3, OwnerKeeps
<1>8. AloneSound(d, runs)
  BY <1>2, <1>3, FewerSame, AloneKeeps
<1>9. CommandSound(u, d, rc', parts', runs')
  <2>1. Formed(d) /\ d.run = c.run
    BY <1>2 DEF Past, Keeps
  <2> QED
    BY <1>1, <1>2, <1>5, <1>6, <1>7, <1>8, <2>1 DEF CommandSound
<1>10. WorldTyped' /\ Len(runs) <= Len(runs')
  BY <1>1, <1>2 DEF WorldTyped, AllParts
<1> QED
  BY <1>1, <1>9, <1>10, Overtakes DEF c, d

\* A part is gone from its call on.
LEMMA DeletePartSound == ASSUME Sound, NEW u \in Users, DeletePart(u) PROVE Sound'
<1> DEFINE c == ps[u]
           d == Advance(ps[u])
<1>1. PICK x \in AppliedParts :
          /\ At(u, DeleteOf(x)) /\ parts' = parts \ {x} /\ Wrote(u, ps[u])
          /\ UNCHANGED <<rc, rj, runs, dir>>
  BY DEF DeletePart, head
<1>2. /\ Past(c, DeleteOf(x), d) /\ DeleteOf(x) \in CallsOf(c.kind) /\ Formed(c)
      /\ c.run \in 0 .. Len(runs)
      /\ UpSound(c, rc, parts) /\ DownSound(c, rc, parts) /\ OwnerSound(u, c, rc)
      /\ AloneSound(c, runs) /\ WorldTyped /\ Len(runs) \in Nat
  BY <1>1, StepIs
<1>3. DeleteOf(x) \in DeleteCalls /\ \A y \in AllParts : DeleteOf(y) = DeleteOf(x) => y = x
  BY <1>1, LauncherAssumption DEF AllParts, AppliedParts, DeleteOf, DeleteCalls
<1>4. parts \subseteq AllParts
  BY <1>2 DEF WorldTyped
<1> DEFINE h == DeleteOf(x)
<1>5. /\ h # "get_cluster" /\ h # "wait_gone" /\ h \notin StopCalls
      /\ c.kind \notin Raises
  <2>1. h # "get_cluster" /\ h # "wait_gone" /\ h \notin StopCalls
    BY <1>3 DEF DeleteCalls, StopCalls
  <2>2. DeleteCalls \cap (SandboxCalls \cup ClusterCalls \cup {"no_rayjob"} \cup StopCalls \cup LaunchCalls) = {}
    BY LauncherAssumption DEF DeleteCalls, SandboxCalls, ClusterCalls, StopCalls, LaunchCalls
  <2>3. c.kind \in Raises =>
            h \in SandboxCalls \cup ClusterCalls \cup {"no_rayjob"} \cup StopCalls \cup LaunchCalls
    BY <1>2 DEF CallsOf, Raises
  <2> QED
    BY <1>3, <2>1, <2>2, <2>3
<1> HIDE DEF c, d, h
<1>6. Past(c, h, d)
  BY <1>2 DEF h
<1>7. d.kind = c.kind /\ Formed(d) /\ d.run = c.run
  BY <1>2 DEF Past, Keeps
<1>8. UpSound(d, rc, parts \ {x})
  BY <1>5, <1>7 DEF UpSound
<1>9. DownSound(d, rc, parts \ {x})
  <2>1. \A y \in parts \ {x} : y \in parts /\ DeleteOf(y) # h
    BY <1>3, <1>4 DEF h
  <2> QED
    BY <1>2, <1>5, <1>6, <2>1, DownKeeps
<1>10. OwnerSound(u, d, rc)
  BY <1>2, <1>5, <1>6, OwnerKeeps
<1>11. AloneSound(d, runs)
  BY <1>2, <1>5, <1>6, FewerSame, AloneKeeps
<1>12. CommandSound(u, d, rc', parts', runs')
  BY <1>1, <1>2, <1>7, <1>8, <1>9, <1>10, <1>11 DEF CommandSound
<1>13. WorldTyped' /\ Len(runs) <= Len(runs')
  BY <1>1, <1>2 DEF WorldTyped
<1> QED
  BY <1>1, <1>12, <1>13, Overtakes DEF c, d

\* The cluster is ready once the wait returns.
LEMMA WaitReadySound == ASSUME Sound, NEW u \in Users, WaitReady(u) PROVE Sound'
<1> DEFINE c == ps[u]
           d == Advance(ps[u])
<1>1. At(u, "wait_ready") /\ rc.ready /\ Done(u, ps[u]) /\ UNCHANGED <<rc, rj, parts, runs, dir>>
  BY DEF WaitReady, kube, head
<1>2. /\ Past(c, "wait_ready", d) /\ Formed(c) /\ c.run \in 0 .. Len(runs) /\ c.outcome = "none"
      /\ UpSound(c, rc, parts) /\ DownSound(c, rc, parts) /\ OwnerSound(u, c, rc)
      /\ AloneSound(c, runs)
  BY <1>1, StepIs
<1>3. ps' = [ps EXCEPT ![u] = d]
  BY <1>1 DEF Done
<1> HIDE DEF c, d
<1>4. /\ d.kind = c.kind /\ d.calm = c.calm /\ d.dying = c.dying /\ d.spec = c.spec
      /\ d.warned = c.warned /\ Pending(d) = Pending(c) \ {"wait_ready"} /\ Formed(d)
      /\ d.run = c.run
  BY <1>2 DEF Past, Keeps
<1>5. UpSound(d, rc, parts)
  <2>1. "wait_ready" \notin AllParts
    BY LauncherAssumption DEF AllParts, AppliedParts
  <2> QED
    BY <1>1, <1>2, <1>4, <2>1 DEF UpSound
<1>6. DownSound(d, rc, parts)
  <2>1. \A x \in AllParts : DeleteOf(x) # "wait_ready"
    BY LauncherAssumption DEF AllParts, AppliedParts, DeleteOf
  <2>2. parts \subseteq AllParts
    BY DEF Sound, WorldTyped
  <2> QED
    BY <1>2, <2>1, <2>2, DownKeeps
<1>7. OwnerSound(u, d, rc)
  BY <1>2, OwnerKeeps
<1>8. AloneSound(d, runs)
  <2>1. "wait_ready" \notin StopCalls
    BY DEF StopCalls
  <2> QED
    BY <1>2, <2>1, FewerSame, AloneKeeps
<1>9. CommandSound(u, d, rc, parts, runs)
  BY <1>2, <1>4, <1>5, <1>6, <1>7, <1>8 DEF CommandSound
<1> QED
  BY <1>1, <1>3, <1>9, Quiet

\* Command f is command c but for what it has noted of the runs and the cluster.
Noted(c, f) ==
    /\ f \in Commands
    /\ f.kind = c.kind /\ f.prog = c.prog /\ f.outcome = c.outcome /\ f.spec = c.spec /\ f.id = c.id
    /\ f.via = c.via /\ f.replace = c.replace /\ f.recreate = c.recreate /\ f.wait = c.wait
    /\ f.calm = c.calm /\ f.warned = c.warned

\* A call after which a command notes what it has read: its calls and the promises about the
\* cluster and its parts are those of the command without the note.
LEMMA NotedIs ==
    ASSUME NEW u, NEW c, NEW h, NEW e, e = Advance(c), Past(c, h, e), NEW f, Formed(c), Noted(c, f),
           NEW cl, NEW present,
           Pending(e) \cap (StopCalls \cup {"launch", "submit"}) # {} => f.run = 0
    PROVE  LET d == Advance(f)
           IN  /\ Formed(d) /\ Keeps(f, d) /\ Pending(d) = Pending(e)
               /\ d.kind = c.kind /\ d.replace = c.replace /\ d.calm = c.calm /\ d.via = c.via
               /\ UpSound(e, cl, present) /\ f.dying = c.dying => UpSound(d, cl, present)
               /\ DownSound(e, cl, present) => DownSound(d, cl, present)
               /\ OwnerSound(u, e, cl) => OwnerSound(u, d, cl)
<1> DEFINE d == Advance(f)
<1>1. c \in Commands /\ f \in Commands /\ Formed(e) /\ Keeps(c, e)
  BY DEF Formed, Noted, Past
<1>2. e.prog = Tail(c.prog) /\ e.prog \in Seq(Steps)
      /\ e.outcome = (IF Len(c.prog) = 1 THEN "ok" ELSE "none")
  BY <1>1, AdvanceKeeps DEF Formed, InOrder
<1>3. /\ Keeps(f, d) /\ d.prog = Tail(f.prog) /\ d.outcome = (IF Len(f.prog) = 1 THEN "ok" ELSE "none")
      /\ Tail(f.prog) \in Seq(Steps) => d \in Commands
  BY <1>1, AdvanceKeeps
<1>4. f.prog = c.prog
  BY DEF Noted
<1>5. d \in Commands /\ d.prog = e.prog /\ d.outcome = e.outcome
  BY <1>2, <1>3, <1>4
<1>6. /\ d.kind = c.kind /\ d.spec = c.spec /\ d.via = c.via /\ d.replace = c.replace
      /\ d.calm = c.calm /\ d.warned = c.warned /\ d.wait = c.wait /\ d.run = f.run
      /\ d.dying = f.dying /\ d.id = c.id
  BY <1>3 DEF Keeps, Noted
<1>7. /\ e.kind = c.kind /\ e.spec = c.spec /\ e.via = c.via /\ e.replace = c.replace
      /\ e.calm = c.calm /\ e.warned = c.warned /\ e.wait = c.wait /\ e.dying = c.dying
      /\ e.id = c.id
  BY <1>1 DEF Keeps
<1> HIDE DEF d
<1>8. Pending(d) = Pending(e)
  BY <1>5 DEF Pending
<1>9. Formed(d)
  <2>1. Paired(d)
    BY <1>1, <1>6, <1>7, <1>8 DEF Formed, Paired
  <2> QED
    BY <1>1, <1>5, <1>6, <1>7, <1>8, <2>1 DEF Formed
<1>10. UpSound(e, cl, present) /\ f.dying = c.dying => UpSound(d, cl, present)
  BY <1>5, <1>6, <1>7, <1>8 DEF UpSound
<1>11. DownSound(e, cl, present) => DownSound(d, cl, present)
  BY <1>5, <1>6, <1>7, <1>8 DEF DownSound
<1>12. OwnerSound(u, e, cl) => OwnerSound(u, d, cl)
  BY <1>5, <1>6, <1>7, <1>8 DEF OwnerSound
<1> QED
  BY <1>3, <1>6, <1>8, <1>9, <1>10, <1>11, <1>12 DEF d

\* A cluster that is gone is nobody's, and one that is deleted was to be created again.
LEMMA WaitGoneSound == ASSUME Sound, NEW u \in Users, WaitGone(u) PROVE Sound'
<1> DEFINE c == ps[u]
           f == [ps[u] EXCEPT !.dying = FALSE]
           e == Advance(ps[u])
           d == Advance(f)
<1>1. /\ At(u, "wait_gone") /\ rc = NoCluster /\ Done(u, f)
      /\ UNCHANGED <<rc, rj, parts, runs, dir>>
  BY DEF WaitGone, HasCluster, kube, head
<1>2. /\ Past(c, "wait_gone", e) /\ Formed(c) /\ c.run \in 0 .. Len(runs) /\ c.outcome = "none"
      /\ "wait_gone" \in Pending(c) /\ c \in Commands
      /\ UpSound(c, rc, parts) /\ DownSound(c, rc, parts) /\ OwnerSound(u, c, rc)
      /\ AloneSound(c, runs)
  BY <1>1, StepIs
<1>3. /\ Noted(c, f) /\ f.run = c.run /\ f.dying = FALSE /\ f.slow = c.slow /\ f.escaped = c.escaped
      /\ f.todo = c.todo
  BY <1>2 DEF Noted, Commands
<1>4. ps' = [ps EXCEPT ![u] = d]
  BY <1>1 DEF Done
<1>5. e = Advance(c)
  OBVIOUS
<1> HIDE DEF c, f, e
<1>6. /\ Formed(e) /\ Pending(e) = Pending(c) \ {"wait_gone"} /\ e.run = c.run /\ e.kind = c.kind
      /\ e.calm = c.calm /\ e.wait = c.wait /\ e.replace = c.replace /\ e.via = c.via
      /\ e.slow = c.slow /\ e.escaped = c.escaped /\ e.todo = c.todo /\ e.outcome # "error"
  BY <1>2 DEF Past, Keeps
<1>7. Pending(e) \cap (StopCalls \cup {"launch", "submit"}) # {} => f.run = 0
  BY <1>3, <1>6 DEF Formed
<1>8. /\ Formed(d) /\ Keeps(f, d) /\ Pending(d) = Pending(e)
      /\ d.kind = c.kind /\ d.replace = c.replace /\ d.calm = c.calm /\ d.via = c.via
      /\ DownSound(e, rc, parts) => DownSound(d, rc, parts)
      /\ OwnerSound(u, e, rc) => OwnerSound(u, d, rc)
  <2>1. Past(c, "wait_gone", e) /\ Formed(c) /\ Noted(c, f)
    BY <1>2, <1>3
  <2> QED
    BY <1>5, <1>7, <2>1, NotedIs
<1>9. d.run = c.run /\ d.todo = c.todo /\ d.slow = c.slow /\ d.escaped = c.escaped
  BY <1>3, <1>8 DEF Keeps
<1> HIDE DEF d
<1>10. UpSound(d, rc, parts)
  <2>1. c.kind \in Raises => "apply_cluster" \in Pending(c) /\ "get_cluster" \notin Pending(c)
    BY <1>2 DEF Formed, Paired, ClusterCalls
  <2>2. "wait_gone" \notin AllParts
    BY LauncherAssumption DEF AllParts, AppliedParts
  <2> QED
    BY <1>1, <1>2, <1>6, <1>8, <2>1, <2>2 DEF UpSound
<1>11. DownSound(e, rc, parts)
  <2>1. \A x \in AllParts : DeleteOf(x) # "wait_gone"
    BY LauncherAssumption DEF AllParts, AppliedParts, DeleteOf
  <2>2. parts \subseteq AllParts
    BY DEF Sound, WorldTyped
  <2> QED
    BY <1>1, <1>2, <1>6, <2>1, <2>2 DEF DownSound
<1>12. OwnerSound(u, e, rc)
  BY <1>2, OwnerKeeps
<1>13. AloneSound(d, runs)
  <2>1. "wait_gone" \notin StopCalls
    BY DEF StopCalls
  <2>2. AloneSound(e, runs)
    BY <1>2, <2>1, FewerSame, AloneKeeps
  <2> QED
    BY <1>6, <1>8, <1>9, <2>2 DEF AloneSound
<1>14. CommandSound(u, d, rc, parts, runs)
  BY <1>2, <1>8, <1>9, <1>10, <1>11, <1>12, <1>13 DEF CommandSound
<1> QED
  BY <1>1, <1>4, <1>14, Quiet

\* The cluster that is read is nobody else's, and is left, created or replaced.
LEMMA GetClusterSound == ASSUME Sound, NEW u \in Users, GetCluster(u) PROVE Sound'
<1> DEFINE c == ps[u]
           d == Advance(Found(u))
           M == {"dra"} \cup EnsureCalls(u) \cup {"cluster_pdb", "wait_ready"}
           R == Pending(c) \ {"get_cluster"}
<1>1. /\ At(u, "get_cluster") /\ UNCHANGED <<rc, rj, parts, runs, dir>>
      /\ HasCluster /\ rc.owner \notin {NoOwner, u} => Failed(u)
      /\ ~ (HasCluster /\ rc.owner \notin {NoOwner, u}) => Done(u, Found(u))
  BY DEF GetCluster, kube, head
<1>2. CASE HasCluster /\ rc.owner \notin {NoOwner, u}
  BY <1>1, <1>2, Stops
<1>3. CASE ~ (HasCluster /\ rc.owner \notin {NoOwner, u})
  <2>1. /\ Formed(c) /\ c.run \in 0 .. Len(runs) /\ c.outcome = "none" /\ c \in Commands
        /\ UpSound(c, rc, parts) /\ AloneSound(c, runs) /\ WorldTyped
    BY <1>1, StepIs
  <2>2. rc \in Clusters
    BY <2>1 DEF WorldTyped
  <2>3. /\ Formed(d) /\ c.kind \in Raises /\ d.prog # <<>> /\ Pending(d) = M \cup R
        /\ Pending(c) \cap ClusterCalls = {"get_cluster"} /\ d.dying = rc.deleting
        /\ d.warned = (HasCluster /\ rc.spec # c.spec /\ ~c.recreate)
        /\ Keeps([c EXCEPT !.warned = d.warned, !.dying = d.dying], d)
    BY <1>1, <2>1, <2>2, FoundIs
  <2> HIDE DEF d
  <2>4. /\ d.kind = c.kind /\ d.spec = c.spec /\ d.via = c.via /\ d.replace = c.replace
        /\ d.todo = c.todo /\ d.run = c.run /\ d.calm = c.calm /\ d.slow = c.slow
        /\ d.escaped = c.escaped
    BY <2>1, <2>3 DEF Keeps, Commands
  <2> HIDE DEF c
  <2>5. /\ R \cap ClusterCalls = {} /\ R \cap StopCalls = Pending(d) \cap StopCalls
        /\ Pending(c) \cap StopCalls = Pending(d) \cap StopCalls
    BY <2>3 DEF StopCalls, ClusterCalls, EnsureCalls
  <2>6. UpSound(d, rc, parts)
    <3>1. d.calm => \A x \in AllParts : x \in parts \cup Pending(d)
      <4>1. c.calm => \A x \in AllParts : x \in parts \cup Pending(c) \/ x \in {"dra", "cluster_pdb"}
        BY <2>1, <2>3 DEF UpSound
      <4>2. "get_cluster" \notin AllParts
        BY LauncherAssumption DEF AllParts, AppliedParts
      <4> QED
        BY <2>3, <2>4, <4>1, <4>2
    <3>2. "wait_ready" \in Pending(d)
      BY <2>3
    <3>3. CASE ~HasCluster
      BY <2>3, <3>1, <3>2, <3>3 DEF UpSound, EnsureCalls, HasCluster
    <3>4. CASE HasCluster /\ rc.spec # c.spec /\ c.recreate
      <4>1. "apply_cluster" \in Pending(d) /\ "wait_gone" \in Pending(d)
        BY <2>3, <3>4 DEF EnsureCalls, c
      <4> QED
        BY <3>1, <4>1 DEF UpSound
    <3>5. CASE HasCluster /\ ~ (rc.spec # c.spec /\ c.recreate)
      <4>1. "apply_cluster" \notin Pending(d)
        BY <2>3, <2>5, <3>5 DEF EnsureCalls, ClusterCalls, c
      <4>2. rc.spec = c.spec \/ d.warned
        BY <2>3, <3>5
      <4>3. ~d.dying => ~rc.deleting
        BY <2>3
      <4> QED
        BY <2>4, <3>1, <3>2, <4>1, <4>2, <4>3 DEF UpSound
    <3> QED
      BY <3>3, <3>4, <3>5
  <2>7. DownSound(d, rc, parts)
    BY <2>3, <2>4 DEF DownSound, Raises
  <2>8. OwnerSound(u, d, rc)
    BY <1>3 DEF OwnerSound, HasCluster, NoCluster
  <2>9. AloneSound(d, runs)
    <3>1. \A x \in StopCalls : x \in Pending(d) <=> x \in Pending(c)
      BY <2>5
    <3>2. "scan" \in StopCalls /\ "wait_exit" \in StopCalls /\ "list_jobs" \in StopCalls
          /\ "wait_stopped" \in StopCalls
      BY DEF StopCalls
    <3> QED
      BY <2>1, <2>4, <3>1, <3>2 DEF AloneSound
  <2>10. CommandSound(u, d, rc, parts, runs)
    BY <2>1, <2>3, <2>4, <2>6, <2>7, <2>8, <2>9 DEF CommandSound
  <2>11. ps' = [ps EXCEPT ![u] = d]
    BY <1>1, <1>3 DEF Done, d
  <2> QED
    BY <1>1, <2>10, <2>11, Quiet
<1> QED
  BY <1>2, <1>3

\* What a command creates or patches is of its spec, and its own.
LEMMA ApplyClusterSound == ASSUME Sound, NEW u \in Users, ApplyCluster(u) PROVE Sound'
<1> DEFINE c == ps[u]
           d == Advance(ps[u])
<1>1. /\ At(u, "apply_cluster") /\ Wrote(u, ps[u]) /\ UNCHANGED <<rj, parts, runs, dir>>
      /\ rc' = IF HasCluster
               THEN [rc EXCEPT !.spec = ps[u].spec, !.owner = IF u \in Labelled THEN u ELSE @]
               ELSE Cluster(u, ps[u].spec)
  BY DEF ApplyCluster, head
<1>2. /\ Past(c, "apply_cluster", d) /\ Formed(c) /\ c.run \in 0 .. Len(runs) /\ c.outcome = "none"
      /\ "apply_cluster" \in Pending(c) /\ "apply_cluster" \in CallsOf(c.kind) /\ c.prog # <<>>
      /\ UpSound(c, rc, parts) /\ DownSound(c, rc, parts) /\ OwnerSound(u, c, rc)
      /\ AloneSound(c, runs) /\ WorldTyped /\ Len(runs) \in Nat
  BY <1>1, StepIs
<1>3. rc \in Clusters
  BY <1>2 DEF WorldTyped
<1>4. rc' = IF HasCluster
            THEN [rc EXCEPT !.spec = c.spec, !.owner = IF u \in Labelled THEN u ELSE @]
            ELSE Cluster(u, c.spec)
  BY <1>1
<1> HIDE DEF c, d
<1>5. /\ d.kind = c.kind /\ d.calm = c.calm /\ d.dying = c.dying /\ d.spec = c.spec
      /\ d.warned = c.warned /\ Pending(d) = Pending(c) \ {"apply_cluster"} /\ Formed(d)
      /\ d.run = c.run
      /\ \A x \in Pending(d) : Place(c.kind, "apply_cluster") < Place(c.kind, x)
  BY <1>2 DEF Past, Keeps
<1>6. c.kind \in Raises /\ c.spec \in Specs
  <2>1. c.kind \in Raises
    BY <1>2, LauncherAssumption DEF CallsOf, Raises, SandboxCalls, StopCalls, LaunchCalls,
       DeleteCalls
  <2> QED
    BY <1>2, <2>1 DEF Formed
<1>7. "wait_gone" \notin Pending(c) /\ "get_cluster" \notin Pending(c) /\ "wait_ready" \in Pending(d)
  <2>1. Place(c.kind, "wait_gone") = 11 /\ Place(c.kind, "apply_cluster") = 12
    BY PlacesAre
  <2>2. "wait_gone" \notin Pending(d)
    BY <1>5, <2>1
  <2> QED
    BY <1>2, <1>5, <2>2 DEF Formed, Paired, ClusterCalls
<1>8. rc' \in Clusters /\ rc'.owner \in {rc.owner, u, NoOwner}
  <2>1. CASE HasCluster
    BY <1>3, <1>4, <1>6, <2>1 DEF Clusters
  <2>2. CASE ~HasCluster
    BY <1>4, <1>6, <2>2 DEF Cluster, OwnerLabel, Clusters
  <2> QED
    BY <2>1, <2>2
<1>9. ~HasCluster => rc' = Cluster(u, c.spec) /\ rc'.spec = c.spec /\ ~rc'.deleting
  BY <1>4 DEF Cluster
<1>10. UpSound(d, rc', parts)
  <2>1. "apply_cluster" \notin AllParts
    BY LauncherAssumption DEF AllParts, AppliedParts
  <2>2. c.calm /\ ~c.dying => ~HasCluster
    BY <1>2, <1>6, <1>7 DEF UpSound, HasCluster
  <2> QED
    BY <1>2, <1>5, <1>6, <1>7, <1>9, <2>1, <2>2 DEF UpSound
<1>11. DownSound(d, rc', parts)
  BY <1>5, <1>6 DEF DownSound, Raises
<1>12. OwnerSound(u, d, rc')
  BY <1>2, <1>8, OwnerKeeps
<1>13. AloneSound(d, runs)
  <2>1. "apply_cluster" \notin StopCalls
    BY DEF StopCalls
  <2> QED
    BY <1>2, <2>1, FewerSame, AloneKeeps
<1>14. CommandSound(u, d, rc', parts', runs')
  BY <1>1, <1>2, <1>5, <1>10, <1>11, <1>12, <1>13 DEF CommandSound
<1>15. WorldTyped' /\ Len(runs) <= Len(runs')
  BY <1>1, <1>2, <1>8 DEF WorldTyped
<1> QED
  BY <1>1, <1>14, <1>15, Overtakes DEF c, d

\* `cluster up' deletes what it waits for and creates again.
LEMMA DeleteClusterSound == ASSUME Sound, NEW u \in Users, DeleteCluster(u) PROVE Sound'
<1> DEFINE c == ps[u]
           d == Advance(ps[u])
<1>1. /\ At(u, "delete_cluster") /\ Wrote(u, ps[u]) /\ UNCHANGED <<rj, parts, runs, dir>>
      /\ rc' = IF HasCluster THEN [rc EXCEPT !.deleting = TRUE] ELSE rc
  BY DEF DeleteCluster, head
<1>2. /\ Past(c, "delete_cluster", d) /\ Formed(c) /\ c.run \in 0 .. Len(runs) /\ c.outcome = "none"
      /\ "delete_cluster" \in Pending(c)
      /\ UpSound(c, rc, parts) /\ DownSound(c, rc, parts) /\ OwnerSound(u, c, rc)
      /\ AloneSound(c, runs) /\ WorldTyped /\ Len(runs) \in Nat
  BY <1>1, StepIs
<1>3. rc' \in Clusters /\ rc'.owner = rc.owner /\ (rc = NoCluster => rc' = NoCluster)
  BY <1>1, <1>2 DEF WorldTyped, Clusters, HasCluster
<1> HIDE DEF c, d
<1>4. /\ d.kind = c.kind /\ d.calm = c.calm /\ d.dying = c.dying /\ d.spec = c.spec
      /\ d.warned = c.warned /\ Pending(d) = Pending(c) \ {"delete_cluster"} /\ Formed(d)
      /\ d.run = c.run
  BY <1>2 DEF Past, Keeps
<1>5. UpSound(d, rc', parts)
  <2>1. "delete_cluster" \notin AllParts
    BY LauncherAssumption DEF AllParts, AppliedParts
  <2>2. c.kind \in Raises => {"wait_gone", "apply_cluster"} \subseteq Pending(d)
                                /\ "get_cluster" \notin Pending(c)
    BY <1>2, <1>4 DEF Formed, Paired, ClusterCalls
  <2> QED
    BY <1>2, <1>4, <2>1, <2>2 DEF UpSound
<1>6. DownSound(d, rc', parts)
  <2>1. \A x \in AllParts : DeleteOf(x) # "delete_cluster"
    BY LauncherAssumption DEF AllParts, AppliedParts, DeleteOf
  <2>2. parts \subseteq AllParts
    BY <1>2 DEF WorldTyped
  <2> QED
    BY <1>2, <1>3, <2>1, <2>2, DownKeeps
<1>7. OwnerSound(u, d, rc')
  BY <1>2, <1>3, OwnerKeeps
<1>8. AloneSound(d, runs)
  <2>1. "delete_cluster" \notin StopCalls
    BY DEF StopCalls
  <2> QED
    BY <1>2, <2>1, FewerSame, AloneKeeps
<1>9. CommandSound(u, d, rc', parts', runs')
  BY <1>1, <1>2, <1>4, <1>5, <1>6, <1>7, <1>8 DEF CommandSound
<1>10. WorldTyped' /\ Len(runs) <= Len(runs')
  BY <1>1, <1>2, <1>3 DEF WorldTyped
<1> QED
  BY <1>1, <1>9, <1>10, Overtakes DEF c, d

-------------------------------------------------------------------------------
(* The steps that change runs.                                               *)

\* Runs that change their state are the same runs.
LEMMA Altered ==
    ASSUME NEW rs \in Seq(Run), NEW rs2, rs2 = [r \in DOMAIN rs |-> rs2[r]],
           \A r \in DOMAIN rs : rs2[r] \in Run
    PROVE  rs2 \in Seq(Run) /\ Len(rs2) = Len(rs) /\ DOMAIN rs2 = DOMAIN rs
<1>1. Len(rs) \in Nat /\ DOMAIN rs = 1 .. Len(rs)
  BY LenProperties
<1>2. rs2 \in [1 .. Len(rs) -> Run]
  BY <1>1
<1>3. rs2 \in Seq(Run)
  BY <1>1, <1>2, SeqDef
<1>4. Len(rs2) = Len(rs)
  BY <1>1, <1>2, <1>3, LenProperties
<1> QED
  BY <1>1, <1>2, <1>3, <1>4

\* Runs that are told to stop were live.
LEMMA StoppingIs ==
    ASSUME HeadTyped(runs, dir), NEW S, Stopping(S), dir' = dir,
           \A r \in S : r \in DOMAIN runs => runs[r].state \in {"pending", "running"}
    PROVE  HeadTyped(runs, dir)' /\ Len(runs') = Len(runs) /\ Fewer(runs, runs')
<1>1. runs \in Seq(Run)
  BY DEF HeadTyped
<1>2. /\ runs' = [r \in DOMAIN runs |-> runs'[r]]
      /\ \A r \in DOMAIN runs :
            runs'[r] = IF r \in S THEN [runs[r] EXCEPT !.state = "stopping"] ELSE runs[r]
  BY DEF Stopping
<1>3. \A r \in DOMAIN runs : runs[r] \in Run
  BY <1>1, ElementOfSeq, LenProperties
<1>4. \A r \in DOMAIN runs :
          runs'[r] \in Run /\ runs'[r].id = runs[r].id /\ runs'[r].via = runs[r].via
          /\ (LiveIn(runs', r) => LiveIn(runs, r))
  BY <1>2, <1>3 DEF Run, States, LiveIn
<1>5. runs' \in Seq(Run) /\ Len(runs') = Len(runs) /\ DOMAIN runs' = DOMAIN runs
  BY <1>1, <1>2, <1>4, Altered
<1> QED
  BY <1>4, <1>5 DEF HeadTyped, Fewer

\* A call about runs leaves the cluster and the parts as they were.
LEMMA RunCallKeeps ==
    ASSUME NEW u, NEW c, NEW h, NEW e, Past(c, h, e), h \in StopCalls \cup {"launch", "submit", "stop_run"},
           NEW cl, NEW present, present \subseteq AllParts, NEW rs,
           CommandSound(u, c, cl, present, rs)
    PROVE  UpSound(e, cl, present) /\ DownSound(e, cl, present) /\ OwnerSound(u, e, cl)
<1>1. /\ h # "get_cluster" /\ h # "apply_cluster" /\ h # "wait_gone" /\ h # "wait_ready"
      /\ h \notin AllParts /\ \A x \in AllParts : DeleteOf(x) # h
  BY LauncherAssumption DEF AllParts, AppliedParts, StopCalls, DeleteOf
<1>2. Formed(c) /\ UpSound(c, cl, present) /\ DownSound(c, cl, present) /\ OwnerSound(u, c, cl)
  BY DEF CommandSound
<1>3. UpSound(e, cl, present)
  BY <1>1, <1>2, UpKeeps
<1>4. DownSound(e, cl, present)
  BY <1>1, <1>2, DownKeeps
<1>5. OwnerSound(u, e, cl)
  BY <1>1, <1>2, OwnerKeeps
<1> QED
  BY <1>3, <1>4, <1>5

\* stop_all_running waits for the runs it finds, or knows of one that escaped it.
LEMMA ScanSound == ASSUME Sound, NEW u \in Users, Scan(u) PROVE Sound'
<1>0. PICK S \in SUBSET DOMAIN runs, found \in SUBSET DOMAIN runs :
          /\ At(u, "scan") /\ StopsFor(u, "exec", S, found) /\ UNCHANGED <<rc, rj, parts, dir>>
          /\ \A r \in S : runs[r].state \in {"pending", "running"}
  BY DEF Scan, kube
<1> DEFINE c == ps[u]
           esc == \E r \in DOMAIN runs \ found : runs[r].via = "exec" /\ Live(r)
           f == [ps[u] EXCEPT !.todo = found, !.escaped = @ \/ esc]
           e == Advance(ps[u])
           d == Advance(f)
<1>1. /\ At(u, "scan") /\ Stopping(S) /\ Wrote(u, f) /\ UNCHANGED <<rc, rj, parts, dir>>
  BY <1>0 DEF StopsFor
<1>2. /\ Past(c, "scan", e) /\ Formed(c) /\ c.run \in 0 .. Len(runs) /\ c \in Commands
      /\ "scan" \in Pending(c) /\ CommandSound(u, c, rc, parts, runs)
      /\ AloneSound(c, runs) /\ WorldTyped /\ Len(runs) \in Nat
  BY <1>1, StepIs
<1>3. HeadTyped(runs, dir)' /\ Len(runs') = Len(runs) /\ Fewer(runs, runs')
  BY <1>0, <1>1, <1>2, StoppingIs DEF WorldTyped
<1>4. found \in SUBSET Nat /\ esc \in BOOLEAN
  <2>1. DOMAIN runs = 1 .. Len(runs)
    BY <1>2, LenProperties DEF WorldTyped, HeadTyped
  <2> QED
    BY <1>2, <2>1
<1>5. \A r \in DOMAIN runs :
          runs[r].via = "exec" /\ LiveIn(runs, r) /\ ~esc => r \in found
  BY DEF LiveIn, Live
<1> HIDE DEF esc
<1>6. /\ Noted(c, f) /\ f.run = c.run /\ f.dying = c.dying /\ f.slow = c.slow
      /\ f.escaped = (c.escaped \/ esc) /\ f.todo = found
  BY <1>2, <1>4, ZenonT(60) DEF Noted, Commands
<1>7. e = Advance(c)
  OBVIOUS
<1> HIDE DEF c, f, e
<1>8. /\ Formed(e) /\ Pending(e) = Pending(c) \ {"scan"}
      /\ \A x \in Pending(e) : Place(c.kind, "scan") < Place(c.kind, x)
  BY <1>2 DEF Past, Keeps
<1>9. c.run = 0 /\ "wait_exit" \in Pending(c) /\ "list_jobs" \in Pending(c)
  <2>1. "scan" \in StopCalls
    BY DEF StopCalls
  <2> QED
    BY <1>2, <2>1 DEF Formed, Paired
<1>10. /\ Formed(d) /\ Keeps(f, d) /\ Pending(d) = Pending(e)
       /\ d.replace = c.replace /\ d.calm = c.calm /\ d.via = c.via
       /\ UpSound(e, rc, parts) => UpSound(d, rc, parts)
       /\ DownSound(e, rc, parts) => DownSound(d, rc, parts)
       /\ OwnerSound(u, e, rc) => OwnerSound(u, d, rc)
  <2>1. Past(c, "scan", e) /\ Formed(c) /\ Noted(c, f) /\ f.dying = c.dying
        /\ (Pending(e) \cap (StopCalls \cup {"launch", "submit"}) # {} => f.run = 0)
    BY <1>2, <1>6, <1>9
  <2> QED
    BY <1>7, <2>1, NotedIs
<1>11. d.run = c.run /\ d.todo = found /\ d.slow = c.slow /\ d.escaped = (c.escaped \/ esc)
  BY <1>6, <1>10 DEF Keeps
<1> HIDE DEF d
<1>12. UpSound(e, rc, parts) /\ DownSound(e, rc, parts) /\ OwnerSound(u, e, rc)
  <2>1. "scan" \in StopCalls \cup {"launch", "submit", "stop_run"} /\ parts \subseteq AllParts
    BY <1>2 DEF WorldTyped, StopCalls
  <2> QED
    BY <1>2, <2>1, RunCallKeeps
<1>13. AloneSound(d, runs')
  <2>1. "wait_exit" \in Pending(d) /\ "list_jobs" \in Pending(d)
    BY <1>8, <1>9, <1>10
  <2>2. \A r \in DOMAIN runs' : runs'[r].via = "exec" /\ LiveIn(runs', r) /\ ~esc => r \in found
    BY <1>3, <1>5 DEF Fewer
  <2> QED
    BY <1>11, <2>1, <2>2 DEF AloneSound
<1>14. CommandSound(u, d, rc', parts', runs')
  BY <1>1, <1>2, <1>3, <1>10, <1>11, <1>12, <1>13 DEF CommandSound
<1>15. WorldTyped' /\ Len(runs) <= Len(runs')
  BY <1>1, <1>2, <1>3 DEF WorldTyped
<1> QED
  BY <1>1, <1>14, <1>15, Overtakes DEF d

\* _stop_running_jobs likewise, when the exec runs have been waited for.
LEMMA ListJobsSound == ASSUME Sound, NEW u \in Users, ListJobs(u) PROVE Sound'
<1>0. PICK S \in SUBSET DOMAIN runs, found \in SUBSET DOMAIN runs :
          /\ At(u, "list_jobs") /\ StopsFor(u, "ray", S, found) /\ UNCHANGED <<rc, rj, parts, dir>>
          /\ \A r \in S : runs[r].state \in {"pending", "running"}
  BY DEF ListJobs, kube
<1> DEFINE c == ps[u]
           esc == \E r \in DOMAIN runs \ found : runs[r].via = "ray" /\ Live(r)
           f == [ps[u] EXCEPT !.todo = found, !.escaped = @ \/ esc]
           e == Advance(ps[u])
           d == Advance(f)
<1>1. /\ At(u, "list_jobs") /\ Stopping(S) /\ Wrote(u, f) /\ UNCHANGED <<rc, rj, parts, dir>>
  BY <1>0 DEF StopsFor
<1>2. /\ Past(c, "list_jobs", e) /\ Formed(c) /\ c.run \in 0 .. Len(runs) /\ c \in Commands
      /\ "list_jobs" \in Pending(c) /\ CommandSound(u, c, rc, parts, runs)
      /\ AloneSound(c, runs) /\ WorldTyped /\ Len(runs) \in Nat
  BY <1>1, StepIs
<1>3. HeadTyped(runs, dir)' /\ Len(runs') = Len(runs) /\ Fewer(runs, runs')
  BY <1>0, <1>1, <1>2, StoppingIs DEF WorldTyped
<1>4. found \in SUBSET Nat /\ esc \in BOOLEAN
  <2>1. DOMAIN runs = 1 .. Len(runs)
    BY <1>2, LenProperties DEF WorldTyped, HeadTyped
  <2> QED
    BY <1>2, <2>1
<1>5. \A r \in DOMAIN runs :
          runs[r].via = "ray" /\ LiveIn(runs, r) /\ ~esc => r \in found
  BY DEF LiveIn, Live
<1> HIDE DEF esc
<1>6. /\ Noted(c, f) /\ f.run = c.run /\ f.dying = c.dying /\ f.slow = c.slow
      /\ f.escaped = (c.escaped \/ esc) /\ f.todo = found
  BY <1>2, <1>4, ZenonT(60) DEF Noted, Commands
<1>7. e = Advance(c)
  OBVIOUS
<1> HIDE DEF c, f, e
<1>8. /\ Formed(e) /\ Pending(e) = Pending(c) \ {"list_jobs"}
      /\ \A x \in Pending(e) : Place(c.kind, "list_jobs") < Place(c.kind, x)
  BY <1>2 DEF Past, Keeps
<1>9. c.run = 0 /\ "wait_stopped" \in Pending(c) /\ "scan" \notin Pending(c) /\ "wait_exit" \notin Pending(c)
  <2>1. "list_jobs" \in StopCalls
    BY DEF StopCalls
  <2>2. /\ Place(c.kind, "scan") = 21 /\ Place(c.kind, "wait_exit") = 22
        /\ Place(c.kind, "list_jobs") = 23
    BY PlacesAre
  <2>3. "scan" \notin Pending(e) /\ "wait_exit" \notin Pending(e)
    BY <1>8, <2>2
  <2> QED
    BY <1>2, <1>8, <2>1, <2>3 DEF Formed, Paired
<1>10. /\ Formed(d) /\ Keeps(f, d) /\ Pending(d) = Pending(e)
       /\ d.replace = c.replace /\ d.calm = c.calm /\ d.via = c.via
       /\ UpSound(e, rc, parts) => UpSound(d, rc, parts)
       /\ DownSound(e, rc, parts) => DownSound(d, rc, parts)
       /\ OwnerSound(u, e, rc) => OwnerSound(u, d, rc)
  <2>1. Past(c, "list_jobs", e) /\ Formed(c) /\ Noted(c, f) /\ f.dying = c.dying
        /\ (Pending(e) \cap (StopCalls \cup {"launch", "submit"}) # {} => f.run = 0)
    BY <1>2, <1>6, <1>9
  <2> QED
    BY <1>7, <2>1, NotedIs
<1>11. d.run = c.run /\ d.todo = found /\ d.slow = c.slow /\ d.escaped = (c.escaped \/ esc)
  BY <1>6, <1>10 DEF Keeps
<1> HIDE DEF d
<1>12. UpSound(e, rc, parts) /\ DownSound(e, rc, parts) /\ OwnerSound(u, e, rc)
  <2>1. "list_jobs" \in StopCalls \cup {"launch", "submit", "stop_run"} /\ parts \subseteq AllParts
    BY <1>2 DEF WorldTyped, StopCalls
  <2> QED
    BY <1>2, <2>1, RunCallKeeps
<1>13. AloneSound(d, runs')
  <2>1. /\ "wait_stopped" \in Pending(d) /\ "scan" \notin Pending(d) /\ "wait_exit" \notin Pending(d)
        /\ "list_jobs" \notin Pending(d)
    BY <1>8, <1>9, <1>10
  <2>2. \A r \in DOMAIN runs' : runs'[r].via = "ray" /\ LiveIn(runs', r) /\ ~esc => r \in found
    BY <1>3, <1>5 DEF Fewer
  <2>3. c.replace /\ c.calm /\ ~c.slow /\ ~c.escaped /\ c.via = "exec" =>
            \A r \in DOMAIN runs' : runs'[r].via = "exec" /\ LiveIn(runs', r) => r = c.run
    BY <1>2, <1>3, <1>9 DEF AloneSound, Fewer
  <2> QED
    BY <1>10, <1>11, <2>1, <2>2, <2>3 DEF AloneSound
<1>14. CommandSound(u, d, rc', parts', runs')
  BY <1>1, <1>2, <1>3, <1>10, <1>11, <1>12, <1>13 DEF CommandSound
<1>15. WorldTyped' /\ Len(runs) <= Len(runs')
  BY <1>1, <1>2, <1>3 DEF WorldTyped
<1> QED
  BY <1>1, <1>14, <1>15, Overtakes DEF d

\* After a wait that was not cut short no run that was listed is live.
LEMMA WaitStoppedSound == ASSUME Sound, NEW u \in Users, WaitStopped(u) PROVE Sound'
<1> DEFINE c == ps[u]
           late == \E r \in ps[u].todo : Live(r)
           f == [ps[u] EXCEPT !.slow = @ \/ late]
           e == Advance(ps[u])
           d == Advance(f)
<1>1. PICK h \in {"wait_stopped", "wait_exit"} :
          At(u, h) /\ Done(u, f) /\ UNCHANGED <<rc, rj, parts, runs, dir>>
  BY DEF WaitStopped, kube, head
<1>2. /\ Past(c, h, e) /\ Formed(c) /\ c.run \in 0 .. Len(runs) /\ c \in Commands
      /\ h \in Pending(c) /\ CommandSound(u, c, rc, parts, runs)
      /\ AloneSound(c, runs) /\ WorldTyped
  BY <1>1, StepIs
<1>3. ps' = [ps EXCEPT ![u] = d]
  BY <1>1 DEF Done
<1>4. late \in BOOLEAN /\ (~late => \A r \in c.todo : ~LiveIn(runs, r))
  BY DEF LiveIn, Live
<1> HIDE DEF late
<1>5. /\ Noted(c, f) /\ f.run = c.run /\ f.dying = c.dying /\ f.slow = (c.slow \/ late)
      /\ f.escaped = c.escaped /\ f.todo = c.todo
  BY <1>2, <1>4 DEF Noted, Commands
<1>6. e = Advance(c)
  OBVIOUS
<1> HIDE DEF c, f, e
<1>7. /\ Formed(e) /\ Pending(e) = Pending(c) \ {h}
      /\ \A x \in Pending(e) : Place(c.kind, h) < Place(c.kind, x)
  BY <1>2 DEF Past, Keeps
<1>8. c.run = 0
  <2>1. h \in StopCalls
    BY <1>1 DEF StopCalls
  <2> QED
    BY <1>2, <2>1 DEF Formed
<1>9. /\ Formed(d) /\ Keeps(f, d) /\ Pending(d) = Pending(e)
      /\ d.replace = c.replace /\ d.calm = c.calm /\ d.via = c.via
      /\ UpSound(e, rc, parts) => UpSound(d, rc, parts)
      /\ DownSound(e, rc, parts) => DownSound(d, rc, parts)
      /\ OwnerSound(u, e, rc) => OwnerSound(u, d, rc)
  <2>1. Past(c, h, e) /\ Formed(c) /\ Noted(c, f) /\ f.dying = c.dying
        /\ (Pending(e) \cap (StopCalls \cup {"launch", "submit"}) # {} => f.run = 0)
    BY <1>2, <1>5, <1>8
  <2> QED
    BY <1>6, <2>1, NotedIs
<1>10. d.run = c.run /\ d.todo = c.todo /\ d.slow = (c.slow \/ late) /\ d.escaped = c.escaped
  BY <1>5, <1>9 DEF Keeps
<1> HIDE DEF d
<1>11. UpSound(e, rc, parts) /\ DownSound(e, rc, parts) /\ OwnerSound(u, e, rc)
  <2>1. h \in StopCalls \cup {"launch", "submit", "stop_run"} /\ parts \subseteq AllParts
    BY <1>1, <1>2 DEF WorldTyped, StopCalls
  <2> QED
    BY <1>2, <2>1, RunCallKeeps
<1>12. AloneSound(d, runs)
  <2>1. /\ Place(c.kind, "scan") = 21 /\ Place(c.kind, "wait_exit") = 22
        /\ Place(c.kind, "list_jobs") = 23 /\ Place(c.kind, "wait_stopped") = 24
    BY PlacesAre
  <2>2. CASE h = "wait_exit"
    <3>1. "scan" \notin Pending(c) /\ "wait_exit" \in Pending(c) /\ "list_jobs" \in Pending(d)
      BY <1>2, <1>7, <1>9, <2>1, <2>2 DEF Formed, Paired
    <3> QED
      BY <1>2, <1>4, <1>9, <1>10, <3>1 DEF AloneSound
  <2>3. CASE h = "wait_stopped"
    <3>1. /\ "scan" \notin Pending(c) /\ "wait_exit" \notin Pending(c) /\ "list_jobs" \notin Pending(c)
          /\ "wait_stopped" \in Pending(c)
      BY <1>2, <1>7, <2>1, <2>3
    <3>2. "wait_exit" \notin Pending(d)
      BY <1>7, <1>9, <3>1
    <3> QED
      BY <1>2, <1>4, <1>9, <1>10, <3>1, <3>2 DEF AloneSound
  <2> QED
    BY <1>1, <2>2, <2>3
<1>13. CommandSound(u, d, rc, parts, runs)
  BY <1>2, <1>9, <1>10, <1>11, <1>12 DEF CommandSound
<1> QED
  BY <1>1, <1>3, <1>13, Quiet

\* A run is launched when those it replaces have stopped.
Launched(u) ==
    /\ runs' = Append(runs, NewRun(u)) /\ Wrote(u, [ps[u] EXCEPT !.run = Len(runs) + 1])
    /\ UNCHANGED <<rc, rj, parts, dir>>

\* A launch: the run is the command's, and with --replace the only live one.
LEMMA LaunchedSound ==
    ASSUME Sound, NEW u \in Users, NEW h \in {"launch", "submit"}, At(u, h), Launched(u)
    PROVE  Sound'
<1> DEFINE c == ps[u]
           n == Len(runs) + 1
           f == [ps[u] EXCEPT !.run = n]
           e == Advance(ps[u])
           d == Advance(f)
<1>1. /\ Past(c, h, e) /\ Formed(c) /\ c.run \in 0 .. Len(runs) /\ c \in Commands
      /\ h \in Pending(c) /\ h \in CallsOf(c.kind) /\ CommandSound(u, c, rc, parts, runs)
      /\ AloneSound(c, runs) /\ WorldTyped /\ Len(runs) \in Nat /\ c.prog # <<>>
  BY StepIs
<1>2. c.kind \in Trains
  <2>1. h \notin SandboxCalls \cup ClusterCalls \cup DeleteCalls \cup {"no_rayjob", "no_cluster"}
            \cup {"dra", "apply_rayjob", "wait_rayjob", "delete_dra", "stop_run"}
    BY LauncherAssumption DEF SandboxCalls, ClusterCalls, DeleteCalls
  <2> QED
    BY <1>1, <2>1 DEF CallsOf, Trains, ClusterCalls
<1>3. NewRun(u) \in Run /\ NewRun(u).via = c.via
  <2>1. c.id \in Ids /\ c.via \in {"ray", "exec"}
    BY <1>1, <1>2 DEF Formed, Commands
  <2> QED
    BY <2>1 DEF NewRun, Run, States
<1>4. /\ runs \in Seq(Run) /\ DOMAIN runs = 1 .. Len(runs)
      /\ runs' \in Seq(Run) /\ Len(runs') = n /\ DOMAIN runs' = 1 .. n
      /\ runs'[n] = NewRun(u) /\ \A r \in 1 .. Len(runs) : runs'[r] = runs[r]
  BY <1>1, <1>3, AppendProperties, LenProperties DEF WorldTyped, HeadTyped, Launched
<1>5. HeadTyped(runs, dir)'
  <2>1. 0 .. Len(runs) \subseteq 0 .. n
    BY <1>1
  <2> QED
    BY <1>1, <1>4, <2>1 DEF HeadTyped, WorldTyped, Launched
<1>6. n \in Nat /\ n # 0 /\ Len(runs) <= n
  BY <1>1
<1>7. \A r \in 1 .. n : r = n \/ r \in 1 .. Len(runs)
  BY <1>1
<1> HIDE DEF n
<1>8. /\ Noted(c, f) /\ f.run = n /\ f.dying = c.dying /\ f.slow = c.slow
      /\ f.escaped = c.escaped /\ f.todo = c.todo
  BY <1>1, <1>6 DEF Noted, Commands
<1>9. e = Advance(c) /\ d = Advance([ps[u] EXCEPT !.run = Len(runs) + 1])
  BY DEF n
<1> HIDE DEF c, f, e
<1>10. /\ Formed(e) /\ Pending(e) = Pending(c) \ {h}
       /\ \A x \in Pending(e) : Place(c.kind, h) < Place(c.kind, x)
  BY <1>1 DEF Past, Keeps
<1>11. /\ Pending(e) \cap (StopCalls \cup {"launch", "submit"}) = {}
       /\ Pending(c) \cap StopCalls = {} /\ c.run = 0
  <2>1. /\ Place(c.kind, "launch") = 25 /\ Place(c.kind, "submit") = 25
        /\ Place(c.kind, "scan") = 21 /\ Place(c.kind, "wait_exit") = 22
        /\ Place(c.kind, "list_jobs") = 23 /\ Place(c.kind, "wait_stopped") = 24
    BY PlacesAre
  <2>2. /\ Place(c.kind, h) = 25 /\ h \notin StopCalls
        /\ \A x \in StopCalls \cup {"launch", "submit"} : ~ (25 < Place(c.kind, x))
    BY <2>1 DEF StopCalls
  <2> QED
    BY <1>1, <1>10, <2>2, ZenonT(60) DEF Formed
<1>12. /\ Formed(d) /\ Keeps(f, d) /\ Pending(d) = Pending(e)
       /\ d.replace = c.replace /\ d.calm = c.calm /\ d.via = c.via
       /\ UpSound(e, rc, parts) => UpSound(d, rc, parts)
       /\ DownSound(e, rc, parts) => DownSound(d, rc, parts)
       /\ OwnerSound(u, e, rc) => OwnerSound(u, d, rc)
  <2>1. Past(c, h, e) /\ Formed(c) /\ Noted(c, f) /\ f.dying = c.dying
        /\ (Pending(e) \cap (StopCalls \cup {"launch", "submit"}) # {} => f.run = 0)
    BY <1>1, <1>8, <1>11
  <2>2. e = Advance(c)
    BY <1>9
  <2> QED
    BY <2>1, <2>2, NotedIs
<1>13. d.run = n /\ d.slow = c.slow /\ d.escaped = c.escaped
  BY <1>8, <1>12 DEF Keeps
<1> HIDE DEF d
<1>14. UpSound(e, rc, parts) /\ DownSound(e, rc, parts) /\ OwnerSound(u, e, rc)
  <2>1. h \in StopCalls \cup {"launch", "submit", "stop_run"} /\ parts \subseteq AllParts
    BY <1>1 DEF WorldTyped
  <2> QED
    BY <1>1, <2>1, RunCallKeeps
<1>15. AloneSound(d, runs')
  <2>1. /\ "scan" \notin Pending(c) /\ "wait_exit" \notin Pending(c)
        /\ "list_jobs" \notin Pending(c) /\ "wait_stopped" \notin Pending(c)
        /\ "wait_exit" \notin Pending(d) /\ "wait_stopped" \notin Pending(d)
    BY <1>10, <1>11, <1>12 DEF StopCalls
  <2>2. c.via = "ray" \/ c.via = "exec"
    BY <1>1 DEF Commands
  <2>3. c.replace /\ c.calm /\ ~c.slow /\ ~c.escaped =>
            \A r \in DOMAIN runs' : r # n /\ LiveIn(runs', r) => c.via = "ray" /\ runs'[r].via # "ray"
    <3>1. SUFFICES ASSUME c.replace, c.calm, ~c.slow, ~c.escaped, NEW r \in DOMAIN runs', r # n,
                          LiveIn(runs', r)
                   PROVE  c.via = "ray" /\ runs'[r].via # "ray"
      OBVIOUS
    <3>2. r \in 1 .. Len(runs) /\ r # 0 /\ runs'[r] = runs[r] /\ LiveIn(runs, r)
      BY <1>4, <1>7, <3>1 DEF LiveIn
    <3>3. runs[r].via \in {"ray", "exec"}
      <4>1. runs[r] \in Run
        BY <1>4, <3>2, ElementOfSeq
      <4> QED
        BY <4>1 DEF Run
    <3> QED
      BY <1>1, <1>4, <1>11, <2>1, <2>2, <3>1, <3>2, <3>3 DEF AloneSound
  <2> QED
    BY <1>12, <1>13, <2>1, <2>3 DEF AloneSound
<1>16. CommandSound(u, d, rc', parts', runs')
  <2>1. d.run \in 0 .. Len(runs')
    BY <1>4, <1>6, <1>13
  <2> QED
    BY <1>12, <1>14, <1>15, <2>1 DEF CommandSound, Launched
<1>17. WorldTyped' /\ Len(runs) <= Len(runs')
  BY <1>1, <1>4, <1>5, <1>6 DEF WorldTyped, Launched
<1>18. Wrote(u, [ps[u] EXCEPT !.run = Len(runs) + 1])
  BY DEF Launched
<1> QED
  BY <1>9, <1>16, <1>17, <1>18, Overtakes

\* A launch by exec.
LEMMA LaunchSoundly == ASSUME Sound, NEW u \in Users, Launch(u) PROVE Sound'
BY LaunchedSound DEF Launch, Launched, kube

\* A launch by Ray, or the refusal of an id Ray knows.
LEMMA SubmitJobSound == ASSUME Sound, NEW u \in Users, SubmitJob(u) PROVE Sound'
<1>1. At(u, "submit") /\ UNCHANGED <<rc, rj, parts, dir>>
  BY DEF SubmitJob, kube
<1>2. \/ Failed(u) /\ UNCHANGED runs
      \/ runs' = Append(runs, NewRun(u)) /\ Wrote(u, [ps[u] EXCEPT !.run = Len(runs) + 1])
  BY DEF SubmitJob
<1> QED
  BY <1>1, <1>2, LaunchedSound, Stops DEF Launched

\* `stop' promises nothing of the cluster.
LEMMA StopRunSound == ASSUME Sound, NEW u \in Users, StopRun(u) PROVE Sound'
<1> DEFINE c == ps[u]
           f == [ps[u] EXCEPT !.run = 0]
           e == Advance(ps[u])
           d == Advance(f)
<1>1. At(u, "stop_run") /\ UNCHANGED <<rc, rj, parts, dir>>
  BY DEF StopRun, kube
<1>2. \/ Failed(u) /\ UNCHANGED runs
      \/ \E S : /\ Stopping(S) /\ Wrote(u, f)
                /\ \A r \in S : r \in DOMAIN runs => runs[r].state \in {"pending", "running"}
  BY DEF StopRun
<1>3. CASE Failed(u) /\ UNCHANGED runs
  BY <1>1, <1>3, Stops
<1>4. CASE \E S : /\ Stopping(S) /\ Wrote(u, f)
                  /\ \A r \in S : r \in DOMAIN runs => runs[r].state \in {"pending", "running"}
  <2>1. PICK S : /\ Stopping(S) /\ Wrote(u, f)
                 /\ \A r \in S : r \in DOMAIN runs => runs[r].state \in {"pending", "running"}
    BY <1>4
  <2>2. /\ Past(c, "stop_run", e) /\ Formed(c) /\ c \in Commands
        /\ "stop_run" \in CallsOf(c.kind) /\ CommandSound(u, c, rc, parts, runs)
        /\ WorldTyped /\ Len(runs) \in Nat
    BY <1>1, StepIs
  <2>3. c.kind \notin Raises /\ c.kind # "down" /\ c.replace = FALSE
    <3>1. c.kind = "stop"
      BY <2>2, LauncherAssumption
         DEF CallsOf, SandboxCalls, ClusterCalls, StopCalls, LaunchCalls, DeleteCalls
    <3>2. c.replace \in BOOLEAN
      BY <2>2 DEF Commands
    <3> QED
      BY <2>2, <3>1, <3>2 DEF Formed, Raises, Trains
  <2>4. HeadTyped(runs, dir)' /\ Len(runs') = Len(runs)
    BY <1>1, <2>1, <2>2, StoppingIs DEF WorldTyped
  <2>5. Noted(c, f) /\ f.run = 0
    BY <2>2 DEF Noted, Commands
  <2>6. e = Advance(c) /\ Past(c, "stop_run", e) /\ Formed(c)
    BY <2>2
  <2> HIDE DEF c, f, e
  <2>7. Formed(d) /\ Keeps(f, d) /\ d.kind = c.kind /\ d.replace = c.replace
    BY <2>5, <2>6, NotedIs
  <2>8. d.run = 0
    BY <2>5, <2>7 DEF Keeps
  <2> HIDE DEF d
  <2>9. CommandSound(u, d, rc', parts', runs')
    BY <2>2, <2>3, <2>4, <2>7, <2>8 DEF CommandSound, UpSound, DownSound, OwnerSound, AloneSound
  <2>10. WorldTyped' /\ Len(runs) <= Len(runs')
    BY <1>1, <2>2, <2>4 DEF WorldTyped
  <2> QED
    BY <1>1, <2>1, <2>9, <2>10, Overtakes DEF d
<1> QED
  BY <1>2, <1>3, <1>4

-------------------------------------------------------------------------------
(* A new command, and the steps that are nobody's.                           *)

\* A command that has made no call has everything still to do.
LEMMA BeginSound == ASSUME Sound, NEW u \in Users, Begin(u) PROVE Sound'
<1>1. PICK kind \in Kinds : \E o \in Options(u, kind) : ps' = [ps EXCEPT ![u] = Command(kind, o)]
  BY DEF Begin
<1>2. PICK o \in Options(u, kind) : ps' = [ps EXCEPT ![u] = Command(kind, o)]
  BY <1>1
<1> DEFINE c == Command(kind, o)
<1>3. UNCHANGED <<rc, rj, parts, runs, dir>>
  BY DEF Begin, kube, head
<1>4. Formed(c) /\ Fresher(c, kind, o) /\ Pending(c) = FirstCalls(c)
  BY CommandIs
<1>5. parts \subseteq AllParts /\ Len(runs) \in Nat
  BY LenProperties DEF Sound, WorldTyped, HeadTyped
<1> HIDE DEF c
<1>6. c.run = 0 /\ c.kind = kind /\ c.outcome = "none" /\ c.kind # "none"
  BY <1>4, LauncherAssumption DEF Fresher
<1>7. UpSound(c, rc, parts)
  <2>1. c.kind \in Raises => "get_cluster" \in Pending(c) /\ SandboxCalls \subseteq Pending(c)
    BY <1>4 DEF FirstCalls, Raises
  <2>2. \A x \in AllParts : x \in SandboxCalls \cup {"dra", "cluster_pdb"}
    BY DEF AllParts, AppliedParts, SandboxCalls
  <2> QED
    BY <2>1, <2>2 DEF UpSound
<1>8. DownSound(c, rc, parts)
  <2>1. c.kind = "down" => /\ \A x \in AllParts : DeleteOf(x) \in Pending(c)
                           /\ c.wait => "wait_gone" \in Pending(c)
    <3>1. SUFFICES ASSUME c.kind = "down"
                   PROVE  /\ \A x \in AllParts : DeleteOf(x) \in Pending(c)
                          /\ c.wait => "wait_gone" \in Pending(c)
      OBVIOUS
    <3>2. Pending(c) = DeletesOf \cup (IF c.wait THEN {"wait_gone"} ELSE {})
      BY <1>4, <3>1 DEF FirstCalls
    <3>3. \A x \in AllParts : DeleteOf(x) \in DeletesOf
      BY LauncherAssumption DEF AllParts, AppliedParts, DeleteOf, DeletesOf
    <3> QED
      BY <3>2, <3>3
  <2>2. c.kind = "down" => \A x \in parts : DeleteOf(x) \in Pending(c)
    BY <1>5, <2>1
  <2> QED
    BY <2>1, <2>2 DEF DownSound
<1>9. OwnerSound(u, c, rc)
  <2>1. c.kind \in Raises => "get_cluster" \in Pending(c)
    BY <1>4 DEF FirstCalls, Raises
  <2> QED
    BY <2>1 DEF OwnerSound
<1>10. AloneSound(c, runs)
  <2>1. c.replace => c.kind \in Trains
    BY <1>4 DEF Formed
  <2>2. c.kind \in Trains => StopsOf(c.via, c.replace) \subseteq Pending(c)
    BY <1>4 DEF FirstCalls, Trains
  <2>3. c.replace => /\ "list_jobs" \in Pending(c)
                     /\ c.via = "exec" => "scan" \in Pending(c)
    BY <2>1, <2>2 DEF StopsOf, StopCalls
  <2> QED
    BY <2>3 DEF AloneSound
<1>11. CommandSound(u, c, rc, parts, runs)
  <2>1. c.run \in 0 .. Len(runs)
    BY <1>5, <1>6
  <2> QED
    BY <1>4, <1>7, <1>8, <1>9, <1>10, <2>1 DEF CommandSound
<1> QED
  BY <1>2, <1>3, <1>11, Quiet DEF c

\* KubeRay makes a cluster ready that is there, and is not being deleted.
LEMMA ClusterReadySound == ASSUME Sound, ClusterReady PROVE Sound'
<1>1. rc # NoCluster /\ rc' = [rc EXCEPT !.ready = TRUE] /\ UNCHANGED <<ps, rj, parts, runs, dir>>
  BY DEF ClusterReady, HasCluster, head
<1>2. WorldTyped /\ rc \in Clusters
  BY DEF Sound, WorldTyped
<1>3. /\ rc' \in Clusters /\ rc'.ready = TRUE /\ rc'.owner = rc.owner /\ rc'.spec = rc.spec
      /\ rc'.deleting = rc.deleting
  BY <1>1, <1>2 DEF Clusters
<1>4. WorldTyped'
  BY <1>1, <1>2, <1>3 DEF WorldTyped
<1>5. ASSUME NEW u \in Users PROVE CommandSound(u, ps[u], rc', parts', runs')
  <2> DEFINE c == ps[u]
  <2>1. CommandSound(u, c, rc, parts, runs)
    BY DEF Sound
  <2> HIDE DEF c
  <2>2. UpSound(c, rc', parts)
    BY <1>1, <1>3, <2>1 DEF CommandSound, UpSound
  <2>3. DownSound(c, rc', parts)
    BY <1>1, <2>1 DEF CommandSound, DownSound
  <2>4. OwnerSound(u, c, rc')
    BY <1>3, <2>1 DEF CommandSound, OwnerSound
  <2>5. CommandSound(u, c, rc', parts', runs')
    BY <1>1, <2>1, <2>2, <2>3, <2>4 DEF CommandSound
  <2> QED
    BY <2>5 DEF c
<1> QED
  BY <1>1, <1>4, <1>5, Elsewhere

\* A cluster that is deleted takes its runs with it.
LEMMA GoneIs ==
    ASSUME HeadTyped(runs, dir), ClusterGone
    PROVE  /\ HeadTyped(runs, dir)' /\ Len(runs') = Len(runs) /\ Fewer(runs, runs')
           /\ \A r \in DOMAIN runs' : runs'[r].state \in Ended
           /\ dir' = [i \in Ids |-> NoDir]
<1>1. runs \in Seq(Run) /\ Len(runs) \in Nat
  BY LenProperties DEF HeadTyped
<1>2. /\ runs' = [r \in DOMAIN runs |-> runs'[r]] /\ dir' = [i \in Ids |-> NoDir]
      /\ \A r \in DOMAIN runs :
            runs'[r] = IF runs[r].state \in Ended THEN runs[r] ELSE [runs[r] EXCEPT !.state = "stopped"]
  BY DEF ClusterGone
<1>3. \A r \in DOMAIN runs : runs[r] \in Run
  BY <1>1, ElementOfSeq, LenProperties
<1>4. \A r \in DOMAIN runs :
          /\ runs'[r] \in Run /\ runs'[r].id = runs[r].id /\ runs'[r].via = runs[r].via
          /\ runs'[r].state \in Ended
  BY <1>2, <1>3 DEF Run, States, Ended
<1>5. runs' \in Seq(Run) /\ Len(runs') = Len(runs) /\ DOMAIN runs' = DOMAIN runs
  BY <1>1, <1>2, <1>4, Altered
<1>6. Fewer(runs, runs')
  BY <1>4, <1>5 DEF Fewer, LiveIn, Ended
<1>7. HeadTyped(runs, dir)'
  BY <1>1, <1>2, <1>5 DEF HeadTyped, NoDir
<1> QED
  BY <1>2, <1>4, <1>5, <1>6, <1>7

\* The cluster that goes was being deleted, so no command counts on it; its runs end.
LEMMA ClusterGoneSound == ASSUME Sound, ClusterGone PROVE Sound'
<1>1. rc.deleting /\ rc' = NoCluster /\ UNCHANGED <<ps, rj, parts>>
  BY DEF ClusterGone
<1>2. WorldTyped /\ HeadTyped(runs, dir)
  BY DEF Sound, WorldTyped
<1>3. HeadTyped(runs, dir)' /\ Len(runs') = Len(runs) /\ Fewer(runs, runs')
  BY <1>2, GoneIs
<1>4. WorldTyped'
  <2>1. NoCluster \in Clusters
    BY DEF NoCluster, Clusters, NoOwner, NoSpec
  <2> QED
    BY <1>1, <1>2, <1>3, <2>1 DEF WorldTyped
<1>5. ASSUME NEW u \in Users PROVE CommandSound(u, ps[u], rc', parts', runs')
  <2> DEFINE c == ps[u]
  <2>1. CommandSound(u, c, rc, parts, runs)
    BY DEF Sound
  <2> HIDE DEF c
  <2>2. UpSound(c, rc', parts)
    BY <1>1, <2>1 DEF CommandSound, UpSound
  <2>3. DownSound(c, rc', parts)
    BY <1>1, <2>1 DEF CommandSound, DownSound
  <2>4. OwnerSound(u, c, rc')
    BY <1>1 DEF OwnerSound, NoCluster
  <2>5. AloneSound(c, runs')
    BY <1>3, <2>1, AloneFewer DEF CommandSound
  <2>6. CommandSound(u, c, rc', parts', runs')
    BY <1>1, <1>3, <2>1, <2>2, <2>3, <2>4, <2>5 DEF CommandSound
  <2> QED
    BY <2>6 DEF c
<1> QED
  BY <1>1, <1>4, <1>5, Elsewhere

\* The RayJob goes on.
LEMMA RayJobStepSound == ASSUME Sound, RayJobStep PROVE Sound'
<1>1. UNCHANGED <<ps, rc, parts, runs, dir>> /\ rj' \in {"none", "running", "complete", "failed"}
  BY DEF RayJobStep, head
<1>2. WorldTyped'
  BY <1>1 DEF Sound, WorldTyped
<1> QED
  BY <1>1, <1>2 DEF Sound

\* A run starts, ends or stops: no more runs are live than before.
LEMMA RunStepIs ==
    ASSUME HeadTyped(runs, dir), NEW r \in DOMAIN runs, NEW st \in States, SetRun(r, st),
           st \in Ended \/ runs[r].state \in {"pending", "running", "stopping"}
    PROVE  /\ runs' \in Seq(Run) /\ Len(runs') = Len(runs) /\ Fewer(runs, runs')
           /\ runs'[r].state = st /\ runs'[r].id = runs[r].id /\ runs'[r].via = runs[r].via
           /\ \A s \in DOMAIN runs : s # r => runs'[s] = runs[s]
<1>1. runs \in Seq(Run) /\ Len(runs) \in Nat
  BY LenProperties DEF HeadTyped
<1>2. \A s \in DOMAIN runs : runs[s] \in Run
  BY <1>1, ElementOfSeq, LenProperties
<1>3. /\ runs' = [s \in DOMAIN runs |-> runs'[s]] /\ runs'[r] = [runs[r] EXCEPT !.state = st]
      /\ \A s \in DOMAIN runs : s # r => runs'[s] = runs[s]
  BY DEF SetRun
<1>4. /\ runs'[r] \in Run /\ runs'[r].id = runs[r].id /\ runs'[r].via = runs[r].via
      /\ runs'[r].state = st
  BY <1>2, <1>3 DEF Run
<1>5. \A s \in DOMAIN runs : runs'[s] \in Run
  BY <1>2, <1>3, <1>4
<1>6. runs' \in Seq(Run) /\ Len(runs') = Len(runs) /\ DOMAIN runs' = DOMAIN runs
  BY <1>1, <1>3, <1>5, Altered
<1>7. Fewer(runs, runs')
  <2>1. LiveIn(runs', r) => LiveIn(runs, r)
    BY <1>4 DEF LiveIn, Ended
  <2> QED
    BY <1>3, <1>4, <1>6, <2>1 DEF Fewer, LiveIn
<1> QED
  BY <1>3, <1>4, <1>6, <1>7

\* A run starts, ends or stops: no run becomes live.
LEMMA RunSound ==
    ASSUME Sound, NEW r \in DOMAIN runs, RunStarts(r) \/ RunEnds(r) \/ RunStops(r)
    PROVE  Sound'
<1>1. WorldTyped /\ HeadTyped(runs, dir)
  BY DEF Sound, WorldTyped
<1>2. runs[r].id \in Ids /\ r \in 1 .. Len(runs)
  <2>1. runs \in Seq(Run) /\ r \in 1 .. Len(runs)
    BY <1>1, LenProperties DEF HeadTyped
  <2>2. runs[r] \in Run
    BY <2>1, ElementOfSeq
  <2> QED
    BY <2>1, <2>2 DEF Run
<1>3. UNCHANGED <<ps, rc, rj, parts>>
  BY DEF RunStarts, RunEnds, RunStops, kube
<1>4. PICK st \in States :
          SetRun(r, st) /\ (st \in Ended \/ runs[r].state \in {"pending", "running", "stopping"})
  BY DEF RunStarts, RunEnds, RunStops, States, Ended
<1>5. runs' \in Seq(Run) /\ Len(runs') = Len(runs) /\ Fewer(runs, runs')
  BY <1>1, <1>4, RunStepIs
<1>6. dir' \in [Ids -> [pid : 0 .. Len(runs), exitcode : {"none", "succeeded", "failed"}]]
  <2>1. dir \in [Ids -> [pid : 0 .. Len(runs), exitcode : {"none", "succeeded", "failed"}]]
    BY <1>1 DEF HeadTyped
  <2>2. \/ dir' = dir \/ dir' = [dir EXCEPT ![runs[r].id].pid = r]
        \/ \E st2 \in {"succeeded", "failed"} : dir' = [dir EXCEPT ![runs[r].id].exitcode = st2]
    BY DEF RunStarts, RunEnds, RunStops
  <2>3. r \in 0 .. Len(runs)
    BY <1>2
  <2> QED
    BY <1>2, <2>1, <2>2, <2>3, SMTT(60)
<1>7. WorldTyped'
  BY <1>1, <1>3, <1>5, <1>6 DEF WorldTyped, HeadTyped
<1>8. ASSUME NEW u \in Users PROVE CommandSound(u, ps[u], rc', parts', runs')
  <2>1. CommandSound(u, ps[u], rc, parts, runs)
    BY DEF Sound
  <2>2. AloneSound(ps[u], runs')
    BY <1>5, <2>1, AloneFewer DEF CommandSound
  <2> QED
    BY <1>3, <1>5, <2>1, <2>2 DEF CommandSound
<1> QED
  BY <1>3, <1>7, <1>8, Elsewhere

-------------------------------------------------------------------------------
(* What dockyard-k8s promises.                                               *)

\* Nothing is under way at first.
LEMMA InitSound == Init => Sound
<1> SUFFICES ASSUME Init PROVE Sound
  OBVIOUS
<1>1. /\ Shell.kind = "none" /\ Shell.prog = <<>> /\ Shell.outcome = "none" /\ Shell.run = 0
      /\ Shell.replace = FALSE /\ Shell \in Commands
  BY EmptySeq DEF Shell, Commands
<1>2. Pending(Shell) = {} /\ InOrder(Shell.kind, Shell.prog)
  BY <1>1, EmptySeq DEF Pending, Calls, InOrder
<1>3. Formed(Shell)
  BY <1>1, <1>2 DEF Formed, Paired, Raises, Trains
<1>4. Len(runs) = 0 /\ runs \in Seq(Run)
  BY EmptySeq DEF Init
<1>5. ASSUME NEW u \in Users PROVE CommandSound(u, Shell, rc, parts, runs)
  BY <1>1, <1>3, <1>4
     DEF CommandSound, UpSound, DownSound, OwnerSound, AloneSound, Raises
<1>6. WorldTyped
  <2>1. NoCluster \in Clusters
    BY DEF NoCluster, Clusters, NoOwner, NoSpec
  <2>2. dir \in [Ids -> [pid : 0 .. Len(runs), exitcode : {"none", "succeeded", "failed"}]]
    BY <1>4 DEF Init, NoDir
  <2> QED
    BY <1>4, <2>1, <2>2 DEF Init, WorldTyped, HeadTyped
<1> QED
  BY <1>1, <1>5, <1>6 DEF Init, Sound

\* Every step of a user.
LEMMA StepSound == ASSUME Sound, NEW u \in Users, Step(u) PROVE Sound'
<1>1. CASE Begin(u)
  BY <1>1, BeginSound
<1>2. CASE Abort(u)
  BY <1>2, AbortSound
<1>3. CASE GetDeployment(u)
  BY <1>3, GetDeploymentSound
<1>4. CASE ApplyPart(u)
  BY <1>4, ApplyPartSound
<1>5. CASE WaitDeployment(u)
  BY <1>5, WaitDeploymentSound
<1>6. CASE DeletePart(u)
  BY <1>6, DeletePartSound
<1>7. CASE CheckCollision(u)
  BY <1>7, CheckCollisionSound
<1>8. CASE GetCluster(u)
  BY <1>8, GetClusterSound
<1>9. CASE ApplyCluster(u)
  BY <1>9, ApplyClusterSound
<1>10. CASE WaitReady(u)
  BY <1>10, WaitReadySound
<1>11. CASE DeleteCluster(u)
  BY <1>11, DeleteClusterSound
<1>12. CASE WaitGone(u)
  BY <1>12, WaitGoneSound
<1>13. CASE ApplyRayJob(u)
  BY <1>13, ApplyRayJobSound
<1>14. CASE WaitRayJob(u)
  BY <1>14, WaitRayJobSound
<1>15. CASE Scan(u)
  BY <1>15, ScanSound
<1>16. CASE ListJobs(u)
  BY <1>16, ListJobsSound
<1>17. CASE WaitStopped(u)
  BY <1>17, WaitStoppedSound
<1>18. CASE SubmitJob(u)
  BY <1>18, SubmitJobSound
<1>19. CASE Launch(u)
  BY <1>19, LaunchSoundly
<1>20. CASE PollPid(u)
  BY <1>20, PollPidSound
<1>21. CASE SaveHandle(u)
  BY <1>21, SaveHandleSound
<1>22. CASE StopRun(u)
  BY <1>22, StopRunSound
<1> QED
  BY <1>1, <1>2, <1>3, <1>4, <1>5, <1>6, <1>7, <1>8, <1>9, <1>10, <1>11, <1>12, <1>13, <1>14,
     <1>15, <1>16, <1>17, <1>18, <1>19, <1>20, <1>21, <1>22 DEF Step

\* The invariant is inductive.
LEMMA NextSound == Sound /\ [Next]_vars => Sound'
<1> SUFFICES ASSUME Sound, [Next]_vars PROVE Sound'
  OBVIOUS
<1>1. ASSUME NEW u \in Users, Step(u) PROVE Sound'
  BY <1>1, StepSound
<1>2. CASE External
  <2>1. CASE ClusterReady
    BY <2>1, ClusterReadySound
  <2>2. CASE ClusterGone
    BY <2>2, ClusterGoneSound
  <2>3. CASE RayJobStep
    BY <2>3, RayJobStepSound
  <2>4. CASE \E r \in DOMAIN runs : RunStarts(r) \/ RunEnds(r) \/ RunStops(r)
    BY <2>4, RunSound
  <2> QED
    BY <1>2, <2>1, <2>2, <2>3, <2>4 DEF External
<1>3. CASE UNCHANGED vars
  BY <1>3 DEF vars, Sound, WorldTyped
<1> QED
  BY <1>1, <1>2, <1>3 DEF Next

\* Whatever is cut short, and whatever other users do in between, every command
\* is at a place from which what it promises still follows.
THEOREM Soundness == Spec => []Sound
BY InitSound, NextSound, PTL DEF Spec

\* A command that has no calls left has all it promises.
LEMMA SoundDelivers == Sound => CommandsDeliver
<1> SUFFICES ASSUME Sound PROVE CommandsDeliver
  OBVIOUS
<1>1. WorldTyped
  BY DEF Sound
<1>2. ASSUME NEW u \in Users
      PROVE  /\ ps[u].prog = <<>> /\ ps[u].kind # "none" => ps[u].outcome \in {"ok", "error"}
             /\ ps[u].run \in 0 .. Len(runs)
             /\ ps[u].outcome = "ok" => Pending(ps[u]) = {}
             /\ UpSound(ps[u], rc, parts) /\ DownSound(ps[u], rc, parts)
  <2>1. CommandSound(u, ps[u], rc, parts, runs) /\ Formed(ps[u])
    BY DEF Sound, CommandSound
  <2>2. ps[u].outcome = "ok" => ps[u].prog = <<>>
    BY <2>1 DEF Formed
  <2>3. ps[u].outcome = "ok" => Pending(ps[u]) = {}
    BY <2>2, EmptySeq DEF Pending, Calls
  <2> QED
    BY <2>1, <2>3 DEF CommandSound, Formed
<1>3. TypeOK
  <2>1. \A i \in Ids : dir[i].pid \in 0 .. Len(runs)
    BY <1>1 DEF WorldTyped, HeadTyped
  <2> QED
    BY <1>1, <1>2, <2>1 DEF TypeOK, WorldTyped, Clusters
<1>4. UpDelivers
  <2>1. SUFFICES ASSUME NEW u \in Users, ps[u].kind \in {"up", "bringup"}, ps[u].outcome = "ok",
                        ps[u].calm, ~ps[u].dying
                 PROVE  /\ rc.ready /\ ~rc.deleting /\ (rc.spec = ps[u].spec \/ ps[u].warned)
                        /\ parts = AllParts
    BY DEF UpDelivers
  <2>2. Pending(ps[u]) = {} /\ UpSound(ps[u], rc, parts) /\ parts \subseteq AllParts
    BY <1>1, <1>2, <2>1 DEF WorldTyped
  <2> QED
    BY <2>1, <2>2 DEF UpSound, Raises
<1>5. DownClean
  <2>1. SUFFICES ASSUME NEW u \in Users, ps[u].kind = "down", ps[u].outcome = "ok", ps[u].calm
                 PROVE  parts = {} /\ (ps[u].wait => ~HasCluster)
    BY DEF DownClean
  <2>2. Pending(ps[u]) = {} /\ DownSound(ps[u], rc, parts)
    BY <1>2, <2>1
  <2> QED
    BY <2>1, <2>2 DEF DownSound, HasCluster
<1> QED
  BY <1>3, <1>4, <1>5 DEF CommandsDeliver

\* A `cluster up' or a `run' that reports success, and that nobody else has
\* changed anything under, leaves the whole sandbox and a ready cluster of the
\* spec it rendered, and a `cluster down' leaves nothing: whatever half-made
\* state an earlier command left, and wherever others were interrupted.
THEOREM CommandsAlwaysDeliver == Spec => []CommandsDeliver
BY Soundness, SoundDelivers, PTL

\* A cluster is changed or deleted by a command that has read it, but for `cluster down'.
LEMMA SoundRespects ==
    ASSUME Sound, NEW u \in Users, ApplyCluster(u) \/ DeleteCluster(u), ps[u].kind # "down", ps[u].calm
    PROVE  rc.owner \in {NoOwner, u}
<1> DEFINE c == ps[u]
<1>1. PICK h \in {"apply_cluster", "delete_cluster"} : At(u, h)
  BY DEF ApplyCluster, DeleteCluster
<1>2. /\ h \in Pending(c) /\ h \in CallsOf(c.kind) /\ Formed(c) /\ c.outcome = "none"
      /\ OwnerSound(u, c, rc)
  BY <1>1, StepIs
<1>3. c.kind \in Raises
  BY <1>2, LauncherAssumption
     DEF CallsOf, SandboxCalls, StopCalls, LaunchCalls, DeleteCalls, Raises
<1>4. "get_cluster" \notin Pending(c)
  BY <1>2 DEF Formed, ClusterCalls
<1> QED
  BY <1>2, <1>3, <1>4 DEF OwnerSound

\* The owner that ensure_cluster has read is still the owner when it patches,
\* deletes or replaces the cluster, if no other command has changed anything
\* since it began: of these commands only `cluster down' touches another user's.
THEOREM OwnersRespected == Spec => OwnerRespected
<1>1. Sound /\ [Next]_vars =>
          [\A u \in Users :
             (ApplyCluster(u) \/ DeleteCluster(u)) /\ ps[u].kind # "down" /\ ps[u].calm
                 => rc.owner \in {NoOwner, u}]_vars
  BY SoundRespects
<1> QED
  BY <1>1, Soundness, PTL DEF Spec, OwnerRespected

\* A command that has launched has no call of --replace left.
LEMMA SoundAlone == Sound => ReplaceAlone
<1> SUFFICES ASSUME Sound, NEW u \in Users,
                    ps[u].replace /\ ps[u].run # 0 /\ ps[u].calm /\ ~ps[u].slow /\ ~ps[u].escaped,
                    NEW r \in DOMAIN runs \ {ps[u].run}, Live(r)
             PROVE  ps[u].via = "ray" /\ runs[r].via = "exec"
  BY DEF ReplaceAlone
<1>1. Formed(ps[u]) /\ AloneSound(ps[u], runs)
  BY DEF Sound, CommandSound
<1>2. Pending(ps[u]) \cap StopCalls = {} /\ ps[u].via \in {"ray", "exec"}
  BY <1>1 DEF Formed, Commands
<1>3. runs[r].via \in {"ray", "exec"}
  <2>1. runs \in Seq(Run)
    BY DEF Sound, WorldTyped, HeadTyped
  <2>2. runs[r] \in Run
    BY <2>1, ElementOfSeq, LenProperties
  <2> QED
    BY <2>2 DEF Run
<1>4. LiveIn(runs, r)
  BY DEF Live, LiveIn
<1> QED
  BY <1>1, <1>2, <1>3, <1>4 DEF AloneSound, StopCalls

\* `run --replace' launches its run alone, but for the runs it did not find, since
\* they had not started or the scan failed, and those that outlived the wait; with
\* the Ray transport, alone among the Ray jobs.
THEOREM ReplacesAlone == Spec => []ReplaceAlone
BY Soundness, SoundAlone, PTL

-------------------------------------------------------------------------------
(* Run ids that are used once: a submission, its handle and its directory.    *)

\* The same runs, each with its own pid or ended if it had one or had ended.
After(rs, d, rs2, d2) ==
    /\ DOMAIN rs2 = DOMAIN rs
    /\ \A r \in DOMAIN rs :
        /\ rs2[r].id = rs[r].id /\ rs2[r].via = rs[r].via
        /\ d[rs[r].id].pid = r \/ rs[r].state \in Ended =>
               d2[rs[r].id].pid = r \/ rs2[r].state \in Ended

\* Command d is as far with its launch as command c.
Resumes(c, d) ==
    /\ d.kind = c.kind /\ d.id = c.id /\ d.via = c.via /\ d.run = c.run
    /\ d.prog # <<>> => c.prog # <<>>
    /\ \A x \in {"launch", "submit", "poll_pid"} : x \in Pending(d) <=> x \in Pending(c)

\* A submission's id and pid stay as they were when others launch and directories move on.
LEMMA LaunchKeeps ==
    ASSUME NEW c, NEW e, Resumes(c, e), NEW rs, NEW d, NEW rs2, NEW d2, After(rs, d, rs2, d2),
           Len(rs) \in Nat, DOMAIN rs = 1 .. Len(rs), c.run \in 0 .. Len(rs), LaunchSound(c, rs, d)
    PROVE  LaunchSound(e, rs2, d2) /\ (Launching(e) <=> Launching(c))
<1>1. Launching(e) <=> Launching(c)
  BY DEF Resumes, Launching
<1>2. c.run # 0 => c.run \in DOMAIN rs
  OBVIOUS
<1>3. SUFFICES ASSUME e.kind \in Trains, e.prog # <<>> PROVE LaunchSound(e, rs2, d2)
  BY <1>1 DEF LaunchSound
<1>4. c.kind \in Trains /\ c.prog # <<>> /\ e.id = c.id /\ e.via = c.via /\ e.run = c.run
  BY <1>3 DEF Resumes
<1>5. CASE Launching(c)
  <2>1. \A r \in DOMAIN rs2 : rs2[r].id # e.id
    BY <1>4, <1>5 DEF LaunchSound, Launching, After
  <2> QED
    BY <1>1, <1>5, <2>1 DEF LaunchSound, Launching
<1>6. CASE ~Launching(c)
  <2>1. /\ c.run # 0 /\ rs[c.run].id = c.id /\ rs[c.run].via = c.via
        /\ c.via = "exec" /\ "poll_pid" \notin Pending(c) =>
              d[c.id].pid = c.run \/ rs[c.run].state \in Ended
    BY <1>4, <1>6 DEF LaunchSound, Launching
  <2>2. /\ rs2[c.run].id = c.id /\ rs2[c.run].via = c.via
        /\ c.via = "exec" /\ "poll_pid" \notin Pending(c) =>
              d2[c.id].pid = c.run \/ rs2[c.run].state \in Ended
    BY <1>2, <2>1 DEF After
  <2>3. "poll_pid" \in Pending(e) <=> "poll_pid" \in Pending(c)
    BY DEF Resumes
  <2> QED
    BY <1>1, <1>4, <1>6, <2>1, <2>2, <2>3 DEF LaunchSound, Launching
<1> QED
  BY <1>5, <1>6

\* Nothing happens to the runs.
LEMMA AfterSame == ASSUME NEW rs, NEW d PROVE After(rs, d, rs, d)
BY DEF After

\* A command that others have overtaken is as far as it was.
LEMMA MutedResumes == ASSUME NEW c \in Commands PROVE Resumes(c, [c EXCEPT !.calm = FALSE])
BY DEF Resumes, Commands, Pending

\* A command that does nothing.
LEMMA SameResumes == ASSUME NEW c PROVE Resumes(c, c)
BY DEF Resumes

\* A call that is not about the launch.
LEMMA NotedResumes ==
    ASSUME NEW c, NEW h, Past(c, h, Advance(c)), Formed(c), NEW f, Noted(c, f), f.run = c.run,
           h \notin {"launch", "submit", "poll_pid"}
    PROVE  Resumes(c, Advance(f))
<1> DEFINE d == Advance(f)
<1>1. c \in Commands /\ f \in Commands /\ f.prog = c.prog
  BY DEF Formed, Noted
<1>2. d.prog = Advance(c).prog /\ Keeps(f, d)
  BY <1>1, AdvanceKeeps
<1>3. Pending(d) = Pending(c) \ {h} /\ c.prog # <<>>
  BY <1>2, UnderWay DEF Pending, Past
<1>4. d.kind = c.kind /\ d.id = c.id /\ d.via = c.via /\ d.run = c.run
  BY <1>2 DEF Keeps, Noted
<1> HIDE DEF d
<1>5. Resumes(c, d)
  BY <1>3, <1>4 DEF Resumes
<1> QED
  BY <1>5 DEF d

\* A command that notes nothing.
LEMMA NotedSame == ASSUME NEW c, Formed(c) PROVE Noted(c, c)
BY DEF Formed, Noted

\* What a sound state says of the launches.
LEMMA LaunchesAre ==
    ASSUME Sound, IdsSound, NEW u \in Users
    PROVE  /\ LaunchSound(ps[u], runs, dir) /\ Formed(ps[u]) /\ ps[u] \in Commands
           /\ ps[u].run \in 0 .. Len(runs) /\ HeadSound(runs, dir) /\ HeadTyped(runs, dir)
           /\ Len(runs) \in Nat /\ DOMAIN runs = 1 .. Len(runs)
<1>1. CommandSound(u, ps[u], rc, parts, runs) /\ HeadTyped(runs, dir)
  BY DEF Sound, WorldTyped
<1>2. Len(runs) \in Nat /\ DOMAIN runs = 1 .. Len(runs)
  BY <1>1, LenProperties DEF HeadTyped
<1> QED
  BY <1>1, <1>2 DEF CommandSound, Formed, IdsSound

\* A step of one command, that does not launch anew.
LEMMA IdsStep ==
    ASSUME Sound, IdsSound, NEW u \in Users, NEW d,
           ps' = [ps EXCEPT ![u] = d]
               \/ ps' = [v \in Users |-> IF v = u THEN d ELSE [ps[v] EXCEPT !.calm = FALSE]],
           HeadSound(runs, dir)', After(runs, dir, runs', dir'), LaunchSound(d, runs', dir'),
           Launching(d) => Launching(ps[u]) /\ d.id = ps[u].id
    PROVE  IdsSound'
<1>1. ps \in [Users -> Commands]
  BY DEF Sound
<1>2. ps'[u] = d /\ \A v \in Users : v # u => ps'[v] = ps[v] \/ ps'[v] = [ps[v] EXCEPT !.calm = FALSE]
  BY <1>1
<1>3. ASSUME NEW v \in Users, v # u
      PROVE  /\ LaunchSound(ps'[v], runs', dir')
             /\ Launching(ps'[v]) => Launching(ps[v]) /\ ps'[v].id = ps[v].id
  <2>1. Resumes(ps[v], ps'[v])
    BY <1>1, <1>2, <1>3, MutedResumes, SameResumes
  <2>2. /\ LaunchSound(ps[v], runs, dir) /\ ps[v].run \in 0 .. Len(runs)
        /\ Len(runs) \in Nat /\ DOMAIN runs = 1 .. Len(runs)
    BY LaunchesAre
  <2>3. LaunchSound(ps'[v], runs', dir') /\ (Launching(ps'[v]) <=> Launching(ps[v]))
    BY <2>1, <2>2, LaunchKeeps
  <2> QED
    BY <2>1, <2>3 DEF Resumes
<1>4. ASSUME NEW v \in Users
      PROVE  /\ LaunchSound(ps'[v], runs', dir')
             /\ Launching(ps'[v]) => Launching(ps[v]) /\ ps'[v].id = ps[v].id
  BY <1>2, <1>3
<1>5. ASSUME NEW v \in Users, NEW w \in Users, Launching(ps'[v]), Launching(ps'[w]),
             ps'[v].id = ps'[w].id
      PROVE  v = w
  BY <1>4, <1>5 DEF IdsSound
<1>6. \A v \in Users : LaunchSound(ps[v], runs, dir)'
  BY <1>4
<1> QED
  BY <1>5, <1>6 DEF IdsSound, Launching, Pending

\* A call that leaves the runs and their directories as they are.
LEMMA IdsCall ==
    ASSUME Sound, IdsSound, NEW u \in Users, NEW f, Done(u, f) \/ Wrote(u, f),
           Resumes(ps[u], Advance(f)), HeadSound(runs, dir)', After(runs, dir, runs', dir')
    PROVE  IdsSound'
<1> DEFINE d == Advance(f)
<1>1. ps' = [ps EXCEPT ![u] = d]
          \/ ps' = [v \in Users |-> IF v = u THEN d ELSE [ps[v] EXCEPT !.calm = FALSE]]
  BY DEF Done, Wrote
<1>2. /\ LaunchSound(ps[u], runs, dir) /\ ps[u].run \in 0 .. Len(runs)
      /\ Len(runs) \in Nat /\ DOMAIN runs = 1 .. Len(runs)
  BY LaunchesAre
<1> HIDE DEF d
<1>3. Resumes(ps[u], d)
  BY DEF d
<1>4. LaunchSound(d, runs', dir') /\ (Launching(d) <=> Launching(ps[u]))
  BY <1>2, <1>3, LaunchKeeps
<1>5. d.id = ps[u].id
  BY <1>3 DEF Resumes
<1> QED
  BY <1>1, <1>4, <1>5, IdsStep

\* One that says nothing of the launch, whatever it notes.
LEMMA IdsNoted ==
    ASSUME Sound, IdsSound, NEW u \in Users, NEW h, At(u, h), h \notin {"launch", "submit", "poll_pid"},
           NEW f, Noted(ps[u], f), f.run = ps[u].run, Done(u, f) \/ Wrote(u, f), UNCHANGED <<runs, dir>>
    PROVE  IdsSound'
<1>1. Past(ps[u], h, Advance(ps[u])) /\ Formed(ps[u])
  BY StepIs
<1>2. Resumes(ps[u], Advance(f))
  BY <1>1, NotedResumes
<1>3. HeadSound(runs, dir)'
  BY DEF IdsSound
<1>4. After(runs, dir, runs', dir')
  BY AfterSame
<1> QED
  BY <1>2, <1>3, <1>4, IdsCall

\* Steps that leave runs and directories alone.
LEMMA IdsPlain ==
    ASSUME Sound, IdsSound, NEW u \in Users, NEW h, At(u, h), h \notin {"launch", "submit", "poll_pid"},
           Done(u, ps[u]) \/ Wrote(u, ps[u]), UNCHANGED <<runs, dir>>
    PROVE  IdsSound'
<1>1. Noted(ps[u], ps[u])
  BY LaunchesAre, NotedSame
<1> QED
  BY <1>1, IdsNoted

\* A command that stops has no launch left.
LEMMA IdsStops ==
    ASSUME Sound, IdsSound, NEW u \in Users, Failed(u), UNCHANGED <<runs, dir>> PROVE IdsSound'
<1> DEFINE d == [Shell EXCEPT !.kind = ps[u].kind, !.outcome = "error"]
<1>1. ps' = [ps EXCEPT ![u] = d] /\ d.prog = <<>>
  BY DEF Failed, Shell
<1> HIDE DEF d
<1>2. LaunchSound(d, runs', dir') /\ ~Launching(d)
  BY <1>1, EmptySeq DEF LaunchSound, Launching, Pending, Calls
<1>3. HeadSound(runs, dir)'
  BY DEF IdsSound
<1>4. After(runs, dir, runs', dir')
  BY AfterSame
<1> QED
  BY <1>1, <1>2, <1>3, <1>4, IdsStep

\* The calls to the API server.
LEMMA KubeIds ==
    ASSUME Sound, IdsSound, NEW u \in Users,
           \/ Abort(u) \/ GetDeployment(u) \/ ApplyPart(u) \/ WaitDeployment(u) \/ DeletePart(u)
           \/ CheckCollision(u) \/ ApplyCluster(u) \/ WaitReady(u) \/ DeleteCluster(u)
           \/ ApplyRayJob(u) \/ WaitRayJob(u) \/ SaveHandle(u)
    PROVE  IdsSound'
<1>1. UNCHANGED <<runs, dir>>
  BY DEF Abort, GetDeployment, ApplyPart, WaitDeployment, DeletePart, CheckCollision,
     ApplyCluster,
         WaitReady, DeleteCluster, ApplyRayJob, WaitRayJob, SaveHandle, head
<1>2. \/ Failed(u)
      \/ \E h : /\ At(u, h) /\ h \notin {"launch", "submit", "poll_pid"}
                /\ Done(u, ps[u]) \/ Wrote(u, ps[u])
  <2>1. CASE ApplyPart(u)
    <3>1. PICK x \in AppliedParts : At(u, x) /\ Wrote(u, ps[u])
      BY <2>1 DEF ApplyPart
    <3>2. x \notin {"launch", "submit", "poll_pid"}
      BY LauncherAssumption DEF AppliedParts
    <3> QED
      BY <3>1, <3>2
  <2>2. CASE DeletePart(u)
    <3>1. PICK x \in AppliedParts : At(u, DeleteOf(x)) /\ Wrote(u, ps[u])
      BY <2>2 DEF DeletePart
    <3>2. DeleteOf(x) \notin {"launch", "submit", "poll_pid"}
      BY LauncherAssumption DEF AppliedParts, DeleteOf
    <3> QED
      BY <3>1, <3>2
  <2>3. CASE Abort(u)
    BY <2>3 DEF Abort
  <2>4. CASE GetDeployment(u) \/ WaitDeployment(u) \/ CheckCollision(u)
    BY <2>4 DEF GetDeployment, WaitDeployment, CheckCollision
  <2>5. CASE ApplyCluster(u) \/ WaitReady(u) \/ DeleteCluster(u)
    BY <2>5 DEF ApplyCluster, WaitReady, DeleteCluster
  <2>6. CASE ApplyRayJob(u) \/ WaitRayJob(u) \/ SaveHandle(u)
    BY <2>6 DEF ApplyRayJob, WaitRayJob, SaveHandle
  <2> QED
    BY <2>1, <2>2, <2>3, <2>4, <2>5, <2>6
<1> QED
  BY <1>1, <1>2, IdsStops, IdsPlain

\* The wait for a deleted cluster.
LEMMA WaitGoneIds == ASSUME Sound, IdsSound, NEW u \in Users, WaitGone(u) PROVE IdsSound'
<1> DEFINE f == [ps[u] EXCEPT !.dying = FALSE]
<1>1. At(u, "wait_gone") /\ Done(u, f) /\ UNCHANGED <<runs, dir>>
  BY DEF WaitGone, head
<1>2. Noted(ps[u], f) /\ f.run = ps[u].run
  <2>1. ps[u] \in Commands
    BY LaunchesAre
  <2> QED
    BY <2>1 DEF Noted, Commands
<1> HIDE DEF f
<1> QED
  BY <1>1, <1>2, IdsNoted

\* The waits for stopped runs.
LEMMA WaitStoppedIds == ASSUME Sound, IdsSound, NEW u \in Users, WaitStopped(u) PROVE IdsSound'
<1> DEFINE f == [ps[u] EXCEPT !.slow = @ \/ \E r \in ps[u].todo : Live(r)]
<1>1. /\ At(u, "wait_stopped") \/ At(u, "wait_exit")
      /\ Done(u, f) /\ UNCHANGED <<runs, dir>>
  BY DEF WaitStopped, head
<1>2. Noted(ps[u], f) /\ f.run = ps[u].run
  <2>1. ps[u] \in Commands
    BY LaunchesAre
  <2> QED
    BY <2>1, ZenonT(60) DEF Noted, Commands
<1> HIDE DEF f
<1> QED
  BY <1>1, <1>2, IdsNoted

\* The cluster is read.
LEMMA GetClusterIds == ASSUME Sound, IdsSound, NEW u \in Users, GetCluster(u) PROVE IdsSound'
<1> DEFINE c == ps[u]
           d == Advance(Found(u))
           M == {"dra"} \cup EnsureCalls(u) \cup {"cluster_pdb", "wait_ready"}
<1>1. At(u, "get_cluster") /\ UNCHANGED <<runs, dir>> /\ (Failed(u) \/ Done(u, Found(u)))
  BY DEF GetCluster, head
<1>2. CASE Failed(u)
  BY <1>1, <1>2, IdsStops
<1>3. CASE Done(u, Found(u))
  <2>1. Formed(c) /\ c \in Commands /\ c.prog # <<>> /\ rc \in Clusters
    BY <1>1, LaunchesAre DEF At, Sound, WorldTyped
  <2>2. /\ Pending(d) = M \cup (Pending(c) \ {"get_cluster"})
        /\ Keeps([c EXCEPT !.warned = d.warned, !.dying = d.dying], d)
    BY <1>1, <2>1, FoundIs
  <2> HIDE DEF d
  <2>3. d.kind = c.kind /\ d.id = c.id /\ d.via = c.via /\ d.run = c.run
    BY <2>1, <2>2 DEF Keeps, Commands
  <2>4. \A x \in {"launch", "submit", "poll_pid"} : x \notin M
    BY DEF EnsureCalls
  <2>5. Resumes(c, d)
    BY <2>1, <2>2, <2>3, <2>4 DEF Resumes
  <2>6. HeadSound(runs, dir)'
    BY <1>1 DEF IdsSound
  <2>7. After(runs, dir, runs', dir')
    BY <1>1, AfterSame
  <2> QED
    BY <1>3, <2>5, <2>6, <2>7, IdsCall DEF d
<1> QED
  BY <1>1, <1>2, <1>3

\* A run that is told to stop keeps its pid and has no exit code yet.
LEMMA StoppingIds ==
    ASSUME HeadTyped(runs, dir), HeadSound(runs, dir), NEW S, Stopping(S), dir' = dir,
           \A r \in S : r \in DOMAIN runs =>
               /\ runs[r].state \in {"pending", "running"}
               /\ runs[r].via = "exec" => runs[r].state = "running"
    PROVE  HeadSound(runs, dir)' /\ After(runs, dir, runs', dir')
<1>1. /\ DOMAIN runs' = DOMAIN runs
      /\ \A r \in DOMAIN runs : runs'[r].id = runs[r].id /\ runs'[r].via = runs[r].via
      /\ \A r \in DOMAIN runs : LiveIn(runs', r) => LiveIn(runs, r)
  <2>1. HeadTyped(runs, dir)' /\ Len(runs') = Len(runs) /\ Fewer(runs, runs')
    BY StoppingIs
  <2> QED
    BY <2>1 DEF Fewer
<1>2. runs \in Seq(Run) /\ Len(runs) \in Nat /\ DOMAIN runs = 1 .. Len(runs)
  BY LenProperties DEF HeadTyped
<1>3. \A r \in DOMAIN runs : runs[r] \in Run
  BY <1>2, ElementOfSeq
<1>4. \A r \in DOMAIN runs :
          \/ runs'[r].state = runs[r].state
          \/ /\ runs'[r].state = "stopping" /\ runs[r].state \in {"pending", "running"}
             /\ runs[r].via = "exec" => runs[r].state = "running"
  BY <1>3 DEF Stopping, Run
<1>5. \A i \in Ids : dir[i].pid \in 0 .. Len(runs)
  BY DEF HeadTyped
<1>6. \A r, s \in DOMAIN runs' : runs'[r].id = runs'[s].id => r = s
  BY <1>1 DEF HeadSound
<1>7. ASSUME NEW i \in Ids
      PROVE  LET p == dir'[i].pid
             IN  IF p = 0
                 THEN dir'[i].exitcode = "none"
                 ELSE /\ runs'[p].id = i /\ runs'[p].via = "exec" /\ runs'[p].state # "pending"
                      /\ dir'[i].exitcode \in Codes(runs'[p].state)
  <2>1. CASE dir[i].pid = 0
    BY <2>1 DEF HeadSound
  <2>2. CASE dir[i].pid # 0
    <3> DEFINE p == dir[i].pid
    <3>1. p \in DOMAIN runs
      BY <1>2, <1>5, <2>2
    <3>2. /\ runs[p].id = i /\ runs[p].via = "exec" /\ runs[p].state # "pending"
          /\ dir[i].exitcode \in Codes(runs[p].state)
      BY <2>2 DEF HeadSound
    <3>3. dir'[i].pid = p /\ dir'[i].exitcode = dir[i].exitcode
      OBVIOUS
    <3> HIDE DEF p
    <3>4. /\ runs'[p].id = i /\ runs'[p].via = "exec" /\ runs'[p].state # "pending"
          /\ dir[i].exitcode \in Codes(runs'[p].state)
      BY <1>1, <1>4, <3>1, <3>2 DEF Codes
    <3>5. p # 0
      BY <2>2 DEF p
    <3> QED
      BY <3>3, <3>4, <3>5
  <2> QED
    BY <2>1, <2>2
<1>8. ASSUME NEW r \in DOMAIN runs', runs'[r].via = "exec", runs'[r].state \in {"running", "stopping"}
      PROVE  dir'[runs'[r].id].pid = r
  <2>1. runs[r].via = "exec" /\ runs[r].state \in {"running", "stopping"}
    BY <1>1, <1>4, <1>8
  <2> QED
    BY <1>1, <1>8, <2>1 DEF HeadSound
<1>9. HeadSound(runs, dir)'
  BY <1>6, <1>7, <1>8 DEF HeadSound
<1>10. After(runs, dir, runs', dir')
  BY <1>1, <1>4 DEF After, Ended
<1> QED
  BY <1>9, <1>10

\* Runs told to stop by --replace over exec.
LEMMA ScanIds == ASSUME Sound, IdsSound, NEW u \in Users, Scan(u) PROVE IdsSound'
<1>0. PICK S \in SUBSET DOMAIN runs, found \in SUBSET DOMAIN runs :
          /\ At(u, "scan") /\ StopsFor(u, "exec", S, found) /\ dir' = dir
          /\ \A r \in S : runs[r].state = "running"
  BY DEF Scan
<1> DEFINE f == [ps[u] EXCEPT !.todo = found,
                              !.escaped = @ \/ \E r \in DOMAIN runs \ found :
                                                  runs[r].via = "exec" /\ Live(r)]
<1>1. At(u, "scan") /\ Stopping(S) /\ Wrote(u, f) /\ dir' = dir
  BY <1>0 DEF StopsFor
<1>2. /\ ps[u] \in Commands /\ Formed(ps[u]) /\ HeadTyped(runs, dir) /\ HeadSound(runs, dir)
      /\ DOMAIN runs = 1 .. Len(runs) /\ Len(runs) \in Nat
  BY LaunchesAre
<1>3. HeadSound(runs, dir)' /\ After(runs, dir, runs', dir')
  BY <1>0, <1>1, <1>2, StoppingIds, SMTT(60)
<1>4. Noted(ps[u], f) /\ f.run = ps[u].run
  <2>1. found \in SUBSET Nat
    BY <1>2
  <2> QED
    BY <1>2, <2>1, ZenonT(60) DEF Noted, Commands
<1>5. Past(ps[u], "scan", Advance(ps[u]))
  BY <1>1, StepIs
<1> HIDE DEF f
<1>6. Resumes(ps[u], Advance(f))
  BY <1>2, <1>4, <1>5, NotedResumes
<1> QED
  BY <1>1, <1>3, <1>6, IdsCall

\* Runs told to stop by --replace over Ray.
LEMMA ListJobsIds == ASSUME Sound, IdsSound, NEW u \in Users, ListJobs(u) PROVE IdsSound'
<1>0. PICK S \in SUBSET DOMAIN runs, found \in SUBSET DOMAIN runs :
          /\ At(u, "list_jobs") /\ StopsFor(u, "ray", S, found) /\ dir' = dir
          /\ \A r \in S : runs[r].state = "running"
  BY DEF ListJobs
<1> DEFINE f == [ps[u] EXCEPT !.todo = found,
                              !.escaped = @ \/ \E r \in DOMAIN runs \ found :
                                                  runs[r].via = "ray" /\ Live(r)]
<1>1. At(u, "list_jobs") /\ Stopping(S) /\ Wrote(u, f) /\ dir' = dir
  BY <1>0 DEF StopsFor
<1>2. /\ ps[u] \in Commands /\ Formed(ps[u]) /\ HeadTyped(runs, dir) /\ HeadSound(runs, dir)
      /\ DOMAIN runs = 1 .. Len(runs) /\ Len(runs) \in Nat
  BY LaunchesAre
<1>3. HeadSound(runs, dir)' /\ After(runs, dir, runs', dir')
  BY <1>0, <1>1, <1>2, StoppingIds
<1>4. Noted(ps[u], f) /\ f.run = ps[u].run
  <2>1. found \in SUBSET Nat
    BY <1>2
  <2> QED
    BY <1>2, <2>1, ZenonT(60) DEF Noted, Commands
<1>5. Past(ps[u], "list_jobs", Advance(ps[u]))
  BY <1>1, StepIs
<1> HIDE DEF f
<1>6. Resumes(ps[u], Advance(f))
  BY <1>2, <1>4, <1>5, NotedResumes
<1> QED
  BY <1>1, <1>3, <1>6, IdsCall

\* `stop' launches nothing.
LEMMA StopRunIds == ASSUME Sound, IdsSound, NEW u \in Users, StopRun(u) PROVE IdsSound'
<1> DEFINE f == [ps[u] EXCEPT !.run = 0]
           d == Advance(f)
<1>1. At(u, "stop_run") /\ dir' = dir
  BY DEF StopRun
<1>2. /\ ps[u] \in Commands /\ Formed(ps[u]) /\ HeadTyped(runs, dir) /\ HeadSound(runs, dir)
      /\ DOMAIN runs = 1 .. Len(runs) /\ Len(runs) \in Nat
  BY LaunchesAre
<1>3. \/ Failed(u) /\ UNCHANGED runs
      \/ /\ Wrote(u, f)
         /\ \E S : /\ Stopping(S)
                   /\ \A r \in S : r \in DOMAIN runs =>
                          /\ runs[r].state \in {"pending", "running"}
                          /\ runs[r].via = "exec" => runs[r].state = "running"
  BY DEF StopRun
<1>4. CASE Failed(u) /\ UNCHANGED runs
  BY <1>1, <1>4, IdsStops
<1>5. CASE /\ Wrote(u, f)
           /\ \E S : /\ Stopping(S)
                     /\ \A r \in S : r \in DOMAIN runs =>
                            /\ runs[r].state \in {"pending", "running"}
                            /\ runs[r].via = "exec" => runs[r].state = "running"
  <2>1. HeadSound(runs, dir)' /\ After(runs, dir, runs', dir')
    BY <1>1, <1>2, <1>5, StoppingIds
  <2>2. /\ ps[u].kind = "stop" /\ Past(ps[u], "stop_run", Advance(ps[u]))
        /\ Pending(Advance(ps[u])) \subseteq {"stop_run"}
    <3>1. "stop_run" \in CallsOf(ps[u].kind) /\ Past(ps[u], "stop_run", Advance(ps[u]))
      BY <1>1, StepIs
    <3>2. ps[u].kind = "stop"
      BY <3>1, LauncherAssumption
         DEF CallsOf, SandboxCalls, ClusterCalls, StopCalls, LaunchCalls, DeleteCalls
    <3> QED
      BY <1>2, <3>1, <3>2 DEF Past, Formed, CallsOf
  <2>3. Noted(ps[u], f) /\ f.run = 0
    BY <1>2 DEF Noted, Commands
  <2> HIDE DEF f
  <2>4. Keeps(f, d) /\ Pending(d) = Pending(Advance(ps[u])) /\ d.kind = ps[u].kind
    BY <1>2, <2>2, <2>3, NotedIs
  <2>5. LaunchSound(d, runs', dir') /\ ~Launching(d)
    BY <2>2, <2>4 DEF LaunchSound, Launching, Trains
  <2>6. ps' = [v \in Users |-> IF v = u THEN d ELSE [ps[v] EXCEPT !.calm = FALSE]]
    BY <1>5 DEF Wrote
  <2> HIDE DEF d
  <2> QED
    BY <2>1, <2>5, <2>6, IdsStep
<1> QED
  BY <1>3, <1>4, <1>5

\* The pid that is waited for is that of the run that was launched.
LEMMA PollPidIds == ASSUME Sound, IdsSound, NEW u \in Users, PollPid(u) PROVE IdsSound'
<1> DEFINE c == ps[u]
           d == Advance(ps[u])
<1>1. At(u, "poll_pid") /\ dir[c.id].pid # 0 /\ Done(u, c) /\ UNCHANGED <<runs, dir>>
  BY DEF PollPid, head
<1>2. /\ LaunchSound(c, runs, dir) /\ Formed(c) /\ c \in Commands
      /\ c.run \in 0 .. Len(runs) /\ HeadSound(runs, dir) /\ HeadTyped(runs, dir)
      /\ Len(runs) \in Nat /\ DOMAIN runs = 1 .. Len(runs)
  BY LaunchesAre
<1>3. Past(c, "poll_pid", d) /\ "poll_pid" \in Pending(c) /\ "poll_pid" \in CallsOf(c.kind) /\ c.prog # <<>>
  BY <1>1, StepIs
<1>4. ps' = [ps EXCEPT ![u] = d]
  BY <1>1 DEF Done
<1> HIDE DEF c, d
<1>5. /\ d.kind = c.kind /\ d.id = c.id /\ d.via = c.via /\ d.run = c.run
      /\ Pending(d) = Pending(c) \ {"poll_pid"}
      /\ \A x \in Pending(d) : Place(c.kind, "poll_pid") < Place(c.kind, x)
  BY <1>3 DEF Past, Keeps
<1>6. c.kind \in Trains /\ c.id \in Ids /\ c.via = "exec"
  <2>1. c.kind \in Trains
    BY <1>3, LauncherAssumption DEF CallsOf, SandboxCalls, ClusterCalls, StopCalls, DeleteCalls,
       Trains
  <2> QED
    BY <1>2, <1>3, <2>1 DEF Formed
<1>7. ~Launching(d) /\ ~Launching(c)
  <2>1. /\ Place(c.kind, "poll_pid") = 26 /\ Place(c.kind, "launch") = 25
        /\ Place(c.kind, "submit") = 25
    BY PlacesAre
  <2>2. "launch" \notin Pending(d) /\ "submit" \notin Pending(d)
    BY <1>5, <2>1
  <2> QED
    BY <1>5, <2>2 DEF Launching
<1>8. c.run # 0 /\ runs[c.run].id = c.id /\ runs[c.run].via = c.via
  BY <1>2, <1>3, <1>6, <1>7 DEF LaunchSound, Launching
<1>9. dir[c.id].pid = c.run
  <2>1. dir[c.id].pid \in 0 .. Len(runs)
    BY <1>2, <1>6 DEF HeadTyped
  <2>2. dir[c.id].pid \in DOMAIN runs /\ c.run \in DOMAIN runs
    BY <1>1, <1>2, <1>8, <2>1
  <2>3. runs[dir[c.id].pid].id = c.id
    BY <1>1, <1>2, <1>6 DEF HeadSound
  <2> QED
    BY <1>2, <1>8, <2>2, <2>3 DEF HeadSound
<1>10. LaunchSound(d, runs', dir')
  BY <1>1, <1>5, <1>7, <1>8, <1>9 DEF LaunchSound, Launching
<1>11. HeadSound(runs, dir)' /\ After(runs, dir, runs', dir')
  <2>1. HeadSound(runs, dir)'
    BY <1>1, <1>2
  <2> QED
    BY <1>1, <2>1, AfterSame
<1> QED
  BY <1>4, <1>7, <1>10, <1>11, IdsStep

\* A fresh id is that of no run and of no command under way.
LEMMA BeginIds == ASSUME ~ReuseIds, Sound, IdsSound, NEW u \in Users, Begin(u) PROVE IdsSound'
<1>1. PICK kind \in Kinds : \E o \in Options(u, kind) :
          /\ kind \in {"bringup", "attach"} => ReuseIds \/ Fresh(o.id)
          /\ ps' = [ps EXCEPT ![u] = Command(kind, o)]
  BY DEF Begin
<1>2. PICK o \in Options(u, kind) :
          /\ kind \in {"bringup", "attach"} => ReuseIds \/ Fresh(o.id)
          /\ ps' = [ps EXCEPT ![u] = Command(kind, o)]
  BY <1>1
<1> DEFINE c == Command(kind, o)
<1>3. UNCHANGED <<runs, dir>> /\ ps[u].prog = <<>>
  BY DEF Begin, head
<1>4. Formed(c) /\ Fresher(c, kind, o) /\ Pending(c) = FirstCalls(c) /\ c.prog # <<>>
  BY CommandIs
<1> HIDE DEF c
<1>5. c.kind = kind /\ c.id = o.id
  BY <1>4 DEF Fresher
<1>6. Launching(c) <=> kind \in Trains
  <2>1. CASE kind \in Trains
    <3>1. LaunchesOf(c.via) \subseteq Pending(c)
      BY <1>4, <1>5, <2>1 DEF FirstCalls, Trains
    <3> QED
      BY <2>1, <3>1 DEF Launching, LaunchesOf
  <2>2. CASE kind \notin Trains
    <3>1. Pending(c) \subseteq CallsOf(kind)
      BY <1>4, <1>5 DEF Formed
    <3>2. "launch" \notin CallsOf(kind) /\ "submit" \notin CallsOf(kind)
      BY <2>2, LauncherAssumption
         DEF CallsOf, Trains, SandboxCalls, ClusterCalls, StopCalls, DeleteCalls
    <3> QED
      BY <2>2, <3>1, <3>2 DEF Launching
  <2> QED
    BY <2>1, <2>2
<1>7. kind \in Trains =>
          /\ \A r \in DOMAIN runs : runs[r].id # c.id
          /\ \A v \in Users : ps[v].prog # <<>> => ps[v].id # c.id
  <2>1. SUFFICES ASSUME kind \in Trains
                 PROVE  /\ \A r \in DOMAIN runs : runs[r].id # c.id
                        /\ \A v \in Users : ps[v].prog # <<>> => ps[v].id # c.id
    OBVIOUS
  <2>2. Fresh(c.id)
    BY <1>2, <1>5, <2>1 DEF Trains
  <2>3. c.id \in Ids /\ c.id \in Nat
    BY <1>4, <1>5, <2>1, LauncherAssumption DEF Formed
  <2> QED
    BY <2>2, <2>3 DEF Fresh
<1>8. LaunchSound(c, runs, dir)
  BY <1>5, <1>6, <1>7 DEF LaunchSound, Launching
<1>9. ps \in [Users -> Commands]
  BY DEF Sound
<1>10. ps'[u] = c /\ \A v \in Users : v # u => ps'[v] = ps[v]
  BY <1>2, <1>9 DEF c
<1>11. \A v \in Users : Launching(ps[v]) => ps[v].prog # <<>>
  BY DEF Launching, Pending, Calls
<1>12. ASSUME NEW v \in Users, NEW w \in Users, Launching(ps'[v]), Launching(ps'[w]),
              ps'[v].id = ps'[w].id
       PROVE  v = w
  <2>1. CASE v = u /\ w # u
    BY <1>6, <1>7, <1>10, <1>11, <1>12, <2>1
  <2>2. CASE v # u /\ w = u
    BY <1>6, <1>7, <1>10, <1>11, <1>12, <2>2
  <2>3. CASE v # u /\ w # u
    BY <1>10, <1>12, <2>3 DEF IdsSound
  <2> QED
    BY <2>1, <2>2, <2>3
<1>13. ASSUME NEW v \in Users PROVE LaunchSound(ps'[v], runs', dir')
  BY <1>3, <1>8, <1>10 DEF IdsSound
<1>14. HeadSound(runs, dir)'
  BY <1>3 DEF IdsSound
<1> QED
  BY <1>12, <1>13, <1>14 DEF IdsSound, Launching, Pending

\* The run that is launched has the id that was kept for it.
LEMMA LaunchedIds ==
    ASSUME Sound, IdsSound, NEW u \in Users, NEW h \in {"launch", "submit"}, At(u, h), Launched(u)
    PROVE  IdsSound'
<1> DEFINE c == ps[u]
           n == Len(runs) + 1
           f == [ps[u] EXCEPT !.run = n]
           e == Advance(ps[u])
           d == Advance(f)
<1>1. /\ LaunchSound(c, runs, dir) /\ Formed(c) /\ c \in Commands
      /\ c.run \in 0 .. Len(runs) /\ HeadSound(runs, dir) /\ HeadTyped(runs, dir)
      /\ Len(runs) \in Nat /\ DOMAIN runs = 1 .. Len(runs) /\ runs \in Seq(Run)
  BY LaunchesAre DEF HeadTyped
<1>2. Past(c, h, e) /\ h \in Pending(c) /\ h \in CallsOf(c.kind) /\ c.prog # <<>>
  BY StepIs
<1>3. c.kind \in Trains
  <2>1. h \notin SandboxCalls \cup ClusterCalls \cup DeleteCalls \cup {"no_rayjob", "no_cluster"}
            \cup {"dra", "apply_rayjob", "wait_rayjob", "delete_dra", "stop_run"}
    BY LauncherAssumption DEF SandboxCalls, ClusterCalls, DeleteCalls
  <2> QED
    BY <1>2, <2>1 DEF CallsOf, Trains, ClusterCalls
<1>4. NewRun(u) \in Run /\ NewRun(u).id = c.id /\ NewRun(u).via = c.via /\ NewRun(u).state = "pending"
  <2>1. c.id \in Ids /\ c.via \in {"ray", "exec"}
    BY <1>1, <1>2, <1>3 DEF Formed, Commands
  <2> QED
    BY <2>1 DEF NewRun, Run, States
<1>5. /\ DOMAIN runs' = 1 .. n /\ runs'[n] = NewRun(u)
      /\ \A r \in 1 .. Len(runs) : runs'[r] = runs[r]
      /\ dir' = dir /\ Wrote(u, f)
  BY <1>1, <1>4, AppendProperties, LenProperties DEF Launched
<1>6. n \in Nat /\ n # 0 /\ \A r \in 1 .. n : r = n \/ r \in 1 .. Len(runs)
  BY <1>1
<1>7. n \in 1 .. n /\ (\A r \in 1 .. Len(runs) : r \in 1 .. n /\ r # n)
  BY <1>1
<1> HIDE DEF n
<1>8. Noted(c, f) /\ f.run = n
  BY <1>1, <1>6 DEF Noted, Commands
<1>9. e = Advance(c)
  OBVIOUS
<1>10. Wrote(u, f)
  BY <1>5
<1> HIDE DEF c, f, e
<1>11. /\ Pending(e) = Pending(c) \ {h}
       /\ \A x \in Pending(e) : Place(c.kind, h) < Place(c.kind, x)
  BY <1>2 DEF Past
<1>12. /\ Pending(e) \cap (StopCalls \cup {"launch", "submit"}) = {}
  <2>1. /\ Place(c.kind, "launch") = 25 /\ Place(c.kind, "submit") = 25
        /\ Place(c.kind, "scan") = 21 /\ Place(c.kind, "wait_exit") = 22
        /\ Place(c.kind, "list_jobs") = 23 /\ Place(c.kind, "wait_stopped") = 24
    BY PlacesAre
  <2>2. Place(c.kind, h) = 25 /\ \A x \in StopCalls \cup {"launch", "submit"} : ~ (25 < Place(c.kind, x))
    BY <2>1 DEF StopCalls
  <2> QED
    BY <1>11, <2>2
<1>13. d.kind = c.kind /\ d.id = c.id /\ d.via = c.via /\ d.run = n /\ Pending(d) = Pending(e)
  <2>1. Keeps(f, d) /\ Pending(d) = Pending(e) /\ d.kind = c.kind /\ d.via = c.via
    <3>1. /\ Past(c, h, e) /\ Formed(c) /\ Noted(c, f) /\ e = Advance(c)
          /\ Pending(e) \cap (StopCalls \cup {"launch", "submit"}) # {} => f.run = 0
      BY <1>1, <1>2, <1>8, <1>9, <1>12
    <3> QED
      BY <3>1, NotedIs
  <2> QED
    BY <1>8, <2>1 DEF Keeps, Noted
<1>14. \A r \in DOMAIN runs : runs[r].id # c.id
  BY <1>1, <1>2, <1>3 DEF LaunchSound
<1>15. LaunchSound(d, runs', dir')
  <2>1. ~Launching(d) /\ d.run # 0 /\ runs'[d.run].id = d.id /\ runs'[d.run].via = d.via
    BY <1>4, <1>5, <1>6, <1>12, <1>13 DEF Launching
  <2>2. d.via = "exec" => "poll_pid" \in Pending(d)
    <3>1. c.via = "exec" => h = "launch"
      BY <1>1, <1>2 DEF Formed
    <3>2. h = "launch" => "poll_pid" \in Pending(c)
      BY <1>1, <1>2 DEF Formed, Paired
    <3> QED
      BY <1>11, <1>13, <3>1, <3>2
  <2> QED
    BY <2>1, <2>2 DEF LaunchSound, Launching
<1>16. ps \in [Users -> Commands]
  BY DEF Sound
<1>17. ps'[u] = d /\ \A v \in Users : v # u => ps'[v] = [ps[v] EXCEPT !.calm = FALSE]
  BY <1>10 DEF Wrote
<1> HIDE DEF d
<1>18. ~Launching(d)
  BY <1>12, <1>13 DEF Launching
<1>19. ASSUME NEW v \in Users, v # u
       PROVE  LaunchSound(ps'[v], runs', dir') /\ (Launching(ps'[v]) => Launching(ps[v]))
              /\ ps'[v].id = ps[v].id
  <2>1. Resumes(ps[v], ps'[v])
    BY <1>16, <1>17, <1>19, MutedResumes
  <2>2. /\ LaunchSound(ps[v], runs, dir) /\ ps[v].run \in 0 .. Len(runs)
    BY LaunchesAre
  <2>3. After(runs, dir, runs, dir)
    BY AfterSame
  <2>4. LaunchSound(ps'[v], runs, dir) /\ (Launching(ps'[v]) <=> Launching(ps[v]))
        /\ ps'[v].id = ps[v].id /\ ps'[v].run = ps[v].run
    BY <1>1, <2>1, <2>2, <2>3, LaunchKeeps DEF Resumes
  <2>5. Launching(c)
    BY <1>2 DEF Launching
  <2>6. Launching(ps'[v]) => ps'[v].id # c.id
    BY <1>19, <2>4, <2>5 DEF IdsSound, c
  <2>7. LaunchSound(ps'[v], runs', dir')
    <3>1. SUFFICES ASSUME ps'[v].kind \in Trains, ps'[v].prog # <<>>
                   PROVE  LaunchSound(ps'[v], runs', dir')
      BY DEF LaunchSound
    <3>2. CASE Launching(ps'[v])
      <4>1. \A r \in DOMAIN runs : runs[r].id # ps'[v].id
        BY <2>4, <3>1, <3>2 DEF LaunchSound, Launching
      <4>2. \A r \in DOMAIN runs' : runs'[r].id # ps'[v].id
        BY <1>1, <1>4, <1>5, <1>6, <2>6, <3>2, <4>1
      <4> QED
        BY <3>2, <4>2 DEF LaunchSound, Launching
    <3>3. CASE ~Launching(ps'[v])
      <4>1. ps'[v].run # 0 /\ ps'[v].run \in 0 .. Len(runs)
        BY <2>2, <2>4, <3>1, <3>3 DEF LaunchSound, Launching
      <4>2. ps'[v].run \in 1 .. Len(runs)
        BY <1>1, <4>1
      <4>3. runs'[ps'[v].run] = runs[ps'[v].run] /\ dir' = dir
        BY <1>5, <4>2
      <4> QED
        BY <2>4, <3>1, <3>3, <4>3 DEF LaunchSound, Launching
    <3> QED
      BY <3>2, <3>3
  <2> QED
    BY <2>4, <2>7
<1>20. HeadSound(runs', dir')
  <2>1. \A r, s \in DOMAIN runs' : runs'[r].id = runs'[s].id => r = s
    BY <1>1, <1>4, <1>5, <1>6, <1>14 DEF HeadSound
  <2>2. \A i \in Ids : dir[i].pid \in 0 .. Len(runs)
    BY <1>1 DEF HeadTyped
  <2>3. \A i \in Ids : dir[i].pid # 0 => dir[i].pid \in 1 .. Len(runs)
    BY <1>1, <2>2
  <2>4. \A r \in DOMAIN runs' : runs'[r].via = "exec" /\ runs'[r].state \in {"running", "stopping"}
            => r \in 1 .. Len(runs)
    BY <1>4, <1>5, <1>6
  <2>5. ASSUME NEW r \in DOMAIN runs', runs'[r].via = "exec" /\ runs'[r].state \in {"running", "stopping"}
        PROVE  dir'[runs'[r].id].pid = r
    BY <1>1, <1>5, <2>4, <2>5 DEF HeadSound
  <2>6. ASSUME NEW i \in Ids
        PROVE  LET p == dir'[i].pid
               IN  IF p = 0
                   THEN dir'[i].exitcode = "none"
                   ELSE /\ runs'[p].id = i /\ runs'[p].via = "exec" /\ runs'[p].state # "pending"
                        /\ dir'[i].exitcode \in Codes(runs'[p].state)
    <3>1. dir[i].pid # 0 => runs'[dir[i].pid] = runs[dir[i].pid]
      BY <1>5, <2>3
    <3>2. dir' = dir
      BY <1>5
    <3> QED
      BY <1>1, <3>1, <3>2 DEF HeadSound
  <2> QED
    BY <2>1, <2>5, <2>6 DEF HeadSound
<1>21. ASSUME NEW v \in Users PROVE LaunchSound(ps'[v], runs', dir')
  BY <1>15, <1>17, <1>19
<1>22. ASSUME NEW v \in Users, NEW w \in Users, Launching(ps'[v]), Launching(ps'[w]),
              ps'[v].id = ps'[w].id
       PROVE  v = w
  BY <1>17, <1>18, <1>19, <1>22 DEF IdsSound
<1> QED
  BY <1>20, <1>21, <1>22 DEF IdsSound, Launching, Pending

\* A launch by either transport.
LEMMA LaunchIds ==
    ASSUME Sound, IdsSound, NEW u \in Users, Launch(u) \/ SubmitJob(u) PROVE IdsSound'
<1>1. CASE Launch(u)
  BY <1>1, LaunchedIds DEF Launch, Launched, kube
<1>2. CASE SubmitJob(u)
  <2>1. At(u, "submit") /\ UNCHANGED <<rc, rj, parts, dir>>
    BY <1>2 DEF SubmitJob, kube
  <2>2. \/ Failed(u) /\ UNCHANGED runs
        \/ runs' = Append(runs, NewRun(u)) /\ Wrote(u, [ps[u] EXCEPT !.run = Len(runs) + 1])
    BY <1>2 DEF SubmitJob
  <2> QED
    BY <2>1, <2>2, LaunchedIds, IdsStops DEF Launched
<1> QED
  BY <1>1, <1>2

\* A step of nobody's command.
LEMMA IdsElsewhere ==
    ASSUME Sound, IdsSound, ps' = ps, HeadSound(runs, dir)', After(runs, dir, runs', dir')
    PROVE  IdsSound'
<1>1. ASSUME NEW u \in Users PROVE LaunchSound(ps'[u], runs', dir')
  <2>1. /\ LaunchSound(ps[u], runs, dir) /\ ps[u].run \in 0 .. Len(runs)
        /\ Len(runs) \in Nat /\ DOMAIN runs = 1 .. Len(runs)
    BY LaunchesAre
  <2>2. LaunchSound(ps[u], runs', dir')
    BY <2>1, SameResumes, LaunchKeeps
  <2> QED
    BY <2>2
<1> QED
  BY <1>1 DEF IdsSound, Launching, Pending

\* A cluster that is gone takes the directories with it.
LEMMA ClusterGoneIds == ASSUME Sound, IdsSound, ClusterGone PROVE IdsSound'
<1>1. HeadTyped(runs, dir) /\ HeadSound(runs, dir) /\ ps' = ps
  BY DEF Sound, WorldTyped, IdsSound, ClusterGone
<1>2. /\ Fewer(runs, runs') /\ dir' = [i \in Ids |-> NoDir]
      /\ \A r \in DOMAIN runs' : runs'[r].state \in Ended
  BY <1>1, GoneIs
<1>3. \A i \in Ids : dir'[i].pid = 0 /\ dir'[i].exitcode = "none"
  BY <1>2 DEF NoDir
<1>4. HeadSound(runs, dir)'
  <2>1. \A r, s \in DOMAIN runs' : runs'[r].id = runs'[s].id => r = s
    BY <1>1, <1>2 DEF HeadSound, Fewer
  <2>2. \A r \in DOMAIN runs' : runs'[r].state \notin {"running", "stopping"}
    BY <1>2 DEF Ended
  <2> QED
    BY <1>3, <2>1, <2>2 DEF HeadSound
<1>5. After(runs, dir, runs', dir')
  BY <1>2 DEF After, Fewer
<1> QED
  BY <1>1, <1>4, <1>5, IdsElsewhere

\* A run writes its pid when it starts and its exit code when it ends.
LEMMA RunIds ==
    ASSUME Sound, IdsSound, NEW r \in DOMAIN runs, RunStarts(r) \/ RunEnds(r) \/ RunStops(r)
    PROVE  IdsSound'
<1> DEFINE i == runs[r].id
<1>1. HeadTyped(runs, dir) /\ HeadSound(runs, dir) /\ ps' = ps
  BY DEF Sound, WorldTyped, IdsSound, RunStarts, RunEnds, RunStops
<1>2. PICK st \in States :
          /\ SetRun(r, st)
          /\ \/ /\ RunStarts(r) /\ st = "running" /\ runs[r].state = "pending"
                /\ dir' = IF runs[r].via = "exec" THEN [dir EXCEPT ![i].pid = r] ELSE dir
             \/ /\ RunEnds(r) /\ st \in {"succeeded", "failed"} /\ runs[r].state = "running"
                /\ \/ runs[r].via = "exec" /\ dir' = [dir EXCEPT ![i].exitcode = st]
                   \/ dir' = dir
             \/ /\ RunStops(r) /\ st = "stopped" /\ runs[r].state = "stopping" /\ dir' = dir
  BY DEF RunStarts, RunEnds, RunStops, States, Ended
<1>3. /\ Fewer(runs, runs') /\ runs'[r].state = st
      /\ \A s \in DOMAIN runs : s # r => runs'[s] = runs[s]
  <2>1. st \in Ended \/ runs[r].state \in {"pending", "running", "stopping"}
    BY <1>2
  <2> QED
    BY <1>1, <1>2, <2>1, RunStepIs
<1>4. /\ DOMAIN runs' = DOMAIN runs /\ runs'[r].id = i /\ runs'[r].via = runs[r].via
      /\ \A s \in DOMAIN runs : runs'[s].id = runs[s].id /\ runs'[s].via = runs[s].via
  BY <1>3 DEF Fewer
<1>5. /\ runs \in Seq(Run) /\ Len(runs) \in Nat /\ DOMAIN runs = 1 .. Len(runs)
      /\ dir \in [Ids -> [pid : 0 .. Len(runs), exitcode : {"none", "succeeded", "failed"}]]
  BY <1>1, LenProperties DEF HeadTyped
<1>6. i \in Ids /\ r # 0
  <2>1. runs[r] \in Run
    BY <1>5, ElementOfSeq
  <2> QED
    BY <1>5, <2>1 DEF Run
<1>7. \A j \in Ids : dir[j].pid # 0 => dir[j].pid \in DOMAIN runs
  BY <1>5
<1>8. \A s \in DOMAIN runs : runs[s].id = i => s = r
  BY <1>1 DEF HeadSound
<1>9. runs[r].via # "exec" => dir' = dir /\ \A j \in Ids : dir[j].pid # r
  BY <1>1, <1>2, <1>6 DEF HeadSound
<1>10. runs[r].via = "exec" /\ runs[r].state = "pending" => dir[i].pid = 0
  <2>1. SUFFICES ASSUME runs[r].state = "pending", dir[i].pid # 0 PROVE FALSE
    OBVIOUS
  <2>2. dir[i].pid \in DOMAIN runs /\ runs[dir[i].pid].id = i /\ runs[dir[i].pid].state # "pending"
    BY <1>1, <1>6, <1>7, <2>1 DEF HeadSound
  <2> QED
    BY <1>8, <2>1, <2>2
<1>11. runs[r].via = "exec" /\ runs[r].state \in {"running", "stopping"} => dir[i].pid = r
  BY <1>1 DEF HeadSound
<1>12. \A j \in Ids : j # i => dir'[j] = dir[j]
  BY <1>2, <1>5
<1>13. runs[r].via = "exec" =>
           /\ dir'[i].pid = r
           /\ dir'[i].exitcode \in Codes(st)
  <2>1. SUFFICES ASSUME runs[r].via = "exec"
                 PROVE  /\ dir'[i].pid = r
                        /\ dir'[i].exitcode \in Codes(st)
    OBVIOUS
  <2>2. dir[i].pid = 0 => dir[i].exitcode = "none"
    BY <1>1, <1>6 DEF HeadSound
  <2>3. dir[i].pid = r => dir[i].exitcode \in Codes(runs[r].state)
    BY <1>1, <1>6 DEF HeadSound
  <2> QED
    BY <1>2, <1>5, <1>6, <1>10, <1>11, <2>1, <2>2, <2>3 DEF Codes
<1> HIDE DEF i
<1>14. HeadSound(runs, dir)'
  <2>1. \A s, t \in DOMAIN runs' : runs'[s].id = runs'[t].id => s = t
    BY <1>1, <1>4 DEF HeadSound
  <2>2. ASSUME NEW s \in DOMAIN runs', runs'[s].via = "exec", runs'[s].state \in {"running", "stopping"}
        PROVE  dir'[runs'[s].id].pid = s
    <3>1. CASE s = r
      BY <1>4, <1>13, <2>2, <3>1
    <3>2. CASE s # r
      <4>1. runs'[s] = runs[s] /\ s \in DOMAIN runs /\ runs[s].id # i
        BY <1>3, <1>4, <1>8, <2>2, <3>2
      <4>2. runs[s].id \in Ids
        <5>1. runs[s] \in Run
          BY <1>5, <4>1, ElementOfSeq
        <5> QED
          BY <5>1 DEF Run
      <4> QED
        BY <1>1, <1>12, <2>2, <4>1, <4>2 DEF HeadSound
    <3> QED
      BY <3>1, <3>2
  <2>3. ASSUME NEW j \in Ids
        PROVE  LET p == dir'[j].pid
               IN  IF p = 0
                   THEN dir'[j].exitcode = "none"
                   ELSE /\ runs'[p].id = j /\ runs'[p].via = "exec" /\ runs'[p].state # "pending"
                        /\ dir'[j].exitcode \in Codes(runs'[p].state)
    <3>1. CASE j = i /\ runs[r].via = "exec"
      <4>1. st # "pending"
        BY <1>2
      <4> QED
        BY <1>3, <1>4, <1>6, <1>13, <3>1, <4>1
    <3>2. CASE ~ (j = i /\ runs[r].via = "exec")
      <4>1. dir'[j] = dir[j] /\ dir[j].pid # r
        <5>1. CASE runs[r].via # "exec"
          BY <1>9, <5>1
        <5>2. CASE j # i
          <6>1. dir[j].pid # r
            <7>1. dir[j].pid # 0 => runs[dir[j].pid].id = j
              BY <1>1 DEF HeadSound
            <7> QED
              BY <1>6, <5>2, <7>1 DEF i
          <6> QED
            BY <1>12, <5>2, <6>1
        <5> QED
          BY <3>2, <5>1, <5>2
      <4>2. dir[j].pid # 0 => runs'[dir[j].pid] = runs[dir[j].pid]
        BY <1>3, <1>7, <4>1
      <4> QED
        BY <1>1, <4>1, <4>2 DEF HeadSound
    <3> QED
      BY <3>1, <3>2
  <2> QED
    BY <2>1, <2>2, <2>3 DEF HeadSound
<1>15. After(runs, dir, runs', dir')
  <2>1. ASSUME NEW s \in DOMAIN runs, dir[runs[s].id].pid = s \/ runs[s].state \in Ended
        PROVE  dir'[runs[s].id].pid = s \/ runs'[s].state \in Ended
    <3>1. CASE s = r
      <4>1. runs[r].state \notin Ended
        BY <1>2 DEF Ended
      <4>2. dir[i].pid = r
        BY <2>1, <3>1, <4>1 DEF i
      <4>3. runs[r].via = "exec"
        BY <1>6, <1>9, <4>2
      <4> QED
        BY <1>13, <3>1, <4>3 DEF i
    <3>2. CASE s # r
      <4>1. runs'[s] = runs[s] /\ runs[s].id # i
        BY <1>3, <1>8, <3>2
      <4>2. runs[s].id \in Ids
        <5>1. runs[s] \in Run
          BY <1>5, ElementOfSeq
        <5> QED
          BY <5>1 DEF Run
      <4> QED
        BY <1>12, <2>1, <4>1, <4>2
    <3> QED
      BY <3>1, <3>2
  <2> QED
    BY <1>4, <2>1 DEF After
<1> QED
  BY <1>1, <1>14, <1>15, IdsElsewhere

\* No run and no directory at first.
LEMMA InitIds == Sound /\ Init => IdsSound
<1> SUFFICES ASSUME Sound, Init PROVE IdsSound
  OBVIOUS
<1>1. runs = <<>> /\ DOMAIN runs = {} /\ dir = [i \in Ids |-> NoDir] /\ ps = [u \in Users |-> Shell]
  BY DEF Init
<1>2. Shell.prog = <<>> /\ Shell.kind = "none"
  BY DEF Shell
<1>3. HeadSound(runs, dir)
  BY <1>1 DEF HeadSound, NoDir
<1>4. Calls(<<>>) = {}
  BY EmptySeq DEF Calls
<1>5. ASSUME NEW u \in Users PROVE LaunchSound(ps[u], runs, dir) /\ ~Launching(ps[u])
  <2>1. ps[u].prog = <<>>
    BY <1>1, <1>2
  <2> QED
    BY <1>4, <2>1 DEF LaunchSound, Launching, Pending
<1> QED
  BY <1>3, <1>5 DEF IdsSound

\* Every step of a user.
LEMMA StepIds == ASSUME ~ReuseIds, Sound, IdsSound, NEW u \in Users, Step(u) PROVE IdsSound'
<1>1. CASE \/ Abort(u) \/ GetDeployment(u) \/ ApplyPart(u) \/ WaitDeployment(u) \/ DeletePart(u)
           \/ CheckCollision(u) \/ ApplyCluster(u) \/ WaitReady(u) \/ DeleteCluster(u)
           \/ ApplyRayJob(u) \/ WaitRayJob(u) \/ SaveHandle(u)
  BY <1>1, KubeIds
<1>2. CASE Begin(u)
  BY <1>2, BeginIds
<1>3. CASE GetCluster(u)
  BY <1>3, GetClusterIds
<1>4. CASE WaitGone(u)
  BY <1>4, WaitGoneIds
<1>5. CASE Scan(u)
  BY <1>5, ScanIds
<1>6. CASE ListJobs(u)
  BY <1>6, ListJobsIds
<1>7. CASE WaitStopped(u)
  BY <1>7, WaitStoppedIds
<1>8. CASE Launch(u) \/ SubmitJob(u)
  BY <1>8, LaunchIds
<1>9. CASE PollPid(u)
  BY <1>9, PollPidIds
<1>10. CASE StopRun(u)
  BY <1>10, StopRunIds
<1> QED
  BY <1>1, <1>2, <1>3, <1>4, <1>5, <1>6, <1>7, <1>8, <1>9, <1>10 DEF Step

\* The invariant is inductive, given the first.
LEMMA NextIds == ~ReuseIds /\ Sound /\ IdsSound /\ [Next]_vars => IdsSound'
<1> SUFFICES ASSUME ~ReuseIds, Sound, IdsSound, [Next]_vars PROVE IdsSound'
  OBVIOUS
<1>1. ASSUME NEW u \in Users, Step(u) PROVE IdsSound'
  BY <1>1, StepIds
<1>2. CASE External
  <2>1. CASE ClusterReady \/ RayJobStep
    <3>1. UNCHANGED <<ps, runs, dir>>
      BY <2>1 DEF ClusterReady, RayJobStep, head
    <3> QED
      BY <3>1 DEF IdsSound, Launching, Pending
  <2>2. CASE ClusterGone
    BY <2>2, ClusterGoneIds
  <2>3. CASE \E r \in DOMAIN runs : RunStarts(r) \/ RunEnds(r) \/ RunStops(r)
    BY <2>3, RunIds
  <2> QED
    BY <1>2, <2>1, <2>2, <2>3 DEF External
<1>3. CASE UNCHANGED vars
  BY <1>3 DEF vars, IdsSound, Launching, Pending
<1> QED
  BY <1>1, <1>2, <1>3 DEF Next

\* When --run-id never names an id twice, an id is that of one run and one
\* directory, from the command that was given it to the exit code.
THEOREM IdsAreSound == ~ReuseIds => (Spec => []IdsSound)
<1> SUFFICES ASSUME ~ReuseIds PROVE Spec => []IdsSound
  OBVIOUS
<1>1. Sound /\ Sound' /\ IdsSound /\ [Next]_vars => IdsSound'
  BY NextIds
<1> QED
  BY <1>1, InitIds, InitSound, Soundness, PTL DEF Spec

\* What the two invariants say of a submission that has been launched.
LEMMA SoundRuns == Sound /\ IdsSound => RunsSound
<1> SUFFICES ASSUME Sound, IdsSound PROVE RunsSound
  OBVIOUS
<1>1. ReplaceAlone
  BY SoundAlone
<1>2. OwnPid
  <2>1. SUFFICES ASSUME NEW u \in Users, At(u, "save_handle"), ps[u].via = "exec"
                 PROVE  dir[ps[u].id].pid = ps[u].run \/ runs[ps[u].run].state \in Ended
    BY DEF OwnPid
  <2> DEFINE c == ps[u]
             d == Advance(ps[u])
  <2>2. Past(c, "save_handle", d) /\ "save_handle" \in CallsOf(c.kind) /\ c.prog # <<>>
    BY <2>1, StepIs
  <2>3. LaunchSound(c, runs, dir) /\ c.via = "exec"
    BY <2>1 DEF IdsSound
  <2> HIDE DEF c, d
  <2>4. c.kind \in Trains
    BY <2>2, LauncherAssumption DEF CallsOf, SandboxCalls, ClusterCalls, StopCalls, DeleteCalls,
       Trains
  <2>5. \A x \in {"launch", "submit", "poll_pid"} : x \notin Pending(c)
    <3>1. /\ Place(c.kind, "save_handle") = 27 /\ Place(c.kind, "poll_pid") = 26
          /\ Place(c.kind, "launch") = 25 /\ Place(c.kind, "submit") = 25
      BY PlacesAre
    <3>2. /\ Pending(d) = Pending(c) \ {"save_handle"}
          /\ \A x \in Pending(d) : Place(c.kind, "save_handle") < Place(c.kind, x)
      BY <2>2 DEF Past
    <3> QED
      BY <3>1, <3>2
  <2>6. dir[c.id].pid = c.run \/ runs[c.run].state \in Ended
    BY <2>2, <2>3, <2>4, <2>5 DEF LaunchSound
  <2> QED
    BY <2>6 DEF c
<1>3. StatusHonest
  <2>1. SUFFICES ASSUME NEW r \in DOMAIN runs, runs[r].via = "exec", dir[runs[r].id].pid = r
                 PROVE  ExecStatus(runs[r].id) \in
                            IF Live(r) THEN {"running"} ELSE {runs[r].state, "stopped"}
    BY DEF StatusHonest
  <2>2. runs \in Seq(Run) /\ DOMAIN runs = 1 .. Len(runs) /\ Len(runs) \in Nat
    BY LenProperties DEF Sound, WorldTyped, HeadTyped
  <2>3. runs[r] \in Run /\ r # 0
    BY <2>2, ElementOfSeq
  <2>4. runs[r].id \in Ids /\ runs[r].state \in States
    BY <2>3 DEF Run
  <2>5. dir[runs[r].id].exitcode \in Codes(runs[r].state)
    BY <2>1, <2>3, <2>4 DEF IdsSound, HeadSound
  <2> QED
    BY <2>1, <2>3, <2>4, <2>5 DEF ExecStatus, Live, States, Ended, Codes
<1> QED
  BY <1>1, <1>2, <1>3 DEF RunsSound

\* Then a submission, the handle that is saved for it and the status that is read
\* through it are about one run: the pid a submission waited for is its own run's,
\* and a status says running exactly while it lives, and succeeded or failed only
\* of a run that did; stopped, also of one that wrote no exit code.
THEOREM RunsAreSound == ~ReuseIds => (Spec => []RunsSound)
<1> SUFFICES ASSUME ~ReuseIds PROVE Spec => []RunsSound
  OBVIOUS
<1>1. Spec => []IdsSound
  BY IdsAreSound
<1> QED
  BY <1>1, SoundRuns, Soundness, PTL

===============================================================================
