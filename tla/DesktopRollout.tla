--------------------------- MODULE DesktopRollout ---------------------------
(***************************************************************************)
(* The computer-use environment: OSWorldEnvironment (experience/cua/         *)
(* environment.py) on the control-center backend, whose provisioner leases   *)
(* every episode a host of a bounded pool (provisioner.py).  The actor runs   *)
(* its methods in several threads.                                            *)
(***************************************************************************)
EXTENDS RolloutLoop, Sequences

CONSTANTS
    Hosts           \* the hosts of the pool

NoHost == "no host"

ASSUME DesktopAssumption ==
    IsFiniteSet(Hosts) /\ Hosts # {} /\ NoHost \notin Hosts

VARIABLES
    impatient,  \* acquire_timeout is set (null: wait for ever)
    pools,      \* the provisioners built: each a bag of free hosts
    provisioner,\* self._provisioner, an index of pools; 0: None
    asked,      \* the provisioner whose acquire p is in
    lease,      \* the host of p's handle, or NoHost
    episodes,   \* the samples in self._episodes
    lost        \* history: the hosts leased and never to be released

desktopVars == <<impatient, pools, provisioner, asked, lease, episodes, lost>>

DesktopInit ==
    /\ impatient \in IF kind = "desktop" THEN BOOLEAN ELSE {FALSE}
    /\ pools = <<>> /\ provisioner = 0
    /\ asked = [p \in Samples |-> 0]
    /\ lease = [p \in Samples |-> NoHost]
    /\ episodes = {} /\ lost = {}

\* begin_episode, backend.start: _get_provisioner builds the pool on first use,
\* without a lock.
GetProvisioner(p) ==
    /\ phase[p] = "begin"
    /\ IF provisioner = 0
       THEN To(p, "build") /\ UNCHANGED asked
       ELSE To(p, "acquire") /\ asked' = [asked EXCEPT ![p] = provisioner]
    /\ UNCHANGED <<kind, maxTurns, turns, cut, over, total, ending,
                   impatient, pools, provisioner, lease, episodes, lost>>

Full == [h \in Hosts |-> 1]

BuildProvisioner(p) ==
    /\ phase[p] = "build"
    /\ pools' = Append(pools, Full)
    /\ provisioner' = Len(pools) + 1
    /\ asked' = [asked EXCEPT ![p] = Len(pools) + 1]
    /\ To(p, "acquire")
    /\ UNCHANGED <<kind, maxTurns, turns, cut, over, total, ending,
                   impatient, lease, episodes, lost>>

\* The queue blocks while it is empty, or until acquire_timeout.
Acquire(p) ==
    /\ phase[p] = "acquire"
    /\ \E h \in Hosts :
        /\ pools[asked[p]][h] > 0
        /\ pools' = [pools EXCEPT ![asked[p]][h] = @ - 1]
        /\ lease' = [lease EXCEPT ![p] = h]
    /\ To(p, "setup")
    /\ UNCHANGED <<kind, maxTurns, turns, cut, over, total, ending,
                   impatient, provisioner, asked, episodes, lost>>

\* begin_episode returns an error, and the sample is over.
AcquireTimesOut(p) ==
    /\ impatient
    /\ phase[p] = "acquire" /\ \A h \in Hosts : pools[asked[p]][h] = 0
    /\ End(p, "error")
    /\ UNCHANGED <<kind, maxTurns, turns, total, desktopVars>>

\* connect and the task's setup; then the episode is stored and observed.
Setup(p) ==
    /\ phase[p] = "setup"
    /\ episodes' = episodes \cup {p}
    /\ To(p, "generate")
    /\ UNCHANGED <<kind, maxTurns, turns, cut, over, total, ending,
                   impatient, pools, provisioner, asked, lease, lost>>

\* One of them raises.  Nothing stops the handle, which is lost if the episode
\* was not stored yet.
SetupRaises(p) ==
    /\ phase[p] = "setup"
    /\ \/ episodes' = episodes \cup {p} /\ UNCHANGED <<lost, lease>>
       \/ /\ lost' = lost \cup {lease[p]}
          /\ lease' = [lease EXCEPT ![p] = NoHost]
          /\ UNCHANGED episodes
    /\ End(p, "error")
    /\ UNCHANGED <<kind, maxTurns, turns, total, impatient, pools, provisioner, asked>>

\* Mutants: the host is not returned; it is returned twice.
StopKeeps(p) ==
    /\ lease' = [lease EXCEPT ![p] = NoHost]
    /\ episodes' = episodes \ {p}
    /\ UNCHANGED <<impatient, pools, provisioner, asked, lost>>

StopTwice(p) ==
    /\ pools' = [pools EXCEPT ![provisioner][lease[p]] = @ + 2]
    /\ lease' = [lease EXCEPT ![p] = NoHost]
    /\ episodes' = episodes \ {p}
    /\ UNCHANGED <<impatient, provisioner, asked, lost>>

\* backend.stop, _drop: the host goes back to whatever provisioner there is now.
Stop(p) ==
    /\ pools' = [pools EXCEPT ![provisioner][lease[p]] = @ + 1]
    /\ lease' = [lease EXCEPT ![p] = NoHost]
    /\ episodes' = episodes \ {p}
    /\ UNCHANGED <<impatient, provisioner, asked, lost>>

\* _process_one: act, observe, and on a final action or the last turn evaluate;
\* an exception ends the episode with no reward.  Either way of ending stops it.
StepDesktop(p) ==
    /\ kind = "desktop" /\ InStep(p)
    /\ \/ turns[p] < maxTurns /\ StepReturns(p, FALSE, 0) /\ UNCHANGED desktopVars
       \/ \E r \in 0 .. 1 : StepReturns(p, TRUE, r) /\ Stop(p)

DesktopSample(p) ==
    \/ GetProvisioner(p) \/ BuildProvisioner(p) \/ Acquire(p) \/ AcquireTimesOut(p)
    \/ Setup(p) \/ SetupRaises(p) \/ StepDesktop(p)

DesktopNext == \E p \in Samples : DesktopSample(p)

-------------------------------------------------------------------------------
\* The times that a host stands in the pools, and the samples it is leased to.
Free(h) == UNION {{k} \X (1 .. pools[k][h]) : k \in 1 .. Len(pools)}
Leased(h) == {p \in Samples : lease[p] = h}

\* "two episodes never drive the same container at once" (provisioner.py): a
\* host is free, or with one episode, or lost, never two of these.  When the
\* first episodes race to build the pool there are two, and so many uses of it.
HostsSound ==
    \A h \in Hosts :
        LET uses == Cardinality(Free(h)) + Cardinality(Leased(h))
        IN  /\ uses <= Len(pools)
            /\ Len(pools) = 1 => uses + (IF h \in lost THEN 1 ELSE 0) = 1

\* Every host is lost, or kept by a sample that is done: truncated, out of
\* turns, failed to generate.  Nothing but the end of the actor returns those.
\* (Hosts leased from one of two pools are returned to the other, which may
\* keep a sample waiting as well.)
PoolExhausted ==
    \/ Len(pools) > 1
    \/ \A h \in Hosts : h \in lost \/ \E p \in Samples : lease[p] = h /\ Done(p)
=============================================================================
