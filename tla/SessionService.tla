--------------------------- MODULE SessionService ---------------------------
(***************************************************************************)
(* What the sandbox executor promises its clients about sessions: the life  *)
(* of a session as GET /session/<id> shows it.  A client may delete a        *)
(* session or let it run idle; the executor removes it then.  A removed      *)
(* session never comes back: its id is answered 404 from then on.            *)
(* SandboxExecutor implements this module; SessionRollout is built on it.    *)
(***************************************************************************)
CONSTANTS
    Sids        \* session ids (uuid4: never used twice)

VARIABLE status

Statuses == {"none", "starting", "ready", "finishing", "failed", "gone"}
Live(s) == status[s] \notin {"none", "gone"}

ServiceInit == status = [s \in Sids |-> "none"]

SetStatus(s, st) == status' = [status EXCEPT ![s] = st]

\* POST /session/start.
Start(s) == status[s] = "none" /\ SetStatus(s, "starting")

\* The bootstrap ends: the container runs, or something went wrong.
Ready(s) == status[s] = "starting" /\ SetStatus(s, "ready")
Fail(s) == status[s] = "starting" /\ SetStatus(s, "failed")

\* POST /session/<id>/finish: only one caller ever gets past the guard.
Finish(s) == status[s] = "ready" /\ SetStatus(s, "finishing")

\* DELETE, the end of finish, or the reaper.  DELETE is refused while starting;
\* the reaper takes a session whose bootstrap outlasts DOCKYARD_SESSION_MAX_AGE.
Remove(s) ==
    /\ Live(s)
    /\ SetStatus(s, "gone")

ServiceNext ==
    \E s \in Sids : Start(s) \/ Ready(s) \/ Fail(s) \/ Finish(s) \/ Remove(s)

ServiceSpec == ServiceInit /\ [][ServiceNext]_status
=============================================================================
