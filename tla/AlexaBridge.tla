---------------------------- MODULE AlexaBridge ----------------------------
(***************************************************************************)
(* alexa_daemon.py and alexa_bridge.py: the skill posts a task and is      *)
(* answered at once, the task runs on a thread of its own, and what came   *)
(* of it is read back at /last and sent over Telegram.  Each request of    *)
(* the skill is served by its own thread.                                  *)
(***************************************************************************)
EXTENDS Integers, FiniteSets

CONSTANTS
    Posts,        \* requests that the skill makes, each with a task
    MaxRestarts,  \* bound: ends of the process
    Nobody

\* What is assumed of the constants.
AlexaAssumption == IsFiniteSet(Posts) /\ MaxRestarts \in Nat /\ Nobody \notin Posts

VARIABLES
    configured,   \* is_configured: there is a bridge token
    at,           \* where each post and its task are
    reply,        \* the HTTP status it was answered with
    runLock,      \* _run_lock: the post that took it
    ended,        \* finished_at: the tasks that have ended before this one's end
    saved,        \* LAST_RESULT_FILE: the task of its record
    delivered,    \* tasks sent over Telegram
    restarts

vars == <<configured, at, reply, runLock, ended, saved, delivered, restarts>>

Statuses == {0, 202, 401, 404, 409, 413, 400}

TypeOK ==
    /\ configured \in BOOLEAN
    /\ at \in [Posts -> {"new", "checked", "free", "running", "ended", "told", "over"}]
    /\ reply \in [Posts -> Statuses]
    /\ runLock \in Posts \cup {Nobody}
    /\ ended \in [Posts -> 0 .. Cardinality(Posts)]
    /\ saved \in Posts \cup {Nobody}
    /\ delivered \subseteq Posts
    /\ restarts \in 0 .. MaxRestarts

Init ==
    /\ configured \in BOOLEAN
    /\ at = [p \in Posts |-> "new"]
    /\ reply = [p \in Posts |-> 0]
    /\ runLock = Nobody
    /\ ended = [p \in Posts |-> 0]
    /\ saved = Nobody
    /\ delivered = {}
    /\ restarts = 0

GoTo(p, s) == at' = [at EXCEPT ![p] = s]
Answer(p, status) == reply' = [reply EXCEPT ![p] = status]

\* The token first, then the path, the length, the body and the task; no answer at all (0)
\* when the body is JSON but no object.
Refuse(p, status) ==
    /\ at[p] = "new"
    /\ Answer(p, status) /\ GoTo(p, "over")
    /\ UNCHANGED <<configured, runLock, ended, saved, delivered, restarts>>

Accept(p) ==
    /\ at[p] = "new" /\ configured
    /\ GoTo(p, "checked")
    /\ UNCHANGED <<configured, reply, runLock, ended, saved, delivered, restarts>>

\* is_busy, and only then start_task.
TestBusy(p) ==
    /\ at[p] = "checked"
    /\ IF runLock # Nobody THEN Answer(p, 409) /\ GoTo(p, "over")
                           ELSE GoTo(p, "free") /\ UNCHANGED reply
    /\ UNCHANGED <<configured, runLock, ended, saved, delivered, restarts>>

\* Mutant of MayStart: the test of is_busy is enough.
TestedFree(p) == TRUE

MayStart(p) == runLock = Nobody

\* start_task: the lock is taken, or it is not waited for.
StartTask(p) ==
    /\ at[p] = "free"
    /\ IF MayStart(p)
          THEN runLock' = p /\ Answer(p, 202) /\ GoTo(p, "running")
          ELSE Answer(p, 409) /\ GoTo(p, "over") /\ UNCHANGED runLock
    /\ UNCHANGED <<configured, ended, saved, delivered, restarts>>

\* execute_task returns or raises: either is a result.
TaskEnds(p) ==
    /\ at[p] = "running"
    /\ ended' = [ended EXCEPT ![p] = Cardinality({q \in Posts : ended[q] # 0}) + 1]
    /\ GoTo(p, "ended")
    /\ UNCHANGED <<configured, reply, runLock, saved, delivered, restarts>>

\* save_last_result: one atomic replacement, or a failure that is only logged.
SaveResult(p) ==
    /\ at[p] = "ended"
    /\ saved' \in {saved, p}
    /\ GoTo(p, "told")
    /\ UNCHANGED <<configured, reply, runLock, ended, delivered, restarts>>

\* send_message, which may fail or not be configured; then the lock.
Deliver(p) ==
    /\ at[p] = "told"
    /\ delivered' \in {delivered, delivered \cup {p}}
    /\ runLock' = Nobody
    /\ GoTo(p, "over")
    /\ UNCHANGED <<configured, reply, ended, saved, restarts>>

\* The process ends: its threads are daemons.
Restart ==
    /\ restarts < MaxRestarts /\ restarts' = restarts + 1
    /\ at' = [p \in Posts |-> IF at[p] = "new" THEN "new" ELSE "over"]
    /\ runLock' = Nobody
    /\ configured' \in BOOLEAN
    /\ UNCHANGED <<reply, ended, saved, delivered>>

PostStep(p) ==
    \/ \E status \in {401, 404, 413, 400, 0} : (status = 401 \/ configured) /\ Refuse(p, status)
    \/ Accept(p) \/ TestBusy(p) \/ StartTask(p) \/ TaskEnds(p) \/ SaveResult(p) \/ Deliver(p)

Next == (\E p \in Posts : PostStep(p)) \/ Restart

Spec == Init /\ [][Next]_vars

----------------------------------------------------------------------------
SavedGoesForward == saved' # saved => saved = Nobody \/ ended[saved'] > ended[saved]

\* /last never goes back to a task that ended before the one it told of, whichever posts
\* find the bridge free together and whenever the process ends: one task runs at a time, to
\* its record.
LastIsTheNewest == [][SavedGoesForward]_vars
=============================================================================
