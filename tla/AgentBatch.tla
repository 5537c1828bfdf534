----------------------------- MODULE AgentBatch -----------------------------
(***************************************************************************)
(* execute_agents_parallel of agents/manager.py: one batch of coworker     *)
(* subtasks.  A thread per subtask runs execute_agent, which starts a      *)
(* worker process and waits for it with a timeout while it polls for the   *)
(* cancel of the request; then failed subtasks are retried one by one.     *)
(* A worker (worker.py, QAAgent, CodingAgent) may run a test suite in a    *)
(* process of its own.                                                     *)
(***************************************************************************)
EXTENDS Integers, FiniteSets

CONSTANTS
    MaxTasks,     \* bound: subtasks that delegate_parallel_tasks is asked for
    MaxParallel,  \* max_parallel_agents
    MaxRetries    \* max_agent_batch_retries

\* What is assumed of the constants.
BatchAssumption == MaxTasks \in Nat \ {0} /\ MaxParallel \in Nat /\ MaxRetries \in Nat

VARIABLES
    phase,        \* where execute_agents_parallel is
    size,         \* len(tasks)
    required,     \* subtasks without which the batch has failed
    status,       \* the BatchStatus returned
    cancelled,    \* cancellation_requested(request_id)
    thread,       \* where each subtask's execute_agent is
    worker,       \* its process: none, at work, or what it wrote on stdout
    suite,        \* subtasks with a process of the test suite
    outcome,      \* what execute_agent returned for it
    results,      \* results[index]
    attempts      \* retries of each subtask

vars == <<phase, size, required, status, cancelled, thread, worker, suite, outcome, results, attempts>>

Tasks == 1 .. MaxTasks
Batch == 1 .. size

\* verified: success, and verify_agent_result agrees; unverified: success, and it does not.
Outcomes == {"verified", "unverified", "failed", "cancelled"}
Nothing == "nothing"

TypeOK ==
    /\ phase \in {"asked", "first", "retrying", "returned", "raised"}
    /\ size \in Tasks /\ required \subseteq Batch
    /\ status \in {Nothing, "ALL_SUCCEEDED", "PARTIAL", "FAILED"}
    /\ cancelled \in BOOLEAN
    /\ thread \in [Tasks -> {"idle", "submitted", "launching", "waiting", "grace", "over"}]
    /\ worker \in [Tasks -> Outcomes \cup {"none", "works"}]
    /\ suite \subseteq Tasks
    /\ outcome \in [Tasks -> Outcomes \cup {Nothing}]
    /\ results \in [Tasks -> Outcomes \cup {Nothing}]
    /\ attempts \in [Tasks -> 0 .. MaxRetries]

Init ==
    /\ phase = "asked"
    /\ size \in Tasks /\ required \in SUBSET (1 .. size)
    /\ status = Nothing /\ cancelled = FALSE
    /\ thread = [t \in Tasks |-> "idle"]
    /\ worker = [t \in Tasks |-> "none"]
    /\ suite = {}
    /\ outcome = [t \in Tasks |-> Nothing]
    /\ results = [t \in Tasks |-> Nothing]
    /\ attempts = [t \in Tasks |-> 0]

----------------------------------------------------------------------------
TooLarge == size > MaxParallel

\* Too large, cancelled before the start, or the day's budget is spent: no agent is started.
Reject ==
    /\ phase = "asked"
    /\ phase' = "returned" /\ status' = "FAILED"
    /\ results' = IF cancelled /\ ~TooLarge
                    THEN [t \in Tasks |-> IF t \in Batch THEN "cancelled" ELSE Nothing]
                    ELSE results
    /\ outcome' = results'
    /\ UNCHANGED <<size, required, cancelled, thread, worker, suite, attempts>>

Submit ==
    /\ phase = "asked" /\ ~TooLarge /\ ~cancelled
    /\ phase' = "first"
    /\ thread' = [t \in Tasks |-> IF t \in Batch THEN "submitted" ELSE "idle"]
    /\ UNCHANGED <<size, required, status, cancelled, worker, suite, outcome, results, attempts>>

Return(t, r) ==
    /\ thread' = [thread EXCEPT ![t] = "over"]
    /\ outcome' = [outcome EXCEPT ![t] = r]

\* execute_agent: an agent that is unknown or disabled, or a cancel, ends it; otherwise
Check(t) ==
    /\ thread[t] = "submitted"
    /\ \/ Return(t, IF cancelled THEN "cancelled" ELSE "failed")
       \/ /\ ~cancelled
          /\ thread' = [thread EXCEPT ![t] = "launching"]
          /\ UNCHANGED outcome
    /\ UNCHANGED <<phase, size, required, status, cancelled, worker, suite, results, attempts>>

\* it starts the worker.
Launch(t) ==
    /\ thread[t] = "launching"
    /\ thread' = [thread EXCEPT ![t] = "waiting"]
    /\ worker' = [worker EXCEPT ![t] = "works"]
    /\ UNCHANGED <<phase, size, required, status, cancelled, suite, outcome, results, attempts>>

\* No process can be started: caught for a first attempt, but not for a retry.
LaunchFails(t) ==
    /\ thread[t] = "launching"
    /\ Return(t, "failed")
    /\ phase' = IF phase = "retrying" THEN "raised" ELSE phase
    /\ UNCHANGED <<size, required, status, cancelled, worker, suite, results, attempts>>

\* The worker has ended: its report, or a failure when it crashed or wrote something else.
Completed(t) ==
    /\ thread[t] = "waiting" /\ worker[t] \in Outcomes
    /\ Return(t, worker[t])
    /\ worker' = [worker EXCEPT ![t] = "none"]
    /\ UNCHANGED <<phase, size, required, status, cancelled, suite, results, attempts>>

\* The timeout: SIGKILL, whether or not the worker has just ended.
TimesOut(t) ==
    /\ thread[t] = "waiting"
    /\ Return(t, "failed")
    /\ worker' = [worker EXCEPT ![t] = "none"]
    /\ UNCHANGED <<phase, size, required, status, cancelled, suite, results, attempts>>

\* The poll sees the cancel: SIGTERM, whether or not the worker has just ended,
SeesCancel(t) ==
    /\ thread[t] = "waiting" /\ cancelled
    /\ thread' = [thread EXCEPT ![t] = "grace"]
    /\ UNCHANGED <<phase, size, required, status, cancelled, worker, suite, outcome, results, attempts>>

\* Mutant of AfterGrace: only SIGTERM.
LeftAlone(t) == worker

AfterGrace(t) == [worker EXCEPT ![t] = "none"]

\* and after the grace time SIGKILL.  What the worker still wrote is not looked at.
EndsGrace(t) ==
    /\ thread[t] = "grace"
    /\ Return(t, "cancelled")
    /\ worker' = AfterGrace(t)
    /\ UNCHANGED <<phase, size, required, status, cancelled, suite, results, attempts>>

----------------------------------------------------------------------------
\* The worker.  It waits for its suite; its own cancel check may end it as cancelled.
RunsSuite(t) ==
    /\ worker[t] = "works" /\ t \notin suite
    /\ suite' = suite \cup {t}
    /\ UNCHANGED <<phase, size, required, status, cancelled, thread, worker, outcome, results, attempts>>

SuiteEnds(t) ==
    /\ t \in suite
    /\ suite' = suite \ {t}
    /\ UNCHANGED <<phase, size, required, status, cancelled, thread, worker, outcome, results, attempts>>

Reports(t) ==
    /\ worker[t] = "works" /\ t \notin suite
    /\ \E r \in Outcomes : (r = "cancelled" => cancelled) /\ worker' = [worker EXCEPT ![t] = r]
    /\ UNCHANGED <<phase, size, required, status, cancelled, thread, suite, outcome, results, attempts>>

----------------------------------------------------------------------------
\* Mutant of Index: results in the order in which they come.
ByCompletion(t) == Cardinality({i \in Batch : results[i] # Nothing}) + 1

Index(t) == t

\* as_completed: a first attempt's result, under the index that its future was given.
Collect(t) ==
    /\ phase = "first" /\ thread[t] = "over"
    /\ results' = [results EXCEPT ![Index(t)] = outcome[t]]
    /\ thread' = [thread EXCEPT ![t] = "idle"]
    /\ UNCHANGED <<phase, size, required, status, cancelled, worker, suite, outcome, attempts>>

AllCollected ==
    /\ phase = "first"
    /\ \A t \in Batch : thread[t] = "idle"
    /\ phase' = "retrying"
    /\ UNCHANGED <<size, required, status, cancelled, thread, worker, suite, outcome, results, attempts>>

Busy == \E t \in Batch : thread[t] # "idle"

\* Mutant of MayRetry: the last retry does not count.
MayRetryOnceMore(t) ==
    /\ attempts[t] <= MaxRetries
    /\ results[t] = "failed"
    /\ ~cancelled

MayRetry(t) ==
    /\ attempts[t] < MaxRetries
    /\ results[t] = "failed"
    /\ ~cancelled

\* The subtasks in their order: those before t have no retry left to make.  A cancel seen
\* for one of them is seen for t too.
Retry(t) ==
    /\ phase = "retrying" /\ ~Busy
    /\ MayRetry(t)
    /\ \A u \in 1 .. t - 1 : ~MayRetry(u)
    /\ attempts' = [attempts EXCEPT ![t] = @ + 1]
    /\ thread' = [thread EXCEPT ![t] = "submitted"]
    /\ UNCHANGED <<phase, size, required, status, cancelled, worker, suite, outcome, results>>

CollectRetry(t) ==
    /\ phase = "retrying" /\ thread[t] = "over"
    /\ results' = [results EXCEPT ![t] = outcome[t]]
    /\ thread' = [thread EXCEPT ![t] = "idle"]
    /\ UNCHANGED <<phase, size, required, status, cancelled, worker, suite, outcome, attempts>>

Judge(items) ==
    IF \A t \in Batch : items[t] = "verified" THEN "ALL_SUCCEEDED"
    ELSE IF \E t \in required : items[t] # "verified" THEN "FAILED"
    ELSE "PARTIAL"

Finish ==
    /\ phase = "retrying" /\ ~Busy
    /\ \A t \in Batch : ~MayRetry(t)
    /\ phase' = "returned"
    /\ status' = Judge(results)
    /\ UNCHANGED <<size, required, cancelled, thread, worker, suite, outcome, results, attempts>>

Cancel ==
    /\ ~cancelled
    /\ cancelled' = TRUE
    /\ UNCHANGED <<phase, size, required, status, thread, worker, suite, outcome, results, attempts>>

AgentStep(t) ==
    \/ Check(t) \/ Launch(t) \/ LaunchFails(t) \/ Completed(t) \/ TimesOut(t)
    \/ SeesCancel(t) \/ EndsGrace(t)

Next ==
    \/ Reject \/ Submit \/ AllCollected \/ Finish \/ Cancel
    \/ \E t \in Batch :
          \/ AgentStep(t) \/ RunsSuite(t) \/ SuiteEnds(t) \/ Reports(t)
          \/ Collect(t) \/ Retry(t) \/ CollectRetry(t)

Spec == Init /\ [][Next]_vars

----------------------------------------------------------------------------
\* The status of a batch is true of its subtasks: all succeeded only if the last attempt at
\* each did and holds up, partial only if the last attempt at each required one did.
StatusIsTrue ==
    phase = "returned" /\ status # "FAILED" =>
        \A t \in IF status = "PARTIAL" THEN required ELSE Batch : outcome[t] = "verified"

\* No more workers run at once than max_parallel_agents, and none when the batch is over,
\* whatever order timeouts, cancels, ends and retries come in.
WorkersAreBounded ==
    LET running == {t \in Tasks : worker[t] = "works"} IN
        /\ Cardinality(running) <= MaxParallel
        /\ phase \in {"returned", "raised"} => running = {}

\* What a worker was doing dies with it when it is killed: nothing outlives the batch.
NothingOutlivesTheBatch == phase \in {"returned", "raised"} => suite = {}
=============================================================================
