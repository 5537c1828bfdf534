--------------------------- MODULE CoworkersProofs ---------------------------
(***************************************************************************)
(* Theorems of Coworkers, for any batch, requests, processes and bounds:   *)
(* each is about one component, and a step of the sum is a step of the     *)
(* component that `part` names.                                            *)
(***************************************************************************)
EXTENDS Coworkers, FiniteSetTheorems, SequenceTheorems, TLAPS

\* No step goes over from one component to another.
LEMMA PartIsKept == [Next]_vars => part' = part
  BY DEF Next, vars

----------------------------------------------------------------------------
(* A batch of subtasks. *)

ThreadStates == {"idle", "submitted", "launching", "waiting", "grace", "over"}

BatchTyped ==
  /\ phase \in {"asked", "first", "retrying", "returned", "raised"}
  /\ size \in 1 .. MaxTasks /\ required \subseteq 1 .. size
  /\ thread \in [1 .. MaxTasks -> ThreadStates]
  /\ worker \in [1 .. MaxTasks -> Batch!Outcomes \cup {"none", "works"}]
  /\ outcome \in [1 .. MaxTasks -> Batch!Outcomes \cup {Batch!Nothing}]
  /\ results \in [1 .. MaxTasks -> Batch!Outcomes \cup {Batch!Nothing}]

\* A worker runs as long as its subtask's execute_agent waits for it.
Waited ==
  \A t \in 1 .. MaxTasks : worker[t] # "none" => t <= size /\ thread[t] \in {"waiting", "grace"}

\* Subtasks are begun together once, and then one at a time; none is left when it is over.
Phased ==
  /\ phase \in {"asked", "returned"} => \A t \in 1 .. MaxTasks : thread[t] = "idle"
  /\ phase \in {"first", "retrying"} => size <= MaxParallel
  /\ phase = "retrying" =>
       \A t, u \in 1 .. size : thread[t] # "idle" /\ thread[u] # "idle" => t = u
  /\ phase = "raised" => \A t \in 1 .. MaxTasks : thread[t] \in {"idle", "over"}
  /\ \A t \in 1 .. MaxTasks : thread[t] # "idle" => t <= size

\* A result is collected before anything else happens to its subtask.
Collected ==
  phase \in {"first", "retrying"} =>
    \A t \in 1 .. size : thread[t] = "idle" => results[t] = outcome[t]

BatchParts == BatchTyped /\ Waited /\ Phased /\ Collected /\ Batch!StatusIsTrue
BatchInv == part = "batch" => BatchParts

LEMMA BatchConstants == MaxTasks \in Nat \ {0} /\ MaxParallel \in Nat /\ MaxRetries \in Nat
  BY CoworkersAssumption DEF CoworkersAssumption, Batch!BatchAssumption

LEMMA BatchStart == Batch!Init => BatchParts
<1> SUFFICES ASSUME Batch!Init PROVE BatchParts
  OBVIOUS
<1>1. BatchTyped
  BY BatchConstants DEF Batch!Init, BatchTyped, Batch!Tasks, ThreadStates, Batch!Nothing
<1> QED
  BY <1>1, BatchConstants
     DEF Batch!Init, BatchParts, Waited, Phased, Collected, Batch!StatusIsTrue, Batch!Tasks

LEMMA BatchCheck ==
  ASSUME BatchParts, NEW t \in 1 .. size, Batch!Check(t)
  PROVE  BatchParts'
<1> USE BatchConstants DEF BatchParts
<1>1. BatchTyped'
  BY DEF Batch!Check, Batch!Return, BatchTyped, ThreadStates, Batch!Outcomes, Batch!Nothing,
         Batch!Tasks, Batch!Batch
<1>2. Waited'
  BY DEF Batch!Check, Batch!Return, Waited, Phased, BatchTyped, ThreadStates, Batch!Outcomes,
         Batch!Nothing, Batch!Tasks, Batch!Batch
<1>3. Phased'
  BY DEF Batch!Check, Batch!Return, Phased, Waited, BatchTyped, ThreadStates, Batch!Outcomes,
         Batch!Nothing, Batch!Tasks, Batch!Batch
<1>4. Collected'
  BY DEF Batch!Check, Batch!Return, Collected, Phased, BatchTyped, ThreadStates, Batch!Outcomes,
         Batch!Nothing, Batch!Tasks, Batch!Batch
<1>5. Batch!StatusIsTrue'
  BY DEF Batch!Check, Batch!Return, Batch!StatusIsTrue, Collected, Phased, BatchTyped,
         ThreadStates, Batch!Outcomes, Batch!Nothing, Batch!Tasks, Batch!Batch
<1> QED
  BY <1>1, <1>2, <1>3, <1>4, <1>5

LEMMA BatchLaunch ==
  ASSUME BatchParts, NEW t \in 1 .. size, Batch!Launch(t)
  PROVE  BatchParts'
<1> USE BatchConstants DEF BatchParts
<1>1. BatchTyped'
  BY DEF Batch!Launch, BatchTyped, ThreadStates, Batch!Outcomes, Batch!Nothing, Batch!Tasks,
         Batch!Batch
<1>2. Waited'
  BY DEF Batch!Launch, Waited, Phased, BatchTyped, ThreadStates, Batch!Outcomes, Batch!Nothing,
         Batch!Tasks, Batch!Batch
<1>3. Phased'
  BY DEF Batch!Launch, Phased, Waited, BatchTyped, ThreadStates, Batch!Outcomes, Batch!Nothing,
         Batch!Tasks, Batch!Batch
<1>4. Collected'
  BY DEF Batch!Launch, Collected, Phased, BatchTyped, ThreadStates, Batch!Outcomes,
         Batch!Nothing, Batch!Tasks, Batch!Batch
<1>5. Batch!StatusIsTrue'
  BY DEF Batch!Launch, Batch!StatusIsTrue, Collected, Phased, BatchTyped, ThreadStates,
         Batch!Outcomes, Batch!Nothing, Batch!Tasks, Batch!Batch
<1> QED
  BY <1>1, <1>2, <1>3, <1>4, <1>5

LEMMA BatchLaunchFails ==
  ASSUME BatchParts, NEW t \in 1 .. size, Batch!LaunchFails(t)
  PROVE  BatchParts'
<1> USE BatchConstants DEF BatchParts
<1>1. BatchTyped'
  BY DEF Batch!LaunchFails, Batch!Return, BatchTyped, ThreadStates, Batch!Outcomes,
         Batch!Nothing, Batch!Tasks, Batch!Batch
<1>2. Waited'
  BY DEF Batch!LaunchFails, Batch!Return, Waited, Phased, BatchTyped, ThreadStates,
         Batch!Outcomes, Batch!Nothing, Batch!Tasks, Batch!Batch
<1>3. Phased'
  BY DEF Batch!LaunchFails, Batch!Return, Phased, Waited, BatchTyped, ThreadStates,
         Batch!Outcomes, Batch!Nothing, Batch!Tasks, Batch!Batch
<1>4. Collected'
  BY DEF Batch!LaunchFails, Batch!Return, Collected, Phased, BatchTyped, ThreadStates,
         Batch!Outcomes, Batch!Nothing, Batch!Tasks, Batch!Batch
<1>5. Batch!StatusIsTrue'
  BY DEF Batch!LaunchFails, Batch!Return, Batch!StatusIsTrue, Collected, Phased, BatchTyped,
         ThreadStates, Batch!Outcomes, Batch!Nothing, Batch!Tasks, Batch!Batch
<1> QED
  BY <1>1, <1>2, <1>3, <1>4, <1>5

LEMMA BatchCompleted ==
  ASSUME BatchParts, NEW t \in 1 .. size, Batch!Completed(t)
  PROVE  BatchParts'
<1> USE BatchConstants DEF BatchParts
<1>1. BatchTyped'
  BY DEF Batch!Completed, Batch!Return, BatchTyped, ThreadStates, Batch!Outcomes, Batch!Nothing,
         Batch!Tasks, Batch!Batch
<1>2. Waited'
  BY DEF Batch!Completed, Batch!Return, Waited, Phased, BatchTyped, ThreadStates, Batch!Outcomes,
         Batch!Nothing, Batch!Tasks, Batch!Batch
<1>3. Phased'
  BY DEF Batch!Completed, Batch!Return, Phased, Waited, BatchTyped, ThreadStates, Batch!Outcomes,
         Batch!Nothing, Batch!Tasks, Batch!Batch
<1>4. Collected'
  BY DEF Batch!Completed, Batch!Return, Collected, Phased, BatchTyped, ThreadStates,
         Batch!Outcomes, Batch!Nothing, Batch!Tasks, Batch!Batch
<1>5. Batch!StatusIsTrue'
  BY DEF Batch!Completed, Batch!Return, Batch!StatusIsTrue, Collected, Phased, BatchTyped,
         ThreadStates, Batch!Outcomes, Batch!Nothing, Batch!Tasks, Batch!Batch
<1> QED
  BY <1>1, <1>2, <1>3, <1>4, <1>5

LEMMA BatchTimesOut ==
  ASSUME BatchParts, NEW t \in 1 .. size, Batch!TimesOut(t)
  PROVE  BatchParts'
<1> USE BatchConstants DEF BatchParts
<1>1. BatchTyped'
  BY DEF Batch!TimesOut, Batch!Return, BatchTyped, ThreadStates, Batch!Outcomes, Batch!Nothing,
         Batch!Tasks, Batch!Batch
<1>2. Waited'
  BY DEF Batch!TimesOut, Batch!Return, Waited, Phased, BatchTyped, ThreadStates, Batch!Outcomes,
         Batch!Nothing, Batch!Tasks, Batch!Batch
<1>3. Phased'
  BY DEF Batch!TimesOut, Batch!Return, Phased, Waited, BatchTyped, ThreadStates, Batch!Outcomes,
         Batch!Nothing, Batch!Tasks, Batch!Batch
<1>4. Collected'
  BY DEF Batch!TimesOut, Batch!Return, Collected, Phased, BatchTyped, ThreadStates,
         Batch!Outcomes, Batch!Nothing, Batch!Tasks, Batch!Batch
<1>5. Batch!StatusIsTrue'
  BY DEF Batch!TimesOut, Batch!Return, Batch!StatusIsTrue, Collected, Phased, BatchTyped,
         ThreadStates, Batch!Outcomes, Batch!Nothing, Batch!Tasks, Batch!Batch
<1> QED
  BY <1>1, <1>2, <1>3, <1>4, <1>5

LEMMA BatchSeesCancel ==
  ASSUME BatchParts, NEW t \in 1 .. size, Batch!SeesCancel(t)
  PROVE  BatchParts'
<1> USE BatchConstants DEF BatchParts
<1>1. BatchTyped'
  BY DEF Batch!SeesCancel, BatchTyped, ThreadStates, Batch!Outcomes, Batch!Nothing, Batch!Tasks,
         Batch!Batch
<1>2. Waited'
  BY DEF Batch!SeesCancel, Waited, Phased, BatchTyped, ThreadStates, Batch!Outcomes,
         Batch!Nothing, Batch!Tasks, Batch!Batch
<1>3. Phased'
  BY DEF Batch!SeesCancel, Phased, Waited, BatchTyped, ThreadStates, Batch!Outcomes,
         Batch!Nothing, Batch!Tasks, Batch!Batch
<1>4. Collected'
  BY DEF Batch!SeesCancel, Collected, Phased, BatchTyped, ThreadStates, Batch!Outcomes,
         Batch!Nothing, Batch!Tasks, Batch!Batch
<1>5. Batch!StatusIsTrue'
  BY DEF Batch!SeesCancel, Batch!StatusIsTrue, Collected, Phased, BatchTyped, ThreadStates,
         Batch!Outcomes, Batch!Nothing, Batch!Tasks, Batch!Batch
<1> QED
  BY <1>1, <1>2, <1>3, <1>4, <1>5

LEMMA BatchEndsGrace ==
  ASSUME BatchParts, NEW t \in 1 .. size, Batch!EndsGrace(t)
  PROVE  BatchParts'
<1> USE BatchConstants DEF BatchParts
<1>1. BatchTyped'
  BY DEF Batch!EndsGrace, Batch!Return, Batch!AfterGrace, BatchTyped, ThreadStates,
         Batch!Outcomes, Batch!Nothing, Batch!Tasks, Batch!Batch
<1>2. Waited'
  BY DEF Batch!EndsGrace, Batch!Return, Batch!AfterGrace, Waited, Phased, BatchTyped,
         ThreadStates, Batch!Outcomes, Batch!Nothing, Batch!Tasks, Batch!Batch
<1>3. Phased'
  BY DEF Batch!EndsGrace, Batch!Return, Batch!AfterGrace, Phased, Waited, BatchTyped,
         ThreadStates, Batch!Outcomes, Batch!Nothing, Batch!Tasks, Batch!Batch
<1>4. Collected'
  BY DEF Batch!EndsGrace, Batch!Return, Batch!AfterGrace, Collected, Phased, BatchTyped,
         ThreadStates, Batch!Outcomes, Batch!Nothing, Batch!Tasks, Batch!Batch
<1>5. Batch!StatusIsTrue'
  BY DEF Batch!EndsGrace, Batch!Return, Batch!AfterGrace, Batch!StatusIsTrue, Collected, Phased,
         BatchTyped, ThreadStates, Batch!Outcomes, Batch!Nothing, Batch!Tasks, Batch!Batch
<1> QED
  BY <1>1, <1>2, <1>3, <1>4, <1>5

LEMMA BatchRunsSuite ==
  ASSUME BatchParts, NEW t \in 1 .. size, Batch!RunsSuite(t)
  PROVE  BatchParts'
<1> USE BatchConstants DEF BatchParts
<1>1. BatchTyped'
  BY DEF Batch!RunsSuite, BatchTyped, ThreadStates, Batch!Outcomes, Batch!Nothing, Batch!Tasks,
         Batch!Batch
<1>2. Waited'
  BY DEF Batch!RunsSuite, Waited, Phased, BatchTyped, ThreadStates, Batch!Outcomes,
         Batch!Nothing, Batch!Tasks, Batch!Batch
<1>3. Phased'
  BY DEF Batch!RunsSuite, Phased, Waited, BatchTyped, ThreadStates, Batch!Outcomes,
         Batch!Nothing, Batch!Tasks, Batch!Batch
<1>4. Collected'
  BY DEF Batch!RunsSuite, Collected, Phased, BatchTyped, ThreadStates, Batch!Outcomes,
         Batch!Nothing, Batch!Tasks, Batch!Batch
<1>5. Batch!StatusIsTrue'
  BY DEF Batch!RunsSuite, Batch!StatusIsTrue, Collected, Phased, BatchTyped, ThreadStates,
         Batch!Outcomes, Batch!Nothing, Batch!Tasks, Batch!Batch
<1> QED
  BY <1>1, <1>2, <1>3, <1>4, <1>5

LEMMA BatchSuiteEnds ==
  ASSUME BatchParts, NEW t \in 1 .. size, Batch!SuiteEnds(t)
  PROVE  BatchParts'
<1> USE BatchConstants DEF BatchParts
<1>1. BatchTyped'
  BY DEF Batch!SuiteEnds, BatchTyped, ThreadStates, Batch!Outcomes, Batch!Nothing, Batch!Tasks,
         Batch!Batch
<1>2. Waited'
  BY DEF Batch!SuiteEnds, Waited, Phased, BatchTyped, ThreadStates, Batch!Outcomes,
         Batch!Nothing, Batch!Tasks, Batch!Batch
<1>3. Phased'
  BY DEF Batch!SuiteEnds, Phased, Waited, BatchTyped, ThreadStates, Batch!Outcomes,
         Batch!Nothing, Batch!Tasks, Batch!Batch
<1>4. Collected'
  BY DEF Batch!SuiteEnds, Collected, Phased, BatchTyped, ThreadStates, Batch!Outcomes,
         Batch!Nothing, Batch!Tasks, Batch!Batch
<1>5. Batch!StatusIsTrue'
  BY DEF Batch!SuiteEnds, Batch!StatusIsTrue, Collected, Phased, BatchTyped, ThreadStates,
         Batch!Outcomes, Batch!Nothing, Batch!Tasks, Batch!Batch
<1> QED
  BY <1>1, <1>2, <1>3, <1>4, <1>5

LEMMA BatchReports ==
  ASSUME BatchParts, NEW t \in 1 .. size, Batch!Reports(t)
  PROVE  BatchParts'
<1> USE BatchConstants DEF BatchParts
<1>1. BatchTyped'
  BY DEF Batch!Reports, BatchTyped, ThreadStates, Batch!Outcomes, Batch!Nothing, Batch!Tasks,
         Batch!Batch
<1>2. Waited'
  BY DEF Batch!Reports, Waited, Phased, BatchTyped, ThreadStates, Batch!Outcomes, Batch!Nothing,
         Batch!Tasks, Batch!Batch
<1>3. Phased'
  BY DEF Batch!Reports, Phased, Waited, BatchTyped, ThreadStates, Batch!Outcomes, Batch!Nothing,
         Batch!Tasks, Batch!Batch
<1>4. Collected'
  BY DEF Batch!Reports, Collected, Phased, BatchTyped, ThreadStates, Batch!Outcomes,
         Batch!Nothing, Batch!Tasks, Batch!Batch
<1>5. Batch!StatusIsTrue'
  BY DEF Batch!Reports, Batch!StatusIsTrue, Collected, Phased, BatchTyped, ThreadStates,
         Batch!Outcomes, Batch!Nothing, Batch!Tasks, Batch!Batch
<1> QED
  BY <1>1, <1>2, <1>3, <1>4, <1>5

LEMMA BatchCollect ==
  ASSUME BatchParts, NEW t \in 1 .. size, Batch!Collect(t)
  PROVE  BatchParts'
<1> USE BatchConstants DEF BatchParts
<1>1. BatchTyped'
  BY DEF Batch!Collect, Batch!Index, BatchTyped, ThreadStates, Batch!Outcomes, Batch!Nothing,
         Batch!Tasks, Batch!Batch
<1>2. Waited'
  BY DEF Batch!Collect, Batch!Index, Waited, Phased, BatchTyped, ThreadStates, Batch!Outcomes,
         Batch!Nothing, Batch!Tasks, Batch!Batch
<1>3. Phased'
  BY DEF Batch!Collect, Batch!Index, Phased, Waited, BatchTyped, ThreadStates, Batch!Outcomes,
         Batch!Nothing, Batch!Tasks, Batch!Batch
<1>4. Collected'
  BY DEF Batch!Collect, Batch!Index, Collected, Phased, BatchTyped, ThreadStates, Batch!Outcomes,
         Batch!Nothing, Batch!Tasks, Batch!Batch
<1>5. Batch!StatusIsTrue'
  BY DEF Batch!Collect, Batch!Index, Batch!StatusIsTrue, Collected, Phased, BatchTyped,
         ThreadStates, Batch!Outcomes, Batch!Nothing, Batch!Tasks, Batch!Batch
<1> QED
  BY <1>1, <1>2, <1>3, <1>4, <1>5

LEMMA BatchRetry ==
  ASSUME BatchParts, NEW t \in 1 .. size, Batch!Retry(t)
  PROVE  BatchParts'
<1> USE BatchConstants DEF BatchParts
<1>1. BatchTyped'
  BY DEF Batch!Retry, Batch!Busy, Batch!MayRetry, BatchTyped, ThreadStates, Batch!Outcomes,
         Batch!Nothing, Batch!Tasks, Batch!Batch
<1>2. Waited'
  BY DEF Batch!Retry, Batch!Busy, Batch!MayRetry, Waited, Phased, BatchTyped, ThreadStates,
         Batch!Outcomes, Batch!Nothing, Batch!Tasks, Batch!Batch
<1>3. Phased'
  BY DEF Batch!Retry, Batch!Busy, Batch!MayRetry, Phased, Waited, BatchTyped, ThreadStates,
         Batch!Outcomes, Batch!Nothing, Batch!Tasks, Batch!Batch
<1>4. Collected'
  BY DEF Batch!Retry, Batch!Busy, Batch!MayRetry, Collected, Phased, BatchTyped, ThreadStates,
         Batch!Outcomes, Batch!Nothing, Batch!Tasks, Batch!Batch
<1>5. Batch!StatusIsTrue'
  BY DEF Batch!Retry, Batch!Busy, Batch!MayRetry, Batch!StatusIsTrue, Collected, Phased,
         BatchTyped, ThreadStates, Batch!Outcomes, Batch!Nothing, Batch!Tasks, Batch!Batch
<1> QED
  BY <1>1, <1>2, <1>3, <1>4, <1>5

LEMMA BatchCollectRetry ==
  ASSUME BatchParts, NEW t \in 1 .. size, Batch!CollectRetry(t)
  PROVE  BatchParts'
<1> USE BatchConstants DEF BatchParts
<1>1. BatchTyped'
  BY DEF Batch!CollectRetry, BatchTyped, ThreadStates, Batch!Outcomes, Batch!Nothing,
         Batch!Tasks, Batch!Batch
<1>2. Waited'
  BY DEF Batch!CollectRetry, Waited, Phased, BatchTyped, ThreadStates, Batch!Outcomes,
         Batch!Nothing, Batch!Tasks, Batch!Batch
<1>3. Phased'
  BY DEF Batch!CollectRetry, Phased, Waited, BatchTyped, ThreadStates, Batch!Outcomes,
         Batch!Nothing, Batch!Tasks, Batch!Batch
<1>4. Collected'
  BY DEF Batch!CollectRetry, Collected, Phased, BatchTyped, ThreadStates, Batch!Outcomes,
         Batch!Nothing, Batch!Tasks, Batch!Batch
<1>5. Batch!StatusIsTrue'
  BY DEF Batch!CollectRetry, Batch!StatusIsTrue, Collected, Phased, BatchTyped, ThreadStates,
         Batch!Outcomes, Batch!Nothing, Batch!Tasks, Batch!Batch
<1> QED
  BY <1>1, <1>2, <1>3, <1>4, <1>5

LEMMA BatchReject ==
  ASSUME BatchParts, Batch!Reject
  PROVE  BatchParts'
<1> USE BatchConstants DEF BatchParts
<1>1. BatchTyped'
  BY DEF Batch!Reject, Batch!TooLarge, BatchTyped, ThreadStates, Batch!Outcomes, Batch!Nothing,
         Batch!Tasks, Batch!Batch
<1>2. Waited'
  BY DEF Batch!Reject, Batch!TooLarge, Waited, Phased, BatchTyped, ThreadStates, Batch!Outcomes,
         Batch!Nothing, Batch!Tasks, Batch!Batch
<1>3. Phased'
  BY DEF Batch!Reject, Batch!TooLarge, Phased, Waited, BatchTyped, ThreadStates, Batch!Outcomes,
         Batch!Nothing, Batch!Tasks, Batch!Batch
<1>4. Collected'
  BY DEF Batch!Reject, Batch!TooLarge, Collected, Phased, BatchTyped, ThreadStates,
         Batch!Outcomes, Batch!Nothing, Batch!Tasks, Batch!Batch
<1>5. Batch!StatusIsTrue'
  BY DEF Batch!Reject, Batch!TooLarge, Batch!StatusIsTrue, Collected, Phased, BatchTyped,
         ThreadStates, Batch!Outcomes, Batch!Nothing, Batch!Tasks, Batch!Batch
<1> QED
  BY <1>1, <1>2, <1>3, <1>4, <1>5

LEMMA BatchSubmit ==
  ASSUME BatchParts, Batch!Submit
  PROVE  BatchParts'
<1> USE BatchConstants DEF BatchParts
<1>1. BatchTyped'
  BY DEF Batch!Submit, Batch!TooLarge, BatchTyped, ThreadStates, Batch!Outcomes, Batch!Nothing,
         Batch!Tasks, Batch!Batch
<1>2. Waited'
  BY DEF Batch!Submit, Batch!TooLarge, Waited, Phased, BatchTyped, ThreadStates, Batch!Outcomes,
         Batch!Nothing, Batch!Tasks, Batch!Batch
<1>3. Phased'
  BY DEF Batch!Submit, Batch!TooLarge, Phased, Waited, BatchTyped, ThreadStates, Batch!Outcomes,
         Batch!Nothing, Batch!Tasks, Batch!Batch
<1>4. Collected'
  BY DEF Batch!Submit, Batch!TooLarge, Collected, Phased, BatchTyped, ThreadStates,
         Batch!Outcomes, Batch!Nothing, Batch!Tasks, Batch!Batch
<1>5. Batch!StatusIsTrue'
  BY DEF Batch!Submit, Batch!TooLarge, Batch!StatusIsTrue, Collected, Phased, BatchTyped,
         ThreadStates, Batch!Outcomes, Batch!Nothing, Batch!Tasks, Batch!Batch
<1> QED
  BY <1>1, <1>2, <1>3, <1>4, <1>5

LEMMA BatchAllCollected ==
  ASSUME BatchParts, Batch!AllCollected
  PROVE  BatchParts'
<1> USE BatchConstants DEF BatchParts
<1>1. BatchTyped'
  BY DEF Batch!AllCollected, BatchTyped, ThreadStates, Batch!Outcomes, Batch!Nothing,
         Batch!Tasks, Batch!Batch
<1>2. Waited'
  BY DEF Batch!AllCollected, Waited, Phased, BatchTyped, ThreadStates, Batch!Outcomes,
         Batch!Nothing, Batch!Tasks, Batch!Batch
<1>3. Phased'
  BY DEF Batch!AllCollected, Phased, Waited, BatchTyped, ThreadStates, Batch!Outcomes,
         Batch!Nothing, Batch!Tasks, Batch!Batch
<1>4. Collected'
  BY DEF Batch!AllCollected, Collected, Phased, BatchTyped, ThreadStates, Batch!Outcomes,
         Batch!Nothing, Batch!Tasks, Batch!Batch
<1>5. Batch!StatusIsTrue'
  BY DEF Batch!AllCollected, Batch!StatusIsTrue, Collected, Phased, BatchTyped, ThreadStates,
         Batch!Outcomes, Batch!Nothing, Batch!Tasks, Batch!Batch
<1> QED
  BY <1>1, <1>2, <1>3, <1>4, <1>5

LEMMA BatchFinish ==
  ASSUME BatchParts, Batch!Finish
  PROVE  BatchParts'
<1> USE BatchConstants DEF BatchParts
<1>1. BatchTyped'
  BY DEF Batch!Finish, Batch!Busy, Batch!Judge, BatchTyped, ThreadStates, Batch!Outcomes,
         Batch!Nothing, Batch!Tasks, Batch!Batch
<1>2. Waited'
  BY DEF Batch!Finish, Batch!Busy, Batch!Judge, Waited, Phased, BatchTyped, ThreadStates,
         Batch!Outcomes, Batch!Nothing, Batch!Tasks, Batch!Batch
<1>3. Phased'
  BY DEF Batch!Finish, Batch!Busy, Batch!Judge, Phased, Waited, BatchTyped, ThreadStates,
         Batch!Outcomes, Batch!Nothing, Batch!Tasks, Batch!Batch
<1>4. Collected'
  BY DEF Batch!Finish, Batch!Busy, Batch!Judge, Collected, Phased, BatchTyped, ThreadStates,
         Batch!Outcomes, Batch!Nothing, Batch!Tasks, Batch!Batch
<1>5. Batch!StatusIsTrue'
  BY DEF Batch!Finish, Batch!Busy, Batch!Judge, Batch!StatusIsTrue, Collected, Phased,
         BatchTyped, ThreadStates, Batch!Outcomes, Batch!Nothing, Batch!Tasks, Batch!Batch
<1> QED
  BY <1>1, <1>2, <1>3, <1>4, <1>5

LEMMA BatchCancel ==
  ASSUME BatchParts, Batch!Cancel
  PROVE  BatchParts'
<1> USE BatchConstants DEF BatchParts
<1>1. BatchTyped'
  BY DEF Batch!Cancel, BatchTyped, ThreadStates, Batch!Outcomes, Batch!Nothing, Batch!Tasks,
         Batch!Batch
<1>2. Waited'
  BY DEF Batch!Cancel, Waited, Phased, BatchTyped, ThreadStates, Batch!Outcomes, Batch!Nothing,
         Batch!Tasks, Batch!Batch
<1>3. Phased'
  BY DEF Batch!Cancel, Phased, Waited, BatchTyped, ThreadStates, Batch!Outcomes, Batch!Nothing,
         Batch!Tasks, Batch!Batch
<1>4. Collected'
  BY DEF Batch!Cancel, Collected, Phased, BatchTyped, ThreadStates, Batch!Outcomes,
         Batch!Nothing, Batch!Tasks, Batch!Batch
<1>5. Batch!StatusIsTrue'
  BY DEF Batch!Cancel, Batch!StatusIsTrue, Collected, Phased, BatchTyped, ThreadStates,
         Batch!Outcomes, Batch!Nothing, Batch!Tasks, Batch!Batch
<1> QED
  BY <1>1, <1>2, <1>3, <1>4, <1>5

LEMMA BatchSteps == BatchParts /\ [Batch!Next]_(Batch!vars) => BatchParts'
<1> SUFFICES ASSUME BatchParts, [Batch!Next]_(Batch!vars) PROVE BatchParts'
  OBVIOUS
<1>1. CASE UNCHANGED Batch!vars
  BY <1>1 DEF Batch!vars, BatchParts, BatchTyped, Waited, Phased, Collected, Batch!StatusIsTrue,
              Batch!Batch
<1>2. ASSUME NEW t \in 1 .. size,
             \/ Batch!AgentStep(t) \/ Batch!RunsSuite(t) \/ Batch!SuiteEnds(t)
             \/ Batch!Reports(t) \/ Batch!Collect(t) \/ Batch!Retry(t) \/ Batch!CollectRetry(t)
      PROVE  BatchParts'
  BY <1>2, BatchCheck, BatchLaunch, BatchLaunchFails, BatchCompleted, BatchTimesOut,
     BatchSeesCancel, BatchEndsGrace, BatchRunsSuite, BatchSuiteEnds, BatchReports, BatchCollect,
     BatchRetry, BatchCollectRetry DEF Batch!AgentStep
<1> QED
  BY <1>1, <1>2, BatchReject, BatchSubmit, BatchAllCollected, BatchFinish, BatchCancel
     DEF Batch!Next, Batch!Batch

LEMMA BatchInvariant == Spec => []BatchInv
<1>1. Init => BatchInv
  BY BatchStart DEF Init, BatchInv
<1>2. BatchInv /\ [Next]_vars => BatchInv'
  <2> SUFFICES ASSUME BatchInv, [Next]_vars, part = "batch" PROVE BatchParts'
    BY PartIsKept DEF BatchInv
  <2>1. CASE Next
    BY <2>1, BatchSteps DEF Next, BatchInv
  <2>2. CASE UNCHANGED vars
    <3>1. UNCHANGED Batch!vars
      BY <2>2 DEF vars, batchOnly, Batch!vars
    <3> QED
      BY <3>1, BatchSteps DEF BatchInv
  <2> QED
    BY <2>1, <2>2
<1> QED
  BY <1>1, <1>2, PTL DEF Spec

\* The status that is returned is true of the last attempt at each subtask.
THEOREM StatusIsTrueHolds == Spec => []StatusIsTrue
<1>1. BatchInv => StatusIsTrue
  BY DEF BatchInv, BatchParts, StatusIsTrue
<1> QED
  BY <1>1, BatchInvariant, PTL

LEMMA SameCardinality == \A S : Batch!Cardinality(S) = Cardinality(S)
  BY DEF Batch!Cardinality, Cardinality

\* Running workers are subtasks of a batch that is not too large.
LEMMA FewWorkers == BatchParts => Batch!WorkersAreBounded
<1> SUFFICES ASSUME BatchParts PROVE Batch!WorkersAreBounded
  OBVIOUS
<1> USE BatchConstants DEF BatchParts
<1> DEFINE running == {t \in Batch!Tasks : worker[t] = "works"}
<1>1. running \subseteq 1 .. size
  BY DEF Waited, Batch!Tasks
<1>2. IsFiniteSet(running) /\ Cardinality(running) <= size
  <2>1. size \in Nat
    BY DEF BatchTyped
  <2>2. IsFiniteSet(1 .. size) /\ Cardinality(1 .. size) = size
    BY <2>1, FS_Interval
  <2> QED
    BY <1>1, <2>2, FS_Subset
<1>3. running # {} => phase \in {"first", "retrying"}
  BY DEF Waited, Phased, BatchTyped, Batch!Tasks
<1>4. Cardinality(running) <= MaxParallel
  <2>1. CASE running = {}
    BY <2>1, FS_EmptySet
  <2>2. CASE running # {}
    BY <2>2, <1>2, <1>3, FS_CardinalityType DEF Phased, BatchTyped
  <2> QED
    BY <2>1, <2>2
<1> HIDE DEF running
<1>5. phase \in {"returned", "raised"} => running = {}
  BY <1>3
<1> QED
  BY <1>4, <1>5, SameCardinality DEF Batch!WorkersAreBounded, running

\* No more workers than max_parallel_agents run at once, and none when the batch is over.
THEOREM WorkersAreBoundedHolds == Spec => []WorkersAreBounded
<1>1. BatchInv => WorkersAreBounded
  BY FewWorkers DEF BatchInv, WorkersAreBounded
<1> QED
  BY <1>1, BatchInvariant, PTL




----------------------------------------------------------------------------
(* The history database. *)

PastTyped ==
  /\ at \in [Requests -> Past!Recording \cup {"new", "prelude", "running", "over"}]
  /\ role \in [Requests -> {"user", "assistant"}]
  /\ session \in [Requests -> Past!Sessions \cup {None}]
  /\ mapping \in [Requests -> Past!Sessions \cup {None}]
  /\ cache \in [Processes -> [Past!ProcessSources -> Past!Sessions \cup {None}]]
  /\ cacheLock \in [Processes -> Requests \cup {None}]

\* The file, and an open transaction, have sessions and turns.
Filed ==
  /\ {"sessions", "turns"} \subseteq DOMAIN db /\ {"sessions", "turns"} \subseteq DOMAIN work
  /\ db.sessions \subseteq Past!Sessions /\ db.turns \subseteq Past!Turns

\* The first transaction has the write lock, and adds neither.
Writing ==
  /\ \A r \in Requests : at[r] \in {"tables", "stamp"} => tx = r
  /\ tx # None => work.sessions = db.sessions /\ work.turns = db.turns

\* A session is remembered for the process and source of the request that made it.
Matches(s, r) == ProcessOf[s.by] = ProcessOf[r] /\ SourceOf[s.by] = SourceOf[r]
Remembered ==
  /\ \A r \in Requests : session[r] # None => Matches(session[r], r)
  /\ \A r \in Requests : mapping[r] # None => Matches(mapping[r], r)
  /\ \A p \in Processes, s \in Past!ProcessSources : cache[p][s] # None =>
       ProcessOf[cache[p][s].by] = p /\ SourceOf[cache[p][s].by] = s

\* Who is about to make a session for its process and source has the lock, and there is none.
Making ==
  \A r \in Requests :
    at[r] \in Past!Recording \ {"lookup"} /\ session[r] = None /\ Past!IsCached(r) =>
      cacheLock[ProcessOf[r]] = r /\ cache[ProcessOf[r]][SourceOf[r]] = None

\* The session of a process and source is the one it remembers, or the process has ended.
Cached ==
  \A s \in db.sessions : Past!IsCached(s.by) =>
    \/ cache[ProcessOf[s.by]][SourceOf[s.by]] = s
    \/ \A r \in Requests : ProcessOf[r] = ProcessOf[s.by] => at[r] = "over"

\* What is known of the turn that a request has recorded, where it is.
Placed(t) ==
  LET r == t.request IN
    /\ Matches(t.session, r)
    /\ at[r] # "new"
    /\ at[r] \in Past!Recording => role[r] = "assistant" /\ at[r] # "lookup" /\ session[r] = t.session
    /\ at[r] \in {"prelude", "running"} => mapping[r] = t.session
Recorded == \A t \in db.turns : Placed(t)

SameTurns == \A t, u \in db.turns : u.request = t.request => u.session = t.session

PastParts ==
  /\ PastTyped /\ Filed /\ Writing /\ Remembered /\ Making /\ Cached /\ Recorded /\ SameTurns
  /\ Past!OneSession
PastInv == part = "past" => PastParts

LEMMA PastConstants ==
  /\ None \notin Requests \cup Past!Sessions
  /\ ProcessOf \in [Requests -> Processes]
  /\ \A s \in Past!Sessions : s.by \in Requests
  /\ \A t \in Past!Turns : t.request \in Requests /\ t.session \in Past!Sessions
  BY CoworkersAssumption DEF CoworkersAssumption, Past!HistoryAssumption, Past!Sessions, Past!Turns

LEMMA PastStart == Past!Init => PastParts
<1> SUFFICES ASSUME Past!Init PROVE PastParts
  OBVIOUS
<1> USE PastConstants
<1>1. PastTyped
  BY DEF Past!Init, PastTyped
<1>2. /\ {"sessions", "turns"} \subseteq DOMAIN db /\ {"sessions", "turns"} \subseteq DOMAIN work
      /\ db.sessions = {} /\ db.turns = {}
  BY DEF Past!Init, Past!Absent, Past!Ready, Past!Newer, Past!Made
<1>3. /\ tx = None
      /\ \A r \in Requests : at[r] = "new" /\ session[r] = None /\ mapping[r] = None
      /\ \A q \in Processes, s \in Past!ProcessSources : cache[q][s] = None
  BY DEF Past!Init
<1>4. Filed /\ Cached /\ Recorded /\ SameTurns /\ Past!OneSession
  BY <1>2 DEF Filed, Cached, Recorded, SameTurns, Past!OneSession
<1>5. Writing /\ Remembered /\ Making
  BY <1>3 DEF Writing, Remembered, Making, Past!Recording
<1> QED
  BY <1>1, <1>4, <1>5 DEF PastParts

LEMMA PastBegin ==
  ASSUME PastParts, NEW r \in Requests, Past!Begin(r)
  PROVE  PastParts'
<1> USE PastConstants DEF PastParts
<1>1. PastTyped'
  BY DEF Past!Begin, Past!GoTo, PastTyped, Past!Recording, Past!After
<1>2. Filed'
  BY DEF Past!Begin, Past!GoTo, Filed, Writing
<1>3. Writing'
  BY DEF Past!Begin, Past!GoTo, Writing, Filed, PastTyped, Past!Recording
<1>4. Remembered'
  BY DEF Past!Begin, Past!GoTo, Remembered, Matches, PastTyped, Past!Recording
<1>5. Making'
  BY DEF Past!Begin, Past!GoTo, Making, PastTyped, Past!Recording
<1>6. Cached'
  BY DEF Past!Begin, Past!GoTo, Cached, Filed, Making, Writing, PastTyped, Past!Recording
<1>7. Recorded'
  BY DEF Past!Begin, Past!GoTo, Recorded, Placed, Matches, Filed, Writing, Past!After, PastTyped,
         Past!Recording
<1>8. SameTurns'
  BY DEF Past!Begin, Past!GoTo, SameTurns, Recorded, Placed, Filed, Writing, PastTyped,
         Past!Recording
<1>9. Past!OneSession'
  BY DEF Past!Begin, Past!GoTo, Past!OneSession, Cached, Making, Filed, Writing, PastTyped,
         Past!Recording
<1> QED
  BY <1>1, <1>2, <1>3, <1>4, <1>5, <1>6, <1>7, <1>8, <1>9

LEMMA PastLookUp ==
  ASSUME PastParts, NEW r \in Requests, Past!LookUp(r)
  PROVE  PastParts'
<1> USE PastConstants DEF PastParts
<1> DEFINE known == IF Past!IsCached(r) THEN cache[ProcessOf[r]][SourceOf[r]] ELSE None
<1>a. /\ at[r] = "lookup" /\ at' = [at EXCEPT ![r] = "connect"]
      /\ session' = [session EXCEPT ![r] = known]
      /\ cacheLock' = IF Past!IsCached(r) /\ known = None
                        THEN [cacheLock EXCEPT ![ProcessOf[r]] = r] ELSE cacheLock
      /\ Past!IsCached(r) => cacheLock[ProcessOf[r]] = None
      /\ UNCHANGED <<db, work, tx, cache, mapping, role>>
  BY DEF Past!LookUp, Past!GoTo, Past!MayLookUp, Past!LockOf
<1>b. known \in Past!Sessions \cup {None} /\ (known # None => Matches(known, r))
  BY DEF PastTyped, Remembered, Matches, Past!IsCached
<1>c. Past!IsCached(r) => known = cache[ProcessOf[r]][SourceOf[r]]
  OBVIOUS
<1> HIDE DEF known
<1>1. PastTyped'
  BY <1>a, <1>b DEF PastTyped, Past!Recording
<1>2. Filed'
  BY <1>a DEF Filed
<1>3. Writing'
  BY <1>a DEF Writing, PastTyped
<1>4. Remembered'
  BY <1>a, <1>b DEF Remembered, PastTyped
<1>5. Making'
  <2>1. ASSUME NEW q \in Requests, q # r, at[q] \in Past!Recording \ {"lookup"},
               session[q] = None, Past!IsCached(q)
        PROVE  cacheLock'[ProcessOf[q]] = q /\ cache'[ProcessOf[q]][SourceOf[q]] = None
    BY <2>1, <1>a DEF Making, PastTyped
  <2>2. session'[r] = None /\ Past!IsCached(r) =>
          cacheLock'[ProcessOf[r]] = r /\ cache'[ProcessOf[r]][SourceOf[r]] = None
    BY <1>a, <1>c DEF PastTyped
  <2> QED
    BY <2>1, <2>2, <1>a DEF Making, PastTyped, Past!IsCached
<1>6. Cached'
  BY <1>a DEF Cached, PastTyped
<1>7. Recorded'
  BY <1>a, <1>b DEF Recorded, Placed, PastTyped, Filed
<1>8. SameTurns'
  BY <1>a DEF SameTurns
<1>9. Past!OneSession'
  BY <1>a DEF Past!OneSession
<1> QED
  BY <1>1, <1>2, <1>3, <1>4, <1>5, <1>6, <1>7, <1>8, <1>9

LEMMA PastConnect ==
  ASSUME PastParts, NEW r \in Requests, Past!Connect(r)
  PROVE  PastParts'
<1> USE PastConstants DEF PastParts
<1>1. PastTyped'
  BY DEF Past!Connect, Past!GoTo, PastTyped, Past!Recording, Past!After
<1>2. Filed'
  BY DEF Past!Connect, Past!GoTo, Filed, Writing
<1>3. Writing'
  BY DEF Past!Connect, Past!GoTo, Writing, Filed, PastTyped, Past!Recording
<1>4. Remembered'
  BY DEF Past!Connect, Past!GoTo, Remembered, Matches, PastTyped, Past!Recording
<1>5. Making'
  BY DEF Past!Connect, Past!GoTo, Making, PastTyped, Past!Recording
<1>6. Cached'
  BY DEF Past!Connect, Past!GoTo, Cached, Filed, Making, Writing, PastTyped, Past!Recording
<1>7. Recorded'
  BY DEF Past!Connect, Past!GoTo, Recorded, Placed, Matches, Filed, Writing, Past!After, PastTyped,
         Past!Recording
<1>8. SameTurns'
  BY DEF Past!Connect, Past!GoTo, SameTurns, Recorded, Placed, Filed, Writing, PastTyped,
         Past!Recording
<1>9. Past!OneSession'
  BY DEF Past!Connect, Past!GoTo, Past!OneSession, Cached, Making, Filed, Writing, PastTyped,
         Past!Recording
<1> QED
  BY <1>1, <1>2, <1>3, <1>4, <1>5, <1>6, <1>7, <1>8, <1>9

LEMMA PastEnsureSchema ==
  ASSUME PastParts, NEW r \in Requests, Past!EnsureSchema(r)
  PROVE  PastParts'
<1> USE PastConstants DEF PastParts
<1>1. PastTyped'
  BY DEF Past!EnsureSchema, Past!GoTo, PastTyped, Past!Recording, Past!After
<1>2. Filed'
  BY DEF Past!EnsureSchema, Past!GoTo, Filed, Writing
<1>3. Writing'
  BY DEF Past!EnsureSchema, Past!GoTo, Writing, Filed, PastTyped, Past!Recording
<1>4. Remembered'
  BY DEF Past!EnsureSchema, Past!GoTo, Remembered, Matches, PastTyped, Past!Recording
<1>5. Making'
  BY DEF Past!EnsureSchema, Past!GoTo, Making, PastTyped, Past!Recording
<1>6. Cached'
  BY DEF Past!EnsureSchema, Past!GoTo, Cached, Filed, Making, Writing, PastTyped, Past!Recording
<1>7. Recorded'
  BY DEF Past!EnsureSchema, Past!GoTo, Recorded, Placed, Matches, Filed, Writing, Past!After,
         PastTyped, Past!Recording
<1>8. SameTurns'
  BY DEF Past!EnsureSchema, Past!GoTo, SameTurns, Recorded, Placed, Filed, Writing, PastTyped,
         Past!Recording
<1>9. Past!OneSession'
  BY DEF Past!EnsureSchema, Past!GoTo, Past!OneSession, Cached, Making, Filed, Writing,
         PastTyped, Past!Recording
<1> QED
  BY <1>1, <1>2, <1>3, <1>4, <1>5, <1>6, <1>7, <1>8, <1>9

LEMMA PastCreateTables ==
  ASSUME PastParts, NEW r \in Requests, Past!CreateTables(r)
  PROVE  PastParts'
<1> USE PastConstants DEF PastParts
<1>1. PastTyped'
  BY DEF Past!CreateTables, Past!GoTo, Past!Executed, PastTyped, Past!Recording, Past!After
<1>2. Filed'
  BY DEF Past!CreateTables, Past!GoTo, Past!Executed, Filed, Writing
<1>3. Writing'
  BY DEF Past!CreateTables, Past!GoTo, Past!Executed, Writing, Filed, PastTyped, Past!Recording
<1>4. Remembered'
  BY DEF Past!CreateTables, Past!GoTo, Past!Executed, Remembered, Matches, PastTyped,
         Past!Recording
<1>5. Making'
  BY DEF Past!CreateTables, Past!GoTo, Past!Executed, Making, PastTyped, Past!Recording
<1>6. Cached'
  BY DEF Past!CreateTables, Past!GoTo, Past!Executed, Cached, Filed, Making, Writing, PastTyped,
         Past!Recording
<1>7. Recorded'
  BY DEF Past!CreateTables, Past!GoTo, Past!Executed, Recorded, Placed, Matches, Filed, Writing,
         Past!After, PastTyped, Past!Recording
<1>8. SameTurns'
  BY DEF Past!CreateTables, Past!GoTo, Past!Executed, SameTurns, Recorded, Placed, Filed, Writing,
         PastTyped, Past!Recording
<1>9. Past!OneSession'
  BY DEF Past!CreateTables, Past!GoTo, Past!Executed, Past!OneSession, Cached, Making, Filed,
         Writing, PastTyped, Past!Recording
<1> QED
  BY <1>1, <1>2, <1>3, <1>4, <1>5, <1>6, <1>7, <1>8, <1>9

LEMMA PastStampAndCommit ==
  ASSUME PastParts, NEW r \in Requests, Past!StampAndCommit(r)
  PROVE  PastParts'
<1> USE PastConstants DEF PastParts
<1>1. PastTyped'
  BY DEF Past!StampAndCommit, Past!GoTo, PastTyped, Past!Recording, Past!After
<1>2. Filed'
  BY DEF Past!StampAndCommit, Past!GoTo, Filed, Writing, Past!Absent
<1>3. Writing'
  BY DEF Past!StampAndCommit, Past!GoTo, Writing, Filed, PastTyped, Past!Recording
<1>4. Remembered'
  BY DEF Past!StampAndCommit, Past!GoTo, Remembered, Matches, PastTyped, Past!Recording
<1>5. Making'
  BY DEF Past!StampAndCommit, Past!GoTo, Making, PastTyped, Past!Recording
<1>6. Cached'
  BY DEF Past!StampAndCommit, Past!GoTo, Cached, Filed, Making, Writing, PastTyped, Past!Recording
<1>7. Recorded'
  BY DEF Past!StampAndCommit, Past!GoTo, Recorded, Placed, Matches, Filed, Writing, Past!After,
         PastTyped, Past!Recording
<1>8. SameTurns'
  BY DEF Past!StampAndCommit, Past!GoTo, SameTurns, Recorded, Placed, Filed, Writing, PastTyped,
         Past!Recording
<1>9. Past!OneSession'
  BY DEF Past!StampAndCommit, Past!GoTo, Past!OneSession, Cached, Making, Filed, Writing,
         PastTyped, Past!Recording
<1> QED
  BY <1>1, <1>2, <1>3, <1>4, <1>5, <1>6, <1>7, <1>8, <1>9

LEMMA PastCreateSession ==
  ASSUME PastParts, NEW r \in Requests, Past!CreateSession(r)
  PROVE  PastParts'
<1> USE PastConstants DEF PastParts
<1> DEFINE new == [by |-> r, at |-> role[r]]
<1>a. /\ at[r] = "insert" /\ at' = [at EXCEPT ![r] = "connect"]
      /\ tx = None /\ session[r] = None /\ session' = [session EXCEPT ![r] = new]
      /\ UNCHANGED <<work, tx, mapping, role>>
  BY DEF Past!CreateSession, Past!GoTo
<1>b. /\ db'.sessions = db.sessions \cup {new} /\ db'.turns = db.turns
      /\ {"sessions", "turns"} \subseteq DOMAIN db'
  BY DEF Past!CreateSession, Filed
<1>c. new \in Past!Sessions /\ new.by = r
  BY DEF Past!Sessions, PastTyped
<1>d. /\ cache' \in [Processes -> [Past!ProcessSources -> Past!Sessions \cup {None}]]
      /\ \A q \in Processes, s \in Past!ProcessSources :
           cache'[q][s] = IF q = ProcessOf[r] /\ s = SourceOf[r] THEN new ELSE cache[q][s]
  BY <1>c DEF Past!CreateSession, Past!IsCached, PastTyped
<1>e. /\ cacheLock' \in [Processes -> Requests \cup {None}]
      /\ \A q \in Requests \ {r} : cacheLock[ProcessOf[q]] = q => cacheLock'[ProcessOf[q]] = q
  BY DEF Past!CreateSession, Past!Unlock, Past!LockOf, PastTyped
<1>f. Past!IsCached(r) => cacheLock[ProcessOf[r]] = r /\ cache[ProcessOf[r]][SourceOf[r]] = None
  BY <1>a DEF Making, Past!Recording
<1> HIDE DEF new
<1>g. ASSUME NEW s \in db.sessions, Matches(s, r), Past!IsCached(r) PROVE FALSE
  BY <1>a, <1>f, <1>g DEF Cached, Filed, Matches, Past!IsCached
<1>1. PastTyped'
  BY <1>a, <1>c, <1>d, <1>e DEF PastTyped, Past!Recording
<1>2. Filed'
  BY <1>a, <1>b, <1>c DEF Filed
<1>3. Writing'
  BY <1>a DEF Writing, PastTyped
<1>4. Remembered'
  <2>1. \A q \in Requests : session'[q] # None => Matches(session'[q], q)
    BY <1>a, <1>c DEF Remembered, Matches, PastTyped
  <2>2. ASSUME NEW q \in Processes, NEW s \in Past!ProcessSources, cache'[q][s] # None
        PROVE  ProcessOf[cache'[q][s].by] = q /\ SourceOf[cache'[q][s].by] = s
    <3>1. CASE q = ProcessOf[r] /\ s = SourceOf[r]
      BY <3>1, <1>c, <1>d
    <3>2. CASE ~(q = ProcessOf[r] /\ s = SourceOf[r])
      <4>1. cache'[q][s] = cache[q][s]
        BY <3>2, <1>d
      <4> QED
        BY <2>2, <4>1 DEF Remembered
    <3> QED
      BY <3>1, <3>2
  <2> QED
    BY <2>1, <2>2, <1>a DEF Remembered, Matches
<1>5. Making'
  <2>1. ASSUME NEW q \in Requests, q # r, at[q] \in Past!Recording \ {"lookup"},
               session[q] = None, Past!IsCached(q)
        PROVE  cacheLock'[ProcessOf[q]] = q /\ cache'[ProcessOf[q]][SourceOf[q]] = None
    <3>1. cacheLock[ProcessOf[q]] = q /\ cache[ProcessOf[q]][SourceOf[q]] = None
      BY <2>1 DEF Making
    <3>2. ~(ProcessOf[q] = ProcessOf[r] /\ SourceOf[q] = SourceOf[r])
      BY <2>1, <3>1, <1>f DEF Past!IsCached
    <3>3. ProcessOf[q] \in Processes /\ SourceOf[q] \in Past!ProcessSources
      BY <2>1 DEF Past!IsCached
    <3> QED
      BY <2>1, <3>1, <3>2, <3>3, <1>d, <1>e
  <2> QED
    BY <2>1, <1>a, <1>c DEF Making, PastTyped, Past!IsCached
<1>6. Cached'
  <2>1. ASSUME NEW s \in db.sessions, Past!IsCached(s.by)
        PROVE  \/ cache'[ProcessOf[s.by]][SourceOf[s.by]] = s
               \/ \A q \in Requests : ProcessOf[q] = ProcessOf[s.by] => at'[q] = "over"
    <3>1. s.by \in Requests /\ ProcessOf[s.by] \in Processes /\ SourceOf[s.by] \in Past!ProcessSources
      BY <2>1 DEF Filed, Past!IsCached
    <3>2. CASE cache[ProcessOf[s.by]][SourceOf[s.by]] = s
      <4>1. ~Matches(s, r)
        BY <2>1, <1>g, <3>1 DEF Matches, Past!IsCached
      <4> QED
        BY <3>1, <3>2, <4>1, <1>d DEF Matches
    <3>3. CASE \A q \in Requests : ProcessOf[q] = ProcessOf[s.by] => at[q] = "over"
      BY <3>3, <1>a DEF PastTyped
    <3> QED
      BY <2>1, <3>2, <3>3 DEF Cached
  <2>2. Past!IsCached(r) => cache'[ProcessOf[new.by]][SourceOf[new.by]] = new
    BY <1>c, <1>d DEF Past!IsCached
  <2> QED
    BY <2>1, <2>2, <1>b, <1>c DEF Cached, Past!IsCached
<1>7. Recorded'
  BY <1>a, <1>b DEF Recorded, Placed, PastTyped, Filed, Past!Recording
<1>8. SameTurns'
  BY <1>b DEF SameTurns
<1>9. Past!OneSession'
  BY <1>b, <1>c, <1>g DEF Past!OneSession, Past!IsCached, Matches
<1> QED
  BY <1>1, <1>2, <1>3, <1>4, <1>5, <1>6, <1>7, <1>8, <1>9

LEMMA PastRecordTurn ==
  ASSUME PastParts, NEW r \in Requests, Past!RecordTurn(r)
  PROVE  PastParts'
<1> USE PastConstants DEF PastParts
<1> DEFINE new == [request |-> r, role |-> role[r], session |-> session[r]]
<1>a. /\ at[r] = "insert" /\ tx = None /\ session[r] # None
      /\ at' = [at EXCEPT ![r] = IF role[r] = "user" THEN "prelude" ELSE "over"]
      /\ session' = [session EXCEPT ![r] = None]
      /\ mapping' = IF role[r] = "user" THEN [mapping EXCEPT ![r] = session[r]] ELSE mapping
      /\ UNCHANGED <<work, tx, cache, cacheLock, role>>
  BY DEF Past!RecordTurn, Past!GoTo, Past!After
<1>b. /\ {"sessions", "turns"} \subseteq DOMAIN db' /\ db'.sessions = db.sessions
      /\ db'.turns \subseteq db.turns \cup {new}
  BY DEF Past!RecordTurn, Filed
<1>c. \A t \in db.turns : t.request = r => role[r] = "assistant" /\ t.session = session[r]
  BY <1>a DEF Recorded, Placed, Past!Recording
<1>d. new \in Past!Turns /\ new.request = r /\ new.session = session[r]
  BY <1>a DEF Past!Turns, PastTyped
<1>e. session[r] \in Past!Sessions /\ Matches(session[r], r)
  BY <1>a DEF PastTyped, Remembered
<1> HIDE DEF new
<1>1. PastTyped'
  BY <1>a, <1>e DEF PastTyped
<1>2. Filed'
  BY <1>a, <1>b, <1>d DEF Filed
<1>3. Writing'
  BY <1>a DEF Writing, PastTyped
<1>4. Remembered'
  BY <1>a, <1>e DEF Remembered, PastTyped
<1>5. Making'
  BY <1>a DEF Making, PastTyped, Past!Recording
<1>6. Cached'
  BY <1>a, <1>b DEF Cached, PastTyped
<1>7. Recorded'
  <2>1. /\ at'[r] # "new" /\ at'[r] \notin Past!Recording /\ at'[r] # "running"
        /\ at'[r] = "prelude" => mapping'[r] = session[r]
    BY <1>a DEF PastTyped, Past!Recording
  <2>2. ASSUME NEW t \in db'.turns, t.request = r PROVE Placed(t)'
    <3>1. t.session = session[r]
      BY <2>2, <1>b, <1>c, <1>d
    <3> QED
      BY <2>1, <2>2, <3>1, <1>e DEF Placed, Matches
  <2>3. ASSUME NEW t \in db'.turns, t.request # r PROVE Placed(t)'
    <3>1. t \in db.turns /\ t.request \in Requests
      BY <2>3, <1>b, <1>d DEF Filed
    <3> QED
      BY <2>3, <3>1, <1>a DEF Recorded, Placed, Matches, PastTyped
  <2> QED
    BY <2>2, <2>3 DEF Recorded
<1>8. SameTurns'
  BY <1>b, <1>c, <1>d DEF SameTurns
<1>9. Past!OneSession'
  BY <1>b DEF Past!OneSession
<1> QED
  BY <1>1, <1>2, <1>3, <1>4, <1>5, <1>6, <1>7, <1>8, <1>9

LEMMA PastCaptureFails ==
  ASSUME PastParts, NEW r \in Requests, Past!CaptureFails(r)
  PROVE  PastParts'
<1> USE PastConstants DEF PastParts
<1>a. /\ at[r] \in Past!Recording \ {"lookup"}
      /\ at' = [at EXCEPT ![r] = IF role[r] = "user" THEN "prelude" ELSE "over"]
      /\ session' = [session EXCEPT ![r] = None]
      /\ tx' = IF tx = r THEN None ELSE tx
      /\ UNCHANGED <<db, cache, mapping, role>>
  BY DEF Past!CaptureFails, Past!GoTo, Past!After
<1>b. /\ {"sessions", "turns"} \subseteq DOMAIN work'
      /\ tx # r => work' = work
  BY DEF Past!CaptureFails, Filed, Past!Absent
<1>c. /\ cacheLock' \in [Processes -> Requests \cup {None}]
      /\ \A q \in Requests \ {r} : cacheLock[ProcessOf[q]] = q => cacheLock'[ProcessOf[q]] = q
  BY DEF Past!CaptureFails, Past!Unlock, Past!LockOf, PastTyped
<1>1. PastTyped'
  BY <1>a, <1>c DEF PastTyped, Past!Recording
<1>2. Filed'
  BY <1>a, <1>b DEF Filed
<1>3. Writing'
  BY <1>a, <1>b DEF Writing, PastTyped
<1>4. Remembered'
  BY <1>a DEF Remembered, PastTyped
<1>5. Making'
  BY <1>a, <1>c DEF Making, PastTyped, Past!Recording, Past!IsCached
<1>6. Cached'
  BY <1>a DEF Cached, PastTyped, Past!Recording
<1>7. Recorded'
  BY <1>a DEF Recorded, Placed, PastTyped, Past!Recording, Filed
<1>8. SameTurns'
  BY <1>a DEF SameTurns
<1>9. Past!OneSession'
  BY <1>a DEF Past!OneSession
<1> QED
  BY <1>1, <1>2, <1>3, <1>4, <1>5, <1>6, <1>7, <1>8, <1>9

LEMMA PastPreludeRaises ==
  ASSUME PastParts, NEW r \in Requests, Past!PreludeRaises(r)
  PROVE  PastParts'
<1> USE PastConstants DEF PastParts
<1>1. PastTyped'
  BY DEF Past!PreludeRaises, Past!GoTo, PastTyped, Past!Recording, Past!After
<1>2. Filed'
  BY DEF Past!PreludeRaises, Past!GoTo, Filed, Writing
<1>3. Writing'
  BY DEF Past!PreludeRaises, Past!GoTo, Writing, Filed, PastTyped, Past!Recording
<1>4. Remembered'
  BY DEF Past!PreludeRaises, Past!GoTo, Remembered, Matches, PastTyped, Past!Recording
<1>5. Making'
  BY DEF Past!PreludeRaises, Past!GoTo, Making, PastTyped, Past!Recording
<1>6. Cached'
  BY DEF Past!PreludeRaises, Past!GoTo, Cached, Filed, Making, Writing, PastTyped, Past!Recording
<1>7. Recorded'
  BY DEF Past!PreludeRaises, Past!GoTo, Recorded, Placed, Matches, Filed, Writing, Past!After,
         PastTyped, Past!Recording
<1>8. SameTurns'
  BY DEF Past!PreludeRaises, Past!GoTo, SameTurns, Recorded, Placed, Filed, Writing, PastTyped,
         Past!Recording
<1>9. Past!OneSession'
  BY DEF Past!PreludeRaises, Past!GoTo, Past!OneSession, Cached, Making, Filed, Writing,
         PastTyped, Past!Recording
<1> QED
  BY <1>1, <1>2, <1>3, <1>4, <1>5, <1>6, <1>7, <1>8, <1>9

LEMMA PastSearch ==
  ASSUME PastParts, NEW r \in Requests, Past!Search(r)
  PROVE  PastParts'
<1> USE PastConstants DEF PastParts
<1>1. PastTyped'
  BY DEF Past!Search, Past!GoTo, PastTyped, Past!Recording, Past!After
<1>2. Filed'
  BY DEF Past!Search, Past!GoTo, Filed, Writing
<1>3. Writing'
  BY DEF Past!Search, Past!GoTo, Writing, Filed, PastTyped, Past!Recording
<1>4. Remembered'
  BY DEF Past!Search, Past!GoTo, Remembered, Matches, PastTyped, Past!Recording
<1>5. Making'
  BY DEF Past!Search, Past!GoTo, Making, PastTyped, Past!Recording
<1>6. Cached'
  BY DEF Past!Search, Past!GoTo, Cached, Filed, Making, Writing, PastTyped, Past!Recording
<1>7. Recorded'
  BY DEF Past!Search, Past!GoTo, Recorded, Placed, Matches, Filed, Writing, Past!After, PastTyped,
         Past!Recording
<1>8. SameTurns'
  BY DEF Past!Search, Past!GoTo, SameTurns, Recorded, Placed, Filed, Writing, PastTyped,
         Past!Recording
<1>9. Past!OneSession'
  BY DEF Past!Search, Past!GoTo, Past!OneSession, Cached, Making, Filed, Writing, PastTyped,
         Past!Recording
<1> QED
  BY <1>1, <1>2, <1>3, <1>4, <1>5, <1>6, <1>7, <1>8, <1>9

LEMMA PastAnswer ==
  ASSUME PastParts, NEW r \in Requests, Past!Answer(r)
  PROVE  PastParts'
<1> USE PastConstants DEF PastParts
<1>a. /\ at[r] = "running"
      /\ role' = [role EXCEPT ![r] = "assistant"]
      /\ mapping' = [mapping EXCEPT ![r] = None]
      /\ \/ at' = [at EXCEPT ![r] = "over"] /\ UNCHANGED session
         \/ /\ session' = [session EXCEPT ![r] = mapping[r]]
            /\ at' = [at EXCEPT ![r] = IF mapping[r] = None THEN "lookup" ELSE "connect"]
      /\ UNCHANGED <<db, work, tx, cache, cacheLock>>
  BY DEF Past!Answer, Past!GoTo, Past!SessionOfRequest
<1>1. PastTyped'
  BY <1>a DEF PastTyped, Past!Recording
<1>2. Filed'
  BY <1>a DEF Filed
<1>3. Writing'
  BY <1>a DEF Writing, PastTyped
<1>4. Remembered'
  <2>1. \A q \in Requests : session'[q] \in {session[q], mapping[q]}
    BY <1>a DEF PastTyped
  <2>2. \A q \in Requests : mapping'[q] \in {None, mapping[q]}
    BY <1>a DEF PastTyped
  <2> QED
    BY <1>a, <2>1, <2>2 DEF Remembered, Matches
<1>5. Making'
  BY <1>a DEF Making, PastTyped, Past!Recording
<1>6. Cached'
  BY <1>a DEF Cached, PastTyped
<1>7. Recorded'
  <2>1. ASSUME NEW t \in db.turns PROVE Placed(t)'
    <3>1. CASE t.request = r
      BY <3>1, <1>a DEF Recorded, Placed, Matches, PastTyped, Past!Recording, Filed
    <3>2. CASE t.request # r
      BY <3>2, <1>a DEF Recorded, Placed, Matches, PastTyped, Past!Recording, Filed
    <3> QED
      BY <3>1, <3>2
  <2> QED
    BY <2>1, <1>a DEF Recorded
<1>8. SameTurns'
  BY <1>a DEF SameTurns
<1>9. Past!OneSession'
  BY <1>a DEF Past!OneSession
<1> QED
  BY <1>1, <1>2, <1>3, <1>4, <1>5, <1>6, <1>7, <1>8, <1>9

LEMMA PastCrash ==
  ASSUME PastParts, NEW p \in Processes, Past!Crash(p)
  PROVE  PastParts'
<1> USE PastConstants DEF PastParts
<1>1. PastTyped'
  BY DEF Past!Crash, Past!Of, PastTyped, Past!Recording, Past!After
<1>2. Filed'
  BY DEF Past!Crash, Past!Of, Filed, Writing, Past!Absent
<1>3. Writing'
  BY DEF Past!Crash, Past!Of, Writing, Filed, PastTyped, Past!Recording
<1>4. Remembered'
  BY DEF Past!Crash, Past!Of, Remembered, Matches, PastTyped, Past!Recording
<1>5. Making'
  BY DEF Past!Crash, Past!Of, Making, PastTyped, Past!Recording
<1>6. Cached'
  BY DEF Past!Crash, Past!Of, Cached, Filed, Making, Writing, PastTyped, Past!Recording
<1>7. Recorded'
  BY DEF Past!Crash, Past!Of, Recorded, Placed, Matches, Filed, Writing, Past!After, PastTyped,
         Past!Recording
<1>8. SameTurns'
  BY DEF Past!Crash, Past!Of, SameTurns, Recorded, Placed, Filed, Writing, PastTyped, Past!Recording
<1>9. Past!OneSession'
  BY DEF Past!Crash, Past!Of, Past!OneSession, Cached, Making, Filed, Writing, PastTyped,
         Past!Recording
<1> QED
  BY <1>1, <1>2, <1>3, <1>4, <1>5, <1>6, <1>7, <1>8, <1>9

LEMMA PastDamage ==
  ASSUME PastParts, NEW new \in {Past!Garbage, Past!Absent}, Past!Damage(new)
  PROVE  PastParts'
<1> USE PastConstants DEF PastParts
<1>a. /\ {"sessions", "turns"} \subseteq DOMAIN db' /\ db'.sessions = {} /\ db'.turns = {}
      /\ UNCHANGED <<work, tx, cache, cacheLock, mapping, at, role, session>> /\ tx = None
  BY DEF Past!Damage, Past!Garbage, Past!Absent
<1>1. PastTyped' /\ Remembered' /\ Making'
  BY <1>a DEF PastTyped, Remembered, Making
<1>2. Filed' /\ Writing'
  BY <1>a DEF Filed, Writing
<1>3. Cached' /\ Recorded' /\ SameTurns' /\ Past!OneSession'
  BY <1>a DEF Cached, Recorded, SameTurns, Past!OneSession
<1> QED
  BY <1>1, <1>2, <1>3

LEMMA PastSteps == PastParts /\ [Past!Next]_(Past!vars) => PastParts'
<1> SUFFICES ASSUME PastParts, [Past!Next]_(Past!vars) PROVE PastParts'
  OBVIOUS
<1>1. CASE UNCHANGED Past!vars
  BY <1>1 DEF Past!vars, PastParts, PastTyped, Filed, Writing, Remembered, Making, Cached, Recorded,
              Placed, Matches, SameTurns, Past!OneSession
<1>2. ASSUME NEW r \in Requests, Past!RequestStep(r) PROVE PastParts'
  BY <1>2, PastBegin, PastLookUp, PastConnect, PastEnsureSchema, PastCreateTables,
     PastStampAndCommit, PastCreateSession, PastRecordTurn, PastCaptureFails, PastPreludeRaises,
     PastSearch, PastAnswer DEF Past!RequestStep
<1> QED
  BY <1>1, <1>2, PastCrash, PastDamage DEF Past!Next

LEMMA PastInvariant == Spec => []PastInv
<1>1. Init => PastInv
  BY PastStart DEF Init, PastInv
<1>2. PastInv /\ [Next]_vars => PastInv'
  <2> SUFFICES ASSUME PastInv, [Next]_vars, part = "past" PROVE PastParts'
    BY PartIsKept DEF PastInv
  <2>1. CASE Next
    BY <2>1, PastSteps DEF Next, PastInv
  <2>2. CASE UNCHANGED vars
    <3>1. UNCHANGED Past!vars
      BY <2>2 DEF vars, pastOnly, Past!vars
    <3> QED
      BY <3>1, PastSteps DEF PastInv
  <2> QED
    BY <2>1, <2>2
<1> QED
  BY <1>1, <1>2, PTL DEF Spec

\* A process has one session for each of its sources that keep one.
THEOREM OneSessionHolds == Spec => []OneSession
<1>1. PastInv => OneSession
  BY DEF PastInv, PastParts, OneSession
<1> QED
  BY <1>1, PastInvariant, PTL

\* The turns of a request are in one session, of its own process and source.
THEOREM TurnsTogetherHolds == Spec => []TurnsTogether
<1>1. PastInv => TurnsTogether
  BY DEF PastInv, PastParts, Recorded, Placed, SameTurns, Matches, TurnsTogether, Past!TurnsTogether
<1> QED
  BY <1>1, PastInvariant, PTL

----------------------------------------------------------------------------
(* The runs of the coding coworker. *)

CodingTyped ==
  /\ DOMAIN files = Paths /\ DOMAIN refs = RequestIds /\ order \in Nat
  /\ request \in [Runs -> RequestIds] /\ stage \in [Runs -> Coding!Stages]
  /\ DOMAIN snapshot = Runs /\ DOMAIN written = Runs /\ DOMAIN changed = Runs
  /\ DOMAIN plan = Runs
  /\ \A r \in Runs : DOMAIN plan[r] = Paths /\ changed[r] \subseteq Paths
  /\ DOMAIN foreign = Runs /\ DOMAIN left = Runs

\* Only a path that the run wrote is ever looked at by its rollback.
Owned == \A r \in Runs, p \in Paths : plan[r][p] # Coding!Unread => p \in written[r]

Checkpointing == {"new", "status", "snapped"}

\* What a run writes is in no snapshot that was taken before its first write, and its own is
\* such a one.
Before ==
  /\ \A r \in Runs, p \in Paths : snapshot[r][p] # r
  /\ \A r \in Runs : stage[r] \in Checkpointing =>
       \A p \in Paths :
         /\ files[p] # r
         /\ \A s \in Runs : snapshot[s][p] # r
         /\ \A q \in RequestIds : refs[q] # Coding!NoRef => refs[q].tree[p] # r

\* Until it is replaced, the ref of a run's request id is the run's own checkpoint.
Own(r) ==
  /\ Coding!RefOf(r) # Coding!NoRef
  /\ Coding!RefOf(r).run = r
  /\ Coding!RefOf(r).tree = snapshot[r]
OwnRef ==
  \A r \in Runs \ replaced : stage[r] \in {"editing", "tested", "queued", "restoring"} => Own(r)

\* Who restores has the lock.
Restoring == \A r \in Runs : stage[r] = "restoring" => lock = r

\* What is still to do: each path was looked at as it is in the snapshot, and a path that has
\* the run's edit had it when it was looked at.
ToDo ==
  \A r \in Runs \ replaced : stage[r] = "restoring" => \A p \in Paths :
    /\ plan[r][p] # Coding!Unread => plan[r][p].checkpointed = snapshot[r][p]
    /\ p \in Coding!Candidates(r) /\ files[p] = r =>
         plan[r][p] # Coding!Unread /\ plan[r][p].current = r

CodingParts ==
  CodingTyped /\ Owned /\ Before /\ OwnRef /\ Restoring /\ ToDo
    /\ Coding!RollbackSparesOthers /\ Coding!RolledBackLeavesNothing
CodingInv == part = "coding" => CodingParts

LEMMA CodingConstants == Runs \cap {"absent", "base", "human", "nobody"} = {}
  BY CoworkersAssumption DEF CoworkersAssumption, Coding!RunsAssumption

\* A path that was looked at does not count as done.
LEMMA ReadIsToDo ==
  ASSUME NEW was, NEW is
  PROVE  [checkpointed |-> was, current |-> is] # Coding!Unread
<1>1. "current" \in DOMAIN [checkpointed |-> was, current |-> is]
  OBVIOUS
<1>2. "current" \notin DOMAIN Coding!Unread
  BY DEF Coding!Unread
<1> QED
  BY <1>1, <1>2

LEMMA CodingStart == Coding!Init => CodingParts
<1> SUFFICES ASSUME Coding!Init PROVE CodingParts
  OBVIOUS
<1> USE CodingConstants
<1>1. CodingTyped
  BY DEF Coding!Init, CodingTyped, Coding!First, Coding!NothingRead, Coding!Stages
<1>2. Owned
  BY DEF Coding!Init, Owned, Coding!NothingRead
<1>3. Before
  BY DEF Coding!Init, Before, Coding!First, Coding!Absent
<1>4. OwnRef /\ Restoring /\ ToDo /\ Coding!RollbackSparesOthers /\ Coding!RolledBackLeavesNothing
  BY DEF Coding!Init, OwnRef, Restoring, ToDo, Coding!RollbackSparesOthers,
         Coding!RolledBackLeavesNothing
<1> QED
  BY <1>1, <1>2, <1>3, <1>4 DEF CodingParts

LEMMA CodingReadStatus ==
  ASSUME CodingParts, NEW r \in Runs, Coding!ReadStatus(r)
  PROVE  CodingParts'
<1> USE CodingConstants DEF CodingParts
<1>1. CodingTyped'
  BY DEF Coding!ReadStatus, Coding!GoTo, CodingTyped, Coding!Stages, Coding!NothingRead,
         Coding!known, Coding!historyVars
<1>2. Owned'
  BY DEF Coding!ReadStatus, Coding!GoTo, Owned, CodingTyped, Coding!NothingRead, Coding!known,
         Coding!historyVars
<1>3. Before'
  BY DEF Coding!ReadStatus, Coding!GoTo, Before, CodingTyped, Checkpointing, Coding!First,
         Coding!Absent, Coding!Stages, Coding!known, Coding!historyVars
<1>4. OwnRef'
  BY DEF Coding!ReadStatus, Coding!GoTo, OwnRef, Own, CodingTyped, Coding!Stages, Coding!RefOf,
         Coding!known, Coding!historyVars
<1>5. Restoring'
  BY DEF Coding!ReadStatus, Coding!GoTo, Restoring, CodingTyped, Coding!Stages, Coding!Nobody,
         Coding!known, Coding!historyVars
<1>6. ToDo'
  BY DEF Coding!ReadStatus, Coding!GoTo, ToDo, CodingTyped, Coding!Stages, Coding!NothingRead,
         Coding!Candidates, Coding!Absent, Coding!known, Coding!historyVars
<1>7. Coding!RollbackSparesOthers'
  BY DEF Coding!ReadStatus, Coding!GoTo, Coding!RollbackSparesOthers, CodingTyped, Coding!known,
         Coding!historyVars
<1>8. Coding!RolledBackLeavesNothing'
  BY DEF Coding!ReadStatus, Coding!GoTo, Coding!RolledBackLeavesNothing, CodingTyped,
         Coding!known, Coding!historyVars
<1> QED
  BY <1>1, <1>2, <1>3, <1>4, <1>5, <1>6, <1>7, <1>8

LEMMA CodingTakeSnapshot ==
  ASSUME CodingParts, NEW r \in Runs, Coding!TakeSnapshot(r)
  PROVE  CodingParts'
<1> USE CodingConstants DEF CodingParts
<1>1. CodingTyped'
  BY DEF Coding!TakeSnapshot, Coding!GoTo, Coding!Snapshot, CodingTyped, Coding!Stages,
         Coding!NothingRead, Coding!known, Coding!historyVars
<1>2. Owned'
  BY DEF Coding!TakeSnapshot, Coding!GoTo, Coding!Snapshot, Owned, CodingTyped,
         Coding!NothingRead, Coding!known, Coding!historyVars
<1>3. Before'
  BY DEF Coding!TakeSnapshot, Coding!GoTo, Coding!Snapshot, Before, CodingTyped, Checkpointing,
         Coding!First, Coding!Absent, Coding!Stages, Coding!known, Coding!historyVars
<1>4. OwnRef'
  BY DEF Coding!TakeSnapshot, Coding!GoTo, Coding!Snapshot, OwnRef, Own, CodingTyped,
         Coding!Stages, Coding!RefOf, Coding!known, Coding!historyVars
<1>5. Restoring'
  BY DEF Coding!TakeSnapshot, Coding!GoTo, Coding!Snapshot, Restoring, CodingTyped, Coding!Stages,
         Coding!Nobody, Coding!known, Coding!historyVars
<1>6. ToDo'
  BY DEF Coding!TakeSnapshot, Coding!GoTo, Coding!Snapshot, ToDo, CodingTyped, Coding!Stages,
         Coding!NothingRead, Coding!Candidates, Coding!Absent, Coding!known, Coding!historyVars
<1>7. Coding!RollbackSparesOthers'
  BY DEF Coding!TakeSnapshot, Coding!GoTo, Coding!Snapshot, Coding!RollbackSparesOthers,
         CodingTyped, Coding!known, Coding!historyVars
<1>8. Coding!RolledBackLeavesNothing'
  BY DEF Coding!TakeSnapshot, Coding!GoTo, Coding!Snapshot, Coding!RolledBackLeavesNothing,
         CodingTyped, Coding!known, Coding!historyVars
<1> QED
  BY <1>1, <1>2, <1>3, <1>4, <1>5, <1>6, <1>7, <1>8

LEMMA CodingUpdateRef ==
  ASSUME CodingParts, NEW r \in Runs, Coding!UpdateRef(r)
  PROVE  CodingParts'
<1> USE CodingConstants DEF CodingParts
<1>1. CodingTyped'
  BY DEF Coding!UpdateRef, Coding!Finalize, Coding!Forget, Coding!GoTo, Coding!RefOf, CodingTyped,
         Coding!Stages, Coding!NothingRead, Coding!known, Coding!historyVars
<1>2. Owned'
  BY DEF Coding!UpdateRef, Coding!Finalize, Coding!Forget, Coding!GoTo, Coding!RefOf, Owned,
         CodingTyped, Coding!NothingRead, Coding!known, Coding!historyVars
<1>3. Before'
  <2>1. /\ stage[r] = "snapped" /\ stage'[r] \notin Checkpointing
        /\ \A s \in Runs \ {r} : stage'[s] = stage[s] /\ snapshot'[s] = snapshot[s]
        /\ snapshot'[r] = snapshot[r] \/ snapshot'[r] = Coding!First
        /\ UNCHANGED files
        /\ refs'[request[r]].tree = snapshot[r]
        /\ \A q \in RequestIds \ {request[r]} : refs'[q] = refs[q]
    BY DEF Coding!UpdateRef, Coding!Finalize, Coding!Forget, Coding!GoTo, CodingTyped,
           Checkpointing, Coding!known
  <2>2. \A s \in Runs, p \in Paths : Coding!First[p] # s
    BY DEF Coding!First, Coding!Absent
  <2> QED
    BY <2>1, <2>2 DEF Before, CodingTyped
<1>4. OwnRef'
  <2>1. /\ refs' = [refs EXCEPT ![request[r]] =
                       [order |-> order + 1, run |-> r, tree |-> snapshot[r]]]
        /\ replaced' = replaced \cup {s \in Runs : /\ Coding!RefOf(r) # Coding!NoRef
                                                   /\ Coding!RefOf(r).run = s}
        /\ \A s \in Runs \ {r} : stage'[s] = stage[s] /\ snapshot'[s] = snapshot[s]
        /\ stage'[r] = "pruning" \/ (stage'[r] = "editing" /\ snapshot'[r] = snapshot[r])
        /\ UNCHANGED request
    <3>1. /\ refs' = [refs EXCEPT ![request[r]] =
                         [order |-> order + 1, run |-> r, tree |-> snapshot[r]]]
          /\ UNCHANGED request
      BY DEF Coding!UpdateRef
    <3>2. replaced' = replaced \cup {s \in Runs : /\ Coding!RefOf(r) # Coding!NoRef
                                                  /\ Coding!RefOf(r).run = s}
      BY DEF Coding!UpdateRef
    <3>3. CASE dirty[r] = {}
      <4>1. stage' = [stage EXCEPT ![r] = "editing"] /\ snapshot' = snapshot
        BY <3>3 DEF Coding!UpdateRef, Coding!GoTo, Coding!known
      <4> QED
        BY <3>1, <3>2, <4>1 DEF CodingTyped
    <3>4. CASE dirty[r] # {}
      <4>1. /\ stage' = [stage EXCEPT ![r] = "pruning"]
            /\ snapshot' = [snapshot EXCEPT ![r] = Coding!First]
        BY <3>4 DEF Coding!UpdateRef, Coding!Finalize, Coding!Forget, Coding!GoTo
      <4>2. stage'[r] = "pruning"
        BY <4>1 DEF CodingTyped
      <4>3. \A s \in Runs \ {r} : stage'[s] = stage[s] /\ snapshot'[s] = snapshot[s]
        BY <4>1 DEF CodingTyped
      <4> QED
        BY <3>1, <3>2, <4>2, <4>3
    <3> QED
      BY <3>3, <3>4
  <2>2. ASSUME stage'[r] = "editing" PROVE Own(r)'
    <3>1. refs'[request[r]] = [order |-> order + 1, run |-> r, tree |-> snapshot[r]]
      BY <2>1 DEF CodingTyped
    <3>2. refs'[request[r]].order # 0
      BY <3>1 DEF CodingTyped
    <3> QED
      BY <2>1, <2>2, <3>1, <3>2 DEF Own, Coding!RefOf, Coding!NoRef
  <2>3. ASSUME NEW s \in Runs \ replaced', s # r,
               stage[s] \in {"editing", "tested", "queued", "restoring"}
        PROVE  Own(s)'
    <3>1. Own(s)
      BY <2>1, <2>3 DEF OwnRef
    <3>2. request[s] # request[r]
      BY <2>1, <2>3, <3>1 DEF Own, Coding!RefOf
    <3>3. refs'[request[s]] = refs[request[s]]
      BY <2>1, <3>2 DEF CodingTyped
    <3> QED
      BY <2>1, <2>3, <3>1, <3>3 DEF Own, Coding!RefOf, CodingTyped
  <2> QED
    BY <2>1, <2>2, <2>3 DEF OwnRef
<1>5. Restoring'
  BY DEF Coding!UpdateRef, Coding!Finalize, Coding!Forget, Coding!GoTo, Coding!RefOf, Restoring,
         CodingTyped, Coding!Stages, Coding!Nobody, Coding!known, Coding!historyVars
<1>6. ToDo'
  BY DEF Coding!UpdateRef, Coding!Finalize, Coding!Forget, Coding!GoTo, Coding!RefOf, ToDo,
         CodingTyped, Coding!Stages, Coding!NothingRead, Coding!Candidates, Coding!Absent,
         Coding!known, Coding!historyVars
<1>7. Coding!RollbackSparesOthers'
  BY DEF Coding!UpdateRef, Coding!Finalize, Coding!Forget, Coding!GoTo, Coding!RefOf,
         Coding!RollbackSparesOthers, CodingTyped, Coding!known, Coding!historyVars
<1>8. Coding!RolledBackLeavesNothing'
  BY DEF Coding!UpdateRef, Coding!Finalize, Coding!Forget, Coding!GoTo, Coding!RefOf,
         Coding!RolledBackLeavesNothing, CodingTyped, Coding!known, Coding!historyVars
<1> QED
  BY <1>1, <1>2, <1>3, <1>4, <1>5, <1>6, <1>7, <1>8

LEMMA CodingCheckpointFails ==
  ASSUME CodingParts, NEW r \in Runs, Coding!CheckpointFails(r)
  PROVE  CodingParts'
<1> USE CodingConstants DEF CodingParts
<1>1. CodingTyped'
  BY DEF Coding!CheckpointFails, Coding!Trouble, Coding!Forget, Coding!GoTo, CodingTyped,
         Coding!Stages, Coding!NothingRead, Coding!known, Coding!historyVars
<1>2. Owned'
  BY DEF Coding!CheckpointFails, Coding!Trouble, Coding!Forget, Coding!GoTo, Owned, CodingTyped,
         Coding!NothingRead, Coding!known, Coding!historyVars
<1>3. Before'
  BY DEF Coding!CheckpointFails, Coding!Trouble, Coding!Forget, Coding!GoTo, Before, CodingTyped,
         Checkpointing, Coding!First, Coding!Absent, Coding!Stages, Coding!known,
         Coding!historyVars
<1>4. OwnRef'
  BY DEF Coding!CheckpointFails, Coding!Trouble, Coding!Forget, Coding!GoTo, OwnRef, Own,
         CodingTyped, Coding!Stages, Coding!RefOf, Coding!known, Coding!historyVars
<1>5. Restoring'
  BY DEF Coding!CheckpointFails, Coding!Trouble, Coding!Forget, Coding!GoTo, Restoring,
         CodingTyped, Coding!Stages, Coding!Nobody, Coding!known, Coding!historyVars
<1>6. ToDo'
  BY DEF Coding!CheckpointFails, Coding!Trouble, Coding!Forget, Coding!GoTo, ToDo, CodingTyped,
         Coding!Stages, Coding!NothingRead, Coding!Candidates, Coding!Absent, Coding!known,
         Coding!historyVars
<1>7. Coding!RollbackSparesOthers'
  BY DEF Coding!CheckpointFails, Coding!Trouble, Coding!Forget, Coding!GoTo,
         Coding!RollbackSparesOthers, CodingTyped, Coding!known, Coding!historyVars
<1>8. Coding!RolledBackLeavesNothing'
  BY DEF Coding!CheckpointFails, Coding!Trouble, Coding!Forget, Coding!GoTo,
         Coding!RolledBackLeavesNothing, CodingTyped, Coding!known, Coding!historyVars
<1> QED
  BY <1>1, <1>2, <1>3, <1>4, <1>5, <1>6, <1>7, <1>8

LEMMA CodingWrite ==
  ASSUME CodingParts, NEW r \in Runs, NEW p \in Paths, Coding!Write(r, p)
  PROVE  CodingParts'
<1> USE CodingConstants DEF CodingParts
<1>1. CodingTyped'
  BY DEF Coding!Write, Coding!Trouble, CodingTyped, Coding!Stages, Coding!NothingRead,
         Coding!known, Coding!historyVars
<1>2. Owned'
  BY DEF Coding!Write, Coding!Trouble, Owned, CodingTyped, Coding!NothingRead, Coding!known,
         Coding!historyVars
<1>3. Before'
  BY DEF Coding!Write, Coding!Trouble, Before, CodingTyped, Checkpointing, Coding!First,
         Coding!Absent, Coding!Stages, Coding!known, Coding!historyVars
<1>4. OwnRef'
  BY DEF Coding!Write, Coding!Trouble, OwnRef, Own, CodingTyped, Coding!Stages, Coding!RefOf,
         Coding!known, Coding!historyVars
<1>5. Restoring'
  BY DEF Coding!Write, Coding!Trouble, Restoring, CodingTyped, Coding!Stages, Coding!Nobody,
         Coding!known, Coding!historyVars
<1>6. ToDo'
  BY DEF Coding!Write, Coding!Trouble, ToDo, CodingTyped, Coding!Stages, Coding!NothingRead,
         Coding!Candidates, Coding!Absent, Coding!known, Coding!historyVars
<1>7. Coding!RollbackSparesOthers'
  BY DEF Coding!Write, Coding!Trouble, Coding!RollbackSparesOthers, CodingTyped, Coding!known,
         Coding!historyVars
<1>8. Coding!RolledBackLeavesNothing'
  BY DEF Coding!Write, Coding!Trouble, Coding!RolledBackLeavesNothing, CodingTyped, Coding!known,
         Coding!historyVars
<1> QED
  BY <1>1, <1>2, <1>3, <1>4, <1>5, <1>6, <1>7, <1>8

LEMMA CodingNoVerdict ==
  ASSUME CodingParts, NEW r \in Runs, Coding!NoVerdict(r)
  PROVE  CodingParts'
<1> USE CodingConstants DEF CodingParts
<1>1. CodingTyped'
  BY DEF Coding!NoVerdict, Coding!Finalize, Coding!Forget, Coding!GoTo, CodingTyped,
         Coding!Stages, Coding!NothingRead, Coding!known, Coding!historyVars
<1>2. Owned'
  BY DEF Coding!NoVerdict, Coding!Finalize, Coding!Forget, Coding!GoTo, Owned, CodingTyped,
         Coding!NothingRead, Coding!known, Coding!historyVars
<1>3. Before'
  BY DEF Coding!NoVerdict, Coding!Finalize, Coding!Forget, Coding!GoTo, Before, CodingTyped,
         Checkpointing, Coding!First, Coding!Absent, Coding!Stages, Coding!known,
         Coding!historyVars
<1>4. OwnRef'
  BY DEF Coding!NoVerdict, Coding!Finalize, Coding!Forget, Coding!GoTo, OwnRef, Own, CodingTyped,
         Coding!Stages, Coding!RefOf, Coding!known, Coding!historyVars
<1>5. Restoring'
  BY DEF Coding!NoVerdict, Coding!Finalize, Coding!Forget, Coding!GoTo, Restoring, CodingTyped,
         Coding!Stages, Coding!Nobody, Coding!known, Coding!historyVars
<1>6. ToDo'
  BY DEF Coding!NoVerdict, Coding!Finalize, Coding!Forget, Coding!GoTo, ToDo, CodingTyped,
         Coding!Stages, Coding!NothingRead, Coding!Candidates, Coding!Absent, Coding!known,
         Coding!historyVars
<1>7. Coding!RollbackSparesOthers'
  BY DEF Coding!NoVerdict, Coding!Finalize, Coding!Forget, Coding!GoTo,
         Coding!RollbackSparesOthers, CodingTyped, Coding!known, Coding!historyVars
<1>8. Coding!RolledBackLeavesNothing'
  BY DEF Coding!NoVerdict, Coding!Finalize, Coding!Forget, Coding!GoTo,
         Coding!RolledBackLeavesNothing, CodingTyped, Coding!known, Coding!historyVars
<1> QED
  BY <1>1, <1>2, <1>3, <1>4, <1>5, <1>6, <1>7, <1>8

LEMMA CodingDiff ==
  ASSUME CodingParts, NEW r \in Runs, Coding!Diff(r)
  PROVE  CodingParts'
<1> USE CodingConstants DEF CodingParts
<1>1. CodingTyped'
  BY DEF Coding!Diff, Coding!GoTo, Coding!Verdicts, CodingTyped, Coding!Stages,
         Coding!NothingRead, Coding!known, Coding!historyVars
<1>2. Owned'
  BY DEF Coding!Diff, Coding!GoTo, Coding!Verdicts, Owned, CodingTyped, Coding!NothingRead,
         Coding!known, Coding!historyVars
<1>3. Before'
  BY DEF Coding!Diff, Coding!GoTo, Coding!Verdicts, Before, CodingTyped, Checkpointing,
         Coding!First, Coding!Absent, Coding!Stages, Coding!known, Coding!historyVars
<1>4. OwnRef'
  BY DEF Coding!Diff, Coding!GoTo, Coding!Verdicts, OwnRef, Own, CodingTyped, Coding!Stages,
         Coding!RefOf, Coding!known, Coding!historyVars
<1>5. Restoring'
  BY DEF Coding!Diff, Coding!GoTo, Coding!Verdicts, Restoring, CodingTyped, Coding!Stages,
         Coding!Nobody, Coding!known, Coding!historyVars
<1>6. ToDo'
  BY DEF Coding!Diff, Coding!GoTo, Coding!Verdicts, ToDo, CodingTyped, Coding!Stages,
         Coding!NothingRead, Coding!Candidates, Coding!Absent, Coding!known, Coding!historyVars
<1>7. Coding!RollbackSparesOthers'
  BY DEF Coding!Diff, Coding!GoTo, Coding!Verdicts, Coding!RollbackSparesOthers, CodingTyped,
         Coding!known, Coding!historyVars
<1>8. Coding!RolledBackLeavesNothing'
  BY DEF Coding!Diff, Coding!GoTo, Coding!Verdicts, Coding!RolledBackLeavesNothing, CodingTyped,
         Coding!known, Coding!historyVars
<1> QED
  BY <1>1, <1>2, <1>3, <1>4, <1>5, <1>6, <1>7, <1>8

LEMMA CodingCheckCollected ==
  ASSUME CodingParts, NEW r \in Runs, Coding!CheckCollected(r)
  PROVE  CodingParts'
<1> USE CodingConstants DEF CodingParts
<1>1. CodingTyped'
  BY DEF Coding!CheckCollected, Coding!Finalize, Coding!Forget, Coding!GoTo, CodingTyped,
         Coding!Stages, Coding!NothingRead, Coding!known, Coding!historyVars
<1>2. Owned'
  BY DEF Coding!CheckCollected, Coding!Finalize, Coding!Forget, Coding!GoTo, Owned, CodingTyped,
         Coding!NothingRead, Coding!known, Coding!historyVars
<1>3. Before'
  BY DEF Coding!CheckCollected, Coding!Finalize, Coding!Forget, Coding!GoTo, Before, CodingTyped,
         Checkpointing, Coding!First, Coding!Absent, Coding!Stages, Coding!known,
         Coding!historyVars
<1>4. OwnRef'
  BY DEF Coding!CheckCollected, Coding!Finalize, Coding!Forget, Coding!GoTo, OwnRef, Own,
         CodingTyped, Coding!Stages, Coding!RefOf, Coding!known, Coding!historyVars
<1>5. Restoring'
  BY DEF Coding!CheckCollected, Coding!Finalize, Coding!Forget, Coding!GoTo, Restoring,
         CodingTyped, Coding!Stages, Coding!Nobody, Coding!known, Coding!historyVars
<1>6. ToDo'
  BY DEF Coding!CheckCollected, Coding!Finalize, Coding!Forget, Coding!GoTo, ToDo, CodingTyped,
         Coding!Stages, Coding!NothingRead, Coding!Candidates, Coding!Absent, Coding!known,
         Coding!historyVars
<1>7. Coding!RollbackSparesOthers'
  BY DEF Coding!CheckCollected, Coding!Finalize, Coding!Forget, Coding!GoTo,
         Coding!RollbackSparesOthers, CodingTyped, Coding!known, Coding!historyVars
<1>8. Coding!RolledBackLeavesNothing'
  BY DEF Coding!CheckCollected, Coding!Finalize, Coding!Forget, Coding!GoTo,
         Coding!RolledBackLeavesNothing, CodingTyped, Coding!known, Coding!historyVars
<1> QED
  BY <1>1, <1>2, <1>3, <1>4, <1>5, <1>6, <1>7, <1>8

LEMMA CodingNothingToRestore ==
  ASSUME CodingParts, NEW r \in Runs, Coding!NothingToRestore(r)
  PROVE  CodingParts'
<1> USE CodingConstants DEF CodingParts
<1>1. CodingTyped'
  BY DEF Coding!NothingToRestore, Coding!Finalize, Coding!Forget, Coding!GoTo, CodingTyped,
         Coding!Stages, Coding!NothingRead, Coding!known, Coding!historyVars
<1>2. Owned'
  BY DEF Coding!NothingToRestore, Coding!Finalize, Coding!Forget, Coding!GoTo, Owned, CodingTyped,
         Coding!NothingRead, Coding!known, Coding!historyVars
<1>3. Before'
  BY DEF Coding!NothingToRestore, Coding!Finalize, Coding!Forget, Coding!GoTo, Before,
         CodingTyped, Checkpointing, Coding!First, Coding!Absent, Coding!Stages, Coding!known,
         Coding!historyVars
<1>4. OwnRef'
  BY DEF Coding!NothingToRestore, Coding!Finalize, Coding!Forget, Coding!GoTo, OwnRef, Own,
         CodingTyped, Coding!Stages, Coding!RefOf, Coding!known, Coding!historyVars
<1>5. Restoring'
  BY DEF Coding!NothingToRestore, Coding!Finalize, Coding!Forget, Coding!GoTo, Restoring,
         CodingTyped, Coding!Stages, Coding!Nobody, Coding!known, Coding!historyVars
<1>6. ToDo'
  BY DEF Coding!NothingToRestore, Coding!Finalize, Coding!Forget, Coding!GoTo, ToDo, CodingTyped,
         Coding!Stages, Coding!NothingRead, Coding!Candidates, Coding!Absent, Coding!known,
         Coding!historyVars
<1>7. Coding!RollbackSparesOthers'
  BY DEF Coding!NothingToRestore, Coding!Finalize, Coding!Forget, Coding!GoTo,
         Coding!RollbackSparesOthers, CodingTyped, Coding!known, Coding!historyVars
<1>8. Coding!RolledBackLeavesNothing'
  BY DEF Coding!NothingToRestore, Coding!Finalize, Coding!Forget, Coding!GoTo,
         Coding!RolledBackLeavesNothing, CodingTyped, Coding!known, Coding!historyVars
<1> QED
  BY <1>1, <1>2, <1>3, <1>4, <1>5, <1>6, <1>7, <1>8

LEMMA CodingInspect ==
  ASSUME CodingParts, NEW r \in Runs, Coding!Inspect(r)
  PROVE  CodingParts'
<1> USE CodingConstants DEF CodingParts
<1>1. CodingTyped'
  BY DEF Coding!Inspect, Coding!GoTo, Coding!RefOf, Coding!Candidates, CodingTyped, Coding!Stages,
         Coding!NothingRead, Coding!known, Coding!historyVars
<1>2. Owned'
  BY DEF Coding!Inspect, Coding!GoTo, Coding!RefOf, Coding!Candidates, Owned, CodingTyped,
         Coding!NothingRead, Coding!known, Coding!historyVars
<1>3. Before'
  BY DEF Coding!Inspect, Coding!GoTo, Coding!RefOf, Coding!Candidates, Before, CodingTyped,
         Checkpointing, Coding!First, Coding!Absent, Coding!Stages, Coding!known,
         Coding!historyVars
<1>4. OwnRef'
  BY DEF Coding!Inspect, Coding!GoTo, Coding!RefOf, Coding!Candidates, OwnRef, Own, CodingTyped,
         Coding!Stages, Coding!known, Coding!historyVars
<1>5. Restoring'
  BY DEF Coding!Inspect, Coding!GoTo, Coding!RefOf, Coding!Candidates, Restoring, CodingTyped,
         Coding!Stages, Coding!Nobody, Coding!known, Coding!historyVars
<1>6. ToDo'
  <2>1. ASSUME NEW s \in Runs \ replaced, NEW p \in Paths, s # r, stage'[s] = "restoring"
        PROVE  /\ plan'[s][p] # Coding!Unread => plan'[s][p].checkpointed = snapshot'[s][p]
               /\ p \in Coding!Candidates(s)' /\ files'[p] = s =>
                    plan'[s][p] # Coding!Unread /\ plan'[s][p].current = s
    BY <2>1 DEF Coding!Inspect, Coding!GoTo, Coding!Candidates, ToDo, CodingTyped
  <2>2. ASSUME r \notin replaced, NEW p \in Paths
        PROVE  /\ plan'[r][p] # Coding!Unread => plan'[r][p].checkpointed = snapshot'[r][p]
               /\ p \in Coding!Candidates(r)' /\ files'[p] = r =>
                    plan'[r][p] # Coding!Unread /\ plan'[r][p].current = r
    <3>1. Coding!RefOf(r).tree = snapshot[r]
      BY <2>2 DEF Coding!Inspect, OwnRef, Own
    <3>2. plan'[r][p] = IF p \in Coding!Candidates(r)
                           THEN [checkpointed |-> Coding!RefOf(r).tree[p], current |-> files[p]]
                           ELSE Coding!Unread
      BY DEF Coding!Inspect, CodingTyped
    <3>3. UNCHANGED <<files, snapshot, written, changed>>
      BY DEF Coding!Inspect
    <3> QED
      BY <3>1, <3>2, <3>3, ReadIsToDo DEF Coding!Candidates
  <2>3. replaced' = replaced
    BY DEF Coding!Inspect, Coding!historyVars
  <2> QED
    BY <2>1, <2>2, <2>3 DEF ToDo
<1>7. Coding!RollbackSparesOthers'
  BY DEF Coding!Inspect, Coding!GoTo, Coding!RefOf, Coding!Candidates,
         Coding!RollbackSparesOthers, CodingTyped, Coding!known, Coding!historyVars
<1>8. Coding!RolledBackLeavesNothing'
  BY DEF Coding!Inspect, Coding!GoTo, Coding!RefOf, Coding!Candidates,
         Coding!RolledBackLeavesNothing, CodingTyped, Coding!known, Coding!historyVars
<1> QED
  BY <1>1, <1>2, <1>3, <1>4, <1>5, <1>6, <1>7, <1>8

LEMMA CodingCannotRestore ==
  ASSUME CodingParts, NEW r \in Runs, Coding!CannotRestore(r)
  PROVE  CodingParts'
<1> USE CodingConstants DEF CodingParts
<1>1. CodingTyped'
  BY DEF Coding!CannotRestore, Coding!Finalize, Coding!Forget, Coding!GoTo, Coding!Trouble,
         CodingTyped, Coding!Stages, Coding!NothingRead, Coding!known, Coding!historyVars
<1>2. Owned'
  BY DEF Coding!CannotRestore, Coding!Finalize, Coding!Forget, Coding!GoTo, Coding!Trouble, Owned,
         CodingTyped, Coding!NothingRead, Coding!known, Coding!historyVars
<1>3. Before'
  BY DEF Coding!CannotRestore, Coding!Finalize, Coding!Forget, Coding!GoTo, Coding!Trouble,
         Before, CodingTyped, Checkpointing, Coding!First, Coding!Absent, Coding!Stages,
         Coding!known, Coding!historyVars
<1>4. OwnRef'
  BY DEF Coding!CannotRestore, Coding!Finalize, Coding!Forget, Coding!GoTo, Coding!Trouble,
         OwnRef, Own, CodingTyped, Coding!Stages, Coding!RefOf, Coding!known, Coding!historyVars
<1>5. Restoring'
  BY DEF Coding!CannotRestore, Coding!Finalize, Coding!Forget, Coding!GoTo, Coding!Trouble,
         Restoring, CodingTyped, Coding!Stages, Coding!Nobody, Coding!known, Coding!historyVars
<1>6. ToDo'
  BY DEF Coding!CannotRestore, Coding!Finalize, Coding!Forget, Coding!GoTo, Coding!Trouble, ToDo,
         CodingTyped, Coding!Stages, Coding!NothingRead, Coding!Candidates, Coding!Absent,
         Coding!known, Coding!historyVars
<1>7. Coding!RollbackSparesOthers'
  BY DEF Coding!CannotRestore, Coding!Finalize, Coding!Forget, Coding!GoTo, Coding!Trouble,
         Coding!RollbackSparesOthers, CodingTyped, Coding!known, Coding!historyVars
<1>8. Coding!RolledBackLeavesNothing'
  BY DEF Coding!CannotRestore, Coding!Finalize, Coding!Forget, Coding!GoTo, Coding!Trouble,
         Coding!RolledBackLeavesNothing, CodingTyped, Coding!known, Coding!historyVars
<1> QED
  BY <1>1, <1>2, <1>3, <1>4, <1>5, <1>6, <1>7, <1>8

LEMMA CodingRestore ==
  ASSUME CodingParts, NEW r \in Runs, NEW p \in Paths, Coding!Restore(r, p)
  PROVE  CodingParts'
<1> USE CodingConstants DEF CodingParts
<1>1. CodingTyped'
  BY DEF Coding!Restore, Coding!Done, Coding!Discard, Coding!RefOf, CodingTyped, Coding!Stages,
         Coding!NothingRead, Coding!known, Coding!historyVars
<1>2. Owned'
  BY DEF Coding!Restore, Coding!Done, Coding!Discard, Coding!RefOf, Owned, CodingTyped,
         Coding!NothingRead, Coding!known, Coding!historyVars
<1>3. Before'
  BY DEF Coding!Restore, Coding!Done, Coding!Discard, Coding!RefOf, Before, CodingTyped,
         Checkpointing, Coding!First, Coding!Absent, Coding!Stages, Coding!known,
         Coding!historyVars
<1>4. OwnRef'
  BY DEF Coding!Restore, Coding!Done, Coding!Discard, Coding!RefOf, OwnRef, Own, CodingTyped,
         Coding!Stages, Coding!known, Coding!historyVars
<1>5. Restoring'
  BY DEF Coding!Restore, Coding!Done, Coding!Discard, Coding!RefOf, Restoring, CodingTyped,
         Coding!Stages, Coding!Nobody, Coding!known, Coding!historyVars
<1>6. ToDo'
  <2>1. /\ stage[r] = "restoring" /\ plan[r][p] # Coding!Unread
        /\ plan' = [plan EXCEPT ![r][p] = Coding!Unread]
        /\ UNCHANGED <<stage, snapshot, written, changed, replaced>>
        /\ \A o \in Paths \ {p} : files'[o] = files[o]
    BY DEF Coding!Restore, Coding!Done, CodingTyped
  <2>2. ASSUME NEW s \in Runs \ replaced, stage[s] = "restoring", files'[p] = s
        PROVE  s = r /\ files[p] = r /\ plan[r][p].checkpointed = plan[r][p].current
    <3>1. s = r
      BY <2>1, <2>2 DEF Restoring
    <3>2. Coding!RefOf(r).tree[p] # r
      BY <2>1, <2>2, <3>1 DEF OwnRef, Own, Before
    <3> QED
      BY <2>2, <3>1, <3>2, CodingConstants DEF Coding!Restore, Coding!Absent, CodingTyped
  <2>3. ASSUME r \notin replaced, files[p] = r, p \in Coding!Candidates(r),
               plan[r][p].checkpointed = plan[r][p].current
        PROVE  FALSE
    BY <2>1, <2>3 DEF ToDo, Before
  <2>4. ASSUME NEW s \in Runs, NEW o \in Paths, s # r \/ o # p
        PROVE  plan'[s][o] = plan[s][o]
    BY <2>1, <2>4 DEF CodingTyped
  <2>5. plan'[r][p] = Coding!Unread
    BY <2>1 DEF CodingTyped
  <2>6. \A s \in Runs : Coding!Candidates(s)' = Coding!Candidates(s)
    BY <2>1 DEF Coding!Candidates
  <2>7. ASSUME NEW s \in Runs \ replaced, NEW o \in Paths, stage[s] = "restoring"
        PROVE  plan'[s][o] # Coding!Unread => plan'[s][o].checkpointed = snapshot[s][o]
    BY <2>4, <2>5, <2>7 DEF ToDo
  <2>8. ASSUME NEW s \in Runs \ replaced, NEW o \in Paths, stage[s] = "restoring",
               o \in Coding!Candidates(s), files'[o] = s
        PROVE  plan'[s][o] # Coding!Unread /\ plan'[s][o].current = s
    <3>1. o # p
      BY <2>2, <2>3, <2>8
    <3> QED
      BY <2>1, <2>4, <2>8, <3>1 DEF ToDo
  <2> QED
    BY <2>1, <2>6, <2>7, <2>8 DEF ToDo
<1>7. Coding!RollbackSparesOthers'
  <2>1. p \in written[r]
    BY DEF Coding!Restore, Owned
  <2>2. foreign' = foreign \/ foreign' = [foreign EXCEPT ![r] = @ \cup ({p} \ written[r])]
    BY DEF Coding!Restore, Coding!Discard
  <2> QED
    BY <2>1, <2>2 DEF Coding!RollbackSparesOthers, CodingTyped
<1>8. Coding!RolledBackLeavesNothing'
  BY DEF Coding!Restore, Coding!Done, Coding!Discard, Coding!RefOf,
         Coding!RolledBackLeavesNothing, CodingTyped, Coding!known, Coding!historyVars
<1> QED
  BY <1>1, <1>2, <1>3, <1>4, <1>5, <1>6, <1>7, <1>8

LEMMA CodingRestoreRaises ==
  ASSUME CodingParts, NEW r \in Runs, NEW p \in Paths, Coding!RestoreRaises(r, p)
  PROVE  CodingParts'
<1> USE CodingConstants DEF CodingParts
<1>1. CodingTyped'
  BY DEF Coding!RestoreRaises, Coding!Finalize, Coding!Forget, Coding!GoTo, CodingTyped,
         Coding!Stages, Coding!NothingRead, Coding!known, Coding!historyVars
<1>2. Owned'
  BY DEF Coding!RestoreRaises, Coding!Finalize, Coding!Forget, Coding!GoTo, Owned, CodingTyped,
         Coding!NothingRead, Coding!known, Coding!historyVars
<1>3. Before'
  BY DEF Coding!RestoreRaises, Coding!Finalize, Coding!Forget, Coding!GoTo, Before, CodingTyped,
         Checkpointing, Coding!First, Coding!Absent, Coding!Stages, Coding!known,
         Coding!historyVars
<1>4. OwnRef'
  BY DEF Coding!RestoreRaises, Coding!Finalize, Coding!Forget, Coding!GoTo, OwnRef, Own,
         CodingTyped, Coding!Stages, Coding!RefOf, Coding!known, Coding!historyVars
<1>5. Restoring'
  BY DEF Coding!RestoreRaises, Coding!Finalize, Coding!Forget, Coding!GoTo, Restoring,
         CodingTyped, Coding!Stages, Coding!Nobody, Coding!known, Coding!historyVars
<1>6. ToDo'
  BY DEF Coding!RestoreRaises, Coding!Finalize, Coding!Forget, Coding!GoTo, ToDo, CodingTyped,
         Coding!Stages, Coding!NothingRead, Coding!Candidates, Coding!Absent, Coding!known,
         Coding!historyVars
<1>7. Coding!RollbackSparesOthers'
  BY DEF Coding!RestoreRaises, Coding!Finalize, Coding!Forget, Coding!GoTo,
         Coding!RollbackSparesOthers, CodingTyped, Coding!known, Coding!historyVars
<1>8. Coding!RolledBackLeavesNothing'
  BY DEF Coding!RestoreRaises, Coding!Finalize, Coding!Forget, Coding!GoTo,
         Coding!RolledBackLeavesNothing, CodingTyped, Coding!known, Coding!historyVars
<1> QED
  BY <1>1, <1>2, <1>3, <1>4, <1>5, <1>6, <1>7, <1>8

LEMMA CodingRolledBack ==
  ASSUME CodingParts, NEW r \in Runs, Coding!RolledBack(r)
  PROVE  CodingParts'
<1> USE CodingConstants DEF CodingParts
<1>1. CodingTyped'
  BY DEF Coding!RolledBack, Coding!Finalize, Coding!Forget, Coding!GoTo, Coding!Candidates,
         CodingTyped, Coding!Stages, Coding!NothingRead, Coding!known, Coding!historyVars
<1>2. Owned'
  BY DEF Coding!RolledBack, Coding!Finalize, Coding!Forget, Coding!GoTo, Coding!Candidates, Owned,
         CodingTyped, Coding!NothingRead, Coding!known, Coding!historyVars
<1>3. Before'
  BY DEF Coding!RolledBack, Coding!Finalize, Coding!Forget, Coding!GoTo, Coding!Candidates,
         Before, CodingTyped, Checkpointing, Coding!First, Coding!Absent, Coding!Stages,
         Coding!known, Coding!historyVars
<1>4. OwnRef'
  BY DEF Coding!RolledBack, Coding!Finalize, Coding!Forget, Coding!GoTo, Coding!Candidates,
         OwnRef, Own, CodingTyped, Coding!Stages, Coding!RefOf, Coding!known, Coding!historyVars
<1>5. Restoring'
  BY DEF Coding!RolledBack, Coding!Finalize, Coding!Forget, Coding!GoTo, Coding!Candidates,
         Restoring, CodingTyped, Coding!Stages, Coding!Nobody, Coding!known, Coding!historyVars
<1>6. ToDo'
  BY DEF Coding!RolledBack, Coding!Finalize, Coding!Forget, Coding!GoTo, Coding!Candidates, ToDo,
         CodingTyped, Coding!Stages, Coding!NothingRead, Coding!Absent, Coding!known,
         Coding!historyVars
<1>7. Coding!RollbackSparesOthers'
  BY DEF Coding!RolledBack, Coding!Finalize, Coding!Forget, Coding!GoTo, Coding!Candidates,
         Coding!RollbackSparesOthers, CodingTyped, Coding!known, Coding!historyVars
<1>8. Coding!RolledBackLeavesNothing'
  <2>1. /\ stage[r] = "restoring" /\ \A p \in Paths : plan[r][p] = Coding!Unread
        /\ left' = [left EXCEPT ![r] = {p \in Coding!Candidates(r) : files[p] = r}]
        /\ UNCHANGED replaced
    BY DEF Coding!RolledBack, Coding!NothingRead
  <2>2. r \notin replaced => \A p \in Coding!Candidates(r) : files[p] # r
    BY <2>1 DEF ToDo, CodingTyped, Coding!Candidates
  <2> QED
    BY <2>1, <2>2 DEF Coding!RolledBackLeavesNothing, CodingTyped
<1> QED
  BY <1>1, <1>2, <1>3, <1>4, <1>5, <1>6, <1>7, <1>8

LEMMA CodingPrune ==
  ASSUME CodingParts, NEW r \in Runs, Coding!Prune(r)
  PROVE  CodingParts'
<1> USE CodingConstants DEF CodingParts
<1>1. CodingTyped'
  BY DEF Coding!Prune, Coding!GoTo, CodingTyped, Coding!Stages, Coding!NothingRead, Coding!known,
         Coding!historyVars
<1>2. Owned'
  BY DEF Coding!Prune, Coding!GoTo, Owned, CodingTyped, Coding!NothingRead, Coding!known,
         Coding!historyVars
<1>3. Before'
  BY DEF Coding!Prune, Coding!GoTo, Before, CodingTyped, Checkpointing, Coding!First,
         Coding!Absent, Coding!Stages, Coding!known, Coding!historyVars
<1>4. OwnRef'
  BY DEF Coding!Prune, Coding!GoTo, OwnRef, Own, CodingTyped, Coding!Stages, Coding!RefOf,
         Coding!known, Coding!historyVars
<1>5. Restoring'
  BY DEF Coding!Prune, Coding!GoTo, Restoring, CodingTyped, Coding!Stages, Coding!Nobody,
         Coding!known, Coding!historyVars
<1>6. ToDo'
  BY DEF Coding!Prune, Coding!GoTo, ToDo, CodingTyped, Coding!Stages, Coding!NothingRead,
         Coding!Candidates, Coding!Absent, Coding!known, Coding!historyVars
<1>7. Coding!RollbackSparesOthers'
  BY DEF Coding!Prune, Coding!GoTo, Coding!RollbackSparesOthers, CodingTyped, Coding!known,
         Coding!historyVars
<1>8. Coding!RolledBackLeavesNothing'
  BY DEF Coding!Prune, Coding!GoTo, Coding!RolledBackLeavesNothing, CodingTyped, Coding!known,
         Coding!historyVars
<1> QED
  BY <1>1, <1>2, <1>3, <1>4, <1>5, <1>6, <1>7, <1>8

LEMMA CodingKill ==
  ASSUME CodingParts, NEW r \in Runs, Coding!Kill(r)
  PROVE  CodingParts'
<1> USE CodingConstants DEF CodingParts
<1>1. CodingTyped'
  BY DEF Coding!Kill, Coding!Forget, Coding!GoTo, CodingTyped, Coding!Stages, Coding!NothingRead,
         Coding!known, Coding!historyVars
<1>2. Owned'
  BY DEF Coding!Kill, Coding!Forget, Coding!GoTo, Owned, CodingTyped, Coding!NothingRead,
         Coding!known, Coding!historyVars
<1>3. Before'
  BY DEF Coding!Kill, Coding!Forget, Coding!GoTo, Before, CodingTyped, Checkpointing,
         Coding!First, Coding!Absent, Coding!Stages, Coding!known, Coding!historyVars
<1>4. OwnRef'
  BY DEF Coding!Kill, Coding!Forget, Coding!GoTo, OwnRef, Own, CodingTyped, Coding!Stages,
         Coding!RefOf, Coding!known, Coding!historyVars
<1>5. Restoring'
  BY DEF Coding!Kill, Coding!Forget, Coding!GoTo, Restoring, CodingTyped, Coding!Stages,
         Coding!Nobody, Coding!known, Coding!historyVars
<1>6. ToDo'
  BY DEF Coding!Kill, Coding!Forget, Coding!GoTo, ToDo, CodingTyped, Coding!Stages,
         Coding!NothingRead, Coding!Candidates, Coding!Absent, Coding!known, Coding!historyVars
<1>7. Coding!RollbackSparesOthers'
  BY DEF Coding!Kill, Coding!Forget, Coding!GoTo, Coding!RollbackSparesOthers, CodingTyped,
         Coding!known, Coding!historyVars
<1>8. Coding!RolledBackLeavesNothing'
  BY DEF Coding!Kill, Coding!Forget, Coding!GoTo, Coding!RolledBackLeavesNothing, CodingTyped,
         Coding!known, Coding!historyVars
<1> QED
  BY <1>1, <1>2, <1>3, <1>4, <1>5, <1>6, <1>7, <1>8

LEMMA CodingEdit ==
  ASSUME CodingParts, NEW p \in Paths, NEW c \in {"human", Coding!Absent}, Coding!Edit(p, c)
  PROVE  CodingParts'
<1> USE CodingConstants DEF CodingParts
<1>1. CodingTyped'
  BY DEF Coding!Edit, Coding!Trouble, CodingTyped, Coding!Stages, Coding!NothingRead,
         Coding!known, Coding!historyVars
<1>2. Owned'
  BY DEF Coding!Edit, Coding!Trouble, Owned, CodingTyped, Coding!NothingRead, Coding!known,
         Coding!historyVars
<1>3. Before'
  BY DEF Coding!Edit, Coding!Trouble, Before, CodingTyped, Checkpointing, Coding!First,
         Coding!Absent, Coding!Stages, Coding!known, Coding!historyVars
<1>4. OwnRef'
  BY DEF Coding!Edit, Coding!Trouble, OwnRef, Own, CodingTyped, Coding!Stages, Coding!RefOf,
         Coding!known, Coding!historyVars
<1>5. Restoring'
  BY DEF Coding!Edit, Coding!Trouble, Restoring, CodingTyped, Coding!Stages, Coding!Nobody,
         Coding!known, Coding!historyVars
<1>6. ToDo'
  BY DEF Coding!Edit, Coding!Trouble, ToDo, CodingTyped, Coding!Stages, Coding!NothingRead,
         Coding!Candidates, Coding!Absent, Coding!known, Coding!historyVars
<1>7. Coding!RollbackSparesOthers'
  BY DEF Coding!Edit, Coding!Trouble, Coding!RollbackSparesOthers, CodingTyped, Coding!known,
         Coding!historyVars
<1>8. Coding!RolledBackLeavesNothing'
  BY DEF Coding!Edit, Coding!Trouble, Coding!RolledBackLeavesNothing, CodingTyped, Coding!known,
         Coding!historyVars
<1> QED
  BY <1>1, <1>2, <1>3, <1>4, <1>5, <1>6, <1>7, <1>8

LEMMA CodingCommit ==
  ASSUME CodingParts, Coding!Commit
  PROVE  CodingParts'
<1> USE CodingConstants DEF CodingParts
<1>1. CodingTyped'
  BY DEF Coding!Commit, Coding!Trouble, CodingTyped, Coding!Stages, Coding!NothingRead,
         Coding!known, Coding!historyVars
<1>2. Owned'
  BY DEF Coding!Commit, Coding!Trouble, Owned, CodingTyped, Coding!NothingRead, Coding!known,
         Coding!historyVars
<1>3. Before'
  BY DEF Coding!Commit, Coding!Trouble, Before, CodingTyped, Checkpointing, Coding!First,
         Coding!Absent, Coding!Stages, Coding!known, Coding!historyVars
<1>4. OwnRef'
  BY DEF Coding!Commit, Coding!Trouble, OwnRef, Own, CodingTyped, Coding!Stages, Coding!RefOf,
         Coding!known, Coding!historyVars
<1>5. Restoring'
  BY DEF Coding!Commit, Coding!Trouble, Restoring, CodingTyped, Coding!Stages, Coding!Nobody,
         Coding!known, Coding!historyVars
<1>6. ToDo'
  BY DEF Coding!Commit, Coding!Trouble, ToDo, CodingTyped, Coding!Stages, Coding!NothingRead,
         Coding!Candidates, Coding!Absent, Coding!known, Coding!historyVars
<1>7. Coding!RollbackSparesOthers'
  BY DEF Coding!Commit, Coding!Trouble, Coding!RollbackSparesOthers, CodingTyped, Coding!known,
         Coding!historyVars
<1>8. Coding!RolledBackLeavesNothing'
  BY DEF Coding!Commit, Coding!Trouble, Coding!RolledBackLeavesNothing, CodingTyped, Coding!known,
         Coding!historyVars
<1> QED
  BY <1>1, <1>2, <1>3, <1>4, <1>5, <1>6, <1>7, <1>8

LEMMA CodingSteps ==
  ASSUME CodingParts, Coding!Next
  PROVE  CodingParts'
  BY CodingReadStatus, CodingTakeSnapshot, CodingUpdateRef, CodingCheckpointFails, CodingWrite,
     CodingNoVerdict, CodingDiff, CodingCheckCollected, CodingNothingToRestore, CodingInspect,
     CodingCannotRestore, CodingRestore, CodingRestoreRaises, CodingRolledBack, CodingPrune,
     CodingKill, CodingEdit, CodingCommit DEF Coding!Next,
     Coding!RunStep

LEMMA CodingInvariant == Spec => []CodingInv
<1>1. Init => CodingInv
  BY CodingStart DEF Init, CodingInv
<1>2. CodingInv /\ [Next]_vars => CodingInv'
  <2> SUFFICES ASSUME CodingInv, [Next]_vars, part' = "coding" PROVE CodingParts'
    BY DEF CodingInv
  <2>1. part = "coding" /\ CodingParts
    BY PartIsKept DEF CodingInv
  <2>2. CASE Next
    BY <2>1, <2>2, CodingSteps DEF Next
  <2>3. CASE UNCHANGED vars
    BY <2>1, <2>3 DEF vars, codingOnly, CodingParts, CodingTyped, Owned, Before, Checkpointing,
       OwnRef, Own, Restoring, ToDo, Coding!RefOf, Coding!Candidates,
       Coding!RollbackSparesOthers, Coding!RolledBackLeavesNothing
  <2> QED
    BY <2>2, <2>3
<1> QED
  BY <1>1, <1>2, PTL DEF Spec

\* A rollback changes only paths that its run wrote (coding.py:526-546), whatever people and
\* other runs edit meanwhile and whichever checkpoint the ref names by then.
THEOREM RollbackSparesOthersHolds == Spec => []RollbackSparesOthers
<1>1. CodingInv => RollbackSparesOthers
  BY DEF CodingInv, CodingParts, RollbackSparesOthers
<1> QED
  BY <1>1, CodingInvariant, PTL

\* A run that reports its rollback has left nothing that files_written names, unless another
\* checkpoint of its request id, or a prune, took the place of its own.
THEOREM RolledBackLeavesNothingHolds == Spec => []RolledBackLeavesNothing
<1>1. CodingInv => RolledBackLeavesNothing
  BY DEF CodingInv, CodingParts, RolledBackLeavesNothing
<1> QED
  BY <1>1, CodingInvariant, PTL

----------------------------------------------------------------------------
(* The model loops of a request. *)

Stages == {"prelude", "idle", "checking", "calling", "tools"}

ModelsTyped ==
  /\ made \in Nat /\ others \in Nat /\ lost \in Nat
  /\ stage \in [Runs -> Stages]
  /\ batch \in [Runs -> 0 .. MaxBatch]
  /\ \E S : records \in Seq(S)

OursIn(s) == {i \in DOMAIN s : s[i].whose = "ours"}

\* The calls that may come without another check: of a loop whose call is in flight that
\* one, and what the tools of its answer may make; of one whose tools run what they may
\* still make.
Left == {x \in Runs \X (0 .. MaxBatch) :
           \/ stage[x[1]] = "calling"
           \/ stage[x[1]] = "tools" /\ x[2] > batch[x[1]]}
Most == Cardinality(Runs) * (1 + MaxBatch)

\* So many records are kept.
Fits(n) == Kept = 0 \/ n <= Kept

\* As long as no record was pushed out, those of the request and the lost ones are all its
\* calls, and with those that may come without a check they stay below the bound, since
\* the last check that let one through saw fewer than the limit.
Counting ==
  /\ Len(records) <= made + others
  /\ Fits(made + others) =>
       /\ Cardinality(OursIn(records)) + lost = made
       /\ Cardinality(OursIn(records)) + Cardinality(Left) <= MaxCalls + Most - 1

\* The loops begin together, when there is no call yet.
PreludeFirst == (\E w \in Runs : stage[w] = "prelude") => made = 0 /\ \A w \in Runs : stage[w] = "prelude"

ModelsParts == ModelsTyped /\ Counting /\ PreludeFirst
ModelsInv == part = "models" => ModelsParts

LEMMA ModelsConstants ==
  /\ MaxCalls \in Nat /\ Kept \in Nat /\ MaxBatch \in Nat \ {0}
  /\ IsFiniteSet(Runs) /\ Cardinality(Runs) \in Nat \ {0}
<1>1. /\ MaxCalls \in Nat /\ Kept \in Nat /\ MaxBatch \in Nat \ {0}
      /\ IsFiniteSet(Runs) /\ Runs # {}
  BY CoworkersAssumption
     DEF CoworkersAssumption, Models!ProvidersAssumption, Models!IsFiniteSet, IsFiniteSet
<1> QED
  BY <1>1, FS_CardinalityType, FS_EmptySet

LEMMA MostIsEnough == Most \in Nat /\ Most >= 2
<1> DEFINE n == Cardinality(Runs)
           m == 1 + MaxBatch
<1>1. n \in Nat /\ n >= 1 /\ m \in Nat /\ m >= 2
  BY ModelsConstants
<1> HIDE DEF n, m
<1>2. n * m \in Nat /\ n * m >= m
  <2>1. n * m = (n - 1) * m + m /\ (n - 1) * m \in Nat
    BY <1>1
  <2> QED
    BY <1>1, <2>1
<1>3. Most = n * m
  BY DEF Most, n, m
<1> QED
  BY <1>1, <1>2, <1>3

\* No more than Most calls are left without a check, at any time.
LEMMA LeftIsFinite ==
  ASSUME NEW S, S \subseteq Runs \X (0 .. MaxBatch)
  PROVE  IsFiniteSet(S) /\ Cardinality(S) \in Nat /\ Cardinality(S) <= Most
<1>1. IsFiniteSet(0 .. MaxBatch) /\ Cardinality(0 .. MaxBatch) = 1 + MaxBatch
  BY ModelsConstants, FS_Interval
<1>2. /\ IsFiniteSet(Runs \X (0 .. MaxBatch))
      /\ Cardinality(Runs \X (0 .. MaxBatch)) = Most
  BY <1>1, ModelsConstants, FS_Product DEF Most
<1> QED
  BY <1>2, FS_Subset, FS_CardinalityType

LEMMA OursAreFinite ==
  ASSUME NEW S, NEW s \in Seq(S)
  PROVE  IsFiniteSet(OursIn(s)) /\ Cardinality(OursIn(s)) \in Nat
<1>1. OursIn(s) \in SUBSET (1 .. Len(s)) /\ Len(s) \in Nat
  BY DEF OursIn
<1>2. IsFiniteSet(1 .. Len(s))
  BY <1>1, FS_Interval
<1> QED
  BY <1>1, <1>2, FS_Subset, FS_CardinalityType

\* A record more counts if it is the request's.
LEMMA OursOfAppend ==
  ASSUME NEW S, NEW s \in Seq(S), NEW e
  PROVE  Cardinality(OursIn(Append(s, e))) =
           IF e.whose = "ours" THEN Cardinality(OursIn(s)) + 1 ELSE Cardinality(OursIn(s))
<1> DEFINE n == Len(s) + 1
<1>1. Len(s) \in Nat /\ s \in Seq(S \cup {e})
  OBVIOUS
<1>2. /\ DOMAIN s = 1 .. Len(s) /\ DOMAIN Append(s, e) = 1 .. n /\ Append(s, e)[n] = e
      /\ \A i \in 1 .. Len(s) : Append(s, e)[i] = s[i]
  BY <1>1
<1>3. n \notin OursIn(s)
  BY <1>1, <1>2 DEF OursIn
<1>4. CASE e.whose = "ours"
  <2>1. OursIn(Append(s, e)) = OursIn(s) \cup {n}
    BY <1>1, <1>2, <1>4 DEF OursIn
  <2> QED
    BY <1>3, <1>4, <2>1, OursAreFinite, FS_AddElement
<1>5. CASE e.whose # "ours"
  <2>1. OursIn(Append(s, e)) = OursIn(s)
    BY <1>1, <1>2, <1>5 DEF OursIn
  <2> QED
    BY <1>5, <2>1
<1> QED
  BY <1>4, <1>5

\* What _persist keeps is what there was and the new record, as long as it fits.
LEMMA SavedRecords ==
  ASSUME NEW S, records \in Seq(S), NEW e
  PROVE  /\ Models!Saved(e) \in Seq(S \cup {e})
         /\ Len(Models!Saved(e)) <= Len(records) + 1 /\ (Kept > 0 => Len(Models!Saved(e)) <= Kept)
         /\ Fits(Len(records) + 1) => Models!Saved(e) = Append(records, e)
<1> DEFINE all == Append(records, e)
<1>1. all \in Seq(S \cup {e}) /\ Len(all) = Len(records) + 1 /\ Len(records) \in Nat
  OBVIOUS
<1>2. Models!Saved(e) = IF Kept > 0 /\ Len(all) > Kept THEN SubSeq(all, Len(all) - Kept + 1, Len(all)) ELSE all
  BY DEF Models!Saved
<1> HIDE DEF all
<1>3. CASE Kept > 0 /\ Len(all) > Kept
  <2>1. /\ SubSeq(all, Len(all) - Kept + 1, Len(all)) \in Seq(S \cup {e})
        /\ Len(SubSeq(all, Len(all) - Kept + 1, Len(all))) = Kept
    BY <1>1, <1>3, ModelsConstants
  <2> QED
    BY <1>1, <1>2, <1>3, <2>1, ModelsConstants DEF Fits
<1>4. CASE ~(Kept > 0 /\ Len(all) > Kept)
  BY <1>1, <1>2, <1>4, ModelsConstants DEF all, Fits
<1> QED
  BY <1>1, <1>3, <1>4 DEF all, Fits

LEMMA ModelsStart == Models!Init => ModelsParts
<1> SUFFICES ASSUME Models!Init PROVE ModelsParts
  OBVIOUS
<1>1. ModelsTyped
  <2>1. records \in Seq({})
    BY DEF Models!Init
  <2> QED
    BY <2>1, ModelsConstants DEF Models!Init, ModelsTyped, Stages
<1>2. OursIn(records) = {} /\ Left = {}
  BY DEF Models!Init, OursIn, Left
<1>3. Len(records) = 0 /\ made = 0 /\ others = 0 /\ lost = 0
  BY DEF Models!Init
<1>4. Cardinality(OursIn(records)) = 0 /\ Cardinality(Left) = 0
  BY <1>2, FS_EmptySet
<1>5. PreludeFirst
  BY DEF Models!Init, PreludeFirst
<1> QED
  BY <1>1, <1>3, <1>4, <1>5, ModelsConstants, MostIsEnough DEF ModelsParts, Counting

\* A step that makes no call and begins none keeps the count.
LEMMA ModelsNoCall ==
  ASSUME ModelsParts, ModelsTyped', PreludeFirst', UNCHANGED <<records, made, others, lost>>,
         Left' \subseteq Left
  PROVE  ModelsParts'
<1>1. Left \subseteq Runs \X (0 .. MaxBatch)
  BY DEF Left
<1>2. Cardinality(Left') <= Cardinality(Left) /\ Cardinality(Left') \in Nat /\ Cardinality(Left) \in Nat
  BY <1>1, LeftIsFinite, FS_Subset, FS_CardinalityType
<1>3. Cardinality(OursIn(records)) \in Nat
  BY OursAreFinite DEF ModelsParts, ModelsTyped
<1> QED
  BY <1>2, <1>3, MostIsEnough, ModelsConstants DEF ModelsParts, ModelsTyped, Counting

\* A call of the request keeps it, if there is room for that call and those still to come.
LEMMA ModelsCalled ==
  ASSUME ModelsParts, NEW p, Models!Called(p), others' = others,
         stage' \in [Runs -> Stages], batch' \in [Runs -> 0 .. MaxBatch], PreludeFirst',
         Fits(made + others) =>
           Cardinality(OursIn(records)) + 1 + Cardinality(Left') <= MaxCalls + Most - 1
  PROVE  ModelsParts'
<1> DEFINE e == [provider |-> p, whose |-> "ours"]
           ours == Cardinality(OursIn(records))
           due == Cardinality(Left')
<1>1. PICK S : records \in Seq(S)
  BY DEF ModelsParts, ModelsTyped
<1>2. /\ made' = made + 1
      /\ \/ records' = Models!Saved(e) /\ lost' = lost
         \/ lost' = lost + 1 /\ records' = records
  BY DEF Models!Called
<1>3. e.whose = "ours"
  OBVIOUS
<1> HIDE DEF e
<1>4. made \in Nat /\ others \in Nat /\ lost \in Nat /\ Len(records) \in Nat
  BY <1>1 DEF ModelsParts, ModelsTyped
<1>5. ours \in Nat /\ due \in Nat
  <2>1. Left' \subseteq Runs \X (0 .. MaxBatch)
    BY DEF Left
  <2> QED
    BY <1>1, <2>1, OursAreFinite, LeftIsFinite
<1>6. Fits(made' + others') => Fits(made + others) /\ Fits(Len(records) + 1)
  BY <1>2, <1>4, ModelsConstants DEF ModelsParts, Counting, Fits
<1>7. Fits(made + others) => ours + lost = made /\ ours + 1 + due <= MaxCalls + Most - 1
  BY DEF ModelsParts, Counting
<1>8. CASE records' = Models!Saved(e) /\ lost' = lost
  <2>1. records' \in Seq(S \cup {e}) /\ Len(records') <= Len(records) + 1
        /\ (Fits(Len(records) + 1) => records' = Append(records, e))
    BY <1>1, <1>8, SavedRecords
  <2>2. Cardinality(OursIn(Append(records, e))) = ours + 1
    BY <1>1, <1>3, OursOfAppend
  <2>3. Fits(made' + others') => Cardinality(OursIn(records)') = ours + 1
    BY <1>6, <2>1, <2>2
  <2>4. Len(records') \in Nat
    BY <2>1
  <2>5. Len(records') <= made' + others'
    <3>1. Len(records) <= made + others
      BY DEF ModelsParts, Counting
    <3> QED
      BY <3>1, <1>2, <1>4, <2>1, <2>4
  <2>6. ModelsTyped'
    BY <1>2, <1>4, <1>8, <2>1 DEF ModelsTyped
  <2> HIDE DEF ours, due
  <2>7. ASSUME Fits(made' + others')
        PROVE  (ours + 1) + lost' = made' /\ (ours + 1) + due <= MaxCalls + Most - 1
    BY <1>2, <1>4, <1>5, <1>6, <1>7, <1>8, <2>7
  <2>8. Counting'
    BY <2>3, <2>5, <2>7 DEF Counting, due
  <2> QED
    BY <2>6, <2>8 DEF ModelsParts
<1>9. CASE lost' = lost + 1 /\ records' = records
  <2>1. ModelsTyped'
    BY <1>1, <1>2, <1>4, <1>9 DEF ModelsTyped
  <2>2. OursIn(records)' = OursIn(records)
    BY <1>9
  <2>3. Len(records') <= made' + others'
    BY <1>2, <1>4, <1>9 DEF ModelsParts, Counting
  <2>4. Cardinality(OursIn(records)') = ours
    BY <2>2
  <2> HIDE DEF ours, due
  <2>5. ASSUME Fits(made' + others')
        PROVE  ours + lost' = made' /\ ours + due <= MaxCalls + Most - 1
    BY <1>2, <1>4, <1>5, <1>6, <1>7, <1>9, <2>5, MostIsEnough, ModelsConstants
  <2>6. Counting'
    BY <2>3, <2>4, <2>5 DEF Counting, due
  <2> QED
    BY <2>1, <2>6 DEF ModelsParts
<1> QED
  BY <1>2, <1>8, <1>9

\* One that uses up a call that was left to it is such a call.
LEMMA ModelsLeft ==
  ASSUME ModelsParts, NEW x \in Left, Left' \subseteq Left \ {x}
  PROVE  Fits(made + others) =>
           Cardinality(OursIn(records)) + 1 + Cardinality(Left') <= MaxCalls + Most - 1
<1>1. Left \subseteq Runs \X (0 .. MaxBatch)
  BY DEF Left
<1>2. IsFiniteSet(Left) /\ Cardinality(Left) \in Nat
  BY <1>1, LeftIsFinite
<1>3. Cardinality(Left \ {x}) = Cardinality(Left) - 1 /\ IsFiniteSet(Left \ {x})
  BY <1>2, FS_RemoveElement
<1>4. Cardinality(Left') <= Cardinality(Left) - 1 /\ Cardinality(Left') \in Nat
  BY <1>3, FS_Subset, FS_CardinalityType
<1>5. Cardinality(OursIn(records)) \in Nat
  BY OursAreFinite DEF ModelsParts, ModelsTyped
<1> QED
  BY <1>2, <1>4, <1>5, MostIsEnough, ModelsConstants DEF ModelsParts, Counting

LEMMA ModelsPrelude ==
  ASSUME ModelsParts, Models!Prelude
  PROVE  ModelsParts'
<1>1. /\ \A w \in Runs : stage[w] = "prelude"
      /\ stage' = [w \in Runs |-> "idle"]
      /\ \/ Models!Called("anthropic")
         \/ UNCHANGED <<records, made, lost>>
      /\ UNCHANGED <<batch, others>>
  BY DEF Models!Prelude
<1>2. stage' \in [Runs -> Stages] /\ batch' \in [Runs -> 0 .. MaxBatch] /\ PreludeFirst' /\ Left' = {}
  BY <1>1 DEF ModelsParts, ModelsTyped, Stages, PreludeFirst, Left
<1>3. CASE Models!Called("anthropic")
  <2>1. made = 0
    <3>1. Runs # {}
      BY ModelsConstants, FS_EmptySet
    <3> QED
      BY <1>1, <3>1 DEF ModelsParts, PreludeFirst
  <2>2. Cardinality(OursIn(records)) \in Nat
    BY OursAreFinite DEF ModelsParts, ModelsTyped
  <2>3. Cardinality(Left') = 0
    BY <1>2, FS_EmptySet
  <2>4. Fits(made + others) =>
          Cardinality(OursIn(records)) + 1 + Cardinality(Left') <= MaxCalls + Most - 1
    BY <2>1, <2>2, <2>3, MostIsEnough, ModelsConstants DEF ModelsParts, ModelsTyped, Counting
  <2> QED
    BY <1>1, <1>2, <1>3, <2>4, ModelsCalled
<1>4. CASE UNCHANGED <<records, made, lost>>
  <2>1. ModelsTyped'
    BY <1>1, <1>2, <1>4 DEF ModelsParts, ModelsTyped
  <2> QED
    BY <1>1, <1>2, <1>4, <2>1, ModelsNoCall
<1> QED
  BY <1>1, <1>3, <1>4

LEMMA ModelsRoute ==
  ASSUME ModelsParts, NEW w \in Runs, NEW r, Models!Route(w, r)
  PROVE  ModelsParts'
<1>1. ModelsTyped' /\ PreludeFirst' /\ Left' \subseteq Left /\ UNCHANGED <<records, made, others, lost>>
  BY DEF Models!Route, Models!GoTo, ModelsParts, ModelsTyped, Stages, PreludeFirst, Left
<1> QED
  BY <1>1, ModelsNoCall

LEMMA ModelsCheck ==
  ASSUME ModelsParts, NEW w \in Runs, Models!Check(w)
  PROVE  ModelsParts'
<1>1. ModelsTyped' /\ PreludeFirst' /\ UNCHANGED <<records, made, others, lost>>
  BY DEF Models!Check, Models!End, Models!Continue, Models!GoTo, ModelsParts, ModelsTyped, Stages, PreludeFirst
<1>2. CASE Models!LimitReached
  <2>1. Left' \subseteq Left
    BY <1>2 DEF Models!Check, Models!End, Models!Continue, Models!GoTo, ModelsParts, ModelsTyped, Left
  <2> QED
    BY <1>1, <2>1, ModelsNoCall
<1>3. CASE ~Models!LimitReached
  <2>1. Cardinality(OursIn(records)) < MaxCalls
    <3>1. Models!Cardinality(OursIn(records)) = Cardinality(OursIn(records))
      BY DEF Models!Cardinality, Cardinality
    <3>2. ~(Models!Cardinality(OursIn(records)) >= MaxCalls)
      BY <1>3 DEF Models!LimitReached, Models!Counted, OursIn
    <3> QED
      BY <3>1, <3>2, OursAreFinite, ModelsConstants DEF ModelsParts, ModelsTyped
  <2>2. Cardinality(Left') \in Nat /\ Cardinality(Left') <= Most
    <3>1. Left' \subseteq Runs \X (0 .. MaxBatch)
      BY DEF Left
    <3> QED
      BY <3>1, LeftIsFinite
  <2>3. Cardinality(OursIn(records)) \in Nat
    BY OursAreFinite DEF ModelsParts, ModelsTyped
  <2> QED
    BY <1>1, <2>1, <2>2, <2>3, MostIsEnough, ModelsConstants DEF ModelsParts, Counting
<1> QED
  BY <1>2, <1>3

LEMMA ModelsCallFails ==
  ASSUME ModelsParts, NEW w \in Runs, Models!CallFails(w)
  PROVE  ModelsParts'
<1>1. ModelsTyped' /\ PreludeFirst' /\ Left' \subseteq Left /\ UNCHANGED <<records, made, others, lost>>
  BY DEF Models!CallFails, Models!FallBack, Models!End, Models!GoTo, ModelsParts, ModelsTyped, Stages,
         PreludeFirst, Left
<1> QED
  BY <1>1, ModelsNoCall

LEMMA ModelsCallSucceeds ==
  ASSUME ModelsParts, NEW w \in Runs, Models!CallSucceeds(w)
  PROVE  ModelsParts'
<1>1. /\ stage[w] = "calling" /\ Models!Called(Models!Used(w))
      /\ stage' = [stage EXCEPT ![w] = "idle"] \/ stage' = [stage EXCEPT ![w] = "tools"]
      /\ batch' = batch /\ others' = others
  BY DEF Models!CallSucceeds, Models!End, Models!Continue, Models!GoTo
<1>2. stage' \in [Runs -> Stages] /\ batch' \in [Runs -> 0 .. MaxBatch] /\ PreludeFirst'
  BY <1>1 DEF ModelsParts, ModelsTyped, Stages, PreludeFirst
<1>3. <<w, 0>> \in Left
  BY <1>1, ModelsConstants DEF Left
<1>4. Left' \subseteq Left \ {<<w, 0>>}
  <2>1. ASSUME NEW x \in Left' PROVE x \in Left /\ x # <<w, 0>>
    <3>1. x \in Runs \X (0 .. MaxBatch)
      BY DEF Left
    <3>2. PICK u \in Runs, i \in 0 .. MaxBatch : x = <<u, i>>
      BY <3>1
    <3>3. stage'[u] = "calling" \/ (stage'[u] = "tools" /\ i > batch[u])
      <4>1. stage'[x[1]] = "calling" \/ (stage'[x[1]] = "tools" /\ x[2] > batch'[x[1]])
        BY DEF Left
      <4>2. x[1] = u /\ x[2] = i
        BY <3>2
      <4> QED
        BY <1>1, <4>1, <4>2
    <3>4. CASE u = w
      BY <1>1, <3>2, <3>3, <3>4 DEF Left, ModelsParts, ModelsTyped
    <3>5. CASE u # w
      BY <1>1, <3>2, <3>3, <3>5 DEF Left, ModelsParts, ModelsTyped
    <3> QED
      BY <3>4, <3>5
  <2> QED
    BY <2>1
<1>5. Fits(made + others) =>
        Cardinality(OursIn(records)) + 1 + Cardinality(Left') <= MaxCalls + Most - 1
  BY <1>3, <1>4, ModelsLeft
<1> QED
  BY <1>1, <1>2, <1>5, ModelsCalled

LEMMA ModelsToolCalls ==
  ASSUME ModelsParts, NEW w \in Runs, NEW p, Models!ToolCalls(w, p)
  PROVE  ModelsParts'
<1> DEFINE n == batch[w] + 1
<1>1. /\ stage[w] = "tools" /\ batch[w] < MaxBatch /\ Models!Called(p)
      /\ batch' = [batch EXCEPT ![w] = n]
      /\ stage' = stage /\ others' = others
  BY DEF Models!ToolCalls
<1>2. n \in 0 .. MaxBatch /\ n > batch[w] /\ batch[w] \in Nat
  BY <1>1, ModelsConstants DEF ModelsParts, ModelsTyped
<1> HIDE DEF n
<1>3. stage' \in [Runs -> Stages] /\ batch' \in [Runs -> 0 .. MaxBatch]
  BY <1>1, <1>2 DEF ModelsParts, ModelsTyped
<1>4. PreludeFirst'
  BY <1>1 DEF ModelsParts, PreludeFirst
<1>5. <<w, n>> \in Left
  BY <1>1, <1>2 DEF Left
<1>6. Left' \subseteq Left \ {<<w, n>>}
  <2>1. ASSUME NEW x \in Left' PROVE x \in Left /\ x # <<w, n>>
    <3>1. PICK u \in Runs, i \in 0 .. MaxBatch : x = <<u, i>>
      BY DEF Left
    <3>2. stage[u] = "calling" \/ (stage[u] = "tools" /\ i > batch'[u])
      <4>1. stage'[x[1]] = "calling" \/ (stage'[x[1]] = "tools" /\ x[2] > batch'[x[1]])
        BY DEF Left
      <4>2. x[1] = u /\ x[2] = i
        BY <3>1
      <4> QED
        BY <1>1, <4>1, <4>2
    <3>3. CASE u = w
      <4>1. i > n /\ i > batch[w]
        BY <1>1, <1>2, <3>2, <3>3 DEF ModelsParts, ModelsTyped
      <4> QED
        BY <1>1, <1>2, <3>1, <3>3, <4>1 DEF Left
    <3>4. CASE u # w
      BY <1>1, <3>1, <3>2, <3>4 DEF Left, ModelsParts, ModelsTyped
    <3> QED
      BY <3>3, <3>4
  <2> QED
    BY <2>1
<1>7. Fits(made + others) =>
        Cardinality(OursIn(records)) + 1 + Cardinality(Left') <= MaxCalls + Most - 1
  BY <1>5, <1>6, ModelsLeft
<1> QED
  BY <1>1, <1>3, <1>4, <1>7, ModelsCalled

LEMMA ModelsToolsEnd ==
  ASSUME ModelsParts, NEW w \in Runs, Models!ToolsReturn(w) \/ Models!ToolsRaise(w)
  PROVE  ModelsParts'
<1>1. /\ stage[w] = "tools" /\ batch' = [batch EXCEPT ![w] = 0]
      /\ \E s \in {"checking", "idle"} : stage' = [stage EXCEPT ![w] = s]
      /\ UNCHANGED <<records, made, others, lost>>
  BY DEF Models!ToolsReturn, Models!ToolsRaise, Models!FallBack, Models!End, Models!Continue, Models!GoTo
<1>2. ModelsTyped' /\ PreludeFirst'
  BY <1>1, ModelsConstants DEF ModelsParts, ModelsTyped, Stages, PreludeFirst
<1>3. Left' \subseteq Left
  BY <1>1 DEF ModelsParts, ModelsTyped, Left
<1> QED
  BY <1>1, <1>2, <1>3, ModelsNoCall

LEMMA ModelsOther ==
  ASSUME ModelsParts, NEW p, Models!Other(p)
  PROVE  ModelsParts'
<1> DEFINE e == [provider |-> p, whose |-> "other"]
<1>1. PICK S : records \in Seq(S)
  BY DEF ModelsParts, ModelsTyped
<1>2. /\ others' = others + 1 /\ records' = Models!Saved(e)
      /\ UNCHANGED <<stage, batch, made, lost>>
  BY DEF Models!Other
<1>3. e.whose # "ours"
  OBVIOUS
<1> HIDE DEF e
<1>4. records' \in Seq(S \cup {e}) /\ Len(records') <= Len(records) + 1
      /\ (Fits(Len(records) + 1) => records' = Append(records, e))
  BY <1>1, <1>2, SavedRecords
<1>5. Cardinality(OursIn(Append(records, e))) = Cardinality(OursIn(records))
  BY <1>1, <1>3, OursOfAppend
<1>6. Len(records) \in Nat /\ Len(records') \in Nat
  BY <1>1, <1>4
<1>7. ModelsTyped'
  BY <1>2, <1>4 DEF ModelsParts, ModelsTyped
<1>8. Fits(made' + others') => Fits(Len(records) + 1) /\ Fits(made + others)
  BY <1>2, <1>6, ModelsConstants DEF ModelsParts, ModelsTyped, Counting, Fits
<1>9. Left' = Left /\ PreludeFirst'
  BY <1>2 DEF Left, PreludeFirst, ModelsParts
<1>10. Fits(made' + others') =>
         Cardinality(OursIn(records))' = Cardinality(OursIn(records))
  BY <1>4, <1>5, <1>8
<1>11. Cardinality(Left)' = Cardinality(Left)
  BY <1>9
<1> QED
  BY <1>2, <1>4, <1>6, <1>7, <1>8, <1>9, <1>10, <1>11, ModelsConstants
     DEF ModelsParts, ModelsTyped, Counting

LEMMA ModelsSteps ==
  ASSUME ModelsParts, Models!Next
  PROVE  ModelsParts'
<1>1. CASE Models!Tick
  <2>1. ModelsTyped' /\ PreludeFirst' /\ Left' \subseteq Left /\ UNCHANGED <<records, made, others, lost>>
    BY <1>1 DEF Models!Tick, ModelsParts, ModelsTyped, PreludeFirst, Left
  <2> QED
    BY <2>1, ModelsNoCall
<1> QED
  BY <1>1, ModelsPrelude, ModelsRoute, ModelsCheck, ModelsCallFails, ModelsCallSucceeds,
     ModelsToolCalls, ModelsToolsEnd, ModelsOther
     DEF Models!Next

LEMMA ModelsInvariant == Spec => []ModelsInv
<1>1. Init => ModelsInv
  BY ModelsStart DEF Init, ModelsInv
<1>2. ModelsInv /\ [Next]_vars => ModelsInv'
  <2> SUFFICES ASSUME ModelsInv, [Next]_vars, part' = "models" PROVE ModelsParts'
    BY DEF ModelsInv
  <2>1. part = "models" /\ ModelsParts
    BY PartIsKept DEF ModelsInv
  <2>2. CASE Next
    BY <2>1, <2>2, ModelsSteps DEF Next
  <2>3. CASE UNCHANGED vars
    BY <2>1, <2>3 DEF vars, modelsOnly, ModelsParts, ModelsTyped, Counting, PreludeFirst, Left
  <2> QED
    BY <2>2, <2>3
<1> QED
  BY <1>1, <1>2, PTL DEF Spec

\* The loops of a request, however many run side by side, and its planner and tools, which
\* look at no limit, make no more calls than the limit and, for each loop, the call in
\* flight with those of the tools of its answer (usage.py:307-318), as long as the usage
\* file still has all its records and but for those that could not be saved.
THEOREM CallsAreBoundedHolds == Spec => []CallsAreBounded
<1>1. Models!Cardinality(Runs) = Cardinality(Runs)
  BY DEF Models!Cardinality, Cardinality
<1>2. ModelsParts => Models!CallsAreBounded
  <2> SUFFICES ASSUME ModelsParts, Fits(made + others)
               PROVE  made <= MaxCalls + Most - 1 + lost
    BY <1>1 DEF Models!CallsAreBounded, Most, Fits
  <2>1. Cardinality(OursIn(records)) \in Nat
    BY OursAreFinite DEF ModelsParts, ModelsTyped
  <2>2. Left \subseteq Runs \X (0 .. MaxBatch)
    BY DEF Left
  <2>3. Cardinality(Left) \in Nat
    BY <2>2, LeftIsFinite
  <2> QED
    BY <2>1, <2>3, MostIsEnough, ModelsConstants DEF ModelsParts, ModelsTyped, Counting
<1>3. ModelsInv => CallsAreBounded
  BY <1>2 DEF ModelsInv, CallsAreBounded
<1> QED
  BY <1>3, ModelsInvariant, PTL

----------------------------------------------------------------------------
(* Types: what the invariants above leave open. *)

BatchRest ==
  /\ status \in {Batch!Nothing, "ALL_SUCCEEDED", "PARTIAL", "FAILED"}
  /\ cancelled \in BOOLEAN
  /\ suite \subseteq 1 .. MaxTasks
  /\ attempts \in [1 .. MaxTasks -> 0 .. MaxRetries]

LEMMA BatchRestStart == Batch!Init => BatchRest
<1>1. 0 \in 0 .. MaxRetries
  BY BatchConstants
<1> QED
  BY <1>1 DEF Batch!Init, BatchRest, Batch!Tasks

LEMMA BatchRestSteps ==
  ASSUME BatchParts, BatchRest, [Batch!Next]_(Batch!vars)
  PROVE  BatchRest'
<1> USE BatchConstants DEF BatchRest
<1>0. \A t \in 1 .. size : t \in 1 .. MaxTasks
  BY DEF BatchParts, BatchTyped
<1>1. ASSUME NEW t \in 1 .. size,
             Batch!AgentStep(t) \/ Batch!Reports(t) \/ Batch!Collect(t) \/ Batch!CollectRetry(t)
      PROVE  BatchRest'
  BY <1>1 DEF Batch!AgentStep, Batch!Check, Batch!Launch, Batch!LaunchFails, Batch!Completed,
     Batch!TimesOut, Batch!SeesCancel, Batch!EndsGrace, Batch!Reports, Batch!Collect,
     Batch!CollectRetry
<1>2. ASSUME NEW t \in 1 .. size, Batch!RunsSuite(t) \/ Batch!SuiteEnds(t)
      PROVE  BatchRest'
  BY <1>0, <1>2 DEF Batch!RunsSuite, Batch!SuiteEnds
<1>3. ASSUME NEW t \in 1 .. size, Batch!Retry(t)
      PROVE  BatchRest'
  <2>1. attempts[t] + 1 \in 0 .. MaxRetries
    BY <1>0, <1>3 DEF Batch!Retry, Batch!MayRetry
  <2> QED
    BY <1>0, <1>3, <2>1 DEF Batch!Retry
<1>4. CASE Batch!Reject \/ Batch!Submit \/ Batch!AllCollected \/ Batch!Finish \/ Batch!Cancel
  BY <1>4 DEF Batch!Reject, Batch!Submit, Batch!AllCollected, Batch!Finish, Batch!Cancel, Batch!Judge
<1>5. CASE UNCHANGED Batch!vars
  BY <1>5 DEF Batch!vars
<1> QED
  BY <1>1, <1>2, <1>3, <1>4, <1>5 DEF Batch!Next, Batch!Batch

LEMMA BatchTypes == BatchParts /\ BatchRest => Batch!TypeOK
  BY DEF BatchParts, BatchTyped, BatchRest, ThreadStates, Batch!TypeOK, Batch!Tasks, Batch!Batch

PastRest ==
  /\ db \in Past!Databases /\ work \in Past!Databases
  /\ tx \in Requests \cup {None}
  /\ search \in [Requests -> {"none", "empty", "found", "skipped", "raised"}]
  /\ faults \in 0 .. MaxFaults /\ crashes \in 0 .. MaxCrashes /\ damages \in 0 .. MaxDamages

LEMMA PastBounds == MaxFaults \in Nat /\ MaxCrashes \in Nat /\ MaxDamages \in Nat
  BY CoworkersAssumption DEF CoworkersAssumption, Past!HistoryAssumption

LEMMA EmptyDatabases == {Past!Absent, Past!Ready, Past!Newer, Past!Garbage} \subseteq Past!Databases
<1>1. Past!Absent \in Past!Databases
  BY DEF Past!Absent, Past!Databases
<1>2. Past!Ready \in Past!Databases /\ Past!Newer \in Past!Databases
  BY DEF Past!Ready, Past!Newer, Past!Made, Past!Databases
<1>3. Past!Garbage \in Past!Databases
  BY <1>1 DEF Past!Garbage, Past!Databases
<1> QED
  BY <1>1, <1>2, <1>3

LEMMA PastRestStart == Past!Init => PastRest
  BY EmptyDatabases, PastBounds DEF Past!Init, PastRest

LEMMA PastRestOfRequest ==
  ASSUME PastParts, PastRest, NEW r \in Requests, Past!RequestStep(r)
  PROVE  PastRest'
<1> USE PastBounds DEF PastRest, Past!counters
<1>a. Past!Absent \in Past!Databases
  BY EmptyDatabases
<1>1. CASE Past!Begin(r) \/ Past!LookUp(r) \/ Past!PreludeRaises(r) \/ Past!Answer(r)
  BY <1>1 DEF Past!Begin, Past!LookUp, Past!PreludeRaises, Past!Answer
<1>2. CASE Past!Connect(r)
  BY <1>2 DEF Past!Connect, Past!Databases
<1>3. CASE Past!EnsureSchema(r)
  BY <1>3 DEF Past!EnsureSchema
<1>4. CASE Past!CreateTables(r)
  BY <1>4 DEF Past!CreateTables, Past!Executed, Past!Databases
<1>5. CASE Past!StampAndCommit(r)
  <2>1. db' \in Past!Databases
    BY <1>5 DEF Past!StampAndCommit, Past!Databases
  <2> QED
    BY <1>5, <1>a, <2>1 DEF Past!StampAndCommit
<1>6. CASE Past!CreateSession(r)
  <2>1. [by |-> r, at |-> role[r]] \in Past!Sessions
    BY DEF PastParts, PastTyped, Past!Sessions
  <2>2. db' \in Past!Databases
    BY <1>6, <2>1 DEF Past!CreateSession, Past!Databases
  <2> QED
    BY <1>6, <2>2 DEF Past!CreateSession
<1>7. CASE Past!RecordTurn(r)
  <2>1. [request |-> r, role |-> role[r], session |-> session[r]] \in Past!Turns
    BY <1>7 DEF Past!RecordTurn, PastParts, PastTyped, Past!Turns
  <2>2. db' \in Past!Databases
    BY <1>7, <2>1 DEF Past!RecordTurn, Past!Databases
  <2> QED
    BY <1>7, <2>2 DEF Past!RecordTurn
<1>8. CASE Past!CaptureFails(r)
  BY <1>8, <1>a DEF Past!CaptureFails
<1>9. CASE Past!Search(r)
  BY <1>9 DEF Past!Search
<1> QED
  BY <1>1, <1>2, <1>3, <1>4, <1>5, <1>6, <1>7, <1>8, <1>9 DEF Past!RequestStep

LEMMA PastRestSteps ==
  ASSUME PastParts, PastRest, [Past!Next]_(Past!vars)
  PROVE  PastRest'
<1> USE PastBounds, EmptyDatabases DEF PastRest
<1>1. ASSUME NEW p \in Processes, Past!Crash(p) PROVE PastRest'
  BY <1>1 DEF Past!Crash
<1>2. ASSUME NEW new \in {Past!Garbage, Past!Absent}, Past!Damage(new) PROVE PastRest'
  BY <1>2 DEF Past!Damage
<1>3. CASE UNCHANGED Past!vars
  BY <1>3 DEF Past!vars
<1> QED
  BY <1>1, <1>2, <1>3, PastRestOfRequest DEF Past!Next

LEMMA PastTypes == PastParts /\ PastRest => Past!TypeOK
  BY DEF PastParts, PastTyped, PastRest, Past!TypeOK

\* The operators of the routing: what Among keeps, and that a chain is never empty.
LEMMA AmongProviders ==
  ASSUME NEW s \in Seq(Models!Providers), NEW S
  PROVE  Models!Among(s, S) \in Seq(Models!Providers)
<1> DEFINE At(i) == IF i \in DOMAIN s /\ s[i] \in S THEN <<s[i]>> ELSE <<>>
<1>1. \A i : i \in DOMAIN s => s[i] \in Models!Providers
  OBVIOUS
<1>2. \A i : At(i) \in Seq(Models!Providers)
  BY <1>1
<1>3. Models!Among(s, S) = At(1) \o At(2) \o At(3) \o At(4)
  BY DEF Models!Among
<1> HIDE DEF At
<1>4. At(1) \o At(2) \in Seq(Models!Providers)
  BY <1>2
<1>5. At(1) \o At(2) \o At(3) \in Seq(Models!Providers)
  BY <1>2, <1>4
<1> QED
  BY <1>2, <1>3, <1>5

LEMMA OrderedProviders ==
  ASSUME NEW t
  PROVE  Models!Ordered(t) \in Seq(Models!Providers)
<1>1. Models!Preference(t) \in Seq(Models!Providers)
  <2>1. {<<"anthropic", "xai", "openai">>, <<"perplexity", "xai", "openai">>,
         <<"anthropic", "perplexity", "openai">>, <<"openai", "anthropic", "xai">>,
         <<"openai", "anthropic">>, <<"anthropic", "openai">>, <<"anthropic", "openai", "xai">>}
           \subseteq Seq(Models!Providers)
    BY DEF Models!Providers
  <2> QED
    BY <2>1 DEF Models!Preference
<1>2. Models!DefaultOrder \in Seq(Models!Providers)
  BY DEF Models!DefaultOrder, Models!Providers
<1> QED
  BY <1>1, <1>2, AmongProviders DEF Models!Ordered

LEMMA ChainHasChoices ==
  ASSUME NEW r, NEW allowed
  PROVE  /\ Models!Chain(r, allowed) \in Seq(Models!Choices)
         /\ Models!Chain(r, allowed) # <<>>
<1> DEFINE found == Models!Among(Models!Ordered(r.task),
                                 {p \in Configured \cap allowed : Models!Capable(p, r)})
           named == [i \in DOMAIN found |-> Models!Choice(found[i], Models!ModelFor(found[i], r))]
<1>1. found \in Seq(Models!Providers)
  BY OrderedProviders, AmongProviders
<1>2. Models!Chain(r, allowed) = IF found = <<>> THEN Models!StaticChain ELSE named
  BY DEF Models!Chain
<1>3. Models!StaticChain \in Seq(Models!Choices) /\ Models!StaticChain # <<>>
  BY DEF Models!StaticChain, Models!Choice, Models!Choices, Models!Providers, Models!ModelNames
<1>4. \A p \in Models!Providers : Models!Choice(p, Models!ModelFor(p, r)) \in Models!Choices
  BY DEF Models!Choice, Models!ModelFor, Models!Choices, Models!Providers, Models!ModelNames
<1> HIDE DEF found
<1>5. DOMAIN found = 1 .. Len(found) /\ Len(found) \in Nat
      /\ \A i \in 1 .. Len(found) : found[i] \in Models!Providers
  BY <1>1
<1>6. named \in Seq(Models!Choices) /\ Len(named) = Len(found)
  BY <1>4, <1>5
<1>7. found # <<>> => named # <<>>
  BY <1>1, <1>5, <1>6
<1> QED
  BY <1>2, <1>3, <1>6, <1>7

RecordsOf == [provider : Models!Providers, whose : {"ours", "other"}]

\* A loop that may call has a candidate to call.
ModelsRest ==
  /\ now \in 0 .. MaxTime
  /\ failedAt \in [Runs -> [Models!Providers -> (0 .. MaxTime) \cup {Models!Never}]]
  /\ records \in Seq(RecordsOf) /\ (Kept > 0 => Len(records) <= Kept)
  /\ chain \in [Runs -> Seq(Models!Choices)]
  /\ \A w \in Runs : stage[w] \in {"checking", "calling", "tools"} => chain[w] # <<>>
  /\ unbudgeted \in [Runs -> Models!Choices \cup {Models!NoChoice}]
  /\ others \in 0 .. MaxOthers /\ lost \in 0 .. MaxLost

LEMMA ModelsBounds ==
  /\ Configured \subseteq Models!Providers
  /\ MaxTime \in Nat /\ MaxOthers \in Nat /\ MaxLost \in Nat /\ Kept \in Nat
  BY CoworkersAssumption DEF CoworkersAssumption, Models!ProvidersAssumption

LEMMA ModelsRestStart == Models!Init => ModelsRest
<1>1. 0 \in 0 .. MaxTime /\ 0 \in 0 .. MaxOthers /\ 0 \in 0 .. MaxLost /\ 0 <= Kept
  BY ModelsBounds
<1> SUFFICES ASSUME Models!Init PROVE ModelsRest
  OBVIOUS
<1>2. records \in Seq(RecordsOf) /\ Len(records) = 0 /\ <<>> \in Seq(Models!Choices)
  BY DEF Models!Init
<1> QED
  BY <1>1, <1>2 DEF Models!Init, ModelsRest

\* The file keeps records of providers, and no more than its limit.
LEMMA SavedKeepsType ==
  ASSUME ModelsRest, NEW e \in RecordsOf
  PROVE  Models!Saved(e) \in Seq(RecordsOf) /\ (Kept > 0 => Len(Models!Saved(e)) <= Kept)
<1>1. RecordsOf \cup {e} = RecordsOf
  OBVIOUS
<1> QED
  BY <1>1, SavedRecords DEF ModelsRest

LEMMA CalledKeepsType ==
  ASSUME ModelsRest, NEW p \in Models!Providers, Models!Called(p)
  PROVE  records' \in Seq(RecordsOf) /\ (Kept > 0 => Len(records') <= Kept) /\ lost' \in 0 .. MaxLost
<1> DEFINE e == [provider |-> p, whose |-> "ours"]
<1>1. e \in RecordsOf
  BY DEF RecordsOf
<1>2. \/ records' = Models!Saved(e) /\ UNCHANGED lost
      \/ lost < MaxLost /\ lost' = lost + 1 /\ UNCHANGED records
  BY DEF Models!Called
<1> HIDE DEF e
<1> QED
  BY <1>1, <1>2, SavedKeepsType, ModelsBounds DEF ModelsRest

LEMMA ModelsRestRoute ==
  ASSUME ModelsParts, ModelsRest, NEW w \in Runs, NEW r, Models!Route(w, r)
  PROVE  ModelsRest'
<1>1. PICK a, h : /\ chain' = [chain EXCEPT ![w] = Models!Chain(r, a)]
                  /\ unbudgeted' = [unbudgeted EXCEPT ![w] = Models!Chain(r, h)[1]]
                  /\ stage' = [stage EXCEPT ![w] = "checking"]
                  /\ UNCHANGED <<now, failedAt, records, others, lost>>
  BY DEF Models!Route, Models!GoTo
<1>2. Models!Chain(r, a) \in Seq(Models!Choices) /\ Models!Chain(r, a) # <<>>
  BY ChainHasChoices
<1>3. Models!Chain(r, h)[1] \in Models!Choices
  <2> DEFINE c == Models!Chain(r, h)
  <2>1. c \in Seq(Models!Choices) /\ c # <<>>
    BY ChainHasChoices
  <2> HIDE DEF c
  <2>2. c[1] \in Models!Choices
    BY <2>1
  <2> QED
    BY <2>2 DEF c
<1> QED
  BY <1>1, <1>2, <1>3 DEF ModelsRest, ModelsParts, ModelsTyped

LEMMA EndKeepsType ==
  ASSUME ModelsParts, ModelsRest, NEW w \in Runs, Models!End(w)
  PROVE  /\ chain' \in [Runs -> Seq(Models!Choices)]
         /\ \A v \in Runs : stage'[v] \in {"checking", "calling", "tools"} => chain'[v] # <<>>
<1>1. <<>> \in Seq(Models!Choices)
  OBVIOUS
<1>2. /\ stage' = [stage EXCEPT ![w] = "idle"]
      /\ chain' = [chain EXCEPT ![w] = <<>>]
  BY DEF Models!End, Models!GoTo
<1> QED
  BY <1>1, <1>2 DEF ModelsRest, ModelsParts, ModelsTyped

LEMMA ContinueKeepsType ==
  ASSUME ModelsParts, ModelsRest, NEW w \in Runs, NEW s \in Stages,
         stage[w] \in {"checking", "calling", "tools"}, Models!Continue(w, s)
  PROVE  /\ chain' \in [Runs -> Seq(Models!Choices)]
         /\ \A v \in Runs : stage'[v] \in {"checking", "calling", "tools"} => chain'[v] # <<>>
  BY DEF Models!Continue, Models!GoTo, ModelsRest, ModelsParts, ModelsTyped

LEMMA FallBackKeepsType ==
  ASSUME ModelsParts, ModelsRest, NEW w \in Runs, stage[w] \in {"calling", "tools"}, Models!FallBack(w)
  PROVE  /\ chain' \in [Runs -> Seq(Models!Choices)]
         /\ \A v \in Runs : stage'[v] \in {"checking", "calling", "tools"} => chain'[v] # <<>>
<1>1. Tail(chain[w]) \in Seq(Models!Choices) /\ (Len(chain[w]) > 1 => Tail(chain[w]) # <<>>)
  <2> DEFINE c == chain[w]
             rest == Tail(c)
  <2>1. c \in Seq(Models!Choices) /\ c # <<>>
    BY DEF ModelsRest
  <2> HIDE DEF c
  <2>2. rest \in Seq(Models!Choices) /\ Len(rest) = Len(c) - 1 /\ Len(c) \in Nat
    BY <2>1
  <2> HIDE DEF rest
  <2>3. rest = <<>> => Len(rest) = 0
    BY EmptySeq
  <2>4. rest \in Seq(Models!Choices) /\ (Len(c) > 1 => rest # <<>>)
    BY <2>2, <2>3
  <2> QED
    BY <2>4, Zenon DEF c, rest
<1>2. CASE Models!End(w)
  BY <1>2, EndKeepsType
<1>3. CASE /\ Len(chain[w]) > 1
           /\ chain' = [chain EXCEPT ![w] = Tail(chain[w])]
           /\ stage' = [stage EXCEPT ![w] = "checking"]
  BY <1>1, <1>3 DEF ModelsRest, ModelsParts, ModelsTyped
<1> QED
  BY <1>2, <1>3 DEF Models!FallBack, Models!GoTo

LEMMA ModelsRestCalls ==
  ASSUME ModelsParts, ModelsRest, NEW w \in Runs, Models!CallFails(w) \/ Models!CallSucceeds(w)
  PROVE  ModelsRest'
<1>0. stage[w] = "calling" /\ chain[w] \in Seq(Models!Choices) /\ chain[w] # <<>>
  BY DEF Models!CallFails, Models!CallSucceeds, ModelsRest
<1>1. chain[w][1] \in Models!Choices
  BY <1>0
<1>2. Models!Used(w) \in Models!Providers
  BY <1>1 DEF Models!Used, Models!Choices
<1>3. CASE Models!CallFails(w)
  <2>1. /\ stage[w] = "calling" /\ Models!FallBack(w)
        /\ failedAt' = [failedAt EXCEPT ![w][Models!Used(w)] = now]
        /\ UNCHANGED <<now, records, unbudgeted, others, lost>>
    BY <1>3 DEF Models!CallFails
  <2> QED
    BY <1>2, <2>1, FallBackKeepsType DEF ModelsRest
<1>4. CASE Models!CallSucceeds(w)
  <2> DEFINE e == [provider |-> Models!Used(w), whose |-> "ours"]
  <2>1. e \in RecordsOf
    BY <1>2 DEF RecordsOf
  <2>2. /\ failedAt' = [failedAt EXCEPT ![w][Models!Used(w)] = Models!Never]
        /\ \/ records' = Models!Saved(e) /\ UNCHANGED lost
           \/ lost < MaxLost /\ lost' = lost + 1 /\ UNCHANGED records
        /\ Models!End(w) \/ Models!Continue(w, "tools")
        /\ UNCHANGED <<now, unbudgeted, others>>
    BY <1>4 DEF Models!CallSucceeds, Models!Called
  <2> HIDE DEF e
  <2>3. records' \in Seq(RecordsOf) /\ (Kept > 0 => Len(records') <= Kept) /\ lost' \in 0 .. MaxLost
    BY <2>1, <2>2, SavedKeepsType, ModelsBounds DEF ModelsRest
  <2>4. failedAt' \in [Runs -> [Models!Providers -> (0 .. MaxTime) \cup {Models!Never}]]
    BY <2>2 DEF ModelsRest
  <2>5. /\ chain' \in [Runs -> Seq(Models!Choices)]
        /\ \A v \in Runs : stage'[v] \in {"checking", "calling", "tools"} => chain'[v] # <<>>
    BY <1>0, <2>2, EndKeepsType, ContinueKeepsType DEF Stages
  <2> QED
    BY <2>2, <2>3, <2>4, <2>5 DEF ModelsRest
<1> QED
  BY <1>3, <1>4

LEMMA ModelsRestSteps ==
  ASSUME ModelsParts, ModelsRest, [Models!Next]_(Models!vars)
  PROVE  ModelsRest'
<1>1. ASSUME NEW w \in Runs, Models!Check(w) PROVE ModelsRest'
  <2>1. /\ stage[w] = "checking" /\ (Models!End(w) \/ Models!Continue(w, "calling"))
        /\ unbudgeted' = [unbudgeted EXCEPT ![w] = Models!NoChoice]
        /\ UNCHANGED <<now, failedAt, records, others, lost>>
    BY <1>1 DEF Models!Check
  <2> QED
    BY <2>1, EndKeepsType, ContinueKeepsType DEF ModelsRest, Stages
<1>3. ASSUME NEW p \in Configured, Models!Other(p) PROVE ModelsRest'
  <2>1. [provider |-> p, whose |-> "other"] \in RecordsOf
    BY ModelsBounds DEF RecordsOf
  <2>2. records' \in Seq(RecordsOf) /\ (Kept > 0 => Len(records') <= Kept)
    BY <1>3, <2>1, SavedKeepsType DEF Models!Other
  <2>3. others' \in 0 .. MaxOthers
    BY <1>3, ModelsBounds DEF Models!Other, ModelsRest
  <2> QED
    BY <1>3, <2>2, <2>3 DEF Models!Other, ModelsRest
<1>4. CASE Models!Tick
  <2>1. now' \in 0 .. MaxTime
    BY <1>4, ModelsBounds DEF Models!Tick, ModelsRest
  <2> QED
    BY <1>4, <2>1 DEF Models!Tick, ModelsRest
<1>5. CASE UNCHANGED Models!vars
  BY <1>5 DEF Models!vars, ModelsRest
<1>6. ASSUME NEW w \in Runs, Models!ToolsReturn(w) PROVE ModelsRest'
  <2>1. /\ stage[w] = "tools" /\ (Models!Continue(w, "checking") \/ Models!End(w))
        /\ UNCHANGED <<now, failedAt, records, unbudgeted, others, lost>>
    BY <1>6 DEF Models!ToolsReturn
  <2> QED
    BY <2>1, EndKeepsType, ContinueKeepsType DEF ModelsRest, Stages
<1>9. ASSUME NEW w \in Runs, Models!ToolsRaise(w) PROVE ModelsRest'
  <2>1. /\ stage[w] = "tools" /\ Models!FallBack(w)
        /\ UNCHANGED <<now, failedAt, records, unbudgeted, others, lost>>
    BY <1>9 DEF Models!ToolsRaise
  <2> QED
    BY <2>1, FallBackKeepsType DEF ModelsRest
<1>7. ASSUME NEW w \in Runs, NEW p \in Configured, Models!ToolCalls(w, p) PROVE ModelsRest'
  <2>1. Models!Called(p) /\ UNCHANGED <<now, failedAt, stage, chain, unbudgeted, others>>
    BY <1>7 DEF Models!ToolCalls
  <2> QED
    BY <2>1, ModelsBounds, CalledKeepsType DEF ModelsRest
<1>8. CASE Models!Prelude
  <2>1. /\ Models!Called("anthropic") \/ UNCHANGED <<records, lost>>
        /\ stage' = [w \in Runs |-> "idle"]
        /\ UNCHANGED <<now, failedAt, chain, unbudgeted, others>>
    BY <1>8 DEF Models!Prelude
  <2>2. "anthropic" \in Models!Providers
    BY DEF Models!Providers
  <2> QED
    BY <2>1, <2>2, CalledKeepsType DEF ModelsRest
<1> QED
  BY <1>1, <1>3, <1>4, <1>5, <1>6, <1>7, <1>8, <1>9, ModelsRestRoute, ModelsRestCalls DEF Models!Next

LEMMA ModelsTypes == ModelsParts /\ ModelsRest => Models!TypeOK
<1> SUFFICES ASSUME ModelsParts, ModelsRest PROVE Models!TypeOK
  OBVIOUS
<1>1. \A w \in Runs : \A i \in DOMAIN chain[w] : chain[w][i] \in Models!Choices
  BY DEF ModelsRest
<1>2. \A i \in DOMAIN records : records[i] \in RecordsOf
  BY DEF ModelsRest
<1> QED
  BY <1>1, <1>2 DEF Models!TypeOK, ModelsParts, ModelsTyped, ModelsRest, RecordsOf, Stages

\* The runs of the coding coworker: the trees, what each run knows, and the refs.
Plans == [Paths -> Coding!Readings \cup {Coding!Unread}]

TreesTyped ==
  /\ files \in Coding!Trees /\ head \in Coding!Trees
  /\ troubles \in 0 .. MaxTroubles
  /\ lock \in Runs \cup {Coding!Nobody}
  /\ foreign \in [Runs -> SUBSET Paths] /\ left \in [Runs -> SUBSET Paths]

KnownTyped ==
  /\ dirty \in [Runs -> SUBSET Paths] /\ changed \in [Runs -> SUBSET Paths]
  /\ snapshot \in [Runs -> Coding!Trees]
  /\ written \in [Runs -> SUBSET Coding!Writable]
  /\ plan \in [Runs -> Plans]

\* Each run makes one checkpoint at most.
Begun == {r \in Runs : stage[r] \notin Checkpointing}

RefsTyped ==
  /\ refs \in [RequestIds -> Coding!Checkpoints \cup {Coding!NoRef}]
  /\ replaced \subseteq Runs
  /\ order <= Cardinality(Begun)

CodingRest == TreesTyped /\ KnownTyped /\ RefsTyped

LEMMA CodingBounds ==
  /\ IsFiniteSet(Runs) /\ Cardinality(Runs) \in Nat
  /\ Coding!Cardinality(Runs) = Cardinality(Runs)
  /\ MaxTroubles \in Nat
<1>1. IsFiniteSet(Runs)
  BY CoworkersAssumption
     DEF CoworkersAssumption, Coding!RunsAssumption, Coding!IsFiniteSet, IsFiniteSet
<1>2. Coding!Cardinality(Runs) = Cardinality(Runs)
  BY DEF Coding!Cardinality, Cardinality
<1> QED
  BY <1>1, <1>2, FS_CardinalityType, CoworkersAssumption
     DEF CoworkersAssumption, Coding!BoundsAssumption

LEMMA BegunIsFinite ==
  /\ IsFiniteSet(Begun) /\ Cardinality(Begun) \in Nat
  /\ Cardinality(Begun) <= Cardinality(Runs)
<1>1. Begun \in SUBSET Runs
  BY DEF Begun
<1> QED
  BY <1>1, CodingBounds, FS_Subset, FS_CardinalityType

LEMMA FirstTyped == Coding!First \in Coding!Trees /\ Coding!NothingRead \in Plans
  BY DEF Coding!First, Coding!Trees, Coding!Contents, Coding!Absent, Coding!NothingRead, Plans

LEMMA CodingRestStart == Coding!Init => CodingRest
<1> SUFFICES ASSUME Coding!Init PROVE CodingRest
  OBVIOUS
<1>1. 0 \in 0 .. MaxTroubles /\ 0 <= Cardinality(Begun)
  BY CodingBounds, BegunIsFinite
<1>2. TreesTyped
  BY <1>1, FirstTyped DEF Coding!Init, TreesTyped
<1>3. KnownTyped
  BY FirstTyped DEF Coding!Init, KnownTyped
<1>4. RefsTyped
  BY <1>1 DEF Coding!Init, RefsTyped
<1> QED
  BY <1>2, <1>3, <1>4 DEF CodingRest

LEMMA ForgetTyped ==
  ASSUME KnownTyped, NEW r \in Runs, Coding!Forget(r)
  PROVE  KnownTyped'
  BY FirstTyped DEF KnownTyped, Coding!Forget

\* What a ref of the request holds.
LEMMA RefOfTyped ==
  ASSUME CodingTyped, RefsTyped, NEW r \in Runs, Coding!RefOf(r) # Coding!NoRef
  PROVE  /\ Coding!RefOf(r).run \in Runs
         /\ Coding!RefOf(r).tree \in Coding!Trees
         /\ \A p \in Paths : Coding!RefOf(r).tree[p] \in Coding!Contents
<1>1. Coding!RefOf(r) \in Coding!Checkpoints
  BY DEF CodingTyped, RefsTyped, Coding!RefOf
<1> QED
  BY <1>1 DEF Coding!Checkpoints, Coding!Trees

LEMMA KnownSteps ==
  ASSUME CodingTyped, CodingRest, NEW r \in Runs, Coding!RunStep(r) \/ Coding!Kill(r)
  PROVE  KnownTyped'
<1> USE DEF CodingRest
<1>1. CASE Coding!ReadStatus(r)
  BY <1>1 DEF Coding!ReadStatus, KnownTyped
<1>2. CASE Coding!TakeSnapshot(r)
  <2>1. Coding!Snapshot(files) \in Coding!Trees
    BY DEF TreesTyped, Coding!Snapshot, Coding!Trees, Coding!Contents, Coding!Absent
  <2> QED
    BY <1>2, <2>1 DEF Coding!TakeSnapshot, KnownTyped
<1>3. CASE Coding!Forget(r)
  BY <1>3, ForgetTyped
<1>4. CASE UNCHANGED Coding!known
  BY <1>4 DEF Coding!known, KnownTyped
<1>5. ASSUME NEW p \in Paths, Coding!Write(r, p)
      PROVE  KnownTyped'
  BY <1>5 DEF Coding!Write, KnownTyped
<1>6. CASE Coding!Diff(r)
  BY <1>6 DEF Coding!Diff, KnownTyped
<1>7. CASE Coding!Inspect(r)
  <2> DEFINE looked == [p \in Paths |->
                 IF p \in Coding!Candidates(r)
                    THEN [checkpointed |-> Coding!RefOf(r).tree[p], current |-> files[p]]
                    ELSE Coding!Unread]
  <2>1. \A p \in Paths : Coding!RefOf(r).tree[p] \in Coding!Contents /\ files[p] \in Coding!Contents
    BY <1>7, RefOfTyped DEF Coding!Inspect, TreesTyped, Coding!Trees
  <2>2. looked \in Plans
    BY <2>1 DEF Plans, Coding!Readings
  <2>3. plan' = [plan EXCEPT ![r] = looked] /\ UNCHANGED <<dirty, snapshot, written, changed>>
    BY <1>7 DEF Coding!Inspect
  <2> HIDE DEF looked
  <2> QED
    BY <2>2, <2>3 DEF KnownTyped
<1>8. ASSUME NEW p \in Paths, Coding!Restore(r, p)
      PROVE  KnownTyped'
  <2>1. plan' = [plan EXCEPT ![r][p] = Coding!Unread] /\ UNCHANGED <<dirty, snapshot, written, changed>>
    BY <1>8 DEF Coding!Restore, Coding!Done
  <2>2. plan' \in [Runs -> Plans]
    BY <2>1 DEF KnownTyped, Plans
  <2> QED
    BY <2>1, <2>2 DEF KnownTyped
<1>9. CASE \/ Coding!UpdateRef(r) \/ Coding!CheckpointFails(r) \/ Coding!NoVerdict(r)
           \/ Coding!CheckCollected(r) \/ Coding!NothingToRestore(r) \/ Coding!CannotRestore(r)
           \/ Coding!RolledBack(r) \/ Coding!Prune(r) \/ Coding!Kill(r)
  BY <1>3, <1>4, <1>9 DEF Coding!UpdateRef, Coding!CheckpointFails, Coding!NoVerdict,
     Coding!CheckCollected, Coding!NothingToRestore, Coding!CannotRestore, Coding!RolledBack,
     Coding!Prune, Coding!Kill, Coding!Finalize
<1>10. ASSUME NEW p \in Paths, Coding!RestoreRaises(r, p)
       PROVE  KnownTyped'
  BY <1>3, <1>10 DEF Coding!RestoreRaises, Coding!Finalize
<1> QED
  BY <1>1, <1>2, <1>5, <1>6, <1>7, <1>8, <1>9, <1>10 DEF Coding!RunStep

LEMMA TreeWithout ==
  ASSUME NEW t \in Coding!Trees, NEW p \in Paths, NEW c \in Coding!Contents
  PROVE  [t EXCEPT ![p] = c] \in Coding!Trees
  BY DEF Coding!Trees

LEMMA TroubleTyped ==
  ASSUME TreesTyped, Coding!Trouble
  PROVE  troubles' \in 0 .. MaxTroubles
  BY CodingBounds DEF TreesTyped, Coding!Trouble

LEMMA TreesSteps ==
  ASSUME CodingTyped, CodingRest, NEW r \in Runs, Coding!RunStep(r) \/ Coding!Kill(r)
  PROVE  TreesTyped'
<1> USE DEF CodingRest
<1>1. ASSUME NEW p \in Paths, Coding!Write(r, p)
      PROVE  TreesTyped'
  <2>1. files' \in Coding!Trees
    <3>1. r \in Coding!Contents
      BY DEF Coding!Contents
    <3> QED
      BY <1>1, <3>1, TreeWithout DEF Coding!Write, TreesTyped
  <2> QED
    BY <1>1, <2>1, TroubleTyped DEF Coding!Write, TreesTyped
<1>2. ASSUME NEW p \in Paths, Coding!Restore(r, p)
      PROVE  TreesTyped'
  <2>0. Coding!Absent \in Coding!Contents
    BY DEF Coding!Absent, Coding!Contents
  <2>1. /\ \/ UNCHANGED <<files, foreign>>
           \/ /\ \E c \in Coding!Contents : files' = [files EXCEPT ![p] = c]
              /\ foreign' = [foreign EXCEPT ![r] = @ \cup ({p} \ written[r])]
        /\ UNCHANGED <<head, lock, troubles, left>>
    BY <1>2, <2>0, RefOfTyped DEF Coding!Restore, Coding!Discard
  <2>2. files' \in Coding!Trees
    BY <2>1, TreeWithout DEF TreesTyped
  <2>3. foreign' \in [Runs -> SUBSET Paths]
    BY <2>1 DEF TreesTyped
  <2> QED
    BY <2>1, <2>2, <2>3 DEF TreesTyped
<1>3. ASSUME NEW p \in Paths, Coding!RestoreRaises(r, p)
      PROVE  TreesTyped'
  BY <1>3 DEF Coding!RestoreRaises, Coding!historyVars, TreesTyped
<1>4. CASE Coding!RolledBack(r)
  <2>1. Coding!Candidates(r) \subseteq Paths
    BY DEF Coding!Candidates, KnownTyped
  <2> QED
    BY <1>4, <2>1 DEF Coding!RolledBack, TreesTyped
<1>5. CASE Coding!CheckpointFails(r) \/ Coding!CannotRestore(r)
  BY <1>5, TroubleTyped
     DEF Coding!CheckpointFails, Coding!CannotRestore, Coding!historyVars, TreesTyped
<1>6. CASE Coding!Inspect(r) \/ Coding!Kill(r)
  BY <1>6 DEF Coding!Inspect, Coding!Kill, Coding!historyVars, TreesTyped
<1>7. CASE \/ Coding!ReadStatus(r) \/ Coding!TakeSnapshot(r) \/ Coding!UpdateRef(r)
           \/ Coding!NoVerdict(r) \/ Coding!Diff(r) \/ Coding!CheckCollected(r)
           \/ Coding!NothingToRestore(r) \/ Coding!Prune(r)
  <2>1. UNCHANGED <<files, head, troubles, lock, foreign, left>>
    BY <1>7 DEF Coding!ReadStatus, Coding!TakeSnapshot, Coding!UpdateRef, Coding!NoVerdict,
       Coding!Diff, Coding!CheckCollected, Coding!NothingToRestore, Coding!Prune,
       Coding!historyVars
  <2> QED
    BY <2>1 DEF TreesTyped
<1> QED
  BY <1>1, <1>2, <1>3, <1>4, <1>5, <1>6, <1>7 DEF Coding!RunStep

LEMMA RefsSteps ==
  ASSUME CodingTyped, CodingRest, NEW r \in Runs, Coding!RunStep(r) \/ Coding!Kill(r)
  PROVE  RefsTyped'
<1> USE DEF CodingRest
<1>1. CASE Coding!UpdateRef(r)
  <2>1. /\ stage[r] = "snapped" /\ order' = order + 1
        /\ refs' = [refs EXCEPT ![request[r]] =
                      [order |-> order + 1, run |-> r, tree |-> snapshot[r]]]
        /\ replaced' = replaced \cup {s \in Runs : Coding!RefOf(r) # Coding!NoRef
                                                     /\ Coding!RefOf(r).run = s}
        /\ stage' = [stage EXCEPT ![r] = "editing"] \/ stage' = [stage EXCEPT ![r] = "pruning"]
    BY <1>1 DEF Coding!UpdateRef, Coding!Finalize, Coding!GoTo
  <2>2. r \notin Begun /\ Begun' = Begun \cup {r}
    BY <2>1 DEF Begun, Checkpointing, CodingTyped
  <2>3. Cardinality(Begun') = Cardinality(Begun) + 1
    BY <2>2, BegunIsFinite, FS_AddElement
  <2>4. Cardinality(Begun') <= Cardinality(Runs)
    <3>1. Begun' \in SUBSET Runs
      BY DEF Begun
    <3> QED
      BY <3>1, CodingBounds, FS_Subset
  <2>5. order \in Nat /\ order <= Cardinality(Begun) /\ Cardinality(Begun) \in Nat
    BY BegunIsFinite DEF CodingTyped, RefsTyped
  <2>6. order + 1 \in 1 .. Cardinality(Runs) /\ order' <= Cardinality(Begun')
    BY <2>1, <2>3, <2>4, <2>5, CodingBounds
  <2>7. [order |-> order + 1, run |-> r, tree |-> snapshot[r]] \in Coding!Checkpoints
    BY <2>6, CodingBounds DEF Coding!Checkpoints, KnownTyped
  <2> QED
    BY <2>1, <2>6, <2>7 DEF RefsTyped
<1>2. CASE Coding!Prune(r)
  <2> DEFINE newer(q) == {s \in RequestIds : refs[s] # Coding!NoRef /\ refs[s].order > refs[q].order}
             old == {q \in RequestIds : refs[q] # Coding!NoRef
                                         /\ Coding!Cardinality(newer(q)) >= KeepLast}
  <2>0. \A q \in old : q \in RequestIds /\ refs[q] # Coding!NoRef
    OBVIOUS
  <2>1. /\ refs' = [q \in RequestIds |-> IF q \in old THEN Coding!NoRef ELSE refs[q]]
        /\ replaced' = replaced \cup {refs[q].run : q \in old}
        /\ order' = order /\ stage' = [stage EXCEPT ![r] = "over"] /\ stage[r] = "pruning"
    BY <1>2, Zenon DEF Coding!Prune, Coding!GoTo
  <2> HIDE DEF old
  <2>2. \A q \in old : refs[q].run \in Runs
    BY <2>0 DEF RefsTyped, Coding!Checkpoints
  <2>3. Begun' = Begun
    BY <2>1 DEF Begun, Checkpointing, CodingTyped
  <2> QED
    BY <2>1, <2>2, <2>3 DEF RefsTyped
<1>3. ASSUME UNCHANGED <<refs, replaced, order>>,
             stage' = stage \/ \E s \in Coding!Stages : Coding!GoTo(r, s),
             stage[r] \in Checkpointing \/ stage'[r] \notin Checkpointing
      PROVE  RefsTyped'
  <2>1. Begun' \in SUBSET Runs /\ Begun \subseteq Begun'
    BY <1>3 DEF Begun, CodingTyped, Coding!GoTo
  <2>2. IsFiniteSet(Begun') /\ Cardinality(Begun') \in Nat
    BY <2>1, CodingBounds, FS_Subset, FS_CardinalityType
  <2>3. Cardinality(Begun) <= Cardinality(Begun')
    BY <2>1, <2>2, FS_Subset
  <2> QED
    BY <1>3, <2>2, <2>3, BegunIsFinite DEF RefsTyped, CodingTyped
<1>4. CASE \/ Coding!ReadStatus(r) \/ Coding!TakeSnapshot(r) \/ Coding!CheckpointFails(r)
           \/ Coding!NoVerdict(r) \/ Coding!Diff(r) \/ Coding!CheckCollected(r)
           \/ Coding!NothingToRestore(r) \/ Coding!Inspect(r) \/ Coding!CannotRestore(r)
           \/ Coding!RolledBack(r) \/ Coding!Kill(r)
  <2>1. /\ UNCHANGED <<refs, replaced, order>>
        /\ \E s \in Coding!Stages : Coding!GoTo(r, s)
        /\ stage[r] \in Checkpointing \/ stage'[r] \notin Checkpointing
    BY <1>4 DEF Coding!ReadStatus, Coding!TakeSnapshot, Coding!CheckpointFails, Coding!NoVerdict,
       Coding!Diff, Coding!Verdicts, Coding!CheckCollected, Coding!NothingToRestore,
       Coding!Inspect, Coding!CannotRestore, Coding!RolledBack, Coding!Kill, Coding!Finalize,
       Coding!GoTo, Coding!historyVars, Coding!Stages, Checkpointing, CodingTyped
  <2> QED
    BY <1>3, <2>1
<1>5. ASSUME NEW p \in Paths,
             Coding!Write(r, p) \/ Coding!Restore(r, p) \/ Coding!RestoreRaises(r, p)
      PROVE  RefsTyped'
  <2>1. /\ UNCHANGED <<refs, replaced, order>>
        /\ stage' = stage \/ Coding!GoTo(r, "pruning")
        /\ stage[r] \notin Checkpointing
    BY <1>5 DEF Coding!Write, Coding!Restore, Coding!RestoreRaises, Coding!Finalize,
       Coding!historyVars, Checkpointing
  <2> QED
    BY <1>3, <2>1 DEF Coding!GoTo, Coding!Stages, Checkpointing, CodingTyped
<1> QED
  BY <1>1, <1>2, <1>4, <1>5 DEF Coding!RunStep

LEMMA CodingRestSteps ==
  ASSUME CodingTyped, CodingRest, [Coding!Next]_(Coding!vars)
  PROVE  CodingRest'
<1>1. ASSUME NEW r \in Runs, Coding!RunStep(r) \/ Coding!Kill(r) PROVE CodingRest'
  BY <1>1, TreesSteps, KnownSteps, RefsSteps DEF CodingRest
<1>2. ASSUME UNCHANGED <<refs, stage, Coding!known, order, replaced>>, TreesTyped'
      PROVE  CodingRest'
  BY <1>2 DEF CodingRest, KnownTyped, RefsTyped, Begun, Coding!known
<1>3. ASSUME NEW p \in Paths, NEW c \in {"human", Coding!Absent}, Coding!Edit(p, c)
      PROVE  CodingRest'
  <2>1. c \in Coding!Contents
    BY DEF Coding!Contents, Coding!Absent
  <2>2. TreesTyped'
    BY <1>3, <2>1, TreeWithout, TroubleTyped
       DEF Coding!Edit, Coding!historyVars, TreesTyped, CodingRest
  <2> QED
    BY <1>2, <1>3, <2>2 DEF Coding!Edit, Coding!historyVars
<1>4. CASE Coding!Commit
  <2>1. [p \in Paths |-> IF p \in Ignored THEN head[p] ELSE files[p]] \in Coding!Trees
    BY DEF CodingRest, TreesTyped, Coding!Trees
  <2>2. TreesTyped'
    BY <1>4, <2>1, TroubleTyped DEF Coding!Commit, Coding!historyVars, TreesTyped, CodingRest
  <2> QED
    BY <1>2, <1>4, <2>2 DEF Coding!Commit, Coding!historyVars
<1>5. CASE UNCHANGED Coding!vars
  BY <1>2, <1>5 DEF Coding!vars, Coding!known, Coding!historyVars, CodingRest, TreesTyped
<1> QED
  BY <1>1, <1>3, <1>4, <1>5 DEF Coding!Next

LEMMA CodingTypes == CodingTyped /\ CodingRest => Coding!TypeOK
<1> SUFFICES ASSUME CodingTyped, CodingRest PROVE Coding!TypeOK
  OBVIOUS
<1>1. order \in 0 .. Coding!Cardinality(Runs)
  BY BegunIsFinite, CodingBounds DEF CodingTyped, CodingRest, RefsTyped
<1> QED
  BY <1>1 DEF Coding!TypeOK, CodingTyped, CodingRest, TreesTyped, KnownTyped, RefsTyped, Plans,
              Coding!Writable

RestInv ==
  /\ part = "coding" => CodingRest
  /\ part = "batch" => BatchRest
  /\ part = "models" => ModelsRest
  /\ part = "past" => PastRest

PartsInv == CodingInv /\ BatchInv /\ ModelsInv /\ PastInv

LEMMA RestInvariant == Spec => []RestInv
<1>1. Init => RestInv
  BY CodingRestStart, BatchRestStart, ModelsRestStart, PastRestStart DEF Init, RestInv
<1>2. PartsInv /\ RestInv /\ [Next]_vars => RestInv'
  <2> SUFFICES ASSUME PartsInv, RestInv, [Next]_vars PROVE RestInv'
    OBVIOUS
  <2>0. part' = part
    BY PartIsKept
  <2>1. ASSUME part = "coding" PROVE CodingRest'
    <3>1. [Coding!Next]_(Coding!vars)
      BY <2>1 DEF Next, vars, codingOnly, Coding!vars, Coding!known, Coding!historyVars
    <3> QED
      BY <2>1, <3>1, CodingRestSteps DEF PartsInv, CodingInv, CodingParts, RestInv
  <2>2. ASSUME part = "batch" PROVE BatchRest'
    <3>1. [Batch!Next]_(Batch!vars)
      BY <2>2 DEF Next, vars, batchOnly, Batch!vars
    <3> QED
      BY <2>2, <3>1, BatchRestSteps DEF PartsInv, BatchInv, RestInv
  <2>3. ASSUME part = "models" PROVE ModelsRest'
    <3>1. [Models!Next]_(Models!vars)
      BY <2>3 DEF Next, vars, modelsOnly, Models!vars
    <3> QED
      BY <2>3, <3>1, ModelsRestSteps DEF PartsInv, ModelsInv, RestInv
  <2>4. ASSUME part = "past" PROVE PastRest'
    <3>1. [Past!Next]_(Past!vars)
      BY <2>4 DEF Next, vars, pastOnly, Past!vars
    <3> QED
      BY <2>4, <3>1, PastRestSteps DEF PartsInv, PastInv, RestInv
  <2> QED
    BY <2>0, <2>1, <2>2, <2>3, <2>4 DEF RestInv
<1> QED
  BY <1>1, <1>2, CodingInvariant, BatchInvariant, ModelsInvariant, PastInvariant, PTL
     DEF Spec, PartsInv

\* In each component every variable keeps a value of its kind.
THEOREM TypeCorrect == Spec => []TypeOK
<1>1. PartsInv /\ RestInv => TypeOK
  BY CodingTypes, BatchTypes, ModelsTypes, PastTypes
     DEF PartsInv, CodingInv, CodingParts, BatchInv, ModelsInv, PastInv, RestInv, TypeOK
<1> QED
  BY <1>1, CodingInvariant, BatchInvariant, ModelsInvariant, PastInvariant, RestInvariant, PTL
     DEF PartsInv

----------------------------------------------------------------------------
(* The schema of the history database. *)

\* The open transaction has no version yet, and its tables before it is stamped.
Half ==
  /\ \A r \in Requests : at[r] = "tables" => work.version = 0
  /\ \A r \in Requests : at[r] = "stamp" => work.tables

Schema == Past!SchemaIsWhole /\ Half
SchemaInv == part = "past" => Schema

LEMMA SchemaStart == Past!Init => Schema
  BY DEF Past!Init, Schema, Half, Past!SchemaIsWhole, Past!Absent, Past!Ready, Past!Newer, Past!Made

LEMMA SchemaOfRequest ==
  ASSUME PastParts, PastRest, Schema, NEW r \in Requests, Past!RequestStep(r)
  PROVE  Schema'
<1> USE DEF Schema, Half, Past!SchemaIsWhole, Past!GoTo, Past!counters
<1>1. at \in [Requests -> Past!Recording \cup {"new", "prelude", "running", "over"}]
  BY DEF PastParts, PastTyped
<1>2. \A u \in Requests : at[u] \in {"tables", "stamp"} => tx = u
  BY DEF PastParts, Writing
<1>3. CASE \/ Past!Begin(r) \/ Past!LookUp(r) \/ Past!PreludeRaises(r) \/ Past!Answer(r)
           \/ Past!Search(r)
  BY <1>1, <1>3
     DEF Past!Begin, Past!LookUp, Past!PreludeRaises, Past!Answer, Past!Search
<1>4. CASE Past!Connect(r)
  BY <1>1, <1>4 DEF Past!Connect, PastRest, Past!Databases
<1>5. CASE Past!EnsureSchema(r)
  BY <1>1, <1>2, <1>5, PastConstants DEF Past!EnsureSchema
<1>6. CASE Past!CreateTables(r)
  BY <1>1, <1>2, <1>6 DEF Past!CreateTables, Past!Executed, PastRest, Past!Databases
<1>7. CASE Past!StampAndCommit(r)
  BY <1>1, <1>2, <1>7 DEF Past!StampAndCommit, PastRest, Past!Databases
<1>8. CASE Past!CreateSession(r)
  BY <1>1, <1>8 DEF Past!CreateSession, PastRest, Past!Databases
<1>9. CASE Past!RecordTurn(r)
  BY <1>1, <1>9 DEF Past!RecordTurn, Past!After, PastRest, Past!Databases
<1>10. CASE Past!CaptureFails(r)
  BY <1>1, <1>2, <1>10 DEF Past!CaptureFails, Past!After
<1> QED
  BY <1>3, <1>4, <1>5, <1>6, <1>7, <1>8, <1>9, <1>10 DEF Past!RequestStep

LEMMA SchemaSteps ==
  ASSUME PastParts, PastRest, Schema, [Past!Next]_(Past!vars)
  PROVE  Schema'
<1> USE DEF Schema, Half, Past!SchemaIsWhole
<1>1. ASSUME NEW p \in Processes, Past!Crash(p) PROVE Schema'
  BY <1>1 DEF Past!Crash, Past!Of, PastParts, Writing
<1>2. ASSUME NEW new \in {Past!Garbage, Past!Absent}, Past!Damage(new) PROVE Schema'
  BY <1>2 DEF Past!Damage, Past!Garbage, Past!Absent
<1>3. CASE UNCHANGED Past!vars
  BY <1>3 DEF Past!vars
<1> QED
  BY <1>1, <1>2, <1>3, SchemaOfRequest DEF Past!Next

LEMMA SchemaInvariant == Spec => []SchemaInv
<1>1. Init => SchemaInv
  BY SchemaStart DEF Init, SchemaInv
<1>2. PastInv /\ RestInv /\ SchemaInv /\ [Next]_vars => SchemaInv'
  <2> SUFFICES ASSUME PastInv, RestInv, SchemaInv, [Next]_vars, part = "past" PROVE Schema'
    BY PartIsKept DEF SchemaInv
  <2>1. [Past!Next]_(Past!vars)
    BY DEF Next, vars, pastOnly, Past!vars
  <2> QED
    BY <2>1, SchemaSteps DEF PastInv, RestInv, SchemaInv
<1> QED
  BY <1>1, <1>2, PastInvariant, RestInvariant, PTL DEF Spec

\* The database has its version exactly when it has its tables (history_store.py:520-556), whichever
\* process ended or transaction failed between its statements.
THEOREM SchemaIsWholeHolds == Spec => []SchemaIsWhole
<1>1. SchemaInv => SchemaIsWhole
  BY DEF SchemaInv, Schema, SchemaIsWhole
<1> QED
  BY <1>1, SchemaInvariant, PTL
=============================================================================
