-------------------------- MODULE RequestExecutor ---------------------------
(***************************************************************************)
(* One request, from execute_task_stream's first line to its finally block *)
(* (agent/executor.py), with the state machine that observes it            *)
(* (agent/execution_state.py): the provider fallback chain, the bounded    *)
(* tool loop, the batch of tool calls with its thread pool, its gates and  *)
(* its retries, the outcome recorded in the execution history, and the     *)
(* other threads and processes that may cancel the request, or abandon its *)
(* generator, at any moment.                                               *)
(*                                                                         *)
(* The model's answers, the tools' results, failing writes and expiring    *)
(* approvals are the environment's choices.  Text is abstracted to which   *)
(* provider produced it; a tool call to its (name, input) pair.            *)
(***************************************************************************)
EXTENDS ToolPolicy

CONSTANTS
  ChainLength,     (* candidates build_fallback_chain returned                *)
  Kind,            (* position in the chain -> the loop that drives it        *)
  MaxIterations,   (* MAX_TOOL_ITERATIONS                                     *)
  MaxBatch,        (* calls in one model response (bound)                     *)
  Source,          (* where the request came from                             *)
  AutonomyLevel,
  NoTool

Positions == 1..ChainLength
Kinds     == {"streaming", "looping", "single_shot"}
Slots     == 1..MaxBatch

ASSUME ExecutorAssumption ==
  /\ ChainLength \in Nat \ {0}
  /\ Kind \in [Positions -> Kinds]
  /\ MaxIterations \in Nat \ {0}
  /\ MaxBatch \in Nat \ {0}
  /\ Source \in Sources
  /\ AutonomyLevel \in AutonomyLevels
  /\ NoTool \notin Tools

VARIABLES
  pc,          (* where execute_task_stream is                                *)
  registered,  (* the request is in the in-process _active registry           *)
  marker,      (* its cancellation marker exists on disk                      *)
  status,      (* ExecutionState.status                                       *)
  cancelled,   (* ExecutionState.cancelled                                    *)
  failed,      (* ExecutionState.failed                                       *)
  position,    (* the candidate of the fallback chain being tried             *)
  iteration,   (* tool iterations of that candidate's loop                    *)
  committed,   (* that loop's committed flag                                  *)
  started,     (* text has been yielded to the caller                         *)
  chunked,     (* the current streaming response has yielded text             *)
  exc,         (* the exception in flight, or the last one                    *)
  call,        (* slot -> the tool call of the current batch                  *)
  phase,       (* slot -> how far that call is                                *)
  attempt,     (* slot -> attempts made                                       *)
  pending,     (* calls with an unexpired entry in the confirmation ledger    *)
  recorded,    (* the outcome persisted in the execution history              *)
  \* History variables: what really happened, which the code does not keep.
  speakers,    (* candidates whose text the user has seen                     *)
  actedAt,     (* candidates under which a side effect took place             *)
  late         (* slot -> attempts begun after cancellation was requested     *)

requestVars == <<registered, marker>>
stateVars   == <<status, cancelled, failed>>
loopVars    == <<position, iteration, committed>>
textVars    == <<started, chunked, speakers>>
batchVars   == <<call, phase, attempt, late>>
vars == <<pc, requestVars, stateVars, loopVars, textVars, exc, batchVars,
          pending, recorded, actedAt>>

-----------------------------------------------------------------------------
(* ExecutionState *)

Statuses == {"idle", "listening", "planning", "thinking", "executing",
             "waiting_for_confirmation", "verifying", "speaking",
             "completed", "failed", "cancelled"}
TerminalStatuses == {"completed", "failed", "cancelled"}

AllowedTransitions ==
  [s \in Statuses |->
     CASE s = "idle"      -> {"listening", "thinking", "planning"}
       [] s = "listening" -> {"thinking", "idle", "cancelled"}
       [] s = "planning"  -> {"thinking", "cancelled", "failed"}
       [] s = "thinking"  -> {"executing", "waiting_for_confirmation", "verifying", "speaking"}
                             \cup TerminalStatuses
       [] s = "executing" -> {"thinking", "waiting_for_confirmation", "verifying"}
                             \cup TerminalStatuses
       [] s = "waiting_for_confirmation" -> {"executing", "cancelled", "failed"}
       [] s = "verifying" -> {"thinking", "executing", "speaking"} \cup TerminalStatuses
       [] s = "speaking"  -> {"completed", "idle"}
       [] OTHER           -> {}]

\* Mutant: the graph forgets that a request waiting for a yes can be cancelled.
MovedUnlessWaiting(s, new) ==
  IF new \in AllowedTransitions[s] /\ ~(s = "waiting_for_confirmation" /\ new = "cancelled")
  THEN new ELSE s

\* transition_to: a transition the graph does not have leaves the status alone.
Moved(s, new) == IF new \in AllowedTransitions[s] THEN new ELSE s

\* cancel(): the flag, and the status where the graph lets it.
CancelState ==
  /\ cancelled' = TRUE
  /\ status' = Moved(status, "cancelled")
  /\ UNCHANGED failed

\* finish(): the flags, and the status unless the request was cancelled.
FinishState(didFail) ==
  /\ failed' = didFail
  /\ status' = IF cancelled THEN status
               ELSE Moved(status, IF didFail THEN "failed" ELSE "completed")
  /\ UNCHANGED cancelled

\* Mutant: the flag of the state itself is forgotten.
CancelSeenOnDisk == marker

\* _is_cancelled: a marker on disk is copied into the state when it is seen.
CancelSeen == cancelled \/ marker
SyncCancel ==
  /\ CancelSeen
  /\ IF cancelled THEN UNCHANGED stateVars ELSE CancelState

NotCancelled == ~CancelSeen

-----------------------------------------------------------------------------
(* The prelude: everything execute_task_stream does before its try block. *)

Init ==
  /\ pc = "new"
  /\ registered = FALSE
  /\ marker = FALSE
  /\ status = "idle"
  /\ cancelled = FALSE
  /\ failed = FALSE
  /\ position = 1
  /\ iteration = 0
  /\ committed = FALSE
  /\ started = FALSE
  /\ chunked = FALSE
  /\ exc = "none"
  /\ call = [c \in Slots |-> NoTool]
  /\ phase = [c \in Slots |-> "absent"]
  /\ attempt = [c \in Slots |-> 0]
  \* What earlier requests of this process asked for, of what this one has to ask.
  /\ pending \in SUBSET {t \in Tools : Verdict(t, AutonomyLevel, Source) = "confirm"}
  /\ recorded = "none"
  /\ speakers = {}
  /\ actedAt = {}
  /\ late = [c \in Slots |-> 0]

\* is_complex and create_plan; a simple request has no plan.
Plan ==
  /\ pc = "new"
  /\ status' = Moved(status, "planning")
  /\ pc' = "planned"
  /\ UNCHANGED <<cancelled, failed, requestVars, loopVars, textVars, exc,
                 batchVars, pending, recorded, actedAt>>

\* register_active: from here on other threads can find the request.
Register ==
  /\ pc \in {"new", "planned"}
  /\ registered' = TRUE
  /\ pc' = "opened"
  /\ UNCHANGED <<marker, stateVars, loopVars, textVars, exc, batchVars,
                 pending, recorded, actedAt>>

\* The observer is told, the history notes the start, and the status moves on.
Open ==
  /\ pc = "opened"
  /\ status' = Moved(status, "thinking")
  /\ pc' = "registered"
  /\ UNCHANGED <<requestVars, cancelled, failed, loopVars, textVars, exc,
                 batchVars, pending, recorded, actedAt>>

\* The greeting prefetch runs two reads through _run_tool, one after the other:
\* the gate can move the status, a failure is swallowed and ends the prefetch.
PrefetchGreeting(t) ==
  /\ pc \in {"registered", "half_prefetched"}
  /\ Source # "scheduled"
  /\ t \in ParallelSafe
  /\ \/ SyncCancel /\ UNCHANGED pending
     \/ /\ NotCancelled
        /\ Verdict(t, AutonomyLevel, Source) = "deny"
        /\ UNCHANGED <<stateVars, pending>>
     \/ /\ NotCancelled
        /\ Verdict(t, AutonomyLevel, Source) = "confirm"
        /\ t \notin pending
        /\ status' = Moved(status, "waiting_for_confirmation")
        /\ pending' = pending \cup {t}
        /\ UNCHANGED <<cancelled, failed>>
     \/ /\ NotCancelled
        /\ Verdict(t, AutonomyLevel, Source) = "allow" \/ t \in pending
        /\ status' = Moved(status, "executing")
        /\ pending' = pending \ {t}
        /\ UNCHANGED <<cancelled, failed>>
  /\ pc' = IF pc = "registered" THEN "half_prefetched" ELSE "prefetched"
  /\ UNCHANGED <<requestVars, loopVars, textVars, exc, batchVars, recorded, actedAt>>

BuildChain ==
  /\ pc \in {"registered", "half_prefetched", "prefetched"}
  /\ pc' = "looping"
  /\ UNCHANGED <<requestVars, stateVars, loopVars, textVars, exc, batchVars,
                 pending, recorded, actedAt>>

\* A write of the shared status file or of the history that fails (set_status
\* does not catch OSError): no finally block is on the stack yet.
PreludeRaises ==
  /\ pc \in {"new", "planned", "opened", "registered", "half_prefetched", "prefetched"}
  /\ pc' = "escaped"
  /\ exc' = "other"
  /\ UNCHANGED <<requestVars, stateVars, loopVars, textVars, batchVars,
                 pending, recorded, actedAt>>

-----------------------------------------------------------------------------
(* One iteration of a candidate's loop, up to the model's response. *)

\* A single-shot loop makes its one call and returns.
Bound == IF Kind[position] = "single_shot" THEN 1 ELSE MaxIterations

\* The loop gives up and says so: cancelled, over a request limit, or out of
\* iterations.  The text is the executor's own.
StopWithNotice ==
  /\ pc = "looping"
  /\ \/ iteration < Bound /\ SyncCancel
     \/ iteration < Bound /\ NotCancelled /\ UNCHANGED stateVars  \* check_request_limits
     \/ iteration = Bound /\ UNCHANGED stateVars
  /\ pc' = "ended"
  /\ started' = TRUE
  /\ UNCHANGED <<requestVars, loopVars, chunked, speakers, exc, batchVars,
                 pending, recorded, actedAt>>

CallModel ==
  /\ pc = "looping"
  /\ iteration < Bound
  /\ NotCancelled
  /\ pc' = "model"
  /\ iteration' = iteration + 1
  /\ status' = Moved(status, "thinking")
  /\ chunked' = FALSE
  /\ UNCHANGED <<requestVars, cancelled, failed, position, committed, started,
                 speakers, exc, batchVars, pending, recorded, actedAt>>

\* The system prompt cannot be built, the usage history does not parse for
\* check_request_limits, or the status file cannot be written.
LoopRaises ==
  /\ pc = "looping"
  /\ iteration < Bound
  /\ iteration = 0 \/ NotCancelled
  /\ pc' = "raised"
  /\ exc' = "other"
  /\ UNCHANGED <<requestVars, stateVars, loopVars, textVars, batchVars,
                 pending, recorded, actedAt>>

StreamChunk ==
  /\ pc = "model"
  /\ Kind[position] = "streaming"
  /\ ~chunked
  /\ chunked' = TRUE
  /\ started' = TRUE
  /\ speakers' = speakers \cup {position}
  /\ UNCHANGED <<pc, requestVars, stateVars, loopVars, exc, batchVars,
                 pending, recorded, actedAt>>

ModelFails ==
  /\ pc = "model"
  /\ pc' = "raised"
  /\ exc' = IF committed THEN "partial" ELSE "model"
  /\ UNCHANGED <<requestVars, stateVars, loopVars, textVars, batchVars,
                 pending, recorded, actedAt>>

ModelAnswers ==
  /\ pc = "model"
  /\ pc' = "ended"
  /\ started' = TRUE
  /\ speakers' = speakers \cup {position}
  /\ UNCHANGED <<requestVars, stateVars, loopVars, chunked, exc, batchVars,
                 pending, recorded, actedAt>>

\* Malformed arguments: json.loads raises outside the model call's try.
MalformedArguments ==
  /\ pc = "model"
  /\ Kind[position] = "looping"
  /\ pc' = "raised"
  /\ exc' = "other"
  /\ UNCHANGED <<requestVars, stateVars, loopVars, textVars, batchVars,
                 pending, recorded, actedAt>>

\* The calls of one response, in the order the model listed them.
Batches ==
  {b \in [Slots -> Tools \cup {NoTool}] :
     /\ b[1] # NoTool
     /\ \A c \in Slots : \A d \in Slots : c < d /\ b[c] = NoTool => b[d] = NoTool}

ModelAsksForTools ==
  /\ pc = "model"
  /\ Kind[position] # "single_shot"
  /\ pc' = "batch"
  /\ call' \in Batches
  /\ phase' = [c \in Slots |-> IF call'[c] = NoTool THEN "absent" ELSE "queued"]
  /\ attempt' = [c \in Slots |-> 0]
  /\ late' = [c \in Slots |-> 0]
  /\ UNCHANGED <<requestVars, stateVars, loopVars, textVars, exc, pending,
                 recorded, actedAt>>

-----------------------------------------------------------------------------
(* _run_tool_batch and _run_tool *)

InFlight == {"ready", "running", "backoff"}
Settled  == {"absent", "skipped", "asked", "done"}
Phases   == InFlight \cup Settled \cup {"queued", "raised"}

Parallel(c) == call[c] \in ParallelSafe

\* Mutant: a call waits for every other one, as if order did not matter.
MayStartAlone(c) == \A d \in Slots \ {c} : phase[d] \in Settled

\* Parallel calls all start together; a sequential one starts when every
\* parallel call and every earlier sequential one has returned.
MayStart(c) ==
  \/ Parallel(c)
  \/ \A d \in Slots : Parallel(d) \/ d < c => phase[d] \in Settled

SetPhase(c, p) == phase' = [phase EXCEPT ![c] = p]

\* The gates at the head of _run_tool.
GateSkips(c) ==
  /\ pc = "batch"
  /\ phase[c] = "queued"
  /\ MayStart(c)
  /\ \/ SyncCancel
     \/ NotCancelled /\ Verdict(call[c], AutonomyLevel, Source) = "deny" /\ UNCHANGED stateVars
  /\ SetPhase(c, "skipped")
  /\ UNCHANGED <<pc, requestVars, loopVars, textVars, exc, call, attempt, late,
                 pending, recorded, actedAt>>

GateAsks(c) ==
  /\ pc = "batch"
  /\ phase[c] = "queued"
  /\ MayStart(c)
  /\ NotCancelled
  /\ Verdict(call[c], AutonomyLevel, Source) = "confirm"
  /\ call[c] \notin pending
  /\ pending' = pending \cup {call[c]}
  /\ status' = Moved(status, "waiting_for_confirmation")
  /\ SetPhase(c, "asked") \/ SetPhase(c, "raised")
  /\ UNCHANGED <<pc, requestVars, cancelled, failed, loopVars, textVars, exc,
                 call, attempt, late, recorded, actedAt>>

\* clear_confirmation and the transition to EXECUTING; an approval is consumed.
\* Here and in GateAsks the write of the status file may raise.
GatePasses(c) ==
  /\ pc = "batch"
  /\ phase[c] = "queued"
  /\ MayStart(c)
  /\ NotCancelled
  /\ \/ Verdict(call[c], AutonomyLevel, Source) = "allow" /\ UNCHANGED pending
     \/ /\ Verdict(call[c], AutonomyLevel, Source) = "confirm"
        /\ call[c] \in pending
        /\ pending' = pending \ {call[c]}
  /\ status' = Moved(status, "executing")
  /\ SetPhase(c, "ready") \/ SetPhase(c, "raised")
  /\ UNCHANGED <<pc, requestVars, cancelled, failed, loopVars, textVars, exc,
                 call, attempt, late, recorded, actedAt>>

\* registry.dispatch is entered: first attempt, or a retry after its delay.
Dispatch(c) ==
  /\ pc = "batch"
  /\ phase[c] \in {"ready", "backoff"}
  /\ attempt' = [attempt EXCEPT ![c] = @ + 1]
  /\ late' = [late EXCEPT ![c] = IF CancelSeen THEN @ + 1 ELSE @]
  /\ SetPhase(c, "running")
  /\ UNCHANGED <<pc, requestVars, stateVars, loopVars, textVars, exc, call,
                 pending, recorded, actedAt>>

Acts(c) == actedAt' = IF call[c] \in SideEffect THEN actedAt \cup {position} ELSE actedAt

\* The handler returns; a side effect is verified, and the status write before
\* the verification, or the store that it re-reads, may itself raise.
ToolReturns(c) ==
  /\ pc = "batch"
  /\ phase[c] = "running"
  /\ Acts(c)
  /\ status' = IF call[c] \in SideEffect THEN Moved(status, "verifying") ELSE status
  /\ \/ SetPhase(c, "done")
     \/ call[c] \in SideEffect /\ SetPhase(c, "raised")
  /\ UNCHANGED <<pc, requestVars, cancelled, failed, loopVars, textVars, exc,
                 call, attempt, late, pending, recorded>>

\* Mutant: the loop round registry.dispatch no longer asks whether to stop.
AfterErrorWithoutCancelCheck(c, error) ==
  /\ UNCHANGED stateVars
  /\ SetPhase(c, IF ShouldRetry(call[c], error, attempt[c]) THEN "backoff" ELSE "raised")

\* The except clause round registry.dispatch.
AfterError(c, error) ==
  \/ SyncCancel /\ SetPhase(c, "done")
  \/ /\ NotCancelled
     /\ UNCHANGED stateVars
     /\ SetPhase(c, IF ShouldRetry(call[c], error, attempt[c]) THEN "backoff" ELSE "raised")

\* The handler raises, perhaps after its effect took place.
ToolRaises(c) ==
  /\ pc = "batch"
  /\ phase[c] = "running"
  /\ \/ Acts(c)
     \/ UNCHANGED actedAt
  /\ \E error \in ErrorKinds : AfterError(c, error)
  /\ UNCHANGED <<pc, requestVars, loopVars, textVars, exc, call, attempt, late,
                 pending, recorded>>

\* Mutant: only the last batch counts.
CommitsLastBatch == \E c \in Slots : call[c] \in SideEffect

\* The batch that returned names a side-effecting tool.
Commits == committed \/ \E c \in Slots : call[c] \in SideEffect

\* Every call has a result: the loop notes the commitment and goes round.
BatchReturns ==
  /\ pc = "batch"
  /\ \A c \in Slots : phase[c] \in Settled
  /\ pc' = "looping"
  /\ committed' = Commits
  /\ UNCHANGED <<requestVars, stateVars, position, iteration, textVars, exc,
                 batchVars, pending, recorded, actedAt>>

\* A call raised.  The thread pool is left only when its threads have ended;
\* the calls after a raising sequential one are never started.
BatchRaises ==
  /\ pc = "batch"
  /\ \E c \in Slots : phase[c] = "raised"
  /\ \A c \in Slots : Parallel(c) => phase[c] \in Settled \cup {"raised"}
  /\ \A c \in Slots : phase[c] \notin InFlight
  /\ pc' = "raised"
  /\ exc' = "other"
  /\ UNCHANGED <<requestVars, stateVars, loopVars, textVars, batchVars,
                 pending, recorded, actedAt>>

-----------------------------------------------------------------------------
(* How execute_task_stream ends a candidate, and the request. *)

\* The candidate's generator is exhausted.
CheckOutcome ==
  /\ pc = "ended"
  /\ \/ SyncCancel /\ pc' = "finish_cancelled"
     \/ NotCancelled /\ UNCHANGED stateVars /\ pc' = "finish_ok"
  /\ UNCHANGED <<requestVars, loopVars, textVars, exc, batchVars, pending,
                 recorded, actedAt>>

\* state.finish and the history record.  A write of the history that fails
\* raises into the except clauses of the same try.
FinishReturned ==
  /\ pc \in {"finish_ok", "finish_cancelled"}
  /\ FinishState(FALSE)
  /\ \/ /\ recorded' = IF pc = "finish_ok" THEN "completed" ELSE "cancelled"
        /\ pc' = "finally"
        /\ UNCHANGED exc
     \/ /\ pc' = "raised"
        /\ exc' = "other"
        /\ UNCHANGED recorded
  /\ UNCHANGED <<requestVars, loopVars, textVars, batchVars, pending, actedAt>>

LastCandidate == position = ChainLength

\* Mutant: text already shown does not keep the next candidate from speaking.
MayFallBackMidText == exc # "partial" /\ ~LastCandidate

\* Nothing was committed before a model call failed, nothing was shown, and
\* there is somebody left to ask.
MayFallBack == exc # "partial" /\ ~started /\ ~LastCandidate

\* A provider failed without partial output: the next candidate is tried,
\* with a loop of its own.
FallBack ==
  /\ pc = "raised"
  /\ MayFallBack
  /\ position' = position + 1
  /\ iteration' = 0
  /\ committed' = FALSE
  /\ pc' = "looping"
  /\ UNCHANGED <<requestVars, stateVars, textVars, exc, batchVars, pending,
                 recorded, actedAt>>

\* The three terminal failures: partial execution, a dropped connection, no
\* candidate left.  A history write that fails here escapes to the finally.
FinishFailed ==
  /\ pc = "raised"
  /\ ~MayFallBack
  /\ FinishState(TRUE)
  /\ \/ recorded' = "failed" /\ pc' = "apologising"
     \/ UNCHANGED recorded /\ pc' = "finally"
  /\ UNCHANGED <<requestVars, loopVars, textVars, exc, batchVars, pending, actedAt>>

Apologise ==
  /\ pc = "apologising"
  /\ started' = TRUE
  /\ pc' = "finally"
  /\ UNCHANGED <<requestVars, stateVars, loopVars, chunked, speakers, exc,
                 batchVars, pending, recorded, actedAt>>

\* unregister_active and clear_cancellation.
Cleanup ==
  /\ pc = "finally"
  /\ registered' = FALSE
  /\ marker' = FALSE
  /\ pc' = "closed"
  /\ UNCHANGED <<stateVars, loopVars, textVars, exc, batchVars, pending,
                 recorded, actedAt>>

-----------------------------------------------------------------------------
(* The rest of the world. *)

\* The caller closes the generator while it is suspended at a yield.
Abandon ==
  /\ pc \in {"model", "ended"}
  /\ pc = "model" => chunked
  /\ pc' = "finally"
  /\ UNCHANGED <<requestVars, stateVars, loopVars, textVars, exc, batchVars,
                 pending, recorded, actedAt>>

\* cancel_active, from another thread of this process.
CancelInProcess ==
  /\ registered
  /\ ~cancelled
  /\ CancelState
  /\ UNCHANGED <<pc, requestVars, loopVars, textVars, exc, batchVars, pending,
                 recorded, actedAt>>

\* request_cancel, from another process, while this request is advertised:
\* from the first status it writes, PLANNING or THINKING.
CancelByMarker ==
  /\ pc \notin {"new", "closed", "escaped"}
  /\ pc = "opened" => status # "idle"
  /\ ~marker
  /\ marker' = TRUE
  /\ UNCHANGED <<pc, registered, stateVars, loopVars, textVars, exc, batchVars,
                 pending, recorded, actedAt>>

\* CONFIRMATION_WINDOW_SECONDS pass.
ConfirmationExpires(t) ==
  /\ t \in pending
  /\ pc \notin {"closed", "escaped"}
  /\ pending' = pending \ {t}
  /\ UNCHANGED <<pc, requestVars, stateVars, loopVars, textVars, exc, batchVars,
                 recorded, actedAt>>

-----------------------------------------------------------------------------

ToolStep(c) ==
  \/ GateSkips(c) \/ GateAsks(c) \/ GatePasses(c)
  \/ Dispatch(c) \/ ToolReturns(c) \/ ToolRaises(c)

ProgramStep ==
  \/ Plan \/ Register \/ Open \/ BuildChain \/ PreludeRaises
  \/ \E t \in ParallelSafe : PrefetchGreeting(t)
  \/ StopWithNotice \/ CallModel \/ LoopRaises
  \/ StreamChunk \/ ModelFails \/ ModelAnswers \/ MalformedArguments \/ ModelAsksForTools
  \/ \E c \in Slots : ToolStep(c)
  \/ BatchReturns \/ BatchRaises
  \/ CheckOutcome \/ FinishReturned \/ FallBack \/ FinishFailed \/ Apologise \/ Cleanup

WorldStep ==
  \/ Abandon \/ CancelInProcess \/ CancelByMarker
  \/ \E t \in Tools : ConfirmationExpires(t)

Next == ProgramStep \/ WorldStep

Spec == Init /\ [][Next]_vars

\* The generator is driven to its end by its caller, model calls and tools
\* return or raise.
FairSpec == Spec /\ WF_vars(ProgramStep)

-----------------------------------------------------------------------------
(* Properties *)

\* Every variable keeps its type.
TypeOK ==
  /\ pc \in {"new", "planned", "opened", "registered", "half_prefetched", "prefetched",
             "looping", "model", "batch", "raised", "ended", "finish_ok", "finish_cancelled",
             "apologising", "finally", "closed", "escaped"}
  /\ registered \in BOOLEAN
  /\ marker \in BOOLEAN
  /\ status \in Statuses
  /\ cancelled \in BOOLEAN
  /\ failed \in BOOLEAN
  /\ position \in Positions
  /\ iteration \in 0..MaxIterations
  /\ committed \in BOOLEAN
  /\ started \in BOOLEAN
  /\ chunked \in BOOLEAN
  /\ exc \in {"none", "model", "partial", "other"}
  /\ call \in [Slots -> Tools \cup {NoTool}]
  /\ phase \in [Slots -> Phases]
  /\ attempt \in [Slots -> 0..MaxRetries]
  /\ pending \subseteq Tools
  /\ recorded \in {"none", "completed", "failed", "cancelled"}
  /\ speakers \subseteq Positions
  /\ actedAt \subseteq Positions
  /\ late \in [Slots -> 0..MaxRetries]

\* The user never sees one provider's text continued by another's: whoever has
\* spoken is the candidate in charge, now and for the rest of the request
\* ("can't retract text already shown").
OneVoice == \A p \in speakers : p = position

\* When a model call fails and the failure counts as harmless, no side effect
\* of this candidate has taken place: the committed flag is set in time, and
\* kept, across every batch and iteration before the failing call.
HarmlessFailure == pc = "raised" /\ exc = "model" => position \notin actedAt

\* "Stop" means nothing else is started, up to the calls that had already
\* passed their check: each of them begins at most one more attempt, and a
\* sequential one only if no other call of the batch does.
LateAttempts ==
  /\ \A c \in Slots : late[c] <= 1
  /\ \A c, d \in Slots : late[c] = 1 /\ late[d] = 1 /\ c # d => Parallel(c) /\ Parallel(d)

\* A request cancelled while its loop runs shows it: whatever status the tools,
\* a pending confirmation or a verification had left behind, the transition
\* graph lets it become cancelled, and nothing the request does later hides it.
CancelIsVisible ==
  [][ \/ status = "cancelled"
      \/ ~cancelled /\ cancelled' /\ pc \in {"looping", "model", "batch", "ended"}
      => status' = "cancelled" ]_vars

\* A request that was cancelled before its candidate came to an end is never
\* recorded as completed, whatever the provider still answers, on whichever
\* candidate, and whatever write fails.
CancelledIsNeverCompleted ==
  [](cancelled /\ pc \in {"looping", "model", "batch", "ended"} => [](recorded # "completed"))

\* Whatever raises, whoever cancels or abandons, the request ends: there is no
\* cycle of tools, retries and fallbacks, and no call waits for another that
\* waits for it.
EventuallyOver == <>(pc \in {"closed", "escaped"})

\* To its caller the whole of this is one request with one voice and at most
\* one recorded outcome.
Lifecycle == INSTANCE RequestLifecycle WITH
  Voices  <- Positions,
  stage   <- IF pc \in {"new", "planned"} THEN "new"
             ELSE IF pc = "closed" THEN "over" ELSE "live",
  voice   <- speakers,
  outcome <- recorded
ImplementsLifecycle == Lifecycle!Spec

\* A tool that finalises something a live human approved, or that is blocked
\* unattended, never runs in a scheduled request, at any autonomy level.
HardGatesHold ==
  \A c \in Slots : phase[c] \in InFlight \cup {"done", "raised"}
                   => ~HardGated(call[c], Source)

\* A source with nobody to answer never waits for an answer: it adds no entry
\* to the ledger for a later request to consume, and its status never hangs at
\* waiting_for_confirmation.
UnattendedNeverWaits ==
  [][(Source \in NonInteractiveSources)
     => pending' \subseteq pending /\ status' # "waiting_for_confirmation"]_vars

-----------------------------------------------------------------------------
(* What the repository says of the program and the code does not do *)

\* tools/registry.py, ToolSpec.side_effect: after a side effect the request is
\* reported to the user, never silently retried on another provider.
NoCandidateAfterSideEffect == \A p \in actedAt : p = position
=============================================================================
