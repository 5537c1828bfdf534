----------------------- MODULE RequestExecutorProofs ------------------------
(***************************************************************************)
(* Theorems about RequestExecutor, for every chain of providers, every set *)
(* of tools with every policy, every source and every bound on batches and *)
(* iterations.                                                             *)
(***************************************************************************)
EXTENDS RequestExecutor, TLAPS

-----------------------------------------------------------------------------
(* Types *)

\* Attempts are counted from the gate: none before it, and a retry is only
\* waiting while the policy still grants one.  Only real calls get that far.
AttemptsCounted ==
  \A c \in Slots :
    /\ phase[c] # "absent" => call[c] \in Tools
    /\ phase[c] \in {"queued", "ready"} => attempt[c] = 0
    /\ phase[c] = "backoff" => attempt[c] < MaxRetries
    /\ late[c] <= attempt[c]

\* The actions that leave the batch of tool calls alone.
OutsideBatch ==
  \/ Plan \/ Register \/ Open \/ BuildChain \/ PreludeRaises
  \/ \E t \in ParallelSafe : PrefetchGreeting(t)
  \/ StopWithNotice \/ CallModel \/ LoopRaises
  \/ StreamChunk \/ ModelFails \/ ModelAnswers \/ MalformedArguments
  \/ BatchReturns \/ BatchRaises
  \/ CheckOutcome \/ FinishReturned \/ FallBack \/ FinishFailed \/ Apologise \/ Cleanup
  \/ WorldStep

LEMMA OutsideBatchFrame == OutsideBatch \/ UNCHANGED vars => UNCHANGED batchVars
BY DEF OutsideBatch, WorldStep, Plan, Register, Open, BuildChain, PreludeRaises, PrefetchGreeting,
       StopWithNotice, CallModel, LoopRaises, StreamChunk, ModelFails, ModelAnswers,
       MalformedArguments, BatchReturns, BatchRaises, CheckOutcome, FinishReturned, FallBack,
       FinishFailed, Apologise, Cleanup, Abandon, CancelInProcess, CancelByMarker,
       ConfirmationExpires, vars

\* Every step is a step outside the batch, a new batch, or a step of one call.
LEMMA StepCases ==
  ASSUME [Next]_vars
  PROVE  \/ OutsideBatch \/ UNCHANGED vars
         \/ ModelAsksForTools
         \/ \E c \in Slots : ToolStep(c)
BY DEF Next, ProgramStep, OutsideBatch

\* The status graph stays within the statuses, whatever is asked of it.
LEMMA MovedType ==
  ASSUME NEW s \in Statuses, NEW new \in Statuses
  PROVE  Moved(s, new) \in Statuses
BY DEF Moved

LEMMA BoundType ==
  ASSUME TypeOK
  PROVE  Bound \in 1..MaxIterations
BY ExecutorAssumption DEF Bound, TypeOK

LEMMA NewBatch ==
  ASSUME ModelAsksForTools
  PROVE  /\ call' \in [Slots -> Tools \cup {NoTool}]
         /\ phase' \in [Slots -> {"absent", "queued"}]
         /\ \A c \in Slots : phase'[c] # "absent" => call'[c] \in Tools
         /\ attempt' = [c \in Slots |-> 0]
         /\ late' = [c \in Slots |-> 0]
BY DEF ModelAsksForTools, Batches

\* How one call's phase and counters move: only dispatching counts an attempt.
CallMoves(c, p) ==
  /\ phase' = [phase EXCEPT ![c] = p]
  /\ p # "queued" /\ phase[c] # "absent"
  /\ \/ /\ attempt' = attempt
        /\ late' = late
        /\ p = "ready" => attempt[c] = 0
        /\ p = "backoff" => attempt[c] < MaxRetries
     \/ /\ p = "running"
        /\ attempt[c] < MaxRetries
        /\ attempt' = [attempt EXCEPT ![c] = @ + 1]
        /\ (late' = late \/ late' = [late EXCEPT ![c] = @ + 1])

LEMMA CallStep ==
  ASSUME TypeOK, AttemptsCounted, NEW c \in Slots, ToolStep(c)
  PROVE  \E p \in Phases : CallMoves(c, p)
<1> USE DEF CallMoves, SetPhase, Phases, InFlight, Settled, batchVars
<1>1. CASE GateSkips(c)
    BY <1>1 DEF GateSkips
<1>2. CASE GateAsks(c)
    BY <1>2 DEF GateAsks
<1>3. CASE GatePasses(c)
    BY <1>3 DEF GatePasses, AttemptsCounted
<1>4. CASE Dispatch(c)
    <2>1. attempt[c] < MaxRetries
        BY <1>4 DEF Dispatch, AttemptsCounted, MaxRetries
    <2>2. (late' = late \/ late' = [late EXCEPT ![c] = @ + 1])
        BY <1>4 DEF Dispatch, TypeOK
    <2> QED BY <1>4, <2>1, <2>2 DEF Dispatch
<1>5. CASE ToolReturns(c)
    BY <1>5 DEF ToolReturns
<1>6. CASE ToolRaises(c)
    <2>1. PICK error \in ErrorKinds : AfterError(c, error)
        BY <1>6 DEF ToolRaises
    <2> QED BY <1>6, <2>1 DEF ToolRaises, AfterError, ShouldRetry
<1> QED BY <1>1, <1>2, <1>3, <1>4, <1>5, <1>6 DEF ToolStep

LEMMA BatchTypes ==
  ASSUME TypeOK, AttemptsCounted, [Next]_vars
  PROVE  /\ call' \in [Slots -> Tools \cup {NoTool}]
         /\ phase' \in [Slots -> Phases]
         /\ attempt' \in [Slots -> 0..MaxRetries]
         /\ late' \in [Slots -> 0..MaxRetries]
         /\ AttemptsCounted'
<1>1. CASE OutsideBatch \/ UNCHANGED vars
    BY <1>1, OutsideBatchFrame DEF TypeOK, AttemptsCounted, batchVars
<1>2. CASE ModelAsksForTools
    BY <1>2, NewBatch DEF AttemptsCounted, MaxRetries, Phases, Settled
<1>3. ASSUME NEW c \in Slots, ToolStep(c)
      PROVE  /\ call' \in [Slots -> Tools \cup {NoTool}]
             /\ phase' \in [Slots -> Phases]
             /\ attempt' \in [Slots -> 0..MaxRetries]
             /\ late' \in [Slots -> 0..MaxRetries]
             /\ AttemptsCounted'
    <2>a. /\ phase \in [Slots -> Phases]
          /\ attempt \in [Slots -> 0..2]
          /\ late \in [Slots -> 0..2]
          /\ \A d \in Slots : late[d] <= attempt[d]
          /\ \A d \in Slots : phase[d] # "absent" => call[d] \in Tools
        BY DEF TypeOK, AttemptsCounted, MaxRetries
    <2>1. call' = call
        BY <1>3 DEF ToolStep, GateSkips, GateAsks, GatePasses, Dispatch, ToolReturns,
                    ToolRaises
    <2>2. PICK p \in Phases : CallMoves(c, p)
        BY <1>3, CallStep
    <2>3. phase' \in [Slots -> Phases]
        BY <2>2, <2>a DEF CallMoves
    <2>4. attempt' \in [Slots -> 0..MaxRetries]
        BY <2>2, <2>a DEF CallMoves, MaxRetries
    <2>5. late' \in [Slots -> 0..MaxRetries]
        BY <2>2, <2>a DEF CallMoves, MaxRetries
    <2>6. ASSUME NEW d \in Slots
          PROVE  /\ phase'[d] # "absent" => call'[d] \in Tools
                 /\ phase'[d] \in {"queued", "ready"} => attempt'[d] = 0
                 /\ phase'[d] = "backoff" => attempt'[d] < MaxRetries
                 /\ late'[d] <= attempt'[d]
        <3>1. CASE d = c
            <4>1. phase'[c] = p
                BY <2>2, <2>a DEF CallMoves
            <4>2. late'[c] <= attempt'[c]
                BY <2>2, <2>a DEF CallMoves
            <4> QED BY <2>1, <2>2, <2>a, <3>1, <4>1, <4>2 DEF CallMoves
        <3>2. CASE d # c
            <4>1. phase'[d] = phase[d] /\ attempt'[d] = attempt[d] /\ late'[d] = late[d]
                BY <2>2, <3>2, <2>a DEF CallMoves
            <4> QED BY <2>1, <4>1 DEF AttemptsCounted
        <3> QED BY <3>1, <3>2
    <2>7. AttemptsCounted'
        BY <2>6 DEF AttemptsCounted
    <2> QED BY <2>1, <2>3, <2>4, <2>5, <2>7 DEF TypeOK
<1> QED BY <1>1, <1>2, <1>3, StepCases

LEMMA StateTypes ==
  ASSUME TypeOK, [Next]_vars
  PROVE  status' \in Statuses /\ cancelled' \in BOOLEAN /\ failed' \in BOOLEAN
<1> USE DEF TypeOK, stateVars
<1>a. \A new \in Statuses : Moved(status, new) \in Statuses
    BY MovedType
<1>b. /\ {"planning", "thinking", "executing", "waiting_for_confirmation", "verifying",
          "completed", "failed", "cancelled"} \subseteq Statuses
    BY DEF Statuses
<1> DEFINE Fine == status' \in Statuses /\ cancelled' \in BOOLEAN /\ failed' \in BOOLEAN
<1>c. SyncCancel => Fine
    BY <1>a, <1>b DEF SyncCancel, CancelState
<1>d. \A f \in BOOLEAN : FinishState(f) => Fine
    BY <1>a, <1>b DEF FinishState
<1>1. CASE Plan \/ Register \/ Open \/ BuildChain \/ PreludeRaises
    BY <1>1, <1>a, <1>b DEF Plan, Register, Open, BuildChain, PreludeRaises
<1>2. CASE \E t \in ParallelSafe : PrefetchGreeting(t)
    BY <1>2, <1>a, <1>b, <1>c DEF PrefetchGreeting
<1>3. CASE StopWithNotice \/ CallModel \/ LoopRaises
    BY <1>3, <1>a, <1>b, <1>c DEF StopWithNotice, CallModel, LoopRaises
<1>4. CASE StreamChunk \/ ModelFails \/ ModelAnswers \/ MalformedArguments \/ ModelAsksForTools
    BY <1>4 DEF StreamChunk, ModelFails, ModelAnswers, MalformedArguments, ModelAsksForTools
<1>5. ASSUME NEW c \in Slots, ToolStep(c)
      PROVE  Fine
    <2>1. CASE ToolRaises(c)
        BY <2>1, <1>c DEF ToolRaises, AfterError
    <2>2. CASE ~ToolRaises(c)
        BY <1>5, <2>2, <1>a, <1>b, <1>c
           DEF ToolStep, GateSkips, GateAsks, GatePasses, Dispatch, ToolReturns
    <2> QED BY <2>1, <2>2
<1>6. CASE BatchReturns \/ BatchRaises \/ CheckOutcome \/ FallBack \/ Apologise \/ Cleanup
    BY <1>6, <1>c DEF BatchReturns, BatchRaises, CheckOutcome, FallBack, Apologise, Cleanup
<1>7. CASE FinishReturned \/ FinishFailed
    BY <1>7, <1>d DEF FinishReturned, FinishFailed
<1>8. CASE WorldStep
    BY <1>8, <1>a, <1>b
       DEF WorldStep, Abandon, CancelInProcess, CancelState, CancelByMarker, ConfirmationExpires
<1>9. CASE UNCHANGED vars
    BY <1>9 DEF vars
<1> QED BY <1>1, <1>2, <1>3, <1>4, <1>5, <1>6, <1>7, <1>8, <1>9 DEF Next, ProgramStep

LEMMA LoopTypes ==
  ASSUME TypeOK, [Next]_vars
  PROVE  position' \in Positions /\ iteration' \in 0..MaxIterations /\ committed' \in BOOLEAN
<1>1. CASE CallModel
    BY <1>1, BoundType, ExecutorAssumption DEF CallModel, TypeOK
<1>2. CASE FallBack
    <2>1. position' \in Positions
        BY <1>2, ExecutorAssumption DEF FallBack, MayFallBack, LastCandidate, Positions, TypeOK
    <2>2. iteration' \in 0..MaxIterations
        BY <1>2, ExecutorAssumption DEF FallBack
    <2> QED BY <1>2, <2>1, <2>2 DEF FallBack
<1>3. CASE BatchReturns
    BY <1>3 DEF BatchReturns, Commits, TypeOK
<1>4. ASSUME ~CallModel, ~FallBack, ~BatchReturns
      PROVE  UNCHANGED loopVars
    BY <1>4
       DEF Next, ProgramStep, WorldStep, ToolStep, Plan, Register, Open, BuildChain, PreludeRaises,
           PrefetchGreeting, StopWithNotice, LoopRaises, StreamChunk, ModelFails, ModelAnswers,
           MalformedArguments, ModelAsksForTools, GateSkips, GateAsks, GatePasses, Dispatch,
           ToolReturns, ToolRaises, BatchRaises, CheckOutcome, FinishReturned, FinishFailed,
           Apologise, Cleanup, Abandon, CancelInProcess, CancelByMarker, ConfirmationExpires,
           vars, loopVars
<1> QED BY <1>1, <1>2, <1>3, <1>4 DEF loopVars, TypeOK

LEMMA TextTypes ==
  ASSUME TypeOK, [Next]_vars
  PROVE  started' \in BOOLEAN /\ chunked' \in BOOLEAN /\ speakers' \subseteq Positions
<1>1. CASE StopWithNotice \/ Apologise
    BY <1>1 DEF StopWithNotice, Apologise, TypeOK
<1>2. CASE CallModel
    BY <1>2 DEF CallModel, TypeOK
<1>3. CASE StreamChunk \/ ModelAnswers
    BY <1>3 DEF StreamChunk, ModelAnswers, TypeOK
<1>4. ASSUME ~StopWithNotice, ~Apologise, ~CallModel, ~StreamChunk, ~ModelAnswers
      PROVE  UNCHANGED textVars
    BY <1>4
       DEF Next, ProgramStep, WorldStep, ToolStep, Plan, Register, Open, BuildChain, PreludeRaises,
           PrefetchGreeting, LoopRaises, ModelFails, MalformedArguments, ModelAsksForTools,
           GateSkips, GateAsks, GatePasses, Dispatch, ToolReturns, ToolRaises, BatchReturns,
           BatchRaises, CheckOutcome, FinishReturned, FallBack, FinishFailed, Cleanup, Abandon,
           CancelInProcess, CancelByMarker, ConfirmationExpires, vars
<1> QED BY <1>1, <1>2, <1>3, <1>4 DEF textVars, TypeOK

\* Control: where the request is, how it is registered, what is in flight.
LEMMA ControlTypes ==
  ASSUME TypeOK, [Next]_vars
  PROVE  /\ pc' \in {"new", "planned", "opened", "registered", "half_prefetched",
                     "prefetched", "looping", "model", "batch", "raised", "ended",
                     "finish_ok", "finish_cancelled", "apologising", "finally", "closed", "escaped"}
         /\ registered' \in BOOLEAN
         /\ marker' \in BOOLEAN
         /\ exc' \in {"none", "model", "partial", "other"}
         /\ recorded' \in {"none", "completed", "failed", "cancelled"}
<1> USE DEF TypeOK, requestVars
<1>0. CASE Plan \/ Register \/ Open
    BY <1>0 DEF Plan, Register, Open
<1>1. CASE BuildChain \/ PreludeRaises
    BY <1>1 DEF BuildChain, PreludeRaises
<1>9. CASE \E t \in ParallelSafe : PrefetchGreeting(t)
    BY <1>9 DEF PrefetchGreeting
<1>2. CASE StopWithNotice \/ CallModel \/ LoopRaises
    BY <1>2 DEF StopWithNotice, CallModel, LoopRaises
<1>3. CASE StreamChunk \/ ModelFails \/ ModelAnswers \/ MalformedArguments \/ ModelAsksForTools
    BY <1>3 DEF StreamChunk, ModelFails, ModelAnswers, MalformedArguments, ModelAsksForTools
<1>4. CASE \E c \in Slots : ToolStep(c)
    BY <1>4 DEF ToolStep, GateSkips, GateAsks, GatePasses, Dispatch, ToolReturns, ToolRaises
<1>5. CASE BatchReturns \/ BatchRaises \/ CheckOutcome \/ FinishReturned
    BY <1>5 DEF BatchReturns, BatchRaises, CheckOutcome, FinishReturned
<1>6. CASE FallBack \/ FinishFailed \/ Apologise \/ Cleanup
    BY <1>6 DEF FallBack, FinishFailed, Apologise, Cleanup
<1>7. CASE WorldStep
    <2>1. CASE Abandon
        BY <2>1 DEF Abandon
    <2>2. CASE CancelInProcess
        BY <2>2 DEF CancelInProcess
    <2>4. CASE CancelByMarker
        BY <2>4 DEF CancelByMarker
    <2>3. CASE \E t \in Tools : ConfirmationExpires(t)
        BY <2>3 DEF ConfirmationExpires
    <2> QED BY <1>7, <2>1, <2>2, <2>3, <2>4 DEF WorldStep
<1>8. CASE UNCHANGED vars
    BY <1>8 DEF vars
<1> QED
    BY <1>0, <1>1, <1>2, <1>3, <1>4, <1>5, <1>6, <1>7, <1>8, <1>9 DEF Next, ProgramStep

LEMMA EffectTypes ==
  ASSUME TypeOK, AttemptsCounted, [Next]_vars
  PROVE  pending' \subseteq Tools /\ actedAt' \subseteq Positions
<1>1. CASE \E t \in ParallelSafe : PrefetchGreeting(t)
    BY <1>1, ToolsAssumption DEF PrefetchGreeting, TypeOK
<1>2. ASSUME NEW c \in Slots, ToolStep(c)
      PROVE  pending' \subseteq Tools /\ actedAt' \subseteq Positions
    <2>1. CASE GateAsks(c)
        \* The empty slot is never asked about.
        <3>1. call[c] \in Tools
            BY <2>1 DEF GateAsks, AttemptsCounted
        <3> QED BY <2>1, <3>1 DEF GateAsks, TypeOK
    <2>2. CASE ~GateAsks(c)
        BY <1>2, <2>2
           DEF ToolStep, GateSkips, GatePasses, Dispatch, ToolReturns, ToolRaises, Acts, TypeOK
    <2> QED BY <2>1, <2>2
<1>3. ASSUME ~\E t \in ParallelSafe : PrefetchGreeting(t), ~\E c \in Slots : ToolStep(c)
      PROVE  pending' \subseteq pending /\ actedAt' = actedAt
    BY <1>3
       DEF Next, ProgramStep, WorldStep, Plan, Register, Open, BuildChain, PreludeRaises,
           StopWithNotice, CallModel, LoopRaises, StreamChunk, ModelFails, ModelAnswers,
           MalformedArguments, ModelAsksForTools, BatchReturns, BatchRaises, CheckOutcome,
           FinishReturned, FallBack, FinishFailed, Apologise, Cleanup, Abandon,
           CancelInProcess, CancelByMarker, ConfirmationExpires, vars
<1> QED BY <1>1, <1>2, <1>3 DEF TypeOK

LEMMA TypeInit == Init => TypeOK /\ AttemptsCounted
<1> SUFFICES ASSUME Init PROVE TypeOK /\ AttemptsCounted
    OBVIOUS
<1>1. phase \in [Slots -> Phases] /\ \A c \in Slots : phase[c] = "absent"
    BY DEF Init, Phases, Settled
<1>2. /\ attempt \in [Slots -> 0..MaxRetries] /\ late \in [Slots -> 0..MaxRetries]
      /\ \A c \in Slots : attempt[c] = 0 /\ late[c] = 0
    BY DEF Init, MaxRetries
<1>3. position \in Positions /\ iteration \in 0..MaxIterations
    BY ExecutorAssumption DEF Init, Positions
<1>4. status \in Statuses /\ call \in [Slots -> Tools \cup {NoTool}]
    BY DEF Init, Statuses
<1>5. AttemptsCounted
    BY <1>1, <1>2 DEF AttemptsCounted
<1> QED BY <1>1, <1>2, <1>3, <1>4, <1>5 DEF Init, TypeOK

LEMMA TypeStep == TypeOK /\ AttemptsCounted /\ [Next]_vars => TypeOK' /\ AttemptsCounted'
<1> SUFFICES ASSUME TypeOK, AttemptsCounted, [Next]_vars
             PROVE  TypeOK' /\ AttemptsCounted'
    OBVIOUS
<1>1. AttemptsCounted'
    BY BatchTypes
<1>2. TypeOK'
    BY BatchTypes, StateTypes, LoopTypes, TextTypes, ControlTypes, EffectTypes DEF TypeOK
<1> QED BY <1>1, <1>2

\* Every variable keeps its type: among others no tool call is attempted more
\* than MAX_RETRIES times and no candidate's loop runs past its iteration
\* limit, for every retry, fallback and cancellation in between.
THEOREM TypeCorrect == Spec => []TypeOK
<1>1. Spec => [](TypeOK /\ AttemptsCounted)
    BY TypeInit, TypeStep, PTL DEF Spec
<1> QED BY <1>1, PTL

-----------------------------------------------------------------------------
(* One voice *)

\* Nobody has spoken unnoticed: the flag that forbids the next fallback is up.
Voice == OneVoice /\ (speakers # {} => started)

LEMMA VoiceStep == Voice /\ [Next]_vars => Voice'
<1> SUFFICES ASSUME Voice, [Next]_vars PROVE Voice'
    OBVIOUS
<1> USE DEF Voice, OneVoice, loopVars, textVars
<1>1. CASE StopWithNotice \/ Apologise
    BY <1>1 DEF StopWithNotice, Apologise
<1>2. CASE StreamChunk \/ ModelAnswers
    BY <1>2 DEF StreamChunk, ModelAnswers
<1>3. CASE FallBack
    \* Nothing has been shown, so nobody has spoken.
    BY <1>3 DEF FallBack, MayFallBack
<1>4. ASSUME ~StopWithNotice, ~Apologise, ~StreamChunk, ~ModelAnswers, ~FallBack
      PROVE  UNCHANGED <<position, started, speakers>>
    BY <1>4
       DEF Next, ProgramStep, WorldStep, ToolStep, Plan, Register, Open, BuildChain,
           PreludeRaises, PrefetchGreeting, CallModel, LoopRaises, ModelFails,
           MalformedArguments, ModelAsksForTools, GateSkips, GateAsks, GatePasses, Dispatch,
           ToolReturns, ToolRaises, BatchReturns, BatchRaises, CheckOutcome, FinishReturned,
           FinishFailed, Cleanup, Abandon, CancelInProcess, CancelByMarker,
           ConfirmationExpires, vars
<1> QED BY <1>1, <1>2, <1>3, <1>4

\* For every chain of providers, however each of them fails, the user only
\* ever sees the text of one of them, and it is the one in charge.
THEOREM OneVoiceHolds == Spec => []OneVoice
<1>1. Init => Voice
    BY DEF Init, Voice, OneVoice
<1>2. Voice => OneVoice
    BY DEF Voice
<1> QED BY <1>1, <1>2, VoiceStep, PTL DEF Spec

-----------------------------------------------------------------------------
(* Harmless failures *)

\* A side effect of the current candidate is remembered by its committed flag,
\* or by the batch that has not returned yet.
Harmless ==
  /\ actedAt \subseteq 1..position
  /\ ~committed /\ pc \in {"new", "planned", "opened", "registered", "half_prefetched", "prefetched",
                           "looping", "model"}
       => position \notin actedAt
  /\ ~committed /\ pc = "batch" /\ position \in actedAt
       => \E c \in Slots : call[c] \in SideEffect
  /\ HarmlessFailure

LEMMA HarmlessStep == TypeOK /\ Harmless /\ [Next]_vars => Harmless'
<1> SUFFICES ASSUME TypeOK, Harmless, [Next]_vars PROVE Harmless'
    OBVIOUS
<1>0. position \in Nat
    BY DEF TypeOK, Positions
<1> USE DEF Harmless, HarmlessFailure, loopVars, batchVars
<1>1. CASE Plan \/ Register \/ Open \/ BuildChain \/ PreludeRaises
    BY <1>1 DEF Plan, Register, Open, BuildChain, PreludeRaises
<1>2. CASE \E t \in ParallelSafe : PrefetchGreeting(t)
    BY <1>2 DEF PrefetchGreeting
<1>3. CASE StopWithNotice \/ CallModel \/ LoopRaises \/ StreamChunk
    BY <1>3 DEF StopWithNotice, CallModel, LoopRaises, StreamChunk
<1>4. CASE ModelFails
    \* The failure counts as harmless only while nothing is committed.
    BY <1>4 DEF ModelFails
<1>5. CASE ModelAnswers \/ MalformedArguments
    BY <1>5 DEF ModelAnswers, MalformedArguments
<1>6. CASE ModelAsksForTools
    BY <1>6 DEF ModelAsksForTools
<1>7. ASSUME NEW c \in Slots, ToolStep(c)
      PROVE  Harmless'
    <2>1. /\ pc = "batch"
          /\ UNCHANGED <<pc, position, committed, exc, call>>
        BY <1>7 DEF ToolStep, GateSkips, GateAsks, GatePasses, Dispatch, ToolReturns, ToolRaises
    <2>2. \/ actedAt' = actedAt
          \/ call[c] \in SideEffect /\ actedAt' = actedAt \cup {position}
        BY <1>7
           DEF ToolStep, GateSkips, GateAsks, GatePasses, Dispatch, ToolReturns, ToolRaises, Acts
    <2>3. position \in 1..position
        BY ExecutorAssumption DEF TypeOK, Positions
    <2> QED BY <2>1, <2>2, <2>3
<1>8. CASE BatchReturns
    BY <1>8 DEF BatchReturns, Commits
<1>9. CASE BatchRaises \/ CheckOutcome \/ FinishReturned \/ FinishFailed
    BY <1>9 DEF BatchRaises, CheckOutcome, FinishReturned, FinishFailed
<1>10. CASE FallBack
    \* The next candidate has not done anything yet.
    <2>1. /\ pc' = "looping" /\ position' = position + 1
          /\ actedAt' = actedAt
        BY <1>10 DEF FallBack
    <2>2. actedAt' \subseteq 1..position' /\ position' \notin actedAt'
        BY <1>0, <2>1
    <2> QED BY <2>1, <2>2
<1>11. CASE Apologise \/ Cleanup \/ WorldStep
    BY <1>11
       DEF Apologise, Cleanup, WorldStep, Abandon, CancelInProcess, CancelByMarker,
           ConfirmationExpires
<1>12. CASE UNCHANGED vars
    BY <1>12 DEF vars
<1> QED BY <1>1, <1>2, <1>3, <1>4, <1>5, <1>6, <1>7, <1>8, <1>9, <1>10, <1>11, <1>12
        DEF Next, ProgramStep

\* However many iterations and batches came before, a model call whose failure
\* lets the next provider start over has no side effect behind it.
THEOREM HarmlessFailureHolds == Spec => []HarmlessFailure
<1>1. Init => TypeOK /\ AttemptsCounted /\ Harmless
    BY TypeInit DEF Init, Harmless, HarmlessFailure
<1>2. TypeOK /\ AttemptsCounted /\ Harmless /\ [Next]_vars
        => (TypeOK /\ AttemptsCounted /\ Harmless)'
    BY TypeStep, HarmlessStep
<1>3. Harmless => HarmlessFailure
    BY DEF Harmless
<1> QED BY <1>1, <1>2, <1>3, PTL DEF Spec

-----------------------------------------------------------------------------
(* Cancellation is visible *)

\* The statuses a request has while its loop runs; each may become cancelled.
LiveStatuses == {"thinking", "executing", "waiting_for_confirmation", "verifying", "cancelled"}

\* The request may still reach, or be in, its loop.
Live ==
  \/ pc \in {"registered", "half_prefetched", "prefetched", "looping", "model", "batch", "ended",
             "finish_ok", "finish_cancelled"}
  \/ pc = "raised" /\ ~started

Cancellable ==
  /\ pc \in {"new", "planned", "opened"} => status \in {"idle", "planning", "cancelled"}
  /\ pc \in {"ended", "finish_ok", "finish_cancelled"} => started
  /\ Live => status \in LiveStatuses

LEMMA CancelledStays ==
  /\ \A new \in Statuses : Moved("cancelled", new) = "cancelled"
  /\ \A s \in LiveStatuses : Moved(s, "cancelled") = "cancelled"
BY DEF Moved, AllowedTransitions, Statuses, TerminalStatuses, LiveStatuses

LEMMA LiveStays ==
  /\ \A s \in LiveStatuses :
       \A new \in {"thinking", "executing", "waiting_for_confirmation", "verifying"} :
         Moved(s, new) \in LiveStatuses
  /\ \A s \in {"idle", "planning", "cancelled"} :
       /\ Moved(s, "thinking") \in LiveStatuses
       /\ Moved(s, "planning") \in {"idle", "planning", "cancelled"}
       /\ Moved(s, "cancelled") \in {"idle", "planning", "cancelled"}
BY DEF Moved, AllowedTransitions, Statuses, TerminalStatuses, LiveStatuses

LEMMA CancellableStep == Cancellable /\ [Next]_vars => Cancellable'
<1> SUFFICES ASSUME Cancellable, [Next]_vars PROVE Cancellable'
    OBVIOUS
<1> USE LiveStays DEF Cancellable, Live, stateVars, textVars
<1>a. SyncCancel /\ status \in LiveStatuses => status' \in LiveStatuses
    BY CancelledStays DEF SyncCancel, CancelState, LiveStatuses
<1>1. CASE Plan \/ Register \/ Open \/ BuildChain \/ PreludeRaises
    BY <1>1 DEF Plan, Register, Open, BuildChain, PreludeRaises
<1>2. CASE \E t \in ParallelSafe : PrefetchGreeting(t)
    BY <1>2, <1>a DEF PrefetchGreeting
<1>3. CASE StopWithNotice \/ CallModel \/ LoopRaises
    BY <1>3, <1>a DEF StopWithNotice, CallModel, LoopRaises
<1>4. CASE StreamChunk \/ ModelFails \/ ModelAnswers \/ MalformedArguments \/ ModelAsksForTools
    BY <1>4 DEF StreamChunk, ModelFails, ModelAnswers, MalformedArguments, ModelAsksForTools
<1>5. ASSUME NEW c \in Slots, ToolStep(c)
      PROVE  Cancellable'
    <2>1. pc = "batch" /\ pc' = "batch"
        BY <1>5 DEF ToolStep, GateSkips, GateAsks, GatePasses, Dispatch, ToolReturns, ToolRaises
    <2>2. CASE ToolRaises(c)
        BY <2>1, <2>2, <1>a DEF ToolRaises, AfterError
    <2>3. CASE ~ToolRaises(c)
        BY <1>5, <2>1, <2>3, <1>a
           DEF ToolStep, GateSkips, GateAsks, GatePasses, Dispatch, ToolReturns
    <2> QED BY <2>2, <2>3
<1>6. CASE BatchReturns \/ BatchRaises \/ FallBack \/ Cleanup
    BY <1>6 DEF BatchReturns, BatchRaises, FallBack, MayFallBack, Cleanup
<1>7. CASE CheckOutcome
    BY <1>7, <1>a DEF CheckOutcome
<1>8. CASE FinishReturned \/ FinishFailed \/ Apologise
    \* Whatever the status becomes, the request will not go round again.
    BY <1>8 DEF FinishReturned, FinishFailed, Apologise
<1>9. CASE Abandon \/ CancelByMarker \/ \E t \in Tools : ConfirmationExpires(t)
    BY <1>9 DEF Abandon, CancelByMarker, ConfirmationExpires
<1>10. CASE CancelInProcess
    BY <1>10, CancelledStays DEF CancelInProcess, CancelState, LiveStatuses
<1>11. CASE UNCHANGED vars
    BY <1>11 DEF vars
<1> QED BY <1>1, <1>2, <1>3, <1>4, <1>5, <1>6, <1>7, <1>8, <1>9, <1>10, <1>11
        DEF Next, ProgramStep, WorldStep

\* Every change of the status goes through the transition graph.
LEMMA StatusMoves ==
  [Next]_vars => status' = status \/ \E new \in Statuses : status' = Moved(status, new)
<1> SUFFICES ASSUME [Next]_vars
             PROVE  status' = status \/ \E new \in Statuses : status' = Moved(status, new)
    OBVIOUS
<1> DEFINE Moves == status' = status \/ \E new \in Statuses : status' = Moved(status, new)
<1> USE DEF stateVars, Statuses
<1>a. SyncCancel => Moves
    BY DEF SyncCancel, CancelState
<1>b. \A f \in BOOLEAN : FinishState(f) => Moves
    BY DEF FinishState
<1>1. CASE Plan \/ Register \/ Open \/ BuildChain \/ PreludeRaises
    BY <1>1 DEF Plan, Register, Open, BuildChain, PreludeRaises
<1>2. CASE \E t \in ParallelSafe : PrefetchGreeting(t)
    BY <1>2, <1>a DEF PrefetchGreeting
<1>3. CASE StopWithNotice \/ CallModel \/ LoopRaises \/ CheckOutcome
    BY <1>3, <1>a DEF StopWithNotice, CallModel, LoopRaises, CheckOutcome
<1>4. CASE StreamChunk \/ ModelFails \/ ModelAnswers \/ MalformedArguments \/ ModelAsksForTools
    BY <1>4 DEF StreamChunk, ModelFails, ModelAnswers, MalformedArguments, ModelAsksForTools
<1>5. ASSUME NEW c \in Slots, ToolStep(c)
      PROVE  Moves
    <2>1. CASE ToolRaises(c)
        BY <2>1, <1>a DEF ToolRaises, AfterError
    <2>2. CASE ~ToolRaises(c)
        BY <1>5, <2>2, <1>a
           DEF ToolStep, GateSkips, GateAsks, GatePasses, Dispatch, ToolReturns
    <2> QED BY <2>1, <2>2
<1>6. CASE BatchReturns \/ BatchRaises \/ FallBack \/ Apologise \/ Cleanup
    BY <1>6 DEF BatchReturns, BatchRaises, FallBack, Apologise, Cleanup
<1>7. CASE FinishReturned \/ FinishFailed
    BY <1>7, <1>b DEF FinishReturned, FinishFailed
<1>8. CASE WorldStep
    BY <1>8
       DEF WorldStep, Abandon, CancelInProcess, CancelState, CancelByMarker, ConfirmationExpires
<1>9. CASE UNCHANGED vars
    BY <1>9 DEF vars
<1> QED BY <1>1, <1>2, <1>3, <1>4, <1>5, <1>6, <1>7, <1>8, <1>9 DEF Next, ProgramStep

\* The flag is only ever raised together with the status.
LEMMA FlagRaised ==
  [Next]_vars /\ ~cancelled /\ cancelled' => status' = Moved(status, "cancelled")
<1> SUFFICES ASSUME [Next]_vars, ~cancelled, cancelled'
             PROVE  status' = Moved(status, "cancelled")
    OBVIOUS
<1> USE DEF stateVars
<1>a. SyncCancel => status' = Moved(status, "cancelled")
    BY DEF SyncCancel, CancelState
<1>b. \A f \in BOOLEAN : ~FinishState(f)
    BY DEF FinishState
<1>1. CASE Plan \/ Register \/ Open \/ BuildChain \/ PreludeRaises
    BY <1>1 DEF Plan, Register, Open, BuildChain, PreludeRaises
<1>2. CASE \E t \in ParallelSafe : PrefetchGreeting(t)
    BY <1>2, <1>a DEF PrefetchGreeting
<1>3. CASE StopWithNotice \/ CallModel \/ LoopRaises \/ CheckOutcome
    BY <1>3, <1>a DEF StopWithNotice, CallModel, LoopRaises, CheckOutcome
<1>4. CASE StreamChunk \/ ModelFails \/ ModelAnswers \/ MalformedArguments \/ ModelAsksForTools
    BY <1>4 DEF StreamChunk, ModelFails, ModelAnswers, MalformedArguments, ModelAsksForTools
<1>5. ASSUME NEW c \in Slots, ToolStep(c)
      PROVE  status' = Moved(status, "cancelled")
    <2>1. CASE ToolRaises(c)
        BY <2>1, <1>a DEF ToolRaises, AfterError
    <2>2. CASE ~ToolRaises(c)
        BY <1>5, <2>2, <1>a
           DEF ToolStep, GateSkips, GateAsks, GatePasses, Dispatch, ToolReturns
    <2> QED BY <2>1, <2>2
<1>6. CASE BatchReturns \/ BatchRaises \/ FallBack \/ Apologise \/ Cleanup
    BY <1>6 DEF BatchReturns, BatchRaises, FallBack, Apologise, Cleanup
<1>7. CASE FinishReturned \/ FinishFailed
    BY <1>7, <1>b DEF FinishReturned, FinishFailed
<1>8. CASE WorldStep
    BY <1>8
       DEF WorldStep, Abandon, CancelInProcess, CancelState, CancelByMarker, ConfirmationExpires
<1>9. CASE UNCHANGED vars
    BY <1>9 DEF vars
<1> QED BY <1>1, <1>2, <1>3, <1>4, <1>5, <1>6, <1>7, <1>8, <1>9 DEF Next, ProgramStep

\* A cancellation that reaches the request in its loop shows in its status,
\* from whatever status, and is never hidden again.
THEOREM CancelIsVisibleHolds == Spec => CancelIsVisible
<1>1. Init => Cancellable
    BY DEF Init, Cancellable, Live
<1>2. Cancellable /\ [Next]_vars
        => [status = "cancelled" \/ (~cancelled /\ cancelled'
                                     /\ pc \in {"looping", "model", "batch", "ended"})
            => status' = "cancelled"]_vars
    <2> SUFFICES ASSUME Cancellable, [Next]_vars,
                        \/ status = "cancelled"
                        \/ ~cancelled /\ cancelled' /\ pc \in {"looping", "model", "batch", "ended"}
                 PROVE  status' = "cancelled"
        OBVIOUS
    <2>1. CASE status = "cancelled"
        BY <2>1, StatusMoves, CancelledStays
    <2>2. CASE ~cancelled /\ cancelled' /\ pc \in {"looping", "model", "batch", "ended"}
        BY <2>2, FlagRaised, CancelledStays DEF Cancellable, Live
    <2> QED BY <2>1, <2>2
<1> QED BY <1>1, <1>2, CancellableStep, PTL DEF Spec, CancelIsVisible

-----------------------------------------------------------------------------
(* Late attempts *)

\* A sequential call runs alone: everything that has to come before it is over.
Exclusive ==
  \A c, d \in Slots :
    phase[c] \in InFlight /\ ~Parallel(c) /\ (Parallel(d) \/ d < c) => phase[d] \in Settled

\* An attempt begun late is the call's last, and if one of two calls is
\* sequential, the other one is not under way.
Late ==
  /\ \A c \in Slots : late[c] \in {0, 1}
  /\ \A c \in Slots : late[c] = 1 => phase[c] \in {"running", "done", "raised"}
  /\ \A c \in Slots : late[c] = 1 /\ pc = "batch" => CancelSeen
  /\ \A c, d \in Slots :
       late[c] = 1 /\ c # d /\ ~(Parallel(c) /\ Parallel(d))
       => phase[d] \notin InFlight /\ late[d] = 0

\* One step of call c takes it to phase p.  It comes under way only when it may
\* start and nobody has asked to stop, and only dispatching it can be late.
Goes(c, p) ==
  /\ phase' = [phase EXCEPT ![c] = p]
  /\ phase[c] \in InFlight \cup {"queued"} /\ p # "queued"
  /\ p \in InFlight /\ phase[c] \notin InFlight => MayStart(c)
  /\ p = "running" => phase[c] \in {"ready", "backoff"}
  /\ p \in {"ready", "backoff"} => ~CancelSeen
  /\ phase[c] = "running" => p \in {"done", "raised", "backoff"}
  /\ \/ late' = late
     \/ CancelSeen /\ p = "running" /\ late' = [late EXCEPT ![c] = @ + 1]

LEMMA CallGoes ==
  ASSUME NEW c \in Slots, ToolStep(c), TypeOK
  PROVE  /\ pc = "batch" /\ call' = call
         /\ CancelSeen => CancelSeen'
         /\ \E p \in Phases : Goes(c, p)
<1> USE DEF Goes, SetPhase, Phases, InFlight, Settled, CancelSeen, NotCancelled, batchVars,
            stateVars, requestVars, TypeOK
<1>1. CASE GateSkips(c)
    BY <1>1 DEF GateSkips, SyncCancel, CancelState
<1>2. CASE GateAsks(c)
    BY <1>2 DEF GateAsks
<1>3. CASE GatePasses(c)
    BY <1>3 DEF GatePasses
<1>4. CASE Dispatch(c)
    BY <1>4 DEF Dispatch
<1>5. CASE ToolReturns(c)
    BY <1>5 DEF ToolReturns
<1>6. CASE ToolRaises(c)
    BY <1>6 DEF ToolRaises, AfterError, SyncCancel, CancelState
<1> QED BY <1>1, <1>2, <1>3, <1>4, <1>5, <1>6 DEF ToolStep

\* A request to stop is not forgotten while the batch runs.
LEMMA StopRemains ==
  ASSUME OutsideBatch \/ UNCHANGED vars, pc' = "batch"
  PROVE  pc = "batch" /\ (CancelSeen => CancelSeen')
BY DEF OutsideBatch, WorldStep, Plan, Register, Open, BuildChain, PreludeRaises, PrefetchGreeting,
       StopWithNotice, CallModel, LoopRaises, StreamChunk, ModelFails, ModelAnswers,
       MalformedArguments, BatchReturns, BatchRaises, CheckOutcome, FinishReturned, FallBack,
       FinishFailed, Apologise, Cleanup, Abandon, CancelInProcess, CancelState, CancelByMarker,
       ConfirmationExpires, vars, CancelSeen, requestVars, stateVars

LEMMA ExclusiveStep == TypeOK /\ Exclusive /\ [Next]_vars => Exclusive'
<1> SUFFICES ASSUME TypeOK, Exclusive, [Next]_vars PROVE Exclusive'
    OBVIOUS
<1>1. CASE OutsideBatch \/ UNCHANGED vars
    BY <1>1, OutsideBatchFrame DEF Exclusive, Parallel, batchVars
<1>2. CASE ModelAsksForTools
    BY <1>2, NewBatch DEF Exclusive, InFlight
<1>3. ASSUME NEW e \in Slots, ToolStep(e)
      PROVE  Exclusive'
    <2>1. call' = call
        BY <1>3, CallGoes
    <2>2. PICK p \in Phases : Goes(e, p)
        BY <1>3, CallGoes
    <2>3. SUFFICES ASSUME NEW c \in Slots, NEW d \in Slots,
                          phase'[c] \in InFlight, ~Parallel(c), Parallel(d) \/ d < c
                   PROVE  phase'[d] \in Settled
        BY <2>1 DEF Exclusive, Parallel
    <2>4. c # d
        BY <2>3 DEF Slots
    <2>5. \A f \in Slots : phase'[f] = IF f = e THEN p ELSE phase[f]
        BY <2>2 DEF Goes, TypeOK
    <2>6. CASE c = e
        <3>1. CASE phase[c] \in InFlight
            BY <2>3, <2>4, <2>5, <2>6, <3>1 DEF Exclusive
        <3>2. CASE phase[c] \notin InFlight
            BY <2>2, <2>3, <2>4, <2>5, <2>6, <3>2 DEF Goes, MayStart
        <3> QED BY <3>1, <3>2
    <2>7. CASE c # e
        BY <2>2, <2>3, <2>5, <2>7 DEF Exclusive, Goes, InFlight, Settled
    <2> QED BY <2>6, <2>7
<1> QED BY <1>1, <1>2, <1>3, StepCases

LEMMA LateStep == TypeOK /\ Exclusive /\ Late /\ [Next]_vars => Late'
<1> SUFFICES ASSUME TypeOK, Exclusive, Late, [Next]_vars PROVE Late'
    OBVIOUS
<1>1. CASE OutsideBatch \/ UNCHANGED vars
    BY <1>1, OutsideBatchFrame, StopRemains DEF Late, Parallel, batchVars
<1>2. CASE ModelAsksForTools
    BY <1>2, NewBatch DEF Late, InFlight
<1>3. ASSUME NEW e \in Slots, ToolStep(e)
      PROVE  Late'
    <2>1. pc = "batch" /\ call' = call /\ (CancelSeen => CancelSeen')
        BY <1>3, CallGoes
    <2>2. PICK p \in Phases : Goes(e, p)
        BY <1>3, CallGoes
    <2>3. \A f \in Slots : phase'[f] = IF f = e THEN p ELSE phase[f]
        BY <2>2 DEF Goes, TypeOK
    <2>4. CASE late' = late
        <3>1. ASSUME NEW c \in Slots, late[c] = 1
              PROVE  phase'[c] \in {"running", "done", "raised"}
            BY <2>1, <2>2, <2>3, <3>1 DEF Late, Goes, InFlight
        <3>2. ASSUME NEW c \in Slots, NEW d \in Slots,
                     late[c] = 1, c # d, ~(Parallel(c) /\ Parallel(d))
              PROVE  phase'[d] \notin InFlight /\ late[d] = 0
            BY <2>1, <2>2, <2>3, <3>2 DEF Late, Goes, InFlight
        <3> QED BY <2>1, <2>4, <3>1, <3>2 DEF Late, Parallel
    <2>5. CASE CancelSeen /\ p = "running" /\ late' = [late EXCEPT ![e] = @ + 1]
        <3>1. phase[e] \in {"ready", "backoff"} /\ late[e] = 0
            BY <2>2, <2>5 DEF Goes, Late
        <3>2. \A f \in Slots : late'[f] = IF f = e THEN 1 ELSE late[f]
            BY <2>5, <3>1 DEF TypeOK
        <3>3. ASSUME NEW d \in Slots, d # e, ~(Parallel(e) /\ Parallel(d))
              PROVE  phase[d] \notin InFlight /\ late[d] = 0
            <4>1. phase[e] \in InFlight /\ phase[e] \notin Settled
                BY <3>1 DEF InFlight, Settled
            <4>2. d < e \/ e < d
                BY <3>3 DEF Slots
            <4>3. phase[d] \notin InFlight
                BY <3>3, <4>1, <4>2 DEF Exclusive, InFlight, Settled
            <4> QED BY <3>3, <4>1, <4>3 DEF Late
        <3>4. ASSUME NEW c \in Slots, NEW d \in Slots,
                     late'[c] = 1, c # d, ~(Parallel(c) /\ Parallel(d))
              PROVE  phase'[d] \notin InFlight /\ late'[d] = 0
            <4>1. CASE c = e
                BY <2>3, <3>2, <3>3, <3>4, <4>1
            <4>2. CASE c # e
                <5>1. phase[d] \notin InFlight /\ late[d] = 0
                    BY <3>2, <3>4, <4>2 DEF Late
                <5> QED BY <2>3, <3>1, <3>2, <5>1 DEF InFlight
            <4> QED BY <4>1, <4>2
        <3> QED BY <2>1, <2>3, <2>5, <3>2, <3>4 DEF Late, Parallel
    <2> QED BY <2>2, <2>4, <2>5 DEF Goes
<1> QED BY <1>1, <1>2, <1>3, StepCases

\* Once a stop is asked for, no call makes more than one further attempt, and
\* two calls only if both are pure reads, for every batch and every schedule
\* of its threads.
THEOREM LateAttemptsHold == Spec => []LateAttempts
<1>1. Init => Exclusive /\ Late
    BY DEF Init, Exclusive, Late, InFlight, Settled
<1>2. TypeOK /\ AttemptsCounted /\ Exclusive /\ Late /\ [Next]_vars
        => (TypeOK /\ AttemptsCounted /\ Exclusive /\ Late)'
    BY TypeStep, ExclusiveStep, LateStep
<1>3. Late => LateAttempts
    BY DEF Late, LateAttempts
<1> QED BY <1>1, <1>2, <1>3, TypeInit, PTL DEF Spec

-----------------------------------------------------------------------------
(* One outcome *)

\* The outcome is recorded at the end, not before.
Undecided == recorded = "none" \/ pc \in {"apologising", "finally", "closed"}

LEMMA UndecidedStep == Undecided /\ [Next]_vars => Undecided'
<1> SUFFICES ASSUME Undecided, [Next]_vars PROVE Undecided'
    OBVIOUS
<1> USE DEF Undecided
<1>1. CASE FinishReturned \/ FinishFailed \/ Apologise \/ Cleanup
    BY <1>1 DEF FinishReturned, FinishFailed, Apologise, Cleanup
<1>2. CASE Plan \/ Register \/ Open \/ BuildChain \/ PreludeRaises
    BY <1>2 DEF Plan, Register, Open, BuildChain, PreludeRaises
<1>3. CASE \E t \in ParallelSafe : PrefetchGreeting(t)
    BY <1>3 DEF PrefetchGreeting
<1>4. CASE StopWithNotice \/ CallModel \/ LoopRaises \/ CheckOutcome \/ FallBack
    BY <1>4 DEF StopWithNotice, CallModel, LoopRaises, CheckOutcome, FallBack
<1>5. CASE StreamChunk \/ ModelFails \/ ModelAnswers \/ MalformedArguments \/ ModelAsksForTools
    BY <1>5 DEF StreamChunk, ModelFails, ModelAnswers, MalformedArguments, ModelAsksForTools
<1>6. CASE \E c \in Slots : ToolStep(c)
    BY <1>6 DEF ToolStep, GateSkips, GateAsks, GatePasses, Dispatch, ToolReturns, ToolRaises
<1>7. CASE BatchReturns \/ BatchRaises
    BY <1>7 DEF BatchReturns, BatchRaises
<1>8. CASE WorldStep
    BY <1>8 DEF WorldStep, Abandon, CancelInProcess, CancelByMarker, ConfirmationExpires
<1>9. CASE UNCHANGED vars
    BY <1>9 DEF vars
<1> QED BY <1>1, <1>2, <1>3, <1>4, <1>5, <1>6, <1>7, <1>8, <1>9 DEF Next, ProgramStep

\* Cancelled, and past the point where success could still be reported.
Doomed == cancelled /\ pc # "finish_ok" /\ recorded # "completed"

LEMMA DoomedStep == Doomed /\ [Next]_vars => Doomed'
<1> SUFFICES ASSUME Doomed, [Next]_vars PROVE Doomed'
    OBVIOUS
<1> USE DEF Doomed, stateVars
<1>a. SyncCancel => cancelled'
    BY DEF SyncCancel, CancelState
<1>b. \A f \in BOOLEAN : FinishState(f) => cancelled'
    BY DEF FinishState
<1>1. CASE FinishReturned \/ FinishFailed \/ Apologise \/ Cleanup
    BY <1>1, <1>b DEF FinishReturned, FinishFailed, Apologise, Cleanup
<1>2. CASE Plan \/ Register \/ Open \/ BuildChain \/ PreludeRaises
    BY <1>2 DEF Plan, Register, Open, BuildChain, PreludeRaises
<1>3. CASE \E t \in ParallelSafe : PrefetchGreeting(t)
    BY <1>3, <1>a DEF PrefetchGreeting
<1>4. CASE StopWithNotice \/ CallModel \/ LoopRaises \/ FallBack
    BY <1>4, <1>a DEF StopWithNotice, CallModel, LoopRaises, FallBack
<1>5. CASE CheckOutcome
    \* The flag is seen before the outcome is chosen.
    BY <1>5, <1>a DEF CheckOutcome, NotCancelled, CancelSeen
<1>6. CASE StreamChunk \/ ModelFails \/ ModelAnswers \/ MalformedArguments \/ ModelAsksForTools
    BY <1>6 DEF StreamChunk, ModelFails, ModelAnswers, MalformedArguments, ModelAsksForTools
<1>7. ASSUME NEW c \in Slots, ToolStep(c)
      PROVE  Doomed'
    <2>1. CASE ToolRaises(c)
        BY <2>1, <1>a DEF ToolRaises, AfterError
    <2>2. CASE ~ToolRaises(c)
        BY <1>7, <2>2, <1>a
           DEF ToolStep, GateSkips, GateAsks, GatePasses, Dispatch, ToolReturns
    <2> QED BY <2>1, <2>2
<1>8. CASE BatchReturns \/ BatchRaises
    BY <1>8 DEF BatchReturns, BatchRaises
<1>9. CASE WorldStep
    BY <1>9
       DEF WorldStep, Abandon, CancelInProcess, CancelByMarker, ConfirmationExpires
<1>10. CASE UNCHANGED vars
    BY <1>10 DEF vars
<1> QED BY <1>1, <1>2, <1>3, <1>4, <1>5, <1>6, <1>7, <1>8, <1>9, <1>10 DEF Next, ProgramStep

\* Once a request is cancelled in its loop, no later fallback, answer or failed
\* write gets it recorded as completed.
THEOREM CancelledIsNeverCompletedHolds == Spec => CancelledIsNeverCompleted
<1>1. Init => Undecided
    BY DEF Init, Undecided
<1>2. Undecided /\ cancelled /\ pc \in {"looping", "model", "batch", "ended"} => Doomed
    BY DEF Undecided, Doomed
<1>3. Doomed => recorded # "completed"
    BY DEF Doomed
<1> QED BY <1>1, <1>2, <1>3, UndecidedStep, DoomedStep, PTL DEF Spec, CancelledIsNeverCompleted

-----------------------------------------------------------------------------
(* Refinement *)

LEMMA LifecycleStep ==
  TypeOK /\ Voice /\ Undecided /\ [Next]_vars => [Lifecycle!Next]_(Lifecycle!vars)
<1> SUFFICES ASSUME TypeOK, Voice, Undecided, [Next]_vars
             PROVE  Lifecycle!Next \/ UNCHANGED Lifecycle!vars
    OBVIOUS
<1> USE DEF Lifecycle!Next, Lifecycle!vars, textVars
<1>1. CASE Register \/ PreludeRaises
    BY <1>1 DEF Register, PreludeRaises, Lifecycle!Open
<1>2. CASE StreamChunk \/ ModelAnswers
    <2>1. /\ pc = "model" /\ recorded = "none"
          /\ speakers' = speakers \cup {position} /\ recorded' = recorded
          /\ pc' \in {"model", "ended"}
        BY <1>2 DEF StreamChunk, ModelAnswers, Undecided
    <2>2. position \in Positions /\ speakers \in {{}, {position}} /\ speakers' = {position}
        BY <2>1 DEF TypeOK, Voice, OneVoice
    <2> QED BY <2>1, <2>2 DEF Lifecycle!Speak
<1>3. CASE FinishReturned
    BY <1>3 DEF FinishReturned, Undecided, Lifecycle!Decide, Lifecycle!Outcomes
<1>4. CASE FinishFailed
    BY <1>4 DEF FinishFailed, Undecided, Lifecycle!Decide, Lifecycle!Outcomes
<1>5. CASE Cleanup
    BY <1>5 DEF Cleanup, Lifecycle!Close
<1>6. CASE Plan \/ Open \/ BuildChain \/ \E t \in ParallelSafe : PrefetchGreeting(t)
    BY <1>6 DEF Plan, Open, BuildChain, PrefetchGreeting
<1>7. CASE StopWithNotice \/ CallModel \/ LoopRaises \/ CheckOutcome \/ FallBack \/ Apologise
    BY <1>7 DEF StopWithNotice, CallModel, LoopRaises, CheckOutcome, FallBack, Apologise
<1>8. CASE ModelFails \/ MalformedArguments \/ ModelAsksForTools \/ BatchReturns \/ BatchRaises
    BY <1>8 DEF ModelFails, MalformedArguments, ModelAsksForTools, BatchReturns, BatchRaises
<1>9. CASE \E c \in Slots : ToolStep(c)
    BY <1>9 DEF ToolStep, GateSkips, GateAsks, GatePasses, Dispatch, ToolReturns, ToolRaises
<1>10. CASE WorldStep
    BY <1>10 DEF WorldStep, Abandon, CancelInProcess, CancelByMarker, ConfirmationExpires
<1>11. CASE UNCHANGED vars
    BY <1>11 DEF vars
<1> QED BY <1>1, <1>2, <1>3, <1>4, <1>5, <1>6, <1>7, <1>8, <1>9, <1>10, <1>11
        DEF Next, ProgramStep

\* The executor, with every provider, tool, thread and cancellation it has to
\* cope with, keeps the promise of RequestLifecycle.
THEOREM ExecutorImplementsLifecycle == Spec => ImplementsLifecycle
<1>1. Init => Lifecycle!Init
    BY DEF Init, Lifecycle!Init
<1>2. Init => TypeOK /\ AttemptsCounted /\ Voice /\ Undecided
    BY TypeInit DEF Init, Voice, OneVoice, Undecided
<1>3. TypeOK /\ AttemptsCounted /\ Voice /\ Undecided /\ [Next]_vars
        => (TypeOK /\ AttemptsCounted /\ Voice /\ Undecided)'
    BY TypeStep, VoiceStep, UndecidedStep
<1> QED BY <1>1, <1>2, <1>3, LifecycleStep, PTL DEF Spec, ImplementsLifecycle, Lifecycle!Spec

-----------------------------------------------------------------------------
(* Unattended requests *)

\* With nobody to ask, the policy allows or denies.
LEMMA NobodyToAsk ==
  ASSUME Source \in NonInteractiveSources, NEW t
  PROVE  Verdict(t, AutonomyLevel, Source) # "confirm"
BY DEF Verdict, ShouldRequestConfirmation, ConfirmOrDeny

LEMMA HardGatedDenied ==
  ASSUME NEW t, HardGated(t, Source)
  PROVE  Verdict(t, AutonomyLevel, Source) = "deny"
BY DEF Verdict

LEMMA HardGatesStep == TypeOK /\ HardGatesHold /\ [Next]_vars => HardGatesHold'
<1> SUFFICES ASSUME TypeOK, HardGatesHold, [Next]_vars PROVE HardGatesHold'
    OBVIOUS
<1>1. CASE OutsideBatch \/ UNCHANGED vars
    BY <1>1, OutsideBatchFrame DEF HardGatesHold, batchVars
<1>2. CASE ModelAsksForTools
    BY <1>2, NewBatch DEF HardGatesHold, InFlight
<1>3. ASSUME NEW e \in Slots, ToolStep(e)
      PROVE  HardGatesHold'
    <2>1. call' = call /\ \A d \in Slots \ {e} : phase'[d] = phase[d]
        BY <1>3, CallGoes DEF Goes, TypeOK
    <2>2. phase'[e] \in InFlight \cup {"done", "raised"} => ~HardGated(call[e], Source)
        <3>1. CASE GateSkips(e)
            BY <3>1 DEF GateSkips, SetPhase, InFlight, TypeOK
        <3>2. CASE GateAsks(e) \/ GatePasses(e)
            BY <3>2, HardGatedDenied DEF GateAsks, GatePasses
        <3>3. CASE Dispatch(e) \/ ToolReturns(e) \/ ToolRaises(e)
            BY <3>3 DEF Dispatch, ToolReturns, ToolRaises, HardGatesHold, InFlight
        <3> QED BY <1>3, <3>1, <3>2, <3>3 DEF ToolStep
    <2> QED BY <2>1, <2>2 DEF HardGatesHold
<1> QED BY <1>1, <1>2, <1>3, StepCases

\* No tool that needs a live human runs in a scheduled request, for every
\* registry and at every autonomy level.
THEOREM HardGatesAlwaysHold == Spec => []HardGatesHold
<1>1. Init => HardGatesHold
    BY DEF Init, HardGatesHold, InFlight
<1>2. TypeOK /\ AttemptsCounted /\ HardGatesHold /\ [Next]_vars
        => (TypeOK /\ AttemptsCounted /\ HardGatesHold)'
    BY TypeStep, HardGatesStep
<1> QED BY <1>1, <1>2, TypeInit, PTL DEF Spec

\* The status of a request that cannot ask.
NotWaiting == Source \in NonInteractiveSources => status # "waiting_for_confirmation"

LEMMA UnattendedStep ==
  ASSUME Source \in NonInteractiveSources, NotWaiting, [Next]_vars
  PROVE  pending' \subseteq pending /\ status' # "waiting_for_confirmation"
<1> DEFINE Quiet == pending' \subseteq pending /\ status' # "waiting_for_confirmation"
<1> USE NobodyToAsk DEF stateVars, NotWaiting
<1>a. \A new : new # "waiting_for_confirmation" => Moved(status, new) # "waiting_for_confirmation"
    BY DEF Moved
<1>b. SyncCancel => status' # "waiting_for_confirmation"
    BY <1>a DEF SyncCancel, CancelState
<1>c. \A f \in BOOLEAN : FinishState(f) => status' # "waiting_for_confirmation"
    BY <1>a DEF FinishState
<1>1. CASE Plan \/ Register \/ Open \/ BuildChain \/ PreludeRaises
    BY <1>1, <1>a DEF Plan, Register, Open, BuildChain, PreludeRaises
<1>2. CASE \E t \in ParallelSafe : PrefetchGreeting(t)
    BY <1>2, <1>a, <1>b DEF PrefetchGreeting
<1>3. CASE StopWithNotice \/ CallModel \/ LoopRaises \/ CheckOutcome
    BY <1>3, <1>a, <1>b DEF StopWithNotice, CallModel, LoopRaises, CheckOutcome
<1>4. CASE StreamChunk \/ ModelFails \/ ModelAnswers \/ MalformedArguments \/ ModelAsksForTools
    BY <1>4 DEF StreamChunk, ModelFails, ModelAnswers, MalformedArguments, ModelAsksForTools
<1>5. ASSUME NEW c \in Slots, ToolStep(c)
      PROVE  Quiet
    <2>1. CASE ToolRaises(c)
        BY <2>1, <1>b DEF ToolRaises, AfterError
    <2>2. CASE ~ToolRaises(c)
        BY <1>5, <2>2, <1>a, <1>b
           DEF ToolStep, GateSkips, GateAsks, GatePasses, Dispatch, ToolReturns
    <2> QED BY <2>1, <2>2
<1>6. CASE BatchReturns \/ BatchRaises \/ FallBack \/ Apologise \/ Cleanup
    BY <1>6 DEF BatchReturns, BatchRaises, FallBack, Apologise, Cleanup
<1>7. CASE FinishReturned \/ FinishFailed
    BY <1>7, <1>c DEF FinishReturned, FinishFailed
<1>8. CASE WorldStep
    BY <1>8, <1>a
       DEF WorldStep, Abandon, CancelInProcess, CancelState, CancelByMarker, ConfirmationExpires
<1>9. CASE UNCHANGED vars
    BY <1>9 DEF vars
<1> QED BY <1>1, <1>2, <1>3, <1>4, <1>5, <1>6, <1>7, <1>8, <1>9 DEF Next, ProgramStep

\* A request that nobody can answer never waits for an answer.
THEOREM UnattendedNeverWaitsHolds == Spec => UnattendedNeverWaits
<1>1. Init => NotWaiting
    BY DEF Init, NotWaiting
<1>2. NotWaiting /\ [Next]_vars => NotWaiting'
    BY UnattendedStep DEF NotWaiting
<1>3. NotWaiting /\ [Next]_vars
        => [(Source \in NonInteractiveSources)
            => pending' \subseteq pending /\ status' # "waiting_for_confirmation"]_vars
    BY UnattendedStep
<1> QED BY <1>1, <1>2, <1>3, PTL DEF Spec, UnattendedNeverWaits
=============================================================================
