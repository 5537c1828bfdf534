----------------------------- MODULE Coworkers -----------------------------
(***************************************************************************)
(* What coworkers and requests do side by side: runs of the coding         *)
(* coworker on one working tree, a batch of subtasks, the model loops that *)
(* share a budget, and the history database.  They share no state: the     *)
(* states are those of the one that `part` names, and a variable name that *)
(* two of them use stands for that one's variable.  What it has no use for *)
(* is None.                                                                *)
(***************************************************************************)
EXTENDS Integers, Sequences, FiniteSets

CONSTANTS
    Explored, None,
    Runs, RequestIds, Paths, Ignored, Denied, New, KeepLast, MaxTroubles,         \* CodingAgent
    MaxTasks, MaxParallel, MaxRetries,                                   \* AgentBatch
    Kinds, Configured, MaxCalls, Budget, DayBudget, Kept, Cooldown,      \* Providers
    MaxTime, MaxOthers, MaxLost, MaxBatch,
    Requests, Processes, ProcessOf, SourceOf, MaxFaults, MaxCrashes, MaxDamages     \* History

VARIABLES
    part, stage,
    files, head, refs, lock, request, dirty, snapshot, written, changed, plan, troubles, order,
    foreign, replaced, left,
    phase, size, required, status, cancelled, thread, worker, suite, outcome, results, attempts,
    now, failedAt, records, batch, chain, unbudgeted, made, others, lost,
    db, work, tx, cache, cacheLock, mapping, at, role, session, search, faults, crashes, damages

Coding == INSTANCE CodingAgent WITH Requests <- RequestIds
Batch == INSTANCE AgentBatch
Models == INSTANCE Providers WITH Loops <- Runs
Past == INSTANCE History WITH Nil <- None

ASSUME CoworkersAssumption ==
    /\ Coding!PathsAssumption /\ Coding!RunsAssumption /\ Coding!BoundsAssumption
    /\ Batch!BatchAssumption /\ Models!ProvidersAssumption /\ Past!HistoryAssumption

codingOnly == <<files, head, refs, lock, request, dirty, snapshot, written, changed, plan, troubles, order,
                foreign, replaced, left>>
batchOnly == <<phase, size, required, status, cancelled, thread, worker, suite, outcome, results, attempts>>
modelsOnly == <<now, failedAt, records, batch, chain, unbudgeted, made, others, lost>>
pastOnly == <<db, work, tx, cache, cacheLock, mapping, at, role, session, search, faults, crashes, damages>>
vars == <<part, stage, codingOnly, batchOnly, modelsOnly, pastOnly>>

NoCoding ==
    /\ files = None /\ head = None /\ refs = None /\ lock = None /\ request = None /\ dirty = None
    /\ snapshot = None /\ written = None /\ changed = None /\ plan = None /\ troubles = None
    /\ order = None /\ foreign = None /\ replaced = None /\ left = None
NoBatch ==
    /\ phase = None /\ size = None /\ required = None /\ status = None /\ cancelled = None /\ thread = None
    /\ worker = None /\ suite = None /\ outcome = None /\ results = None /\ attempts = None
NoModels ==
    /\ now = None /\ failedAt = None /\ records = None /\ batch = None /\ chain = None
    /\ unbudgeted = None /\ made = None /\ others = None /\ lost = None
NoPast ==
    /\ db = None /\ work = None /\ tx = None /\ cache = None /\ cacheLock = None /\ mapping = None
    /\ at = None /\ role = None /\ session = None /\ search = None /\ faults = None /\ crashes = None /\ damages = None

Init ==
    /\ part \in Explored
    /\ \/ part = "coding" /\ Coding!Init /\ NoBatch /\ NoModels /\ NoPast
       \/ part = "batch" /\ Batch!Init /\ stage = None /\ NoCoding /\ NoModels /\ NoPast
       \/ part = "models" /\ Models!Init /\ NoCoding /\ NoBatch /\ NoPast
       \/ part = "past" /\ Past!Init /\ stage = None /\ NoCoding /\ NoBatch /\ NoModels

Next ==
    \/ part = "coding" /\ Coding!Next /\ UNCHANGED <<part, batchOnly, modelsOnly, pastOnly>>
    \/ part = "batch" /\ Batch!Next /\ UNCHANGED <<part, stage, codingOnly, modelsOnly, pastOnly>>
    \/ part = "models" /\ Models!Next /\ UNCHANGED <<part, codingOnly, batchOnly, pastOnly>>
    \/ part = "past" /\ Past!Next /\ UNCHANGED <<part, stage, codingOnly, batchOnly, modelsOnly>>

Spec == Init /\ [][Next]_vars

TypeOK ==
    /\ part = "coding" => Coding!TypeOK
    /\ part = "batch" => Batch!TypeOK
    /\ part = "models" => Models!TypeOK
    /\ part = "past" => Past!TypeOK

\* The properties of each component: its module says what they mean.
RollbackSparesOthers == part = "coding" => Coding!RollbackSparesOthers
RolledBackLeavesNothing == part = "coding" => Coding!RolledBackLeavesNothing
RollsBackItsOwnChanges == part = "coding" => Coding!RollsBackItsOwnChanges
StatusIsTrue == part = "batch" => Batch!StatusIsTrue
WorkersAreBounded == part = "batch" => Batch!WorkersAreBounded
CallsAreBounded == part = "models" => Models!CallsAreBounded
OneSession == part = "past" => Past!OneSession
TurnsTogether == part = "past" => Past!TurnsTogether
SchemaIsWhole == part = "past" => Past!SchemaIsWhole
SearchNeverRaises == part = "past" => Past!SearchNeverRaises
=============================================================================
