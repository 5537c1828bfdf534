---------------------------- MODULE CodingAgent ----------------------------
(***************************************************************************)
(* agents/coding.py and coding_checkpoint.py: runs of the coding coworker  *)
(* on the one working tree.  Each takes a checkpoint, edits, runs the test *)
(* suite, and rolls its own edits back when the suite fails.  People and   *)
(* other runs edit the same files meanwhile; the subtasks and retries of a *)
(* batch carry the request id of their parent, so their checkpoints have   *)
(* one ref.  A file's content is who wrote it last.                        *)
(***************************************************************************)
EXTENDS Integers, FiniteSets

CONSTANTS
    Runs,         \* subprocesses of the coding coworker
    Requests,     \* request ids they may carry
    Paths,
    Ignored,      \* paths a .gitignore rule matches
    Denied,       \* _NEVER_WRITABLE_PATHS, _PREFIXES, _BASENAMES
    New,          \* paths that do not exist at first
    KeepLast,     \* coding_checkpoint_retention_count
    MaxTroubles   \* bound: edits and commits by people, git calls and writes that fail

\* What is assumed of the constants.
PathsAssumption == Ignored \subseteq Paths /\ Denied \subseteq Paths /\ New \subseteq Paths
RunsAssumption == IsFiniteSet(Runs) /\ Runs \cap {"absent", "base", "human", "nobody"} = {}
BoundsAssumption == KeepLast \in Nat /\ MaxTroubles \in Nat

VARIABLES
    files,        \* the working tree
    head,         \* the committed tree
    refs,         \* refs/jarvis/checkpoints: the checkpoint of a request id
    lock,         \* jarvis-checkpoint-restore.lock
    request,      \* the request id of each run
    stage,        \* where each run is
    dirty,        \* dirty_paths_at_checkpoint
    snapshot,     \* the tree of commit_sha
    written,      \* files_written
    changed,      \* changed_paths
    plan,         \* restore_paths: for each path still to do, what was read of it
    troubles, order,
    foreign,      \* history: paths a run's rollback changed that the run had not written
    replaced,     \* history: runs whose ref another run's checkpoint or prune took
    left          \* history: whole edits of a run still there when it was rolled back

known == <<dirty, snapshot, written, changed, plan>>
historyVars == <<foreign, replaced, left>>
vars == <<files, head, refs, lock, request, stage, known, troubles, order, historyVars>>

Absent == "absent"
Nobody == "nobody"
Contents == {Absent, "base", "human"} \cup Runs
Trees == [Paths -> Contents]
NoRef == [order |-> 0]
Checkpoints == [order : 1 .. Cardinality(Runs), run : Runs, tree : Trees]
Readings == [checkpointed : Contents, current : Contents]
Unread == [checkpointed |-> Absent]

Stages == {"new", "status", "snapped", "editing", "tested", "queued",
           "restoring", "pruning", "over"}

TypeOK ==
    /\ files \in Trees /\ head \in Trees
    /\ refs \in [Requests -> Checkpoints \cup {NoRef}]
    /\ lock \in Runs \cup {Nobody}
    /\ request \in [Runs -> Requests]
    /\ stage \in [Runs -> Stages]
    /\ dirty \in [Runs -> SUBSET Paths]
    /\ snapshot \in [Runs -> Trees]
    /\ written \in [Runs -> SUBSET (Paths \ (Ignored \cup Denied))]
    /\ changed \in [Runs -> SUBSET Paths]
    /\ plan \in [Runs -> [Paths -> Readings \cup {Unread}]]
    /\ troubles \in 0 .. MaxTroubles /\ order \in 0 .. Cardinality(Runs)
    /\ foreign \in [Runs -> SUBSET Paths]
    /\ replaced \in SUBSET Runs
    /\ left \in [Runs -> SUBSET Paths]

First == [p \in Paths |-> IF p \in New THEN Absent ELSE "base"]
NothingRead == [p \in Paths |-> Unread]

Init ==
    /\ files = First /\ head = First
    /\ refs = [q \in Requests |-> NoRef]
    /\ lock = Nobody
    /\ request \in [Runs -> Requests]
    /\ stage = [r \in Runs |-> "new"]
    /\ dirty = [r \in Runs |-> {}]
    /\ snapshot = [r \in Runs |-> First]
    /\ written = [r \in Runs |-> {}]
    /\ changed = [r \in Runs |-> {}]
    /\ plan = [r \in Runs |-> NothingRead]
    /\ troubles = 0 /\ order = 0
    /\ foreign = [r \in Runs |-> {}]
    /\ replaced = {}
    /\ left = [r \in Runs |-> {}]

GoTo(r, s) == stage' = [stage EXCEPT ![r] = s]
Trouble == troubles < MaxTroubles /\ troubles' = troubles + 1
RefOf(r) == refs[request[r]]

\* What a run knew goes with its process.
Forget(r) ==
    /\ dirty' = [dirty EXCEPT ![r] = {}]
    /\ snapshot' = [snapshot EXCEPT ![r] = First]
    /\ written' = [written EXCEPT ![r] = {}]
    /\ changed' = [changed EXCEPT ![r] = {}]
    /\ plan' = [plan EXCEPT ![r] = NothingRead]

\* _finalize, which every run that took a checkpoint returns through.
Finalize(r) == GoTo(r, "pruning") /\ Forget(r)

----------------------------------------------------------------------------
\* create_checkpoint: `git status` first,
ReadStatus(r) ==
    /\ stage[r] = "new"
    /\ dirty' = [dirty EXCEPT ![r] = {p \in Paths \ Ignored : files[p] # head[p]}]
    /\ GoTo(r, "status")
    /\ UNCHANGED <<files, head, refs, lock, request, snapshot, written, changed, plan,
                   troubles, order, historyVars>>

\* then the tree, through a scratch index that leaves the ignored paths out,
Snapshot(tree) == [p \in Paths |-> IF p \in Ignored THEN Absent ELSE tree[p]]

TakeSnapshot(r) ==
    /\ stage[r] = "status"
    /\ snapshot' = [snapshot EXCEPT ![r] = Snapshot(files)]
    /\ GoTo(r, "snapped")
    /\ UNCHANGED <<files, head, refs, lock, request, dirty, written, changed, plan,
                   troubles, order, historyVars>>

\* and last the commit and its ref, which replaces an older one of the request id.  A tree
\* that was dirty ends the run here.
UpdateRef(r) ==
    /\ stage[r] = "snapped"
    /\ order' = order + 1
    /\ refs' = [refs EXCEPT ![request[r]] = [order |-> order + 1, run |-> r, tree |-> snapshot[r]]]
    /\ replaced' = replaced \cup {s \in Runs : RefOf(r) # NoRef /\ RefOf(r).run = s}
    /\ IF dirty[r] = {} THEN GoTo(r, "editing") /\ UNCHANGED known ELSE Finalize(r)
    /\ UNCHANGED <<files, head, lock, request, troubles, foreign, left>>

\* A git call of the checkpoint fails: the run ends, and prunes nothing.
CheckpointFails(r) ==
    /\ stage[r] \in {"new", "status", "snapped"}
    /\ Trouble
    /\ GoTo(r, "over") /\ Forget(r)
    /\ UNCHANGED <<files, head, refs, lock, request, order, foreign, replaced, left>>

Writable == Paths \ (Ignored \cup Denied)

\* write_file: the whole new content.  A write that fails leaves the file cut off, and is
\* not in files_written.  Other paths are refused, as is every path whose ignore check fails.
Write(r, p) ==
    /\ stage[r] = "editing" /\ p \in Writable /\ files[p] # r
    /\ files' = [files EXCEPT ![p] = r]
    /\ \/ /\ written' = [written EXCEPT ![r] = @ \cup {p}]
          /\ UNCHANGED troubles
       \/ /\ Trouble
          /\ UNCHANGED written
    /\ UNCHANGED <<head, refs, lock, request, stage, dirty, snapshot, changed, plan,
                   order, foreign, replaced, left>>

\* The loop is cancelled or raises, or the suite after it gives no verdict: nothing is
\* rolled back.
NoVerdict(r) ==
    /\ stage[r] = "editing"
    /\ Finalize(r)
    /\ UNCHANGED <<files, head, refs, lock, request, troubles, order, historyVars>>

\* The suite passes, or fails.
Verdicts == {"tested", "queued"}

\* ... or the loop ends, the suite gives its verdict, and changed_paths_since compares the
\* tree with commit_sha.
Diff(r) ==
    /\ stage[r] = "editing"
    /\ changed' = [changed EXCEPT ![r] = {p \in Paths \ Ignored : files[p] # snapshot[r][p]}]
    /\ \E s \in Verdicts : GoTo(r, s)
    /\ UNCHANGED <<files, head, refs, lock, request, dirty, snapshot, written, plan,
                   troubles, order, historyVars>>

\* A suite that passed with a new test file that it did not collect counts as failed.
CheckCollected(r) ==
    /\ stage[r] = "tested"
    /\ \/ Finalize(r)
       \/ /\ \E p \in changed[r] :
                 files[p] # Absent /\ (RefOf(r) # NoRef => RefOf(r).tree[p] = Absent)
          /\ GoTo(r, "queued")
          /\ UNCHANGED known
    /\ UNCHANGED <<files, head, refs, lock, request, troubles, order, historyVars>>

\* Mutant of Candidates: all that changed.
AllChanged(r) == changed[r]

\* _attempt_rollback: of what changed, the run's own.
Candidates(r) == changed[r] \cap written[r]

NothingToRestore(r) ==
    /\ stage[r] = "queued" /\ Candidates(r) = {}
    /\ Finalize(r)
    /\ UNCHANGED <<files, head, refs, lock, request, troubles, order, historyVars>>

\* restore_paths under its lock: each path is looked at before any is changed.  It reads
\* the tree of the ref, whichever checkpoint that is now; without a ref git fails.
Inspect(r) ==
    /\ stage[r] = "queued" /\ Candidates(r) # {} /\ lock = Nobody
    /\ RefOf(r) # NoRef
    /\ lock' = r
    /\ plan' = [plan EXCEPT ![r] = [p \in Paths |->
                  IF p \in Candidates(r)
                     THEN [checkpointed |-> RefOf(r).tree[p], current |-> files[p]]
                     ELSE Unread]]
    /\ GoTo(r, "restoring")
    /\ UNCHANGED <<files, head, refs, request, dirty, snapshot, written, changed,
                   troubles, order, historyVars>>

CannotRestore(r) ==
    /\ \/ stage[r] = "queued" /\ Candidates(r) # {} /\ lock = Nobody
       \/ stage[r] = "restoring"
    /\ IF RefOf(r) = NoRef THEN UNCHANGED troubles ELSE Trouble
    /\ lock' = Nobody
    /\ Finalize(r)
    /\ UNCHANGED <<files, head, refs, request, order, historyVars>>

Done(r, p) == plan' = [plan EXCEPT ![r][p] = Unread]
Discard(r, p) == foreign' = [foreign EXCEPT ![r] = @ \cup ({p} \ written[r])]

\* Mutant of Restore: a path that is not in the checkpoint is left, as by `git restore`.
RestoreTracked(r, p) ==
    /\ stage[r] = "restoring" /\ plan[r][p] # Unread
    /\ RefOf(r) # NoRef
    /\ IF plan[r][p].checkpointed # Absent
          THEN files' = [files EXCEPT ![p] = RefOf(r).tree[p]] /\ Discard(r, p)
          ELSE UNCHANGED <<files, foreign>>
    /\ Done(r, p)
    /\ UNCHANGED <<head, refs, lock, request, stage, dirty, snapshot, written, changed,
                   troubles, order, replaced, left>>

\* A path as it was is left, one of the checkpoint restored from the ref, a new one removed.
Restore(r, p) ==
    /\ stage[r] = "restoring" /\ plan[r][p] # Unread
    /\ LET was == plan[r][p].checkpointed
           is == plan[r][p].current IN
          \/ /\ was = is
             /\ UNCHANGED <<files, foreign>>
          \/ /\ was # Absent /\ was # is
             /\ RefOf(r) # NoRef /\ RefOf(r).tree[p] # Absent
             /\ files' = [files EXCEPT ![p] = RefOf(r).tree[p]]
             /\ Discard(r, p)
          \/ /\ was = Absent /\ is # Absent /\ files[p] # Absent
             /\ files' = [files EXCEPT ![p] = Absent]
             /\ Discard(r, p)
    /\ Done(r, p)
    /\ UNCHANGED <<head, refs, lock, request, stage, dirty, snapshot, written, changed,
                   troubles, order, replaced, left>>

\* The file to remove, or the path in the ref, is gone: the first raises past the rollback.
RestoreRaises(r, p) ==
    /\ stage[r] = "restoring" /\ plan[r][p] # Unread
    /\ LET was == plan[r][p].checkpointed
           is == plan[r][p].current IN
          \/ was = Absent /\ is # Absent /\ files[p] = Absent
          \/ was # Absent /\ was # is /\ RefOf(r) # NoRef /\ RefOf(r).tree[p] = Absent
    /\ lock' = Nobody
    /\ Finalize(r)
    /\ UNCHANGED <<files, head, refs, request, troubles, order, historyVars>>

RolledBack(r) ==
    /\ stage[r] = "restoring" /\ plan[r] = NothingRead
    /\ lock' = Nobody
    /\ left' = [left EXCEPT ![r] = {p \in Candidates(r) : files[p] = r}]
    /\ Finalize(r)
    /\ UNCHANGED <<files, head, refs, request, troubles, order, foreign, replaced>>

\* prune_checkpoints, at the end of every run that took one: all but the newest refs go.
Prune(r) ==
    /\ stage[r] = "pruning"
    /\ LET newer(q) == {s \in Requests : refs[s] # NoRef /\ refs[s].order > refs[q].order}
           old == {q \in Requests : refs[q] # NoRef /\ Cardinality(newer(q)) >= KeepLast} IN
          /\ refs' = [q \in Requests |-> IF q \in old THEN NoRef ELSE refs[q]]
          /\ replaced' = replaced \cup {refs[q].run : q \in old}
    /\ GoTo(r, "over")
    /\ UNCHANGED <<files, head, lock, request, known, troubles, order, foreign, left>>

----------------------------------------------------------------------------
\* The manager kills the subprocess at its timeout or when its request is cancelled.
Kill(r) ==
    /\ stage[r] \notin {"new", "over"}
    /\ lock' = IF lock = r THEN Nobody ELSE lock
    /\ GoTo(r, "over")
    /\ Forget(r)
    /\ UNCHANGED <<files, head, refs, request, troubles, order, foreign, replaced, left>>

\* A person, or another program, edits, removes or commits.
Edit(p, c) ==
    /\ files[p] # c /\ Trouble
    /\ files' = [files EXCEPT ![p] = c]
    /\ UNCHANGED <<head, refs, lock, request, stage, known, order, historyVars>>

Commit ==
    /\ head # [p \in Paths |-> IF p \in Ignored THEN head[p] ELSE files[p]]
    /\ Trouble
    /\ head' = [p \in Paths |-> IF p \in Ignored THEN head[p] ELSE files[p]]
    /\ UNCHANGED <<files, refs, lock, request, stage, known, order, historyVars>>

RunStep(r) ==
    \/ ReadStatus(r) \/ TakeSnapshot(r) \/ UpdateRef(r) \/ CheckpointFails(r)
    \/ NoVerdict(r) \/ Diff(r) \/ CheckCollected(r)
    \/ NothingToRestore(r) \/ Inspect(r) \/ CannotRestore(r) \/ RolledBack(r) \/ Prune(r)
    \/ \E p \in Paths : Write(r, p) \/ Restore(r, p) \/ RestoreRaises(r, p)

Next ==
    \/ \E r \in Runs : RunStep(r) \/ Kill(r)
    \/ \E p \in Paths, c \in {"human", Absent} : Edit(p, c)
    \/ Commit

Spec == Init /\ [][Next]_vars

----------------------------------------------------------------------------
\* A rollback changes no path but those its run wrote: what others did meanwhile to other
\* paths is left alone, though the comparison with the checkpoint cannot tell who did it.
RollbackSparesOthers == \A r \in Runs : foreign[r] = {}

\* A run reported as rolled back has left no edit of its own but to a path where every write
\* of it failed half-way, as long as no other checkpoint has taken the place of its own.
RolledBackLeavesNothing == \A r \in Runs \ replaced : left[r] = {}

\* A run whose suite failed rolls back its own changes, or reports that it could not.
RollsBackItsOwnChanges == \A r \in Runs : left[r] = {}
=============================================================================
