------------------------------ MODULE Scheduler ------------------------------
(* The daily tasks and the two processes that may run them: the poller thread *)
(* of the menu-bar app (ui/menu_bar.py) and the stand-alone daemon            *)
(* (agent/scheduler_daemon.py).  Each polls the same task file; a poll does   *)
(* work only while it holds the cross-process lock of                         *)
(* agent/scheduler_lock.py.  The menu-bar poller also yields to a running     *)
(* voice conversation through the busy lock of agent/voice_state.py.          *)
(*                                                                            *)
(* Time is a count of minutes; a day has DayLength of them.  The order of the *)
(* tasks in the file is dropped: a poll takes its due tasks in any order.     *)
EXTENDS Integers, FiniteSets

CONSTANTS
    Tasks,              \* the ids add_task may hand out, each of them once
    DayLength,          \* bound: minutes in a day
    MaxClock,           \* bound: the last minute looked at
    MaxVoice,           \* bound: voice conversations
    MaxFaults           \* bound: crashes of either process and tasks that raise

ASSUME SchedulerAssumption ==
    /\ DayLength \in Nat \ {0}
    /\ MaxClock \in Nat
    /\ MaxVoice \in Nat
    /\ MaxFaults \in Nat

Pollers == {"menu", "daemon"}
Nobody == "nobody"
Never == -1
Minutes == 0 .. DayLength - 1
Day(c) == c \div DayLength
Days == 0 .. MaxClock

VARIABLES
    clock,              \* the minute it is
    tasks,              \* the task file: id |-> time of day and day of the last run
    lock,               \* who holds scheduler.lock
    busy,               \* who holds the menu-bar process's busy lock
    pc,                 \* where each poller is
    now,                \* the minute each poller read when it took the lock, else 0
    due,                \* the due tasks it still has to look at, from its one read
    current,            \* the task it is running
    polled,             \* has the poller had its turn in this minute
    used, removed,      \* history: ids handed out, ids cancelled by the user
    begun,              \* history: task |-> day |-> runs begun
    unmarked,           \* history: task |-> day |-> runs that ended unrecorded
    afterRemoval,       \* history: task |-> runs begun after its removal
    deferred,           \* history: <<task, day>> put off for a conversation
    voices, faults

file == <<tasks, used, removed>>
poller == <<lock, pc, now, due, current, polled>>
runs == <<begun, unmarked, afterRemoval, deferred>>
bounds == <<voices, faults>>
vars == <<clock, busy, file, poller, runs, bounds>>

Busy == {"free", "voice", "menu"}
PollerStates == {"asleep", "locked", "working", "running", "returned", "speaking", "down"}
Entry == [at : Minutes, last : {Never} \cup Days]

Zero == [t \in Tasks |-> [d \in Days |-> 0]]

Init ==
    /\ clock = 0
    /\ tasks = [t \in {} |-> 0]
    /\ lock = Nobody
    /\ busy = "free"
    /\ pc = [p \in Pollers |-> "asleep"]
    /\ now = [p \in Pollers |-> 0]
    /\ due = [p \in Pollers |-> {}]
    /\ current = [p \in Pollers |-> {}]
    /\ polled = [p \in Pollers |-> FALSE]
    /\ used = {} /\ removed = {}
    /\ begun = Zero /\ unmarked = Zero
    /\ afterRemoval = [t \in Tasks |-> 0]
    /\ deferred = {}
    /\ voices = 0 /\ faults = 0

-----------------------------------------------------------------------------
(* The task file.  add_task, remove_task and mark_run each read and write it *)
(* under its exclusive lock, so each is one step.                            *)

\* Mutant of AddTask: a time of day one past the last is let through.
AddTaskLate(t, at) ==
    /\ t \notin used
    /\ used' = used \cup {t}
    /\ tasks' = [u \in DOMAIN tasks \cup {t} |->
                    IF u = t THEN [at |-> at + 1, last |-> Never] ELSE tasks[u]]
    /\ UNCHANGED <<clock, busy, removed, poller, runs, bounds>>

AddTask(t, at) ==
    /\ t \notin used
    /\ used' = used \cup {t}
    /\ tasks' = [u \in DOMAIN tasks \cup {t} |->
                    IF u = t THEN [at |-> at, last |-> Never] ELSE tasks[u]]
    /\ UNCHANGED <<clock, busy, removed, poller, runs, bounds>>

RemoveTask(t) ==
    /\ t \in DOMAIN tasks
    /\ tasks' = [u \in DOMAIN tasks \ {t} |-> tasks[u]]
    /\ removed' = removed \cup {t}
    /\ UNCHANGED <<clock, busy, used, poller, runs, bounds>>

\* Mutant of Marked: the entry the poll read is written back.
MarkedFromCopy(p, t) ==
    [u \in DOMAIN tasks \cup {t} |->
        IF u = t THEN [at |-> now[p] % DayLength, last |-> Day(now[p])] ELSE tasks[u]]

\* What mark_run leaves in the file: only a task still there is marked.
Marked(p, t) ==
    [u \in DOMAIN tasks |-> IF u = t THEN [tasks[u] EXCEPT !.last = Day(now[p])]
                                     ELSE tasks[u]]

-----------------------------------------------------------------------------
(* A poll.                                                                   *)

\* Mutant of Poll: the answer of try_acquire is not looked at.
PollWithoutLock(p) ==
    /\ pc[p] = "asleep"
    /\ polled' = [polled EXCEPT ![p] = TRUE]
    /\ lock' = p
    /\ pc' = [pc EXCEPT ![p] = "locked"]
    /\ now' = [now EXCEPT ![p] = clock]
    /\ UNCHANGED <<clock, busy, file, due, current, runs, bounds>>

\* try_acquire: the loser of the lock skips this turn.
Poll(p) ==
    /\ pc[p] = "asleep"
    /\ polled' = [polled EXCEPT ![p] = TRUE]
    /\ IF lock = Nobody
       THEN /\ lock' = p
            /\ pc' = [pc EXCEPT ![p] = "locked"]
            /\ now' = [now EXCEPT ![p] = clock]
       ELSE UNCHANGED <<lock, pc, now>>
    /\ UNCHANGED <<clock, busy, file, due, current, runs, bounds>>

IsDue(t, c) == tasks[t].last # Day(c) /\ tasks[t].at = c % DayLength

\* The one read of the file, filtered by what the loop's first three tests say.
ListTasks(p) ==
    /\ pc[p] = "locked"
    /\ pc' = [pc EXCEPT ![p] = "working"]
    /\ due' = [due EXCEPT ![p] = {t \in DOMAIN tasks : IsDue(t, now[p])}]
    /\ UNCHANGED <<clock, busy, file, lock, now, current, polled, runs, bounds>>

\* The menu-bar poller needs the busy lock; the daemon has no such test.
MayRun(p) == p = "menu" => busy = "free"

\* Mutant of StartTask: the busy lock is looked at and not taken.
StartTaskUnlocked(p, t) ==
    /\ pc[p] = "working"
    /\ t \in due[p]
    /\ MayRun(p)
    /\ pc' = [pc EXCEPT ![p] = "running"]
    /\ due' = [due EXCEPT ![p] = @ \ {t}]
    /\ current' = [current EXCEPT ![p] = {t}]
    /\ begun' = [begun EXCEPT ![t][Day(now[p])] = @ + 1]
    /\ afterRemoval' = [afterRemoval EXCEPT ![t] = IF t \in removed THEN @ + 1 ELSE @]
    /\ UNCHANGED <<clock, busy, file, lock, now, polled, unmarked, deferred, bounds>>

StartTask(p, t) ==
    /\ pc[p] = "working"
    /\ t \in due[p]
    /\ MayRun(p)
    /\ busy' = IF p = "menu" THEN "menu" ELSE busy
    /\ pc' = [pc EXCEPT ![p] = "running"]
    /\ due' = [due EXCEPT ![p] = @ \ {t}]
    /\ current' = [current EXCEPT ![p] = {t}]
    /\ begun' = [begun EXCEPT ![t][Day(now[p])] = @ + 1]
    /\ afterRemoval' = [afterRemoval EXCEPT ![t] = IF t \in removed THEN @ + 1 ELSE @]
    /\ UNCHANGED <<clock, file, lock, now, polled, unmarked, deferred, bounds>>

\* Mutant of Defer: what is put off is marked.
DeferMarked(p, t) ==
    /\ pc[p] = "working"
    /\ t \in due[p]
    /\ ~MayRun(p)
    /\ tasks' = Marked(p, t)
    /\ due' = [due EXCEPT ![p] = @ \ {t}]
    /\ deferred' = deferred \cup {<<t, Day(now[p])>>}
    /\ UNCHANGED <<clock, busy, used, removed, lock, pc, now, current, polled,
                   begun, unmarked, afterRemoval, bounds>>

Defer(p, t) ==
    /\ pc[p] = "working"
    /\ t \in due[p]
    /\ ~MayRun(p)
    /\ due' = [due EXCEPT ![p] = @ \ {t}]
    /\ deferred' = deferred \cup {<<t, Day(now[p])>>}
    /\ UNCHANGED <<clock, busy, file, lock, pc, now, current, polled,
                   begun, unmarked, afterRemoval, bounds>>

TaskReturns(p) ==
    /\ pc[p] = "running"
    /\ pc' = [pc EXCEPT ![p] = "returned"]
    /\ polled' = [polled EXCEPT ![p] = TRUE]
    /\ UNCHANGED <<clock, busy, file, lock, now, due, current, runs, bounds>>

\* execute_task raises: the daemon makes it a result and goes on to mark it.
DaemonTaskRaises ==
    /\ pc["daemon"] = "running"
    /\ faults < MaxFaults
    /\ faults' = faults + 1
    /\ pc' = [pc EXCEPT !["daemon"] = "returned"]
    /\ polled' = [polled EXCEPT !["daemon"] = TRUE]
    /\ UNCHANGED <<clock, busy, file, lock, now, due, current, runs, voices>>

MarkRun(p) ==
    /\ pc[p] = "returned"
    /\ \E t \in current[p] : tasks' = Marked(p, t)
    /\ pc' = [pc EXCEPT ![p] = IF p = "menu" THEN "speaking" ELSE "working"]
    /\ current' = [current EXCEPT ![p] = IF p = "menu" THEN @ ELSE {}]
    /\ UNCHANGED <<clock, busy, used, removed, lock, now, due, polled, runs, bounds>>

FinishSpeaking ==
    /\ pc["menu"] = "speaking"
    /\ pc' = [pc EXCEPT !["menu"] = "working"]
    /\ current' = [current EXCEPT !["menu"] = {}]
    /\ busy' = "free"
    /\ polled' = [polled EXCEPT !["menu"] = TRUE]
    /\ UNCHANGED <<clock, file, lock, now, due, runs, bounds>>

\* The history's account of a run that ends before it is marked.
Lost(p) == [t \in Tasks |->
    IF t \in current[p] /\ pc[p] \in {"running", "returned"}
    THEN [unmarked[t] EXCEPT ![Day(now[p])] = @ + 1]
    ELSE unmarked[t]]

\* Mutant of MenuTaskRaises: scheduler.lock is not given back.
MenuTaskRaisesLocked ==
    /\ pc["menu"] \in {"running", "returned", "speaking"}
    /\ faults < MaxFaults
    /\ faults' = faults + 1
    /\ unmarked' = Lost("menu")
    /\ busy' = "free"
    /\ pc' = [pc EXCEPT !["menu"] = "asleep"]
    /\ now' = [now EXCEPT !["menu"] = 0]
    /\ due' = [due EXCEPT !["menu"] = {}]
    /\ current' = [current EXCEPT !["menu"] = {}]
    /\ polled' = [polled EXCEPT !["menu"] = TRUE]
    /\ UNCHANGED <<clock, file, lock, begun, afterRemoval, deferred, voices>>

\* An exception of the task, of mark_run or of the speech leaves the menu-bar
\* poller's loop: the busy lock and scheduler.lock are given back and the rest
\* of its due tasks are dropped.
MenuTaskRaises ==
    /\ pc["menu"] \in {"running", "returned", "speaking"}
    /\ faults < MaxFaults
    /\ faults' = faults + 1
    /\ unmarked' = Lost("menu")
    /\ busy' = "free"
    /\ lock' = Nobody
    /\ pc' = [pc EXCEPT !["menu"] = "asleep"]
    /\ now' = [now EXCEPT !["menu"] = 0]
    /\ due' = [due EXCEPT !["menu"] = {}]
    /\ current' = [current EXCEPT !["menu"] = {}]
    /\ polled' = [polled EXCEPT !["menu"] = TRUE]
    /\ UNCHANGED <<clock, file, begun, afterRemoval, deferred, voices>>

\* The end of the with block.
Release(p) ==
    /\ pc[p] = "working"
    /\ due[p] = {}
    /\ lock' = Nobody
    /\ pc' = [pc EXCEPT ![p] = "asleep"]
    /\ now' = [now EXCEPT ![p] = 0]
    /\ UNCHANGED <<clock, busy, file, due, current, polled, runs, bounds>>

-----------------------------------------------------------------------------
(* The rest of the world.                                                    *)

\* _run_and_report: try_start, one conversation, finish.
VoiceStarts ==
    /\ busy = "free"
    /\ pc["menu"] # "down"
    /\ voices < MaxVoice
    /\ voices' = voices + 1
    /\ busy' = "voice"
    /\ UNCHANGED <<clock, file, poller, runs, faults>>

VoiceEnds ==
    /\ busy = "voice"
    /\ busy' = "free"
    /\ UNCHANGED <<clock, file, poller, runs, bounds>>

\* The kernel gives back the flock of a process that dies.
Crash(p) ==
    /\ pc[p] # "down"
    /\ faults < MaxFaults
    /\ faults' = faults + 1
    /\ unmarked' = Lost(p)
    /\ lock' = IF lock = p THEN Nobody ELSE lock
    /\ busy' = IF p = "menu" THEN "free" ELSE busy
    /\ pc' = [pc EXCEPT ![p] = "down"]
    /\ now' = [now EXCEPT ![p] = 0]
    /\ due' = [due EXCEPT ![p] = {}]
    /\ current' = [current EXCEPT ![p] = {}]
    /\ UNCHANGED <<clock, file, polled, begun, afterRemoval, deferred, voices>>

Restart(p) ==
    /\ pc[p] = "down"
    /\ pc' = [pc EXCEPT ![p] = "asleep"]
    /\ polled' = [polled EXCEPT ![p] = FALSE]
    /\ UNCHANGED <<clock, busy, file, lock, now, due, current, runs, bounds>>

\* POLL_INTERVAL_SECONDS is less than a minute, so a poller has its turn in every
\* minute but one it ends a task in: it may sleep for the rest of that one.  A
\* task, and the speech after it, may take any time.
Attended(p) == polled[p] \/ pc[p] \in {"running", "speaking", "down"}

Tick ==
    /\ clock < MaxClock
    /\ \A p \in Pollers : Attended(p)
    /\ clock' = clock + 1
    /\ polled' = [p \in Pollers |-> FALSE]
    /\ UNCHANGED <<busy, file, lock, pc, now, due, current, runs, bounds>>

PollerStep(p) ==
    \/ Poll(p) \/ ListTasks(p) \/ TaskReturns(p) \/ MarkRun(p) \/ Release(p)
    \/ \E t \in Tasks : StartTask(p, t) \/ Defer(p, t)
    \/ p = "daemon" /\ DaemonTaskRaises
    \/ p = "menu" /\ (FinishSpeaking \/ MenuTaskRaises)

WorldStep ==
    \/ \E t \in Tasks : RemoveTask(t) \/ \E at \in Minutes : AddTask(t, at)
    \/ \E p \in Pollers : Crash(p) \/ Restart(p)
    \/ VoiceStarts \/ VoiceEnds \/ Tick

Next == (\E p \in Pollers : PollerStep(p)) \/ WorldStep

Spec == Init /\ [][Next]_vars

-----------------------------------------------------------------------------
(* Properties.                                                               *)

\* Every variable keeps its type; the poller that is at work holds
\* scheduler.lock and the task file holds only ids that were handed out.
TypeOK ==
    /\ clock \in 0 .. MaxClock
    /\ DOMAIN tasks \subseteq Tasks
    /\ \A t \in DOMAIN tasks : tasks[t] \in Entry
    /\ lock \in Pollers \cup {Nobody}
    /\ busy \in Busy
    /\ pc \in [Pollers -> PollerStates]
    /\ now \in [Pollers -> 0 .. MaxClock]
    /\ due \in [Pollers -> SUBSET Tasks]
    /\ current \in [Pollers -> SUBSET Tasks]
    /\ polled \in [Pollers -> BOOLEAN]
    /\ used \subseteq Tasks /\ removed \subseteq Tasks
    /\ begun \in [Tasks -> [Days -> Nat]]
    /\ unmarked \in [Tasks -> [Days -> Nat]]
    /\ afterRemoval \in [Tasks -> Nat]
    /\ deferred \subseteq (Tasks \X Days)
    /\ voices \in 0 .. MaxVoice
    /\ faults \in 0 .. MaxFaults

\* A task is begun at most once a day whichever process runs it, and once more
\* for every run of that day that ended before mark_run: by an exception in the
\* menu-bar process or a crash.  (scheduler_lock.try_acquire, the test of
\* last_run_date and mark_run together.)
AtMostOncePerDay ==
    \A t \in Tasks, d \in Days : begun[t][d] <= 1 + unmarked[t][d]

\* A task counts as run for a day only if it was begun for that day: what is put
\* off for a conversation stays unmarked.  (mark_run after execute_task.)
MarkedMeansBegun ==
    \A t \in DOMAIN tasks : tasks[t].last # Never => begun[t][tasks[t].last] > 0

\* A task the user cancelled is begun at most once more, by the poll that had
\* read the file before.  (list_tasks once a poll; mark_run reloads the file.)
RemovedBeginsAtMostOnce == \A t \in Tasks : afterRemoval[t] <= 1

\* No edit of the task file is lost or undone by a concurrent one: it holds what
\* was added and not removed.  (_locked and the reload in add_task, remove_task
\* and mark_run.)
EditsSurvive == DOMAIN tasks = used \ removed

\* A scheduled task of the menu-bar process and a voice conversation never
\* overlap.  (voice_state.try_start and finish.)
VoiceAlone == busy = "voice" => pc["menu"] \notin {"running", "returned", "speaking"}

\* No poll that may have begun on day d is still at work.
DayIsOver(d) == Day(clock) > d /\ lock = Nobody

\* A task put off for a conversation is begun later that day: the comment of
\* _run_due_scheduled_tasks, "so this fires on the next poll tick instead of
\* being silently skipped for the day".
DeferredIsBegun ==
    \A t \in DOMAIN tasks, d \in Days :
        /\ <<t, d>> \in deferred
        /\ DayIsOver(d)
        => begun[t][d] > 0

=============================================================================
