-------------------------- MODULE SchedulerProofs ---------------------------
(* Theorems of Scheduler, for any tasks, length of the day and bounds.  The   *)
(* argument: only the poller that holds the lock is at work, what it read is  *)
(* not marked for a later day than its own, and so a task that is due and not *)
(* running was begun on that day only as often as a run went unrecorded.      *)
EXTENDS Scheduler, TLAPS

AtWork == {"locked", "working", "running", "returned", "speaking"}
Running(p, t) == t \in current[p] /\ pc[p] \in {"running", "returned"}

\* One poller is at work; the tasks at hand, and the busy lock, are with it.
Alone ==
    /\ \A p \in Pollers : pc[p] \in AtWork <=> lock = p
    /\ pc["menu"] \in {"running", "returned", "speaking"} => busy = "menu"
    /\ \A p \in Pollers :
        /\ due[p] # {} => pc[p] \in {"working", "running", "returned", "speaking"}
        /\ current[p] # {} => pc[p] \in {"running", "returned", "speaking"}
        /\ due[p] \subseteq used /\ current[p] \subseteq used
        /\ \A t, u \in current[p] : t = u

\* No task is marked for a day that has not come.
Dated ==
    /\ \A p \in Pollers : now[p] <= clock
    /\ \A t \in DOMAIN tasks : tasks[t].last <= Day(clock)
    /\ \A p \in Pollers, t \in DOMAIN tasks :
           pc[p] \in AtWork => tasks[t].last <= Day(now[p])

\* What is neither marked nor running was begun only as often as it went
\* unrecorded, and so was all that is due.
Counted ==
    /\ \A t \in Tasks, d \in Days : begun[t][d] <= 1 + unmarked[t][d]
    /\ \A t \in Tasks, d \in Days : t \notin used => begun[t][d] = 0
    /\ \A p \in Pollers : \A t \in due[p] : begun[t][Day(now[p])] <= unmarked[t][Day(now[p])]
    /\ \A t \in DOMAIN tasks, d \in Days :
           /\ tasks[t].last < d
           /\ \A p \in Pollers : Running(p, t) => Day(now[p]) # d
           => begun[t][d] <= unmarked[t][d]

\* What is running, and what is marked, was begun.
Backed ==
    /\ MarkedMeansBegun
    /\ \A p \in Pollers, t \in Tasks : Running(p, t) => begun[t][Day(now[p])] > 0

\* What is due was not begun since its removal.
Edited ==
    /\ EditsSurvive
    /\ removed \subseteq used
    /\ \A t \in Tasks : afterRemoval[t] <= 1
    /\ \A t \in Tasks : t \notin removed => afterRemoval[t] = 0
    /\ \A p \in Pollers : \A t \in due[p] : afterRemoval[t] = 0

SchedulerInv == TypeOK /\ Alone /\ Dated /\ Counted /\ Backed /\ Edited

-----------------------------------------------------------------------------

LEMMA DayFacts ==
  /\ \A c \in 0 .. MaxClock : Day(c) \in Days /\ Day(c) \in Nat
  /\ \A b, c \in 0 .. MaxClock : b <= c => Day(b) <= Day(c)
<1> SUFFICES ASSUME NEW b \in 0 .. MaxClock, NEW c \in 0 .. MaxClock
             PROVE  /\ Day(c) \in Days /\ Day(c) \in Nat
                    /\ b <= c => Day(b) <= Day(c)
  OBVIOUS
<1>1. Day(c) \in Nat /\ Day(c) <= c
  BY SchedulerAssumption DEF Day
<1>2. b <= c => Day(b) <= Day(c)
  BY SchedulerAssumption DEF Day
<1> QED
  BY <1>1, <1>2, SchedulerAssumption DEF Days

LEMMA DatesAreInts ==
  ASSUME TypeOK
  PROVE  /\ \A t \in DOMAIN tasks : tasks[t].last \in Int
         /\ \A p \in Pollers : now[p] \in Int /\ Day(now[p]) \in Days /\ Day(now[p]) \in Int
<1>1. \A t \in DOMAIN tasks : tasks[t].last \in {Never} \cup Days
  BY DEF TypeOK, Entry
<1>2. Never \in Int /\ Days \subseteq Int
  BY SchedulerAssumption DEF Never, Days
<1>3. \A p \in Pollers : now[p] \in 0 .. MaxClock
  BY DEF TypeOK
<1>4. \A t \in DOMAIN tasks : tasks[t].last \in Int
  BY <1>1, <1>2
<1>5. \A c \in 0 .. MaxClock : c \in Int /\ Day(c) \in Days /\ Day(c) \in Int
  BY <1>2, DayFacts
<1> QED
  BY <1>3, <1>4, <1>5

LEMMA SchedulerInit == Init => SchedulerInv
  BY SchedulerAssumption, DayFacts
     DEF Init, SchedulerInv, TypeOK, Alone, Dated, Counted, Backed, Edited, MarkedMeansBegun,
         EditsSurvive, Running, AtWork, Zero, Pollers, PollerStates, Busy, Nobody, Days, Never

\* Counted is kept by a step that neither begins, marks nor loses a run.
LEMMA CountedFrame ==
  ASSUME Counted, UNCHANGED <<tasks, used, begun, unmarked>>,
         \A p \in Pollers : \A t \in due'[p] : t \in due[p] /\ now'[p] = now[p],
         \A p \in Pollers, t \in Tasks :
             Running(p, t) => Running(p, t)' /\ now'[p] = now[p],
         DOMAIN tasks \subseteq Tasks
  PROVE  Counted'
<1>1. \A p \in Pollers : \A t \in due'[p] :
          begun'[t][Day(now'[p])] <= unmarked'[t][Day(now'[p])]
  BY DEF Counted
<1>2. ASSUME NEW t \in DOMAIN tasks, NEW d \in Days, tasks[t].last < d,
             \A p \in Pollers : Running(p, t)' => Day(now'[p]) # d
      PROVE  begun[t][d] <= unmarked[t][d]
  <2>1. \A p \in Pollers : Running(p, t) => Day(now[p]) # d
    BY <1>2
  <2> QED
    BY <1>2, <2>1 DEF Counted
<1> QED
  BY <1>1, <1>2 DEF Counted, Day

\* Counted is kept when a poller stops where it is: a run it had not marked is
\* counted as unrecorded.
LEMMA CountedLost ==
  ASSUME SchedulerInv, NEW p \in Pollers, UNCHANGED <<tasks, used, begun>>,
         unmarked' = Lost(p),
         due' = [due EXCEPT ![p] = {}], now' = [now EXCEPT ![p] = 0],
         \A q \in Pollers : q # p => pc'[q] = pc[q] /\ current'[q] = current[q]
  PROVE  Counted'
<1> USE DayFacts DEF SchedulerInv
<1>1. ASSUME NEW t \in Tasks, NEW d \in Days
      PROVE  /\ unmarked'[t][d] = IF Running(p, t) /\ d = Day(now[p])
                                  THEN unmarked[t][d] + 1 ELSE unmarked[t][d]
             /\ unmarked[t][d] \in Nat /\ begun[t][d] \in Nat
  BY <1>1 DEF Lost, Running, TypeOK
<1>2. /\ \A t \in Tasks, d \in Days : begun'[t][d] <= 1 + unmarked'[t][d]
      /\ \A t \in Tasks, d \in Days : t \notin used' => begun'[t][d] = 0
  BY <1>1 DEF Counted
<1>3. ASSUME NEW q \in Pollers, NEW t \in due'[q]
      PROVE  begun'[t][Day(now'[q])] <= unmarked'[t][Day(now'[q])]
  <2>1. q # p /\ t \in due[q] /\ now'[q] = now[q] /\ t \in Tasks /\ Day(now[q]) \in Days
    BY <1>3 DEF TypeOK
  <2>2. begun[t][Day(now[q])] <= unmarked[t][Day(now[q])]
    BY <2>1 DEF Counted
  <2> QED
    BY <1>1, <2>1, <2>2
<1>4. ASSUME NEW t \in DOMAIN tasks, NEW d \in Days, tasks[t].last < d,
             \A q \in Pollers : Running(q, t)' => Day(now'[q]) # d
      PROVE  begun[t][d] <= unmarked'[t][d]
  <2>0. t \in Tasks
    BY DEF TypeOK
  <2>1. \A q \in Pollers : q # p => (Running(q, t) => Day(now[q]) # d)
    BY <1>4 DEF Running, TypeOK
  <2>2. CASE Running(p, t) /\ d = Day(now[p])
    BY <1>1, <2>0, <2>2 DEF Counted
  <2>3. CASE ~(Running(p, t) /\ d = Day(now[p]))
    <3>1. begun[t][d] <= unmarked[t][d]
      BY <1>4, <2>1, <2>3 DEF Counted
    <3> QED
      BY <1>1, <2>0, <2>3, <3>1
  <2> QED
    BY <2>2, <2>3
<1> QED
  BY <1>2, <1>3, <1>4 DEF Counted

\* The invariant is kept by an edit of the task file.
LEMMA FileStep ==
  ASSUME SchedulerInv, NEW t \in Tasks, RemoveTask(t) \/ \E at \in Minutes : AddTask(t, at)
  PROVE  SchedulerInv'
<1> USE SchedulerAssumption, DayFacts DEF SchedulerInv, file, poller, runs, bounds, AtWork
<1>1. CASE RemoveTask(t)
  <2>1. TypeOK'
    BY <1>1 DEF RemoveTask, TypeOK, PollerStates, Pollers, Busy
  <2>2. Alone'
    BY <1>1 DEF RemoveTask, TypeOK, Alone, Pollers
  <2>3. Dated'
    BY <1>1 DEF RemoveTask, TypeOK, Alone, Dated, Pollers
  <2>4. Counted'
    BY <1>1 DEF RemoveTask, TypeOK, Alone, Dated, Counted, Running
  <2>5. Backed'
    BY <1>1 DEF RemoveTask, TypeOK, Alone, Backed, MarkedMeansBegun, Running
  <2>6. Edited'
    BY <1>1 DEF RemoveTask, TypeOK, Alone, Edited, EditsSurvive
  <2> QED
    BY <2>1, <2>2, <2>3, <2>4, <2>5, <2>6
<1>2. CASE \E at \in Minutes : AddTask(t, at)
  <2>1. TypeOK'
    BY <1>2 DEF AddTask, Entry, Never, TypeOK, PollerStates, Pollers, Busy
  <2>2. Alone'
    BY <1>2 DEF AddTask, Entry, Never, TypeOK, Alone, Pollers
  <2>3. Dated'
    BY <1>2 DEF AddTask, Entry, Never, TypeOK, Alone, Dated, Pollers
  <2>4. Counted'
    BY <1>2 DEF AddTask, Entry, Never, TypeOK, Alone, Dated, Counted, Running
  <2>5. Backed'
    BY <1>2 DEF AddTask, Entry, Never, TypeOK, Alone, Backed, MarkedMeansBegun, Running
  <2>6. Edited'
    BY <1>2 DEF AddTask, Entry, Never, TypeOK, Alone, Edited, EditsSurvive
  <2> QED
    BY <2>1, <2>2, <2>3, <2>4, <2>5, <2>6
<1> QED
  BY <1>1, <1>2

\* The invariant is kept by a poll up to its tasks and after them.
LEMMA PollStep ==
  ASSUME SchedulerInv, NEW p \in Pollers, Poll(p) \/ ListTasks(p) \/ Release(p)
  PROVE  SchedulerInv'
<1> USE SchedulerAssumption, DayFacts DEF SchedulerInv, file, poller, runs, bounds, AtWork
<1>1. CASE Poll(p)
  <2>1. TypeOK'
    BY <1>1 DEF Poll, Nobody, TypeOK, PollerStates, Pollers, Busy
  <2>2. Alone'
    BY <1>1 DEF Poll, Nobody, TypeOK, Alone, Pollers
  <2>3. Dated'
    BY <1>1 DEF Poll, Nobody, TypeOK, Alone, Dated, Pollers
  <2>4. Counted'
    <3>1. due[p] = {} /\ current[p] = {}
      BY <1>1 DEF Poll, Alone
    <3>2. \A q \in Pollers : q # p => now'[q] = now[q] /\ pc'[q] = pc[q]
      BY <1>1 DEF Poll, TypeOK
    <3>3. UNCHANGED <<tasks, used, begun, unmarked, due, current>>
      BY <1>1 DEF Poll
    <3>4. \A q \in Pollers : \A t \in due'[q] : t \in due[q] /\ now'[q] = now[q]
      BY <3>1, <3>2, <3>3
    <3>5. \A q \in Pollers, t \in Tasks :
              Running(q, t) => Running(q, t)' /\ now'[q] = now[q]
      BY <3>1, <3>2, <3>3 DEF Running
    <3> QED
      BY <3>3, <3>4, <3>5, CountedFrame DEF TypeOK
  <2>5. Backed'
    BY <1>1 DEF Poll, Nobody, TypeOK, Alone, Backed, MarkedMeansBegun, Running
  <2>6. Edited'
    BY <1>1 DEF Poll, Nobody, TypeOK, Alone, Edited, EditsSurvive
  <2> QED
    BY <2>1, <2>2, <2>3, <2>4, <2>5, <2>6
<1>2. CASE ListTasks(p)
  <2>1. TypeOK'
    BY <1>2 DEF ListTasks, IsDue, TypeOK, PollerStates, Pollers, Busy
  <2>2. Alone'
    BY <1>2 DEF ListTasks, IsDue, TypeOK, Alone, Pollers, Edited, EditsSurvive
  <2>3. Dated'
    BY <1>2 DEF ListTasks, IsDue, TypeOK, Alone, Dated, Pollers
  <2>4. Counted'
    <3>1. \A q \in Pollers : q # p => pc[q] \notin AtWork /\ due[q] = {} /\ current[q] = {}
      BY <1>2 DEF ListTasks, Alone
    <3>2. current[p] = {} /\ pc[p] = "locked"
      BY <1>2 DEF ListTasks, Alone
    <3>3. UNCHANGED <<tasks, used, begun, unmarked, now, current>>
      BY <1>2 DEF ListTasks
    <3>4. due' = [due EXCEPT ![p] = {t \in DOMAIN tasks : IsDue(t, now[p])}]
      BY <1>2 DEF ListTasks
    <3>5. ASSUME NEW t \in DOMAIN tasks, IsDue(t, now[p])
          PROVE  begun[t][Day(now[p])] <= unmarked[t][Day(now[p])]
      <4>1. tasks[t].last # Day(now[p]) /\ tasks[t].last <= Day(now[p])
        BY <3>2, <3>5 DEF IsDue, Dated
      <4>2. tasks[t].last \in Int /\ Day(now[p]) \in Days /\ Day(now[p]) \in Int
        BY DatesAreInts
      <4>3. tasks[t].last < Day(now[p])
        BY <4>1, <4>2
      <4>4. \A q \in Pollers : ~Running(q, t)
        BY <3>1, <3>2 DEF Running
      <4> QED
        BY <4>2, <4>3, <4>4 DEF Counted
    <3>6. \A q \in Pollers : \A t \in due'[q] :
              begun[t][Day(now[q])] <= unmarked[t][Day(now[q])]
      BY <3>1, <3>4, <3>5 DEF TypeOK
    <3>7. \A q \in Pollers, t \in Tasks : ~Running(q, t)
      BY <3>1, <3>2 DEF Running
    <3> QED
      BY <3>3, <3>6, <3>7 DEF Counted, TypeOK
  <2>5. Backed'
    BY <1>2 DEF ListTasks, IsDue, TypeOK, Alone, Backed, MarkedMeansBegun, Running
  <2>6. Edited'
    BY <1>2 DEF ListTasks, IsDue, TypeOK, Alone, Edited, EditsSurvive
  <2> QED
    BY <2>1, <2>2, <2>3, <2>4, <2>5, <2>6
<1>3. CASE Release(p)
  <2>1. TypeOK'
    BY <1>3 DEF Release, Nobody, TypeOK, PollerStates, Pollers, Busy
  <2>2. Alone'
    BY <1>3 DEF Release, Nobody, TypeOK, Alone, Pollers
  <2>3. Dated'
    BY <1>3 DEF Release, Nobody, TypeOK, Alone, Dated, Pollers
  <2>4. Counted'
    <3>0. due[p] = {} /\ current[p] = {}
      BY <1>3 DEF Release, Alone
    <3>1. due[p] = {} /\ current[p] = {} /\ \A q \in Pollers : q # p => now'[q] = now[q]
      BY <1>3, <3>0 DEF Release, TypeOK
    <3>2. UNCHANGED <<tasks, used, begun, unmarked, due, current>>
      BY <1>3 DEF Release
    <3>3. \A q \in Pollers, t \in Tasks :
              Running(q, t) => Running(q, t)' /\ now'[q] = now[q]
      BY <1>3, <3>1, <3>2 DEF Release, Running, TypeOK
    <3>4. \A q \in Pollers : \A t \in due'[q] : t \in due[q] /\ now'[q] = now[q]
      BY <3>1, <3>2
    <3> QED
      BY <3>2, <3>3, <3>4, CountedFrame DEF TypeOK
  <2>5. Backed'
    BY <1>3 DEF Release, Nobody, TypeOK, Alone, Backed, MarkedMeansBegun, Running
  <2>6. Edited'
    BY <1>3 DEF Release, Nobody, TypeOK, Alone, Edited, EditsSurvive
  <2> QED
    BY <2>1, <2>2, <2>3, <2>4, <2>5, <2>6
<1> QED
  BY <1>1, <1>2, <1>3

\* The invariant is kept by what a poll does with a due task.
LEMMA TaskStep ==
  ASSUME SchedulerInv, NEW p \in Pollers,
         \/ \E t \in Tasks : StartTask(p, t) \/ Defer(p, t)
         \/ TaskReturns(p) \/ MarkRun(p)
  PROVE  SchedulerInv'
<1> USE SchedulerAssumption, DayFacts DEF SchedulerInv, file, poller, runs, bounds, AtWork
<1>1. CASE \E t \in Tasks : StartTask(p, t)
  <2> PICK t \in Tasks : StartTask(p, t)
    BY <1>1
  <2>0. /\ pc[p] = "working" /\ t \in due[p] /\ t \in used /\ current[p] = {}
        /\ pc' = [pc EXCEPT ![p] = "running"]
        /\ due' = [due EXCEPT ![p] = @ \ {t}]
        /\ current' = [current EXCEPT ![p] = {t}]
        /\ begun' = [begun EXCEPT ![t][Day(now[p])] = @ + 1]
        /\ UNCHANGED <<clock, file, lock, now, polled, unmarked, deferred, bounds>>
    BY DEF StartTask, Alone
  <2>a. \A q \in Pollers : q # p => pc[q] \notin AtWork /\ due[q] = {} /\ current[q] = {}
    BY <2>0 DEF Alone
  <2>b. \A u \in Tasks, d \in Days :
            /\ begun[u][d] \in Nat /\ unmarked[u][d] \in Nat
            /\ begun'[u][d] = IF u = t /\ d = Day(now[p]) THEN begun[u][d] + 1 ELSE begun[u][d]
    BY <2>0 DEF TypeOK
  <2>d. Day(now[p]) \in Days /\ begun[t][Day(now[p])] <= unmarked[t][Day(now[p])]
    BY <2>0 DEF TypeOK, Counted
  <2>1. TypeOK'
    BY <2>d DEF StartTask, TypeOK, PollerStates, Pollers, Busy
  <2>2. Alone'
    BY DEF StartTask, MayRun, TypeOK, Alone, Pollers
  <2>3. Dated'
    BY DEF StartTask, TypeOK, Alone, Dated
  <2>4. Counted'
    <3>1. /\ \A u \in Tasks, d \in Days : begun'[u][d] <= 1 + unmarked[u][d]
          /\ \A u \in Tasks, d \in Days : u \notin used => begun'[u][d] = 0
      BY <2>0, <2>b, <2>d DEF Counted
    <3>2. ASSUME NEW q \in Pollers, NEW u \in due'[q]
          PROVE  begun'[u][Day(now[q])] <= unmarked[u][Day(now[q])]
      <4>1. q = p /\ u \in due[p] /\ u # t /\ u \in Tasks
        BY <2>0, <2>a, <3>2 DEF TypeOK
      <4>2. begun[u][Day(now[p])] <= unmarked[u][Day(now[p])]
        BY <4>1 DEF Counted
      <4> QED
        BY <2>b, <2>d, <4>1, <4>2
    <3>3. ASSUME NEW u \in DOMAIN tasks, NEW d \in Days, tasks[u].last < d,
                 \A q \in Pollers : Running(q, u)' => Day(now[q]) # d
          PROVE  begun'[u][d] <= unmarked[u][d]
      <4>1. u \in Tasks /\ \A q \in Pollers : ~Running(q, u)
        BY <2>0, <2>a DEF Running, TypeOK
      <4>2. begun[u][d] <= unmarked[u][d]
        BY <3>3, <4>1 DEF Counted
      <4>3. Running(p, t)'
        BY <2>0 DEF Running, TypeOK
      <4> QED
        BY <2>b, <3>3, <4>1, <4>2, <4>3
    <3>4. UNCHANGED <<tasks, used, unmarked, now>>
      BY <2>0
    <3> QED
      BY <3>1, <3>2, <3>3, <3>4 DEF Counted
  <2>5. Backed'
    <3>1. \A u \in DOMAIN tasks : u \in Tasks /\ tasks[u].last \in {Never} \cup Days
      BY DEF TypeOK, Entry
    <3>2. MarkedMeansBegun'
      BY <2>0, <2>b, <3>1 DEF Backed, MarkedMeansBegun
    <3>3. ASSUME NEW q \in Pollers, NEW u \in Tasks, Running(q, u)'
          PROVE  q = p /\ u = t
      BY <2>0, <2>a, <3>3 DEF Running, TypeOK
    <3>4. begun'[t][Day(now[p])] > 0
      BY <2>b, <2>d
    <3> QED
      BY <2>0, <3>2, <3>3, <3>4 DEF Backed
  <2>6. Edited'
    BY <2>0 DEF StartTask, TypeOK, Alone, Edited, EditsSurvive
  <2> QED
    BY <2>1, <2>2, <2>3, <2>4, <2>5, <2>6
<1>2. CASE \E t \in Tasks : Defer(p, t)
  <2>1. TypeOK'
    BY <1>2 DEF Defer, TypeOK, PollerStates, Pollers, Busy
  <2>2. Alone'
    BY <1>2 DEF Defer, TypeOK, Alone, Pollers
  <2>3. Dated'
    BY <1>2 DEF Defer, TypeOK, Alone, Dated, Pollers
  <2>4. Counted'
    BY <1>2 DEF Defer, TypeOK, Alone, Dated, Counted, Running
  <2>5. Backed'
    BY <1>2 DEF Defer, TypeOK, Alone, Backed, MarkedMeansBegun, Running
  <2>6. Edited'
    BY <1>2 DEF Defer, TypeOK, Alone, Edited, EditsSurvive
  <2> QED
    BY <2>1, <2>2, <2>3, <2>4, <2>5, <2>6
<1>3. CASE TaskReturns(p)
  <2>1. TypeOK'
    BY <1>3 DEF TaskReturns, TypeOK, PollerStates, Pollers, Busy
  <2>2. Alone'
    BY <1>3 DEF TaskReturns, TypeOK, Alone, Pollers
  <2>3. Dated'
    BY <1>3 DEF TaskReturns, TypeOK, Alone, Dated, Pollers
  <2>4. Counted'
    BY <1>3 DEF TaskReturns, TypeOK, Alone, Dated, Counted, Running
  <2>5. Backed'
    BY <1>3 DEF TaskReturns, TypeOK, Alone, Backed, MarkedMeansBegun, Running
  <2>6. Edited'
    BY <1>3 DEF TaskReturns, TypeOK, Alone, Edited, EditsSurvive
  <2> QED
    BY <2>1, <2>2, <2>3, <2>4, <2>5, <2>6
<1>4. CASE MarkRun(p)
  <2> PICK t \in current[p] : tasks' = Marked(p, t)
    BY <1>4 DEF MarkRun
  <2>0. /\ pc[p] = "returned" /\ t \in Tasks
        /\ pc' = [pc EXCEPT ![p] = IF p = "menu" THEN "speaking" ELSE "working"]
        /\ current' = [current EXCEPT ![p] = IF p = "menu" THEN @ ELSE {}]
        /\ UNCHANGED <<clock, busy, used, removed, lock, now, due, polled, runs, bounds>>
    BY <1>4 DEF MarkRun, TypeOK
  <2>a. \A q \in Pollers : q # p => pc[q] \notin AtWork /\ due[q] = {} /\ current[q] = {}
    BY <2>0 DEF Alone
  <2>b. Running(p, t) /\ \A u \in current[p] : u = t
    BY <2>0 DEF Running, Alone
  <2>d. Day(now[p]) \in Days /\ Day(now[p]) <= Day(clock)
    BY DEF TypeOK, Dated
  <2>m. /\ DOMAIN tasks' = DOMAIN tasks
        /\ \A u \in DOMAIN tasks :
               /\ tasks'[u] \in Entry
               /\ tasks'[u].last = IF u = t THEN Day(now[p]) ELSE tasks[u].last
    BY <2>d DEF Marked, TypeOK, Entry
  <2>1. TypeOK'
    BY <2>0, <2>m DEF TypeOK, PollerStates
  <2>2. Alone'
    BY <2>0 DEF TypeOK, Alone, Pollers
  <2>3. Dated'
    <3>1. \A u \in DOMAIN tasks : tasks'[u].last <= Day(clock) /\ tasks'[u].last <= Day(now[p])
      BY <2>0, <2>d, <2>m, DatesAreInts DEF Dated
    <3>2. \A q \in Pollers : q # p => pc'[q] = pc[q]
      BY <2>0 DEF TypeOK
    <3> QED
      BY <2>0, <2>a, <2>m, <3>1, <3>2 DEF Dated
  <2>4. Counted'
    <3>1. ASSUME NEW u \in DOMAIN tasks, NEW d \in Days, tasks'[u].last < d
          PROVE  begun[u][d] <= unmarked[u][d]
      <4>1. \A q \in Pollers : Running(q, u) => q = p /\ u = t
        BY <2>a, <2>b DEF Running
      <4>2. tasks[u].last < d /\ (u = t => Day(now[p]) # d)
        <5>1. tasks[u].last \in Int /\ d \in Int /\ Day(now[p]) \in Int
          BY DatesAreInts DEF Days
        <5>2. tasks[u].last <= Day(now[p])
          BY <2>0 DEF Dated
        <5> QED
          BY <2>m, <3>1, <5>1, <5>2
      <4> QED
        BY <4>1, <4>2 DEF Counted
    <3> QED
      BY <2>0, <2>m, <3>1 DEF Counted
  <2>5. Backed'
    <3>1. \A q \in Pollers, u \in Tasks : Running(q, u)' => Running(q, u)
      BY <2>0 DEF Running, TypeOK
    <3>2. begun[t][Day(now[p])] > 0
      BY <2>0, <2>b DEF Backed
    <3>3. MarkedMeansBegun'
      BY <2>0, <2>m, <3>2 DEF Backed, MarkedMeansBegun
    <3> QED
      BY <2>0, <3>1, <3>3 DEF Backed
  <2>6. Edited'
    BY <2>0, <2>m DEF Edited, EditsSurvive
  <2> QED
    BY <2>1, <2>2, <2>3, <2>4, <2>5, <2>6
<1> QED
  BY <1>1, <1>2, <1>3, <1>4

\* The invariant is kept by a task that raises, and by the end of the speech.
LEMMA EndStep ==
  ASSUME SchedulerInv, DaemonTaskRaises \/ FinishSpeaking \/ MenuTaskRaises
  PROVE  SchedulerInv'
<1> USE SchedulerAssumption, DayFacts DEF SchedulerInv, file, poller, runs, bounds, AtWork
<1>1. CASE DaemonTaskRaises
  <2>1. TypeOK'
    BY <1>1 DEF DaemonTaskRaises, TypeOK, PollerStates, Pollers, Busy
  <2>2. Alone'
    BY <1>1 DEF DaemonTaskRaises, TypeOK, Alone, Pollers
  <2>3. Dated'
    BY <1>1 DEF DaemonTaskRaises, TypeOK, Alone, Dated, Pollers
  <2>4. Counted'
    BY <1>1 DEF DaemonTaskRaises, TypeOK, Alone, Dated, Counted, Running
  <2>5. Backed'
    BY <1>1 DEF DaemonTaskRaises, TypeOK, Alone, Backed, MarkedMeansBegun, Running
  <2>6. Edited'
    BY <1>1 DEF DaemonTaskRaises, TypeOK, Alone, Edited, EditsSurvive
  <2> QED
    BY <2>1, <2>2, <2>3, <2>4, <2>5, <2>6
<1>2. CASE FinishSpeaking
  <2>1. TypeOK'
    BY <1>2 DEF FinishSpeaking, TypeOK, PollerStates, Pollers, Busy
  <2>2. Alone'
    BY <1>2 DEF FinishSpeaking, TypeOK, Alone, Pollers
  <2>3. Dated'
    BY <1>2 DEF FinishSpeaking, TypeOK, Alone, Dated, Pollers
  <2>4. Counted'
    BY <1>2 DEF FinishSpeaking, TypeOK, Alone, Dated, Counted, Running
  <2>5. Backed'
    BY <1>2 DEF FinishSpeaking, TypeOK, Alone, Backed, MarkedMeansBegun, Running
  <2>6. Edited'
    BY <1>2 DEF FinishSpeaking, TypeOK, Alone, Edited, EditsSurvive
  <2> QED
    BY <2>1, <2>2, <2>3, <2>4, <2>5, <2>6
<1>3. CASE MenuTaskRaises
  <2>1. TypeOK'
    BY <1>3 DEF MenuTaskRaises, Lost, Nobody, TypeOK, PollerStates, Pollers, Busy
  <2>2. Alone'
    BY <1>3 DEF MenuTaskRaises, Lost, Nobody, TypeOK, Alone, Pollers
  <2>3. Dated'
    BY <1>3 DEF MenuTaskRaises, Lost, Nobody, TypeOK, Alone, Dated, Pollers
  <2>4. Counted'
    <3>1. /\ "menu" \in Pollers /\ UNCHANGED <<tasks, used, begun>> /\ unmarked' = Lost("menu")
          /\ due' = [due EXCEPT !["menu"] = {}] /\ now' = [now EXCEPT !["menu"] = 0]
          /\ \A q \in Pollers : q # "menu" => pc'[q] = pc[q] /\ current'[q] = current[q]
      BY <1>3 DEF MenuTaskRaises, TypeOK, Pollers
    <3> QED
      BY <3>1, CountedLost
  <2>5. Backed'
    BY <1>3 DEF MenuTaskRaises, Lost, Nobody, TypeOK, Alone, Backed, MarkedMeansBegun, Running
  <2>6. Edited'
    BY <1>3 DEF MenuTaskRaises, Lost, Nobody, TypeOK, Alone, Edited, EditsSurvive
  <2> QED
    BY <2>1, <2>2, <2>3, <2>4, <2>5, <2>6
<1> QED
  BY <1>1, <1>2, <1>3

\* The invariant is kept by crashes, restarts, conversations and the clock.
LEMMA WorldStepKeeps ==
  ASSUME SchedulerInv, WorldStep,
         ~\E t \in Tasks : RemoveTask(t) \/ \E at \in Minutes : AddTask(t, at)
  PROVE  SchedulerInv'
<1> USE SchedulerAssumption, DayFacts DEF SchedulerInv, file, poller, runs, bounds, AtWork
<1>1. CASE \E p \in Pollers : Crash(p)
  <2>1. TypeOK'
    BY <1>1 DEF Crash, Lost, Nobody, TypeOK, PollerStates, Pollers, Busy
  <2>2. Alone'
    BY <1>1 DEF Crash, Lost, Nobody, TypeOK, Alone, Pollers
  <2>3. Dated'
    BY <1>1 DEF Crash, Lost, Nobody, TypeOK, Alone, Dated, Pollers
  <2>4. Counted'
    <3> PICK p \in Pollers : Crash(p)
      BY <1>1
    <3>1. /\ UNCHANGED <<tasks, used, begun>> /\ unmarked' = Lost(p)
          /\ due' = [due EXCEPT ![p] = {}] /\ now' = [now EXCEPT ![p] = 0]
          /\ \A q \in Pollers : q # p => pc'[q] = pc[q] /\ current'[q] = current[q]
      BY DEF Crash, TypeOK
    <3> QED
      BY <3>1, CountedLost
  <2>5. Backed'
    BY <1>1 DEF Crash, Lost, Nobody, TypeOK, Alone, Backed, MarkedMeansBegun, Running
  <2>6. Edited'
    BY <1>1 DEF Crash, Lost, Nobody, TypeOK, Alone, Edited, EditsSurvive
  <2> QED
    BY <2>1, <2>2, <2>3, <2>4, <2>5, <2>6
<1>2. CASE \E p \in Pollers : Restart(p)
  <2>1. TypeOK'
    BY <1>2 DEF Restart, TypeOK, PollerStates, Pollers, Busy
  <2>2. Alone'
    BY <1>2 DEF Restart, TypeOK, Alone, Pollers
  <2>3. Dated'
    BY <1>2 DEF Restart, TypeOK, Alone, Dated, Pollers
  <2>4. Counted'
    <3> PICK p \in Pollers : Restart(p)
      BY <1>2
    <3>1. UNCHANGED <<tasks, used, begun, unmarked, due, current, now>>
      BY DEF Restart
    <3>2. \A q \in Pollers, t \in Tasks : Running(q, t) => Running(q, t)'
      BY DEF Restart, Running, TypeOK
    <3> QED
      BY <3>1, <3>2, CountedFrame DEF TypeOK
  <2>5. Backed'
    BY <1>2 DEF Restart, TypeOK, Alone, Backed, MarkedMeansBegun, Running
  <2>6. Edited'
    BY <1>2 DEF Restart, TypeOK, Alone, Edited, EditsSurvive
  <2> QED
    BY <2>1, <2>2, <2>3, <2>4, <2>5, <2>6
<1>3. CASE VoiceStarts
  <2>1. TypeOK'
    BY <1>3 DEF VoiceStarts, TypeOK, PollerStates, Pollers, Busy
  <2>2. Alone'
    BY <1>3 DEF VoiceStarts, TypeOK, Alone, Pollers
  <2>3. Dated'
    BY <1>3 DEF VoiceStarts, TypeOK, Alone, Dated, Pollers
  <2>4. Counted'
    BY <1>3 DEF VoiceStarts, TypeOK, Alone, Dated, Counted, Running
  <2>5. Backed'
    BY <1>3 DEF VoiceStarts, TypeOK, Alone, Backed, MarkedMeansBegun, Running
  <2>6. Edited'
    BY <1>3 DEF VoiceStarts, TypeOK, Alone, Edited, EditsSurvive
  <2> QED
    BY <2>1, <2>2, <2>3, <2>4, <2>5, <2>6
<1>4. CASE VoiceEnds
  <2>1. TypeOK'
    BY <1>4 DEF VoiceEnds, TypeOK, PollerStates, Pollers, Busy
  <2>2. Alone'
    BY <1>4 DEF VoiceEnds, TypeOK, Alone, Pollers
  <2>3. Dated'
    BY <1>4 DEF VoiceEnds, TypeOK, Alone, Dated, Pollers
  <2>4. Counted'
    BY <1>4 DEF VoiceEnds, TypeOK, Alone, Dated, Counted, Running
  <2>5. Backed'
    BY <1>4 DEF VoiceEnds, TypeOK, Alone, Backed, MarkedMeansBegun, Running
  <2>6. Edited'
    BY <1>4 DEF VoiceEnds, TypeOK, Alone, Edited, EditsSurvive
  <2> QED
    BY <2>1, <2>2, <2>3, <2>4, <2>5, <2>6
<1>5. CASE Tick
  <2>1. TypeOK'
    BY <1>5 DEF Tick, TypeOK, PollerStates, Pollers, Busy
  <2>2. Alone'
    BY <1>5 DEF Tick, TypeOK, Alone, Pollers
  <2>3. Dated'
    <3>1. clock \in 0 .. MaxClock /\ clock + 1 \in 0 .. MaxClock /\ clock <= clock + 1
      BY <1>5 DEF Tick, TypeOK
    <3>2. Day(clock) <= Day(clock + 1) /\ Day(clock) \in Int /\ Day(clock + 1) \in Int
      BY <3>1
    <3>3. /\ \A p \in Pollers : now[p] \in Int
          /\ \A t \in DOMAIN tasks : tasks[t].last \in Int
      BY DatesAreInts
    <3>4. clock' = clock + 1 /\ UNCHANGED <<tasks, now, pc>>
      BY <1>5 DEF Tick
    <3>5. \A p \in Pollers : now[p] <= clock + 1
      BY <3>1, <3>3 DEF Dated
    <3>6. \A t \in DOMAIN tasks : tasks[t].last <= Day(clock + 1)
      BY <3>2, <3>3 DEF Dated
    <3> QED
      BY <3>4, <3>5, <3>6 DEF Dated
  <2>4. Counted'
    BY <1>5 DEF Tick, TypeOK, Alone, Dated, Counted, Running
  <2>5. Backed'
    BY <1>5 DEF Tick, TypeOK, Alone, Backed, MarkedMeansBegun, Running
  <2>6. Edited'
    BY <1>5 DEF Tick, TypeOK, Alone, Edited, EditsSurvive
  <2> QED
    BY <2>1, <2>2, <2>3, <2>4, <2>5, <2>6
<1> QED
  BY <1>1, <1>2, <1>3, <1>4, <1>5 DEF WorldStep

LEMMA StutterStep == SchedulerInv /\ UNCHANGED vars => SchedulerInv'
  BY DEF SchedulerInv, TypeOK, Alone, Dated, Counted, Backed, Edited, MarkedMeansBegun,
         EditsSurvive, Running, vars, file, poller, runs, bounds

LEMMA SchedulerInvariant == Spec => []SchedulerInv
<1>1. SchedulerInv /\ WorldStep => SchedulerInv'
  <2>1. ASSUME SchedulerInv, NEW t \in Tasks, RemoveTask(t) \/ \E at \in Minutes : AddTask(t, at)
        PROVE  SchedulerInv'
    BY <2>1, FileStep
  <2> QED
    BY <2>1, WorldStepKeeps
<1>2. ASSUME SchedulerInv, NEW p \in Pollers, PollerStep(p)
      PROVE  SchedulerInv'
  BY <1>2, PollStep, TaskStep, EndStep DEF PollerStep
<1>3. SchedulerInv /\ [Next]_vars => SchedulerInv'
  BY <1>1, <1>2, StutterStep DEF Next
<1> QED
  BY SchedulerInit, <1>3, PTL DEF Spec

\* Every variable keeps its type (agent/scheduled_tasks.py, agent/scheduler_lock.py).
THEOREM TypeCorrect == Spec => []TypeOK
<1>1. SchedulerInv => TypeOK
  BY DEF SchedulerInv
<1> QED
  BY <1>1, SchedulerInvariant, PTL

\* Whichever process runs it, a task is begun once a day, and once more for every
\* run that ended before mark_run (agent/scheduler_daemon.py, _run_due_tasks).
THEOREM AtMostOncePerDayHolds == Spec => []AtMostOncePerDay
<1>1. SchedulerInv => AtMostOncePerDay
  BY DEF SchedulerInv, Counted, AtMostOncePerDay
<1> QED
  BY <1>1, SchedulerInvariant, PTL

\* A task counts as run only if it was begun that day (agent/scheduled_tasks.py,
\* mark_run; ui/menu_bar.py, the deferral).
THEOREM MarkedMeansBegunHolds == Spec => []MarkedMeansBegun
<1>1. SchedulerInv => MarkedMeansBegun
  BY DEF SchedulerInv, Backed
<1> QED
  BY <1>1, SchedulerInvariant, PTL

\* A cancelled task is begun at most once more (agent/scheduled_tasks.py,
\* list_tasks and remove_task).
THEOREM RemovedBeginsAtMostOnceHolds == Spec => []RemovedBeginsAtMostOnce
<1>1. SchedulerInv => RemovedBeginsAtMostOnce
  BY DEF SchedulerInv, Edited, RemovedBeginsAtMostOnce
<1> QED
  BY <1>1, SchedulerInvariant, PTL

\* The task file holds what was added and not removed (agent/scheduled_tasks.py,
\* the reload under the lock).
THEOREM EditsSurviveHolds == Spec => []EditsSurvive
<1>1. SchedulerInv => EditsSurvive
  BY DEF SchedulerInv, Edited
<1> QED
  BY <1>1, SchedulerInvariant, PTL

\* A scheduled task of the menu-bar process and a conversation never overlap
\* (agent/voice_state.py, try_start).
THEOREM VoiceAloneHolds == Spec => []VoiceAlone
<1>1. SchedulerInv => VoiceAlone
  BY DEF SchedulerInv, Alone, VoiceAlone
<1> QED
  BY <1>1, SchedulerInvariant, PTL
=============================================================================
