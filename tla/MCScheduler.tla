----------------------------- MODULE MCScheduler -----------------------------
(* The scheduler with two tasks and a day of two minutes.                     *)
EXTENDS Scheduler, TLC

TaskSymmetry == Permutations(Tasks)

\* No action and no invariant of SchedulerSafety.cfg reads what was put off: the
\* run tells states apart without it.
WithoutDeferred ==
    <<clock, busy, tasks, used, removed, poller, begun, unmarked, afterRemoval, bounds>>

=============================================================================
