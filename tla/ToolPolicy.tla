----------------------------- MODULE ToolPolicy -----------------------------
(***************************************************************************)
(* The deterministic rules that decide, before any tool runs, whether the  *)
(* call is allowed, has to be confirmed, or is refused: the registry's     *)
(* flags (tools/registry.py), the autonomy engine (agent/autonomy.py), the *)
(* hard gates of _run_tool (agent/executor.py) and the retry policy        *)
(* (agent/retry_policy.py).  Nothing here has state.                       *)
(***************************************************************************)
EXTENDS Integers

CONSTANTS
  Tools,               (* tool calls, one value per (name, input) pair        *)
  Permission,          (* Tools -> permission level, or Unregistered          *)
  SideEffect,          (* tools with a real-world effect                      *)
  ParallelSafe,        (* pure reads that may run concurrently                *)
  RequiresLive,        (* tools that finalise something a live human approved *)
  UnattendedBlocked,   (* tools with unattended_allowed = False               *)
  VoiceAlwaysConfirms, (* tools that ambient speech always has to confirm     *)
  AlwaysConfirms,      (* tools that every source has to confirm              *)
  NeverAutoRetry       (* tools a retry could repeat for real                 *)

Levels       == 0..5
Unregistered == -1

ASSUME ToolsAssumption ==
  /\ Permission \in [Tools -> Levels \cup {Unregistered}]
  /\ SideEffect \subseteq Tools
  /\ ParallelSafe \subseteq Tools
  /\ RequiresLive \subseteq Tools
  /\ UnattendedBlocked \subseteq Tools
  /\ VoiceAlwaysConfirms \subseteq Tools
  /\ AlwaysConfirms \subseteq Tools
  /\ NeverAutoRetry \subseteq Tools
  \* No registered tool is both parallel-safe and side-effecting: parallel_safe
  \* marks pure reads.
  /\ SideEffect \cap ParallelSafe = {}

Sources               == {"chat", "voice", "telegram", "alexa", "scheduled", "agent_worker"}
AmbientVoiceSources   == {"voice", "alexa"}
NonInteractiveSources == {"scheduled", "agent_worker", "alexa"}

AutonomyLevels == 0..4
MaxDefinedLevel == 4

\* The highest permission level that runs without asking.
AutonomyThreshold(level) ==
  LET threshold == [l \in AutonomyLevels |-> IF l = 4 THEN 4 ELSE l - 1]
  IN  threshold[IF level \in AutonomyLevels THEN level ELSE MaxDefinedLevel]

Decisions == {"allow", "confirm", "deny"}

\* Mutant: the answer is asked for even where nobody can give it.
AlwaysConfirm(source) == "confirm"

ConfirmOrDeny(source) ==
  IF source \in NonInteractiveSources THEN "deny" ELSE "confirm"

\* The conditions under which the autonomy engine wants a yes.
WantsConfirmation(tool, level, source) ==
  \/ Permission[tool] = Unregistered
  \/ source \in AmbientVoiceSources /\ tool \in VoiceAlwaysConfirms
  \/ tool \in AlwaysConfirms
  \/ Permission[tool] > AutonomyThreshold(level)

ShouldRequestConfirmation(tool, level, source) ==
  IF WantsConfirmation(tool, level, source) THEN ConfirmOrDeny(source) ELSE "allow"

\* The two hard gates of _run_tool, checked before autonomy is consulted.
HardGated(tool, source) ==
  /\ source = "scheduled"
  /\ tool \in RequiresLive \cup UnattendedBlocked

\* Mutant: a tool that autonomy allows is not looked at by the hard gates.
VerdictAutonomyFirst(tool, level, source) == ShouldRequestConfirmation(tool, level, source)

\* What _run_tool does with a call that is not cancelled.
Verdict(tool, level, source) ==
  IF HardGated(tool, source) THEN "deny" ELSE ShouldRequestConfirmation(tool, level, source)

-----------------------------------------------------------------------------

MaxRetries == 2

ErrorKinds == {"transient", "permanent", "unknown"}

\* Mutant: attempts counted from zero.
ShouldRetryOnceMore(tool, error, attempt) ==
  /\ attempt <= MaxRetries
  /\ tool \notin NeverAutoRetry
  /\ error = "transient"

\* attempt is the number of the attempt that just failed, from 1.
ShouldRetry(tool, error, attempt) ==
  /\ attempt < MaxRetries
  /\ tool \notin NeverAutoRetry
  /\ error = "transient"
=============================================================================
