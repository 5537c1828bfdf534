--------------------------- MODULE TelegramDaemon ----------------------------
(* The inbound Telegram daemon (agent/telegram_daemon.py) with the part of    *)
(* the Bot API it relies on (agent/telegram_bridge.py) and the lock that      *)
(* admits one daemon at a time (agent/telegram_lock.py).                      *)
(*                                                                            *)
(* Updates are numbered as they arrive.  A getUpdates call carries an offset: *)
(* the server forgets every update below it and answers with the rest.  The   *)
(* daemon handles them one by one, moves its offset past each in memory, and  *)
(* saves the offset after each.  A crash may come anywhere.                   *)
EXTENDS Integers, Sequences, SequencesExt

CONSTANTS
    Daemons,            \* processes that are started as the daemon
    PollTimeout,        \* telegram_poll_timeout_seconds
    HttpTimeout,        \* _HTTP_TIMEOUT_SECONDS, what curl waits
    MaxTurns,           \* half of _MAX_HISTORY_MESSAGES: a turn and its answer
    MaxUpdates,         \* bound: updates that arrive
    MaxCrashes          \* bound: crashes

Nobody == "nobody"

ASSUME TelegramAssumption ==
    /\ Nobody \notin Daemons
    /\ PollTimeout \in Nat
    /\ HttpTimeout \in Nat
    /\ MaxTurns \in Nat \ {0}
    /\ MaxUpdates \in Nat
    /\ MaxCrashes \in Nat

Updates == 1 .. MaxUpdates
Offsets == 0 .. MaxUpdates + 1
NoUpdate == 0

\* A message of a stranger or with no text is ignored; one that is not text gets
\* a notice; a reset starts a new conversation; a text goes to the agent.
Kinds == {"ignored", "notice", "reset", "text"}

VARIABLES
    arrived,            \* the last update that arrived
    kind,               \* update |-> its kind
    kept,               \* the server forgot the updates below this one
    disk,               \* the offset in OFFSET_FILE, 0 if there is none
    lock,               \* who holds telegram_daemon.lock
    pc,                 \* where each daemon is
    offset,             \* daemon |-> its offset in memory
    batch,              \* daemon |-> updates of the last answer still to handle
    current,            \* daemon |-> the update it is handling
    history,            \* daemon |-> the turns of the conversation it remembers
    started,            \* history: update |-> times the agent was started on it
    answered,           \* history: updates the agent came back from with a reply
    finished,           \* history: updates whose handling came to its end
    crashes

server == <<arrived, kind, kept>>
memory == <<offset, batch, current, history>>
record == <<started, answered, finished>>
vars == <<server, disk, lock, pc, memory, record, crashes>>

States == {"down", "idle", "waiting", "backoff", "working", "running", "replying", "saving"}

Init ==
    /\ arrived = 0
    /\ kind = [u \in Updates |-> "ignored"]
    /\ kept = 0
    /\ disk = 0
    /\ lock = Nobody
    /\ pc = [d \in Daemons |-> "down"]
    /\ offset = [d \in Daemons |-> 0]
    /\ batch = [d \in Daemons |-> {}]
    /\ current = [d \in Daemons |-> NoUpdate]
    /\ history = [d \in Daemons |-> <<>>]
    /\ started = [u \in Updates |-> 0]
    /\ answered = {}
    /\ finished = {}
    /\ crashes = 0

Goto(d, s) == pc' = [pc EXCEPT ![d] = s]

-----------------------------------------------------------------------------
(* Start and poll.                                                           *)

\* Mutant of Start: a second daemon goes on without the lock.
StartUnlocked(d) ==
    /\ pc[d] = "down"
    /\ lock' = d
    /\ Goto(d, "idle")
    /\ offset' = [offset EXCEPT ![d] = disk]
    /\ UNCHANGED <<server, disk, batch, current, history, record, crashes>>

\* Mutant of Start: the saved offset is taken for the last update handled.
StartPastOffset(d) ==
    /\ pc[d] = "down"
    /\ lock = Nobody
    /\ lock' = d
    /\ Goto(d, "idle")
    /\ offset' = [offset EXCEPT ![d] = IF disk = 0 THEN 0 ELSE disk + 1]
    /\ UNCHANGED <<server, disk, batch, current, history, record, crashes>>

\* acquire_or_exit and load_offset; a second daemon exits.
Start(d) ==
    /\ pc[d] = "down"
    /\ lock = Nobody
    /\ lock' = d
    /\ Goto(d, "idle")
    /\ offset' = [offset EXCEPT ![d] = disk]
    /\ UNCHANGED <<server, disk, batch, current, history, record, crashes>>

\* The server takes an offset as the receipt for everything below it.
Receipt(o) == IF o > kept THEN o ELSE kept

Request(d) ==
    /\ pc[d] = "idle"
    /\ kept' = Receipt(offset[d])
    /\ Goto(d, "waiting")
    /\ UNCHANGED <<arrived, kind, disk, lock, memory, record, crashes>>

\* What the server has for a daemon.
Waiting(d) == {u \in Updates : kept <= u /\ offset[d] <= u /\ u <= arrived}

Answer(d) ==
    /\ pc[d] = "waiting"
    /\ Waiting(d) # {}
    /\ batch' = [batch EXCEPT ![d] = Waiting(d)]
    /\ Goto(d, "working")
    /\ UNCHANGED <<server, disk, lock, offset, current, history, record, crashes>>

\* Nothing came.  The server would answer so after PollTimeout, but curl gives up
\* after HttpTimeout, which get_updates reports as an error.
IdlePoll(d) ==
    /\ pc[d] = "waiting"
    /\ Waiting(d) = {}
    /\ Goto(d, IF PollTimeout < HttpTimeout THEN "idle" ELSE "backoff")
    /\ UNCHANGED <<server, disk, lock, memory, record, crashes>>

\* TelegramError: the call did not reach the server, or its answer got lost.
PollFails(d) ==
    /\ pc[d] \in {"idle", "waiting"}
    /\ Goto(d, "backoff")
    /\ UNCHANGED <<server, disk, lock, memory, record, crashes>>

Retry(d) ==
    /\ pc[d] = "backoff"
    /\ Goto(d, "idle")
    /\ UNCHANGED <<server, disk, lock, memory, record, crashes>>

-----------------------------------------------------------------------------
(* One update: run_forever's inner loop and _handle_message.                 *)

\* A batch comes in order.
IsFirst(d, u) == u \in batch[d] /\ \A v \in batch[d] : u <= v

Handle(d, u) ==
    \/ /\ kind[u] = "ignored"
       /\ Goto(d, "saving")
       /\ UNCHANGED <<history, started>>
    \/ /\ kind[u] = "notice"
       /\ Goto(d, "replying")
       /\ UNCHANGED <<history, started>>
    \/ /\ kind[u] = "reset"
       /\ history' = [history EXCEPT ![d] = <<>>]
       /\ Goto(d, "replying")
       /\ UNCHANGED started
    \/ /\ kind[u] = "text"
       /\ history' = [history EXCEPT ![d] = Append(@, u)]
       /\ started' = [started EXCEPT ![u] = @ + 1]
       /\ Goto(d, "running")

\* Mutant of Take: the offset is saved before the handling.
TakeSaved(d, u) ==
    /\ pc[d] = "working"
    /\ IsFirst(d, u)
    /\ offset' = [offset EXCEPT ![d] = u + 1]
    /\ disk' = u + 1
    /\ batch' = [batch EXCEPT ![d] = @ \ {u}]
    /\ current' = [current EXCEPT ![d] = u]
    /\ Handle(d, u)
    /\ UNCHANGED <<server, lock, answered, finished, crashes>>

Take(d, u) ==
    /\ pc[d] = "working"
    /\ IsFirst(d, u)
    /\ offset' = [offset EXCEPT ![d] = u + 1]
    /\ batch' = [batch EXCEPT ![d] = @ \ {u}]
    /\ current' = [current EXCEPT ![d] = u]
    /\ Handle(d, u)
    /\ UNCHANGED <<server, disk, lock, answered, finished, crashes>>

\* Mutant of Bounded: nothing is dropped.
Unbounded(h) == h

\* _bound drops the oldest turns.
Bounded(h) == IF Len(h) > MaxTurns THEN Tail(h) ELSE h

AgentReturns(d) ==
    /\ pc[d] = "running"
    /\ answered' = answered \cup {current[d]}
    /\ history' = [history EXCEPT ![d] = Bounded(@)]
    /\ Goto(d, "replying")
    /\ UNCHANGED <<server, disk, lock, offset, batch, current, started, finished, crashes>>

\* Mutant of AgentRaises: the turn that produced nothing is kept.
AgentRaisesKept(d) ==
    /\ pc[d] = "running"
    /\ Goto(d, "replying")
    /\ UNCHANGED <<server, disk, lock, memory, record, crashes>>

\* The turn is forgotten and the owner gets an apology.
AgentRaises(d) ==
    /\ pc[d] = "running"
    /\ history' = [history EXCEPT ![d] = Front(@)]
    /\ Goto(d, "replying")
    /\ UNCHANGED <<server, disk, lock, offset, batch, current, record, crashes>>

\* send_message reports a failure in its result, which nobody reads.
Reply(d) ==
    /\ pc[d] = "replying"
    /\ Goto(d, "saving")
    /\ UNCHANGED <<server, disk, lock, memory, record, crashes>>

\* save_offset after each update; a failed write is logged and forgotten.
Save(d) ==
    /\ pc[d] = "saving"
    /\ disk' \in {disk, offset[d]}
    /\ finished' = finished \cup {current[d]}
    /\ current' = [current EXCEPT ![d] = NoUpdate]
    /\ Goto(d, IF batch[d] = {} THEN "idle" ELSE "working")
    /\ UNCHANGED <<server, lock, offset, batch, history, started, answered, crashes>>

-----------------------------------------------------------------------------

Arrive(k) ==
    /\ arrived < MaxUpdates
    /\ arrived' = arrived + 1
    /\ kind' = [kind EXCEPT ![arrived + 1] = k]
    /\ UNCHANGED <<kept, disk, lock, pc, memory, record, crashes>>

\* The kernel gives the lock back; memory is lost, OFFSET_FILE stays.
Crash(d) ==
    /\ pc[d] # "down"
    /\ crashes < MaxCrashes
    /\ crashes' = crashes + 1
    /\ Goto(d, "down")
    /\ lock' = IF lock = d THEN Nobody ELSE lock
    /\ offset' = [offset EXCEPT ![d] = 0]
    /\ batch' = [batch EXCEPT ![d] = {}]
    /\ current' = [current EXCEPT ![d] = NoUpdate]
    /\ history' = [history EXCEPT ![d] = <<>>]
    /\ UNCHANGED <<server, disk, record>>

Loop(d) ==
    \/ IdlePoll(d) \/ PollFails(d) \/ Retry(d)
    \/ \E u \in Updates : Take(d, u)
    \/ AgentReturns(d) \/ AgentRaises(d) \/ Reply(d) \/ Save(d)

Next ==
    \/ \E d \in Daemons : Start(d) \/ Request(d) \/ Answer(d) \/ Loop(d) \/ Crash(d)
    \/ \E k \in Kinds : Arrive(k)

Spec == Init /\ [][Next]_vars

\* A daemon that is up keeps running, the agent and the calls return or raise,
\* and a poll that keeps being made reaches the server and is answered at last.
Fairness ==
    \A d \in Daemons : WF_vars(Loop(d)) /\ SF_vars(Request(d)) /\ SF_vars(Answer(d))
FairSpec == Spec /\ Fairness

-----------------------------------------------------------------------------
(* What it is to the owner of the messages.  The update whose turn it is: the *)
(* one at hand, or the first that the next poll will bring, which begins at   *)
(* the offset in memory, or at the saved one while no daemon is up.           *)

Handling == lock # Nobody /\ current[lock] # NoUpdate
NextOffset == Receipt(IF lock = Nobody THEN disk ELSE offset[lock])
Turn ==
    IF Handling THEN current[lock]
    ELSE IF NextOffset = 0 THEN 1 ELSE NextOffset

Inbox == INSTANCE TelegramInbox WITH turn <- Turn, handling <- Handling

-----------------------------------------------------------------------------
(* Properties.                                                               *)

\* Every variable keeps its type.
TypeOK ==
    /\ arrived \in 0 .. MaxUpdates
    /\ kind \in [Updates -> Kinds]
    /\ kept \in Offsets
    /\ disk \in Offsets
    /\ lock \in Daemons \cup {Nobody}
    /\ pc \in [Daemons -> States]
    /\ offset \in [Daemons -> Offsets]
    /\ batch \in [Daemons -> SUBSET Updates]
    /\ current \in [Daemons -> Updates \cup {NoUpdate}]
    /\ history \in [Daemons -> Seq(Updates)]
    /\ \A d \in Daemons : Len(history[d]) <= MaxTurns + 1
    /\ started \in [Updates -> Nat]
    /\ answered \subseteq Updates
    /\ finished \subseteq Updates
    /\ crashes \in 0 .. MaxCrashes

\* The server forgets an update only after it was handled to its end, although
\* the offset moves before the handling, crashes lose it and saves fail.
\* (run_forever: the offset is saved after each update and sent with the next
\* poll, which comes after the whole batch.)
NothingSkipped == \A u \in Updates : u < kept => u \in finished

\* The agent is started again on a message only because of a crash: never by a
\* lost answer, a failed save, or a second daemon.  (telegram_lock, and the
\* offset in memory.)
StartedAgainOnlyByCrash == \A u \in Updates : started[u] <= 1 + crashes

\* The messages are handled one at a time and in order; only a crash takes the
\* daemon back, never a lost answer, a failed save or poll, or a second daemon.
\* (run_forever, save_offset and telegram_lock together.)
ImplementsInbox == Inbox!Spec

\* Between messages the conversation holds only turns that got an answer.
\* (_handle_message: history.pop() when the agent raises.)
HistoryIsAnswered ==
    \A d \in Daemons : pc[d] # "running" => ToSet(history[d]) \subseteq answered

\* As long as some daemon stays up from some time on, every message is handled.
\* (run_forever: no failure of a poll, of the agent or of a reply ends the loop.)
ArrivedIsFinished ==
    <>[](\E d \in Daemons : pc[d] # "down")
        => \A u \in Updates : u <= arrived ~> u \in finished

=============================================================================
