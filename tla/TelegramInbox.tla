---------------------------- MODULE TelegramInbox ----------------------------
(* What the Telegram daemon promises of the messages that reach it, however   *)
(* polls, saves and processes fail: they are handled one at a time, each in   *)
(* its turn, none is passed over, and only a crash takes the daemon back to a *)
(* message it had begun or finished.                                          *)
EXTENDS Integers

CONSTANT MaxUpdates     \* bound: messages that arrive

Updates == 1 .. MaxUpdates

VARIABLES
    arrived,            \* the last message that arrived
    turn,               \* the message that is handled next, or now
    handling,           \* whether it is handled now
    started,            \* message |-> times the agent was started on it
    finished,           \* messages whose handling came to its end
    crashes

vars == <<arrived, turn, handling, started, finished, crashes>>

Init ==
    /\ arrived = 0 /\ turn = 1 /\ handling = FALSE
    /\ started = [u \in Updates |-> 0] /\ finished = {} /\ crashes = 0

Arrive ==
    /\ arrived < MaxUpdates
    /\ arrived' = arrived + 1
    /\ UNCHANGED <<turn, handling, started, finished, crashes>>

\* The agent is started on the message, or it is none for the agent.
Begin ==
    /\ ~handling /\ turn <= arrived
    /\ handling' = TRUE
    /\ started' \in {started, [started EXCEPT ![turn] = @ + 1]}
    /\ UNCHANGED <<arrived, turn, finished, crashes>>

Finish ==
    /\ handling
    /\ handling' = FALSE
    /\ finished' = finished \cup {turn}
    /\ turn' = turn + 1
    /\ UNCHANGED <<arrived, started, crashes>>

\* What was not saved is handled again.
Crash ==
    /\ crashes' = crashes + 1
    /\ handling' = FALSE
    /\ turn' \in 1 .. turn
    /\ UNCHANGED <<arrived, started, finished>>

Next == Arrive \/ Begin \/ Finish \/ Crash

Spec == Init /\ [][Next]_vars
=============================================================================
