------------------------- MODULE ConfirmationLedger -------------------------
(***************************************************************************)
(* The pending-confirmation ledger of one process (agent/autonomy.py) and  *)
(* the gate of _run_tool that uses it (agent/executor.py), for calls that  *)
(* autonomy wants confirmed.  Conversations are the chat sessions and      *)
(* background threads of that process; they share the ledger, which is a   *)
(* plain dictionary keyed by the call.                                     *)
(*                                                                         *)
(* The model decides when it calls a tool, the user when a question is     *)
(* answered.  Nothing in the code sees that answer: it reaches the model   *)
(* as the next message, and only the ledger entry is checked.              *)
(***************************************************************************)
EXTENDS Integers

CONSTANTS
  Keys,           (* (tool name, input) pairs: _input_key                     *)
  Conversations,  (* request threads of one process                           *)
  Window,         (* CONFIRMATION_WINDOW_SECONDS, in ticks                    *)
  MaxTime,        (* last tick (bound)                                        *)
  MaxAsks,        (* questions asked (bound)                                  *)
  NoEntry

Tickets == 1..MaxAsks
Times   == 0..MaxTime
\* A ledger entry, with the question that created it, which the code forgets.
Entries == [ticket : Tickets, expires : 0..(MaxTime + Window)]

\* What is assumed of the constants.
LedgerAssumption ==
  /\ Window \in Nat
  /\ MaxTime \in Nat
  /\ MaxAsks \in Nat
  /\ NoEntry \notin Entries

VARIABLES
  now,
  pending,   (* _pending: key -> its entry                                    *)
  step,      (* conversation -> where its call is in is_confirmed             *)
  key,       (* conversation -> the key of its current call                   *)
  popped,    (* conversation -> the entry its call took out of the ledger     *)
  \* History variables.
  asked,     (* questions asked so far                                        *)
  askedAt,   (* question -> when it was put                                   *)
  reply,     (* question -> what its user answered                            *)
  uses,      (* question -> how many calls ran on it                          *)
  last       (* the last call that ran: its question and its time             *)

ledgerVars  == <<pending, step, key, popped>>
historyVars == <<asked, askedAt, reply, uses, last>>
vars == <<now, ledgerVars, historyVars>>

Replies == {"none", "yes", "no"}

Init ==
  /\ now = 0
  /\ pending = [k \in Keys |-> NoEntry]
  /\ step = [c \in Conversations |-> "idle"]
  /\ key = [c \in Conversations |-> NoEntry]
  /\ popped = [c \in Conversations |-> NoEntry]
  /\ asked = 0
  /\ askedAt = [t \in Tickets |-> 0]
  /\ reply = [t \in Tickets |-> "none"]
  /\ uses = [t \in Tickets |-> 0]
  /\ last = NoEntry

\* Mutant: the entry is read and stays in the ledger.
Peek(c, k) ==
  /\ step[c] = "idle"
  /\ key' = [key EXCEPT ![c] = k]
  /\ popped' = [popped EXCEPT ![c] = pending[k]]
  /\ step' = [step EXCEPT ![c] = "popped"]
  /\ UNCHANGED <<now, pending, historyVars>>

\* is_confirmed up to the pop, which consumes the entry whatever comes next.
Pop(c, k) ==
  /\ step[c] = "idle"
  /\ key' = [key EXCEPT ![c] = k]
  /\ popped' = [popped EXCEPT ![c] = pending[k]]
  /\ pending' = [pending EXCEPT ![k] = NoEntry]
  /\ step' = [step EXCEPT ![c] = "popped"]
  /\ UNCHANGED <<now, historyVars>>

\* Mutant: an expired entry confirms as well.
FoundEntry(c) == popped[c] # NoEntry

\* What is_confirmed answers, once the entry is out of the ledger.
Confirmed(c) ==
  /\ popped[c] # NoEntry
  /\ now <= popped[c].expires

\* A confirmed call goes on to its tool.
Run(c) ==
  /\ step[c] = "popped"
  /\ Confirmed(c)
  /\ step' = [step EXCEPT ![c] = "idle"]
  /\ popped' = [popped EXCEPT ![c] = NoEntry]
  /\ uses' = [uses EXCEPT ![popped[c].ticket] = @ + 1]
  /\ last' = [ticket |-> popped[c].ticket, at |-> now]
  /\ UNCHANGED <<now, pending, key, asked, askedAt, reply>>

Refuse(c) ==
  /\ step[c] = "popped"
  /\ ~Confirmed(c)
  /\ step' = [step EXCEPT ![c] = "asking"]
  /\ popped' = [popped EXCEPT ![c] = NoEntry]
  /\ UNCHANGED <<now, pending, key, historyVars>>

\* Mutant: the window is added to an expiry that has it already.
AskTwiceTheWindow(c) ==
  /\ step[c] = "asking"
  /\ asked < MaxAsks
  /\ asked' = asked + 1
  /\ pending' = [pending EXCEPT ![key[c]] =
                   [ticket |-> asked + 1, expires |-> now + Window + Window]]
  /\ askedAt' = [askedAt EXCEPT ![asked + 1] = now]
  /\ step' = [step EXCEPT ![c] = "idle"]
  /\ UNCHANGED <<now, key, popped, reply, uses, last>>

\* request_confirmation: a fresh entry, over any other conversation's.
Ask(c) ==
  /\ step[c] = "asking"
  /\ asked < MaxAsks
  /\ asked' = asked + 1
  /\ pending' = [pending EXCEPT ![key[c]] = [ticket |-> asked + 1, expires |-> now + Window]]
  /\ askedAt' = [askedAt EXCEPT ![asked + 1] = now]
  /\ step' = [step EXCEPT ![c] = "idle"]
  /\ UNCHANGED <<now, key, popped, reply, uses, last>>

Answer(t, r) ==
  /\ t <= asked
  /\ reply[t] = "none"
  /\ reply' = [reply EXCEPT ![t] = r]
  /\ UNCHANGED <<now, ledgerVars, asked, askedAt, uses, last>>

Tick ==
  /\ now < MaxTime
  /\ now' = now + 1
  /\ UNCHANGED <<ledgerVars, historyVars>>

Next ==
  \/ \E c \in Conversations :
       \/ \E k \in Keys : Pop(c, k)
       \/ Run(c)
       \/ Refuse(c)
       \/ Ask(c)
  \/ \E t \in Tickets, r \in {"yes", "no"} : Answer(t, r)
  \/ Tick

Spec == Init /\ [][Next]_vars

-----------------------------------------------------------------------------

Steps == {"idle", "popped", "asking"}
Runs  == [ticket : Tickets, at : Times]

\* The variables hold values of their kinds.
TypeOK ==
  /\ now \in Times
  /\ pending \in [Keys -> Entries \cup {NoEntry}]
  /\ step \in [Conversations -> Steps]
  /\ key \in [Conversations -> Keys \cup {NoEntry}]
  /\ \A c \in Conversations : step[c] # "idle" => key[c] \in Keys
  /\ popped \in [Conversations -> Entries \cup {NoEntry}]
  /\ asked \in 0..MaxAsks
  /\ askedAt \in [Tickets -> Times]
  /\ reply \in [Tickets -> Replies]
  /\ uses \in [Tickets -> Nat]
  /\ last \in Runs \cup {NoEntry}

\* One question lets at most one call run, whatever conversations call at the
\* same time: is_confirmed takes the entry out of the ledger before it looks at
\* the clock (agent/autonomy.py, is_confirmed).
OneRunPerQuestion == \A t \in Tickets : uses[t] <= 1

\* A call runs only on a question put at most a window ago, even when the clock
\* moves between the pop and the comparison (agent/autonomy.py, is_confirmed and
\* request_confirmation).
RunsWithinWindow == last # NoEntry => last.at <= askedAt[last.ticket] + Window

\* What the ledger's comment promises: the call that runs is one its user said
\* yes to (agent/autonomy.py, the comment above _pending).  The code does not
\* see the answer, so the model's second call is enough.
RunsOnlyAfterYes == last # NoEntry => reply[last.ticket] = "yes"
=============================================================================
