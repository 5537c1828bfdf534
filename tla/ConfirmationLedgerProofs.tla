---------------------- MODULE ConfirmationLedgerProofs ----------------------
(***************************************************************************)
(* Theorems of ConfirmationLedger, for any number of calls, conversations, *)
(* questions and ticks.  Where a question's entry is decides everything:   *)
(* it is in the ledger under one key, or in the hands of one call, or used *)
(* up, and never two of these at once (Placed).                            *)
(***************************************************************************)
EXTENDS ConfirmationLedger, TLAPS

\* An entry that can still let a call run belongs to a question that was put,
\* on which nothing has run, and expires a window after it was put.
Usable(e) ==
  /\ e.ticket <= asked
  /\ uses[e.ticket] = 0
  /\ e.expires = askedAt[e.ticket] + Window

\* Every question's entry is in at most one place.
Placed ==
  /\ \A k \in Keys : pending[k] # NoEntry => Usable(pending[k])
  /\ \A c \in Conversations : popped[c] # NoEntry => Usable(popped[c])
  /\ \A k, l \in Keys :
       pending[k] # NoEntry /\ pending[l] # NoEntry /\ k # l
         => pending[k].ticket # pending[l].ticket
  /\ \A c, d \in Conversations :
       popped[c] # NoEntry /\ popped[d] # NoEntry /\ c # d
         => popped[c].ticket # popped[d].ticket
  /\ \A k \in Keys, c \in Conversations :
       pending[k] # NoEntry /\ popped[c] # NoEntry
         => pending[k].ticket # popped[c].ticket

\* What has run, ran once and in time; nothing ran on a question not yet put.
\* A call that is not between the pop and the comparison holds no entry.
Spent ==
  /\ \A t \in Tickets : uses[t] <= 1
  /\ \A t \in Tickets : t > asked => uses[t] = 0
  /\ last # NoEntry => last.ticket <= asked
  /\ \A c \in Conversations : step[c] # "popped" => popped[c] = NoEntry

LedgerInv == TypeOK /\ Placed /\ Spent /\ RunsWithinWindow

\* At the start no entry exists and nothing has run.
LEMMA LedgerInit ==
  ASSUME LedgerAssumption
  PROVE  Init => LedgerInv
  BY DEF LedgerAssumption, Init, LedgerInv, TypeOK, Placed, Spent, RunsWithinWindow, Times, Tickets,
         Steps, Replies

\* The invariant is kept by every step.
LEMMA LedgerStep ==
  ASSUME LedgerAssumption
  PROVE  LedgerInv /\ [Next]_vars => LedgerInv'
<1> SUFFICES ASSUME LedgerInv, [Next]_vars PROVE LedgerInv'
  OBVIOUS
<1>0. /\ Window \in Nat /\ MaxTime \in Nat /\ MaxAsks \in Nat
      /\ NoEntry \notin Entries
  BY DEF LedgerAssumption
<1> USE <1>0 DEF LedgerInv
<1>1. ASSUME NEW c \in Conversations, NEW k \in Keys, Pop(c, k)
      PROVE  LedgerInv'
  <2>1. TypeOK'
    BY <1>1 DEF Pop, TypeOK, historyVars, Steps
  <2>2. Placed'
    BY <1>1 DEF Pop, TypeOK, Placed, Spent, Usable, historyVars
  <2>3. Spent'
    BY <1>1 DEF Pop, TypeOK, Spent, historyVars
  <2>4. RunsWithinWindow'
    BY <1>1 DEF Pop, RunsWithinWindow, historyVars
  <2> QED
    BY <2>1, <2>2, <2>3, <2>4
<1>2. ASSUME NEW c \in Conversations, Run(c)
      PROVE  LedgerInv'
  <2> DEFINE e == popped[c]
  <2>1. /\ e \in Entries
        /\ e.ticket \in Tickets
        /\ Usable(e)
    BY <1>2 DEF Run, Confirmed, TypeOK, Placed, Entries
  <2>2. TypeOK'
    BY <1>2, <2>1 DEF Run, TypeOK, Steps, Runs, Tickets
  <2>3. Placed'
    BY <1>2, <2>1 DEF Run, Confirmed, TypeOK, Placed, Usable, Entries
  <2>4. Spent'
    BY <1>2, <2>1 DEF Run, TypeOK, Spent, Usable, Tickets
  <2>5. RunsWithinWindow'
    <3>1. now <= askedAt[e.ticket] + Window
      BY <1>2, <2>1 DEF Run, Confirmed, Usable
    <3>2. /\ last'.at = now
          /\ last'.ticket = e.ticket
          /\ askedAt' = askedAt
      BY <1>2 DEF Run
    <3> QED
      BY <3>1, <3>2 DEF RunsWithinWindow
  <2> QED
    BY <2>2, <2>3, <2>4, <2>5
<1>3. ASSUME NEW c \in Conversations, Refuse(c)
      PROVE  LedgerInv'
  <2>1. TypeOK'
    BY <1>3 DEF Refuse, TypeOK, historyVars, Steps
  <2>2. Placed'
    BY <1>3 DEF Refuse, TypeOK, Placed, Usable, historyVars
  <2>3. Spent'
    BY <1>3 DEF Refuse, TypeOK, Spent, historyVars
  <2>4. RunsWithinWindow'
    BY <1>3 DEF Refuse, RunsWithinWindow, historyVars
  <2> QED
    BY <2>1, <2>2, <2>3, <2>4
<1>4. ASSUME NEW c \in Conversations, Ask(c)
      PROVE  LedgerInv'
  <2>0. /\ asked + 1 \in Tickets
        /\ asked + 1 > asked
        /\ uses[asked + 1] = 0
        /\ [ticket |-> asked + 1, expires |-> now + Window] \in Entries
        /\ key[c] \in Keys
    BY <1>4 DEF Ask, TypeOK, Spent, Tickets, Times, Entries
  <2>1. PICK e \in Entries : e = [ticket |-> asked + 1, expires |-> now + Window]
    BY <2>0
  <2>2. TypeOK'
    BY <1>4, <2>0, <2>1 DEF Ask, TypeOK, Steps, Tickets
  <2>3. \A k \in Keys : pending'[k] = IF k = key[c] THEN e ELSE pending[k]
    BY <1>4, <2>0, <2>1 DEF Ask, TypeOK
  <2>4. Placed'
    <3>1. \A f \in Entries : Usable(f) => f.ticket # asked + 1 /\ Usable(f)'
      BY <1>4, <2>0, <2>1 DEF Ask, Usable, TypeOK, Entries, Tickets
    <3>2. Usable(e)'
      BY <1>4, <2>0, <2>1 DEF Ask, Usable, TypeOK, Tickets
    <3>3. popped' = popped
      BY <1>4 DEF Ask
    <3> QED
      BY <2>0, <2>1, <2>3, <3>1, <3>2, <3>3 DEF Placed, TypeOK
  <2>5. Spent'
    BY <1>4, <2>0, <2>1 DEF Ask, TypeOK, Spent, Tickets, Runs
  <2>6. RunsWithinWindow'
    BY <1>4, <2>0, <2>1 DEF Ask, RunsWithinWindow, Spent, TypeOK, Tickets, Runs
  <2> QED
    BY <2>2, <2>4, <2>5, <2>6
<1>5. ASSUME NEW t \in Tickets, NEW r \in {"yes", "no"}, Answer(t, r)
      PROVE  LedgerInv'
  <2>1. TypeOK'
    BY <1>5 DEF Answer, TypeOK, ledgerVars, Replies
  <2>2. Placed' /\ Spent' /\ RunsWithinWindow'
    BY <1>5 DEF Answer, Placed, Usable, Spent, RunsWithinWindow, ledgerVars
  <2> QED
    BY <2>1, <2>2
<1>6. ASSUME Tick
      PROVE  LedgerInv'
  <2>1. TypeOK'
    BY <1>6 DEF Tick, TypeOK, ledgerVars, historyVars, Times
  <2>2. Placed' /\ Spent' /\ RunsWithinWindow'
    BY <1>6 DEF Tick, Placed, Usable, Spent, RunsWithinWindow, ledgerVars, historyVars
  <2> QED
    BY <2>1, <2>2
<1>7. ASSUME UNCHANGED vars
      PROVE  LedgerInv'
  BY <1>7 DEF vars, ledgerVars, historyVars, TypeOK, Placed, Usable, Spent, RunsWithinWindow
<1> QED
  BY <1>1, <1>2, <1>3, <1>4, <1>5, <1>6, <1>7 DEF Next

LEMMA LedgerInvariant ==
  ASSUME LedgerAssumption
  PROVE  Spec => []LedgerInv
  BY LedgerInit, LedgerStep, PTL DEF Spec

\* One question lets at most one call run, however the conversations of the
\* process interleave (agent/autonomy.py, is_confirmed).
THEOREM OneRunPerQuestionHolds ==
  ASSUME LedgerAssumption
  PROVE  Spec => []OneRunPerQuestion
<1>1. LedgerInv => OneRunPerQuestion
  BY DEF LedgerInv, Spent, OneRunPerQuestion
<1> QED
  BY <1>1, LedgerInvariant, PTL

\* A call runs only on a question put at most a window before
\* (agent/autonomy.py, CONFIRMATION_WINDOW_SECONDS).
THEOREM RunsWithinWindowHolds ==
  ASSUME LedgerAssumption
  PROVE  Spec => []RunsWithinWindow
<1>1. LedgerInv => RunsWithinWindow
  BY DEF LedgerInv
<1> QED
  BY <1>1, LedgerInvariant, PTL
=============================================================================
