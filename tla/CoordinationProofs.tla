------------------------- MODULE CoordinationProofs -------------------------
(***************************************************************************)
(* Theorems of Coordination, for any threads, processes, requests and      *)
(* bounds.  Each component of the sum takes its own steps only, so an      *)
(* invariant of the component is one of the sum where `part` names it.     *)
(***************************************************************************)
EXTENDS Coordination, SequenceTheorems, TLAPS

StopProofs == INSTANCE CancellationProofs WITH Processes <- Hosts
LedgerProofs == INSTANCE ConfirmationLedgerProofs

StopInv == part = "stop" => StopProofs!CancelInv
LedgerInv == part = "ledger" => LedgerProofs!LedgerInv

\* No step goes over from one component to another.
LEMMA PartIsKept == [Next]_vars => part' = part
  BY DEF Next, StopStep, LedgerStep, EmailStep, BrowserStep, vars

----------------------------------------------------------------------------
(* The cancellation of a request. *)

LEMMA StopSteps ==
  /\ Stop!Init => StopProofs!Init
  /\ Stop!Next => StopProofs!Next
  /\ StopProofs!MarkersAreKept <=> Stop!MarkersAreKept
  /\ StopProofs!EndedIsNotAdvertised <=> Stop!EndedIsNotAdvertised
  BY DEF
    Stop!Init, Stop!Next, Stop!MarkersAreKept, Stop!EndedIsNotAdvertised,
    Stop!requestVars, Stop!childVars, Stop!diskVars, Stop!callerVars, Stop!Idle, Stop!Goto,
    Stop!Advertise, Stop!Enter, Stop!AdvertisePlanning, Stop!Register, Stop!AdvertiseThinking,
    Stop!Escape, Stop!See, Stop!Unregister, Stop!ClearMarker, Stop!ResetToIdle, Stop!Consult,
    Stop!Launch, Stop!Poll, Stop!ChildEnds, Stop!Call, Stop!Caller, Stop!Local, Stop!CancelActive,
    Stop!NotLocal, Stop!SameId, Stop!Busy, Stop!Refuse, Stop!WriteMarker, Stop!Crash,
    StopProofs!Init, StopProofs!Next, StopProofs!MarkersAreKept, StopProofs!EndedIsNotAdvertised,
    StopProofs!requestVars, StopProofs!childVars, StopProofs!diskVars, StopProofs!callerVars,
    StopProofs!Idle, StopProofs!Goto, StopProofs!Advertise, StopProofs!Enter,
    StopProofs!AdvertisePlanning, StopProofs!Register, StopProofs!AdvertiseThinking,
    StopProofs!Escape, StopProofs!See, StopProofs!Unregister, StopProofs!ClearMarker,
    StopProofs!ResetToIdle, StopProofs!Consult, StopProofs!Launch, StopProofs!Poll,
    StopProofs!ChildEnds, StopProofs!Call, StopProofs!Caller, StopProofs!Local,
    StopProofs!CancelActive, StopProofs!NotLocal, StopProofs!SameId, StopProofs!Busy,
    StopProofs!Refuse, StopProofs!WriteMarker, StopProofs!Crash

LEMMA StopInvariant == Spec => []StopInv
<1>0. StopProofs!CancellationAssumption
  BY CoordinationAssumption
     DEF CoordinationAssumption, Stop!CancellationAssumption, StopProofs!CancellationAssumption
<1>1. Init => StopInv
  <2>1. StopProofs!Init => StopProofs!CancelInv
    BY <1>0, StopProofs!CancelInit
  <2> QED
    BY <2>1, StopSteps DEF Init, StopInv
<1>2. StopInv /\ [Next]_vars => StopInv'
  <2>1. StopProofs!CancelInv /\ [StopProofs!Next]_(StopProofs!vars) => StopProofs!CancelInv'
    BY <1>0, StopProofs!CancelStep
  <2> SUFFICES ASSUME StopInv, [Next]_vars, part = "stop" PROVE StopProofs!CancelInv'
    BY PartIsKept DEF StopInv
  <2>2. CASE Next
    BY <2>1, <2>2, StopSteps DEF Next, StopStep, LedgerStep, EmailStep, BrowserStep, StopInv
  <2>3. CASE UNCHANGED vars
    <3>1. UNCHANGED StopProofs!vars
      BY <2>3 DEF vars, stopOnly, shared, StopProofs!vars, StopProofs!requestVars,
                  StopProofs!childVars, StopProofs!diskVars, StopProofs!callerVars
    <3> QED
      BY <2>1, <3>1 DEF StopInv
  <2> QED
    BY <2>2, <2>3
<1> QED
  BY <1>1, <1>2, PTL DEF Spec

\* The slot does not stay busy with a request whose cleanup has finished.
THEOREM EndedIsNotAdvertisedHolds == Spec => []EndedIsNotAdvertised
<1>1. StopInv => EndedIsNotAdvertised
  BY StopSteps
     DEF StopInv, EndedIsNotAdvertised, StopProofs!CancelInv, StopProofs!Shown,
         StopProofs!EndedIsNotAdvertised
<1> QED
  BY <1>1, StopInvariant, PTL

\* Only the request's own cleanup takes away a cancel that was put down for it.
THEOREM CancelIsKeptHolds == Spec => CancelIsKept
<1>0. StopProofs!CancellationAssumption
  BY CoordinationAssumption
     DEF CoordinationAssumption, Stop!CancellationAssumption, StopProofs!CancellationAssumption
<1>1. StopInv /\ [Next]_vars => [(part = "stop") => Stop!MarkersAreKept]_vars
  <2>1. StopProofs!CancelInv /\ [StopProofs!Next]_(StopProofs!vars)
          => [StopProofs!MarkersAreKept]_(StopProofs!vars)
    BY <1>0, StopProofs!MarkersStep
  <2> SUFFICES ASSUME StopInv, Next, part = "stop" PROVE Stop!MarkersAreKept
    OBVIOUS
  <2>2. Stop!Next
    BY DEF Next, StopStep, LedgerStep, EmailStep, BrowserStep
  <2>3. UNCHANGED StopProofs!vars => StopProofs!MarkersAreKept
    BY DEF StopProofs!vars, StopProofs!diskVars, StopProofs!MarkersAreKept
  <2> QED
    BY <2>1, <2>2, <2>3, StopSteps DEF StopInv
<1> QED
  BY <1>1, StopInvariant, PTL DEF Spec, CancelIsKept

----------------------------------------------------------------------------
(* The confirmation ledger. *)

LEMMA LedgerSteps ==
  /\ Ledger!Init => LedgerProofs!Init
  /\ Ledger!Next => LedgerProofs!Next
  /\ LedgerProofs!OneRunPerQuestion <=> Ledger!OneRunPerQuestion
  BY DEF
    Ledger!Init, Ledger!Next, Ledger!OneRunPerQuestion, Ledger!ledgerVars, Ledger!historyVars,
    Ledger!Tickets, Ledger!Pop, Ledger!Confirmed, Ledger!Run, Ledger!Refuse, Ledger!Ask,
    Ledger!Answer, Ledger!Tick,
    LedgerProofs!Init, LedgerProofs!Next, LedgerProofs!OneRunPerQuestion,
    LedgerProofs!ledgerVars, LedgerProofs!historyVars, LedgerProofs!Tickets, LedgerProofs!Pop,
    LedgerProofs!Confirmed, LedgerProofs!Run, LedgerProofs!Refuse, LedgerProofs!Ask,
    LedgerProofs!Answer, LedgerProofs!Tick

LEMMA LedgerInvariant == Spec => []LedgerInv
<1>0. LedgerProofs!LedgerAssumption
  BY CoordinationAssumption
     DEF CoordinationAssumption, Ledger!LedgerAssumption, LedgerProofs!LedgerAssumption,
         Ledger!Entries, Ledger!Tickets, LedgerProofs!Entries, LedgerProofs!Tickets
<1>1. Init => LedgerInv
  <2>1. LedgerProofs!Init => LedgerProofs!LedgerInv
    BY <1>0, LedgerProofs!LedgerInit
  <2> QED
    BY <2>1, LedgerSteps DEF Init, LedgerInv
<1>2. LedgerInv /\ [Next]_vars => LedgerInv'
  <2>1. LedgerProofs!LedgerInv /\ [LedgerProofs!Next]_(LedgerProofs!vars) => LedgerProofs!LedgerInv'
    BY <1>0, LedgerProofs!LedgerStep
  <2> SUFFICES ASSUME LedgerInv, [Next]_vars, part = "ledger" PROVE LedgerProofs!LedgerInv'
    BY PartIsKept DEF LedgerInv
  <2>2. CASE Next
    BY <2>1, <2>2, LedgerSteps DEF Next, StopStep, LedgerStep, EmailStep, BrowserStep, LedgerInv
  <2>3. CASE UNCHANGED vars
    <3>1. UNCHANGED LedgerProofs!vars
      BY <2>3 DEF vars, ledgerOnly, shared, LedgerProofs!vars, LedgerProofs!ledgerVars,
                  LedgerProofs!historyVars
    <3> QED
      BY <2>1, <3>1 DEF LedgerInv
  <2> QED
    BY <2>2, <2>3
<1> QED
  BY <1>1, <1>2, PTL DEF Spec

\* No question lets two calls run.
THEOREM OneRunPerQuestionHolds == Spec => []OneRunPerQuestion
<1>1. LedgerInv => OneRunPerQuestion
  BY LedgerSteps
     DEF LedgerInv, OneRunPerQuestion, LedgerProofs!LedgerInv, LedgerProofs!Spent,
         LedgerProofs!OneRunPerQuestion
<1> QED
  BY <1>1, LedgerInvariant, PTL

----------------------------------------------------------------------------
(* The e-mail draft. *)

Jobs == [to : Recipients \cup {Email!Nobody}, message : Email!Messages \cup {Email!NoMessage}]

MailTyped ==
  /\ mode \in [Drafters -> {"idle", "drafted", "asked", "matched", "fresh", "taken", "cleared"}]
  /\ job \in [Drafters -> Jobs]
  /\ made \in 0 .. MaxMessages
  /\ used \in [1 .. MaxMessages -> Nat]
  /\ pending = Email!NoRecord \/ pending.message \in Email!Messages

\* A draft that has no record yet: nobody has taken it, and it is not the pending one.
Drafted ==
  \A t \in Drafters : mode[t] = "drafted" =>
    /\ job[t].message \in Email!Messages
    /\ job[t].message.id <= made
    /\ used[job[t].message.id] = 0
    /\ pending # Email!NoRecord => pending.message.id # job[t].message.id
    /\ \A u \in Drafters \ {t} : mode[u] = "drafted" => job[u].message.id # job[t].message.id

\* A pending record that has been taken is still being cleared, or two have raced for it.
Pending ==
  pending # Email!NoRecord =>
    /\ pending.message.id <= made
    /\ used[pending.message.id] > 0 /\ pending.message.id \notin raced =>
         \E u \in Drafters : mode[u] = "taken" /\ job[u].message = pending.message

Unmade == \A i \in 1 .. MaxMessages : i > made => used[i] = 0

MailParts == MailTyped /\ Drafted /\ Pending /\ Unmade /\ Email!OneSendPerDraft
MailInv == part = "email" => MailParts

LEMMA MailConstants == Window \in Nat /\ MaxTime \in Nat /\ MaxMessages \in Nat
  BY CoordinationAssumption DEF CoordinationAssumption, Email!BoundsAssumption

LEMMA IdleTyped ==
  /\ Email!Idle \in Jobs
  /\ \A j \in Jobs : j.message \in Email!Messages \cup {Email!NoMessage}
  /\ \A to \in Recipients, m \in Email!Messages \cup {Email!NoMessage} : [to |-> to, message |-> m] \in Jobs
  /\ \A j \in Jobs, m \in Email!Messages : [j EXCEPT !.message = m] \in Jobs
  BY DEF Email!Idle, Jobs

LEMMA MailStart == Email!Init => MailParts
<1> SUFFICES ASSUME Email!Init PROVE MailParts
  OBVIOUS
<1>1. MailTyped
  BY MailConstants, IdleTyped DEF Email!Init, MailTyped
<1> QED
  BY <1>1, MailConstants DEF Email!Init, MailParts, Drafted, Pending, Unmade, Email!OneSendPerDraft

LEMMA MailDraft ==
  ASSUME MailParts, NEW t \in Drafters, NEW to \in Recipients, NEW s \in Subjects, Email!Draft(t, to, s)
  PROVE  MailParts'
<1> USE MailConstants DEF MailParts
<1> DEFINE m == [id |-> made + 1, to |-> to, subject |-> s]
<1>0. /\ mode[t] = "idle" /\ made < MaxMessages /\ made' = made + 1
      /\ job' = [job EXCEPT ![t] = [to |-> to, message |-> m]]
      /\ mode' = [mode EXCEPT ![t] = "drafted"]
      /\ UNCHANGED <<pending, used, raced>>
  BY DEF Email!Draft, Email!GoTo
<1>m. m \in Email!Messages /\ m.id = made + 1
  BY <1>0 DEF MailTyped, Email!Messages
<1> HIDE DEF m
<1>1. MailTyped'
  BY <1>0, <1>m, IdleTyped DEF MailTyped
<1>2. Drafted'
  BY <1>0, <1>m DEF Drafted, MailTyped, Pending, Unmade, Email!Messages
<1>3. Pending'
  BY <1>0 DEF Pending, MailTyped, Email!Messages
<1>4. Unmade'
  BY <1>0 DEF Unmade, MailTyped
<1>5. Email!OneSendPerDraft'
  BY <1>0 DEF Email!OneSendPerDraft
<1> QED
  BY <1>1, <1>2, <1>3, <1>4, <1>5

LEMMA MailPend ==
  ASSUME MailParts, NEW t \in Drafters, Email!Pend(t)
  PROVE  MailParts'
<1> USE MailConstants DEF MailParts
<1>0. /\ mode[t] = "drafted"
      /\ pending'.message = job[t].message
      /\ job' = [job EXCEPT ![t] = Email!Idle]
      /\ mode' = [mode EXCEPT ![t] = "idle"]
      /\ UNCHANGED <<made, used, raced>>
  BY DEF Email!Pend, Email!GoIdle, Email!GoTo
<1>m. /\ job[t].message \in Email!Messages /\ job[t].message.id <= made
      /\ used[job[t].message.id] = 0
      /\ \A u \in Drafters \ {t} : mode[u] = "drafted" => job[u].message.id # job[t].message.id
  BY <1>0 DEF Drafted
<1>1. MailTyped'
  BY <1>0, <1>m, IdleTyped DEF MailTyped
<1>2. Drafted'
  BY <1>0, <1>m DEF Drafted, MailTyped
<1>3. Pending'
  BY <1>0, <1>m DEF Pending
<1>4. Unmade'
  BY <1>0 DEF Unmade
<1>5. Email!OneSendPerDraft'
  BY <1>0 DEF Email!OneSendPerDraft
<1> QED
  BY <1>1, <1>2, <1>3, <1>4, <1>5

LEMMA MailSend ==
  ASSUME MailParts, NEW t \in Drafters, NEW to \in Recipients, Email!Send(t, to)
  PROVE  MailParts'
<1> USE MailConstants DEF MailParts
<1>1. MailTyped'
  BY IdleTyped DEF Email!Send, Email!GoTo,
         MailTyped
<1>2. Drafted'
  BY DEF Email!Send, Email!GoTo,
         Drafted, MailTyped, Pending, Unmade, Email!Messages
<1>3. Pending'
  BY DEF Email!Send, Email!GoTo,
         Pending, Drafted, MailTyped, Email!Messages
<1>4. Unmade'
  BY DEF Email!Send, Email!GoTo,
         Unmade, Pending, MailTyped, Email!Messages
<1>5. Email!OneSendPerDraft'
  BY DEF Email!Send, Email!GoTo,
         Email!OneSendPerDraft, Pending, MailTyped, Email!Messages
<1> QED
  BY <1>1, <1>2, <1>3, <1>4, <1>5

LEMMA MailMatchRecipient ==
  ASSUME MailParts, NEW t \in Drafters, Email!MatchRecipient(t)
  PROVE  MailParts'
<1> USE MailConstants DEF MailParts
<1>0. /\ mode[t] = "asked"
      /\ \/ job' = [job EXCEPT ![t] = Email!Idle] /\ mode' = [mode EXCEPT ![t] = "idle"]
         \/ job' = job /\ mode' = [mode EXCEPT ![t] = "matched"]
      /\ UNCHANGED <<pending, made, used, raced>>
  BY DEF Email!MatchRecipient, Email!GoIdle, Email!GoTo
<1>m. \A u \in Drafters : mode'[u] \in {"drafted", "taken"} =>
          mode[u] = mode'[u] /\ u # t /\ job'[u] = job[u]
  BY <1>0 DEF MailTyped
<1>n. \A u \in Drafters : mode[u] \in {"drafted", "taken"} => mode'[u] = mode[u] /\ job'[u] = job[u]
  BY <1>0 DEF MailTyped
<1>1. MailTyped'
  BY <1>0, IdleTyped DEF MailTyped
<1>2. Drafted'
  BY <1>0, <1>m DEF Drafted
<1>3. Pending'
  BY <1>0, <1>n DEF Pending
<1>4. Unmade'
  BY <1>0 DEF Unmade
<1>5. Email!OneSendPerDraft'
  BY <1>0 DEF Email!OneSendPerDraft
<1> QED
  BY <1>1, <1>2, <1>3, <1>4, <1>5

LEMMA MailCheckExpiry ==
  ASSUME MailParts, NEW t \in Drafters, Email!CheckExpiry(t)
  PROVE  MailParts'
<1> USE MailConstants DEF MailParts
<1>0. /\ mode[t] = "matched"
      /\ \/ job' = [job EXCEPT ![t] = Email!Idle] /\ mode' = [mode EXCEPT ![t] = "idle"]
         \/ job' = job /\ mode' = [mode EXCEPT ![t] = "fresh"]
      /\ pending' = pending \/ pending' = Email!NoRecord
      /\ UNCHANGED <<made, used, raced>>
  BY DEF Email!CheckExpiry, Email!GoIdle, Email!GoTo
<1>m. \A u \in Drafters : mode'[u] \in {"drafted", "taken"} =>
          mode[u] = mode'[u] /\ u # t /\ job'[u] = job[u]
  BY <1>0 DEF MailTyped
<1>n. \A u \in Drafters : mode[u] \in {"drafted", "taken"} => mode'[u] = mode[u] /\ job'[u] = job[u]
  BY <1>0 DEF MailTyped
<1>1. MailTyped'
  BY <1>0, IdleTyped DEF MailTyped
<1>2. Drafted'
  BY <1>0, <1>m DEF Drafted
<1>3. Pending'
  BY <1>0, <1>n DEF Pending
<1>4. Unmade'
  BY <1>0 DEF Unmade
<1>5. Email!OneSendPerDraft'
  BY <1>0 DEF Email!OneSendPerDraft
<1> QED
  BY <1>1, <1>2, <1>3, <1>4, <1>5

LEMMA MailTakeSubject ==
  ASSUME MailParts, NEW t \in Drafters, Email!TakeSubject(t)
  PROVE  MailParts'
<1> USE MailConstants DEF MailParts
<1>1. CASE pending = Email!NoRecord
  <2>0. /\ mode[t] = "fresh"
        /\ job' = [job EXCEPT ![t] = Email!Idle] /\ mode' = [mode EXCEPT ![t] = "idle"]
        /\ UNCHANGED <<pending, made, used, raced>>
    BY <1>1 DEF Email!TakeSubject, Email!GoIdle, Email!GoTo
  <2>1. MailTyped'
    BY <2>0, IdleTyped DEF MailTyped
  <2>2. \A u \in Drafters : mode'[u] = "drafted" => mode[u] = "drafted" /\ job'[u] = job[u]
    BY <2>0 DEF MailTyped
  <2> QED
    BY <1>1, <2>0, <2>1, <2>2 DEF Drafted, Pending, Unmade, Email!OneSendPerDraft
<1>2. CASE pending # Email!NoRecord
  <2> DEFINE i == pending.message.id
  <2>0. /\ mode[t] = "fresh"
        /\ job' = [job EXCEPT ![t].message = pending.message]
        /\ mode' = [mode EXCEPT ![t] = "taken"]
        /\ used' = [used EXCEPT ![i] = used[i] + 1]
        /\ raced \subseteq raced'
        /\ (\E u \in Drafters : mode[u] = "taken" /\ job[u].message = pending.message) => i \in raced'
        /\ UNCHANGED <<pending, made>>
    BY <1>2 DEF Email!TakeSubject, Email!GoIdle, Email!GoTo
  <2>i. pending.message \in Email!Messages /\ i \in 1 .. MaxMessages /\ i <= made
    BY <1>2 DEF MailTyped, Pending, Email!Messages
  <2>j. job'[t].message = pending.message /\ \A u \in Drafters \ {t} : job'[u] = job[u] /\ mode'[u] = mode[u]
    BY <2>0 DEF MailTyped, Jobs
  <2>k. mode'[t] = "taken"
    BY <2>0 DEF MailTyped
  <2>1. MailTyped'
    <3>1. job' \in [Drafters -> Jobs]
      BY <2>0, <2>i, IdleTyped DEF MailTyped
    <3>2. used' \in [1 .. MaxMessages -> Nat]
      BY <2>0, <2>i DEF MailTyped
    <3> QED
      BY <2>0, <3>1, <3>2 DEF MailTyped
  <2> HIDE DEF i
  <2>2. Drafted'
    <3> SUFFICES ASSUME NEW u \in Drafters, mode'[u] = "drafted"
                 PROVE  /\ job'[u].message \in Email!Messages
                        /\ job'[u].message.id <= made'
                        /\ used'[job'[u].message.id] = 0
                        /\ pending'.message.id # job'[u].message.id
                        /\ \A v \in Drafters \ {u} :
                             mode'[v] = "drafted" => job'[v].message.id # job'[u].message.id
      BY <2>0 DEF Drafted
    <3>1. u # t /\ mode[u] = "drafted" /\ job'[u] = job[u]
      BY <2>j, <2>k
    <3>2. /\ job[u].message \in Email!Messages /\ job[u].message.id \in 1 .. MaxMessages
          /\ job[u].message.id <= made /\ used[job[u].message.id] = 0
          /\ i # job[u].message.id
      BY <1>2, <3>1 DEF Drafted, Email!Messages, i
    <3>3. used'[job[u].message.id] = 0
      BY <2>0, <2>i, <3>2 DEF MailTyped
    <3>4. \A v \in Drafters \ {u} : mode'[v] = "drafted" => job'[v].message.id # job'[u].message.id
      BY <2>j, <2>k, <3>1 DEF Drafted
    <3> QED
      BY <2>0, <3>1, <3>2, <3>3, <3>4 DEF i
  <2>3. Pending'
    BY <2>0, <2>i, <2>j, <2>k DEF Pending, i
  <2>4. Unmade'
    BY <2>0, <2>i DEF Unmade, MailTyped
  <2>5. Email!OneSendPerDraft'
    <3>1. used[i] > 0 => i \in raced'
      BY <1>2, <2>0 DEF Pending, i
    <3>2. used'[i] > 1 => used[i] > 0
      BY <2>0, <2>i DEF MailTyped
    <3> QED
      BY <2>0, <2>i, <3>1, <3>2 DEF Email!OneSendPerDraft, MailTyped
  <2> QED
    BY <2>1, <2>2, <2>3, <2>4, <2>5
<1> QED
  BY <1>1, <1>2

LEMMA MailClear ==
  ASSUME MailParts, NEW t \in Drafters, Email!Clear(t)
  PROVE  MailParts'
<1> USE MailConstants DEF MailParts
<1>1. MailTyped'
  BY IdleTyped DEF Email!Clear, Email!GoTo,
         MailTyped
<1>2. Drafted'
  BY DEF Email!Clear, Email!GoTo,
         Drafted, MailTyped, Pending, Unmade, Email!Messages
<1>3. Pending'
  BY DEF Email!Clear, Email!GoTo,
         Pending, Drafted, MailTyped, Email!Messages
<1>4. Unmade'
  BY DEF Email!Clear, Email!GoTo,
         Unmade, Pending, MailTyped, Email!Messages
<1>5. Email!OneSendPerDraft'
  BY DEF Email!Clear, Email!GoTo,
         Email!OneSendPerDraft, Pending, MailTyped, Email!Messages
<1> QED
  BY <1>1, <1>2, <1>3, <1>4, <1>5

LEMMA MailRunScript ==
  ASSUME MailParts, NEW t \in Drafters, Email!RunScript(t)
  PROVE  MailParts'
<1> USE MailConstants DEF MailParts
<1>1. MailTyped'
  BY IdleTyped DEF Email!RunScript, Email!GoIdle, Email!GoTo,
         MailTyped
<1>2. Drafted'
  BY DEF Email!RunScript, Email!GoIdle, Email!GoTo, Email!Idle,
         Drafted, MailTyped, Pending, Unmade, Email!Messages
<1>3. Pending'
  BY DEF Email!RunScript, Email!GoIdle, Email!GoTo, Email!Idle,
         Pending, Drafted, MailTyped, Email!Messages
<1>4. Unmade'
  BY DEF Email!RunScript, Email!GoIdle, Email!GoTo, Email!Idle,
         Unmade, Pending, MailTyped, Email!Messages
<1>5. Email!OneSendPerDraft'
  BY DEF Email!RunScript, Email!GoIdle, Email!GoTo, Email!Idle,
         Email!OneSendPerDraft, Pending, MailTyped, Email!Messages
<1> QED
  BY <1>1, <1>2, <1>3, <1>4, <1>5

LEMMA MailWorld ==
  ASSUME MailParts, Email!CloseByHand \/ Email!Tick
  PROVE  MailParts'
<1> USE MailConstants DEF MailParts
<1>0. UNCHANGED <<pending, mode, job, made, used, raced>>
  BY DEF Email!CloseByHand, Email!Tick
<1>1. MailTyped'
  BY <1>0 DEF MailTyped
<1>2. Drafted'
  BY <1>0 DEF Drafted
<1>3. Pending'
  BY <1>0 DEF Pending
<1>4. Unmade'
  BY <1>0 DEF Unmade
<1>5. Email!OneSendPerDraft'
  BY <1>0 DEF Email!OneSendPerDraft
<1> QED
  BY <1>1, <1>2, <1>3, <1>4, <1>5

LEMMA MailSteps == MailParts /\ [Email!Next]_(Email!vars) => MailParts'
<1> SUFFICES ASSUME MailParts, [Email!Next]_(Email!vars) PROVE MailParts'
  OBVIOUS
<1>1. CASE UNCHANGED Email!vars
  BY <1>1 DEF Email!vars, MailParts, MailTyped, Drafted, Pending, Unmade, Email!OneSendPerDraft
<1>2. CASE Email!Next
  <2>1. ASSUME NEW t \in Drafters, NEW to \in Recipients,
               Email!Send(t, to) \/ \E s \in Subjects : Email!Draft(t, to, s)
        PROVE  MailParts'
    BY <2>1, MailSend, MailDraft
  <2>2. ASSUME NEW t \in Drafters,
               \/ Email!Pend(t) \/ Email!MatchRecipient(t) \/ Email!CheckExpiry(t)
               \/ Email!TakeSubject(t) \/ Email!Clear(t) \/ Email!RunScript(t)
        PROVE  MailParts'
    BY <2>2, MailPend, MailMatchRecipient, MailCheckExpiry, MailTakeSubject, MailClear,
           MailRunScript
  <2>3. CASE Email!CloseByHand \/ Email!Tick
    BY <2>3, MailWorld
  <2> QED
    BY <1>2, <2>1, <2>2, <2>3 DEF Email!Next
<1> QED
  BY <1>1, <1>2

LEMMA MailInvariant == Spec => []MailInv
<1>1. Init => MailInv
  BY MailStart DEF Init, MailInv
<1>2. MailInv /\ [Next]_vars => MailInv'
  <2> SUFFICES ASSUME MailInv, [Next]_vars, part = "email" PROVE MailParts'
    BY PartIsKept DEF MailInv
  <2>1. CASE Next
    BY <2>1, MailSteps DEF Next, StopStep, LedgerStep, EmailStep, BrowserStep, MailInv
  <2>2. CASE UNCHANGED vars
    <3>1. UNCHANGED Email!vars
      BY <2>2 DEF vars, emailOnly, shared, Email!vars
    <3> QED
      BY <3>1, MailSteps DEF MailInv
  <2> QED
    BY <2>1, <2>2
<1> QED
  BY <1>1, <1>2, PTL DEF Spec

\* A second send_email of one draft got through only when two read its record at once.
THEOREM OneSendPerDraftHolds == Spec => []OneSendPerDraft
<1>1. MailInv => OneSendPerDraft
  BY DEF MailInv, MailParts, OneSendPerDraft
<1> QED
  BY <1>1, MailInvariant, PTL

----------------------------------------------------------------------------
(* The browser and its logins. *)

\* As long as no two threads of a process launch or discard at once: the Chrome that runs,
\* unless a stop() left it, belongs to the lock's holder; a context is kept under the lock
\* only; the lock is held for a context or by a thread about to launch one; and such a
\* thread has no context yet.
Owned ==
  raced \/
    /\ \A u \in Processes : context[u] # Profile!NoLaunch => owner = u
    /\ owner # Profile!Nobody /\ context[owner] = Profile!NoLaunch =>
         \E t \in Threads : ProcessOf[t] = owner /\ step[t] = "launching"
    /\ chrome \notin {Profile!NoLaunch, stranded} =>
         /\ owner \in Processes
         /\ context[owner] = chrome
         /\ playwright[owner] = chrome
    /\ \A t \in Threads : step[t] = "launching" => owner = ProcessOf[t]
    /\ \A t \in Threads : step[t] \in {"locking", "launching"} => context[ProcessOf[t]] = Profile!NoLaunch

\* A thread on its way to the page holds a launch that has taken place.
Handled ==
  /\ chrome <= launches
  /\ \A u \in Processes : context[u] <= launches /\ playwright[u] <= launches
  /\ \A t \in Threads :
       /\ tool[t].handle <= launches
       /\ step[t] \in {"paging", "ready", "checked"} => tool[t].handle # Profile!NoLaunch
       /\ tool[t].name = "confirm" => tool[t].site \in Sites
       /\ step[t] = "checked" => tool[t].name = "confirm"

\* What confirm_login has looked at is still there, unless it was seen to move.
Seen ==
  \A t \in Threads :
    step[t] = "checked" /\ t \notin moved /\ chrome = tool[t].handle => shown = tool[t].site

BrowserParts ==
  /\ Profile!TypeOK
  /\ Handled
  /\ Owned
  /\ Seen
  /\ Profile!FilledWhereItBelongs

BrowserInv == part = "browser" => BrowserParts

LEMMA BrowserConstants ==
  /\ ProcessOf \in [Threads -> Processes]
  /\ MaxLaunches \in Nat /\ MaxDeaths \in Nat
  /\ Profile!Nobody \notin Processes /\ Profile!Nowhere \notin Sites
  BY CoordinationAssumption
     DEF CoordinationAssumption, Profile!ThreadsAssumption, Profile!BoundsAssumption,
         Profile!NobodyAssumption

ToolStates == [name : Profile!Names \cup {"none"}, site : Sites \cup {Profile!Nowhere},
               first : BOOLEAN, handle : Profile!Launches]

LEMMA NoToolTyped == Profile!NoTool \in ToolStates
<1>1. Profile!NoLaunch \in Profile!Launches
  BY BrowserConstants DEF Profile!Launches, Profile!NoLaunch
<1> QED
  BY <1>1 DEF Profile!NoTool, ToolStates

LEMMA BrowserStart == Profile!Init => BrowserParts
<1> SUFFICES ASSUME Profile!Init PROVE BrowserParts
  OBVIOUS
<1> USE BrowserConstants DEF Profile!NoLaunch
<1>1. Profile!TypeOK
  <2>1. 0 \in Profile!Launches
    BY DEF Profile!Launches
  <2>2. tool \in [Threads -> ToolStates]
    BY NoToolTyped DEF Profile!Init
  <2>3. /\ owner \in Processes \cup {Profile!Nobody}
        /\ chrome \in Profile!Launches
        /\ shown \in Sites \cup {Profile!Nowhere}
        /\ playwright \in [Processes -> Profile!Launches]
        /\ context \in [Processes -> Profile!Launches]
        /\ login \in [Processes -> Sites \cup {Profile!Nowhere}]
        /\ launches \in Profile!Launches /\ deaths \in 0 .. MaxDeaths
    BY <2>1 DEF Profile!Init
  <2>4. filled = {} /\ moved = {} /\ raced = FALSE /\ stranded \in Profile!Launches
    BY <2>1 DEF Profile!Init
  <2>5. step \in [Threads -> {"idle", "wanting", "locking", "launching", "paging",
                                "failed", "ready", "checked"}]
    BY DEF Profile!Init
  <2> QED
    BY <2>2, <2>3, <2>4, <2>5 DEF Profile!TypeOK, ToolStates
<1>2. Handled
  BY DEF Profile!Init, Handled, Profile!NoTool
<1>3. Owned
  BY DEF Profile!Init, Owned
<1>4. Seen
  BY DEF Profile!Init, Seen
<1>5. Profile!FilledWhereItBelongs
  BY DEF Profile!Init, Profile!FilledWhereItBelongs
<1> QED
  BY <1>1, <1>2, <1>3, <1>4, <1>5 DEF BrowserParts

LEMMA BrowserCall ==
  ASSUME BrowserParts, NEW t \in Threads, NEW n \in {"open", "fill"}, NEW s \in Sites \cup {Profile!Nowhere},
         Profile!Call(t, n, s)
  PROVE  BrowserParts'
<1> USE BrowserConstants DEF Profile!NoLaunch, BrowserParts
<1>1. Profile!TypeOK'
  BY DEF Profile!Call, Profile!Look, Profile!browserVars, Profile!GoTo, Profile!Here,
         Profile!TypeOK, Profile!Launches, Profile!Names, Profile!NoTool
<1>2. Handled'
  BY DEF Profile!Call, Profile!Look, Profile!browserVars, Profile!GoTo, Profile!Here,
         Handled, Profile!TypeOK, Profile!Launches, Profile!NoTool
<1>3. Owned'
  BY DEF Profile!Call, Profile!Look, Profile!browserVars, Profile!GoTo, Profile!Here,
         Owned, Profile!TypeOK, Profile!Launches, Handled
<1>4. Seen'
  BY DEF Profile!Call, Profile!Look, Profile!browserVars, Profile!GoTo, Profile!Here,
         Seen, Handled, Profile!TypeOK, Profile!Launches
<1>5. Profile!FilledWhereItBelongs'
  BY DEF Profile!Call, Profile!Look, Profile!browserVars, Profile!GoTo, Profile!Here,
         Profile!FilledWhereItBelongs, Seen, Profile!TypeOK
<1> QED
  BY <1>1, <1>2, <1>3, <1>4, <1>5

LEMMA BrowserConfirm ==
  ASSUME BrowserParts, NEW t \in Threads, NEW s \in Sites,
         Profile!Confirm(t, s)
  PROVE  BrowserParts'
<1> USE BrowserConstants DEF Profile!NoLaunch, BrowserParts
<1>1. Profile!TypeOK'
  <2>1. step' \in [Threads -> {"idle", "wanting", "locking", "launching", "paging",
                                "failed", "ready", "checked"}]
    BY DEF Profile!Confirm, Profile!browserVars, Profile!GoTo, Profile!Here,
           Profile!TypeOK, Profile!Launches, Profile!Names
  <2>0. [name |-> "confirm", site |-> s, first |-> TRUE, handle |-> 0] \in ToolStates
    BY DEF ToolStates, Profile!Names, Profile!Launches
  <2>2. tool' \in [Threads -> ToolStates]
    BY <2>0 DEF Profile!Confirm, Profile!browserVars, Profile!GoTo, Profile!Here,
           Profile!TypeOK, ToolStates
  <2> QED
    BY <2>1, <2>2 DEF Profile!Confirm, Profile!browserVars, Profile!GoTo, Profile!Here,
           Profile!TypeOK, Profile!Launches, Profile!Names, ToolStates
<1>2. Handled'
  BY DEF Profile!Confirm, Profile!browserVars, Profile!GoTo, Profile!Here,
         Handled, Profile!TypeOK, Profile!Launches
<1>3. Owned'
  BY DEF Profile!Confirm, Profile!browserVars, Profile!GoTo, Profile!Here,
         Owned, Profile!TypeOK, Profile!Launches, Handled
<1>4. Seen'
  BY DEF Profile!Confirm, Profile!browserVars, Profile!GoTo, Profile!Here,
         Seen, Handled, Profile!TypeOK, Profile!Launches
<1>5. Profile!FilledWhereItBelongs'
  BY DEF Profile!Confirm, Profile!browserVars, Profile!GoTo, Profile!Here,
         Profile!FilledWhereItBelongs, Seen, Profile!TypeOK
<1> QED
  BY <1>1, <1>2, <1>3, <1>4, <1>5

LEMMA BrowserLookForContext ==
  ASSUME BrowserParts, NEW t \in Threads,
         Profile!LookForContext(t)
  PROVE  BrowserParts'
<1> USE BrowserConstants DEF Profile!NoLaunch, BrowserParts
<1>1. Profile!TypeOK'
  BY DEF Profile!LookForContext, Profile!Look, Profile!browserVars, Profile!GoTo, Profile!Here,
         Profile!TypeOK, Profile!Launches, Profile!Names, Profile!NoTool
<1>2. Handled'
  BY DEF Profile!LookForContext, Profile!Look, Profile!browserVars, Profile!GoTo, Profile!Here,
         Handled, Profile!TypeOK, Profile!Launches, Profile!NoTool
<1>3. Owned'
  BY DEF Profile!LookForContext, Profile!Look, Profile!browserVars, Profile!GoTo, Profile!Here,
         Owned, Profile!TypeOK, Profile!Launches, Handled
<1>4. Seen'
  BY DEF Profile!LookForContext, Profile!Look, Profile!browserVars, Profile!GoTo, Profile!Here,
         Seen, Handled, Profile!TypeOK, Profile!Launches
<1>5. Profile!FilledWhereItBelongs'
  BY DEF Profile!LookForContext, Profile!Look, Profile!browserVars, Profile!GoTo, Profile!Here,
         Profile!FilledWhereItBelongs, Seen, Profile!TypeOK
<1> QED
  BY <1>1, <1>2, <1>3, <1>4, <1>5

LEMMA BrowserAcquire ==
  ASSUME BrowserParts, NEW t \in Threads,
         Profile!Acquire(t)
  PROVE  BrowserParts'
<1> USE BrowserConstants DEF Profile!NoLaunch, BrowserParts
<1>1. Profile!TypeOK'
  <2>1. step' \in [Threads -> {"idle", "wanting", "locking", "launching", "paging",
                                "failed", "ready", "checked"}]
    BY DEF Profile!Acquire, Profile!MayLock, Profile!NoteRace, Profile!Return,
           Profile!browserVars, Profile!GoTo, Profile!Here,
           Profile!TypeOK, Profile!Launches, Profile!Names, Profile!NoTool
  <2>2. tool' \in [Threads -> ToolStates]
    BY NoToolTyped DEF Profile!Acquire, Profile!MayLock, Profile!NoteRace, Profile!Return,
           Profile!browserVars, Profile!GoTo, Profile!Here,
           Profile!TypeOK, Profile!Launches, ToolStates
  <2> QED
    BY <2>1, <2>2 DEF Profile!Acquire, Profile!MayLock, Profile!NoteRace, Profile!Return,
           Profile!browserVars, Profile!GoTo, Profile!Here,
           Profile!TypeOK, Profile!Launches, ToolStates
<1>2. Handled'
  BY DEF Profile!Acquire, Profile!MayLock, Profile!NoteRace, Profile!Return, Profile!browserVars,
         Profile!GoTo, Profile!Here,
         Handled, Profile!TypeOK, Profile!Launches, Profile!NoTool
<1>3. Owned'
  BY DEF Profile!Acquire, Profile!MayLock, Profile!NoteRace, Profile!Return, Profile!browserVars,
         Profile!GoTo, Profile!Here,
         Owned, Profile!TypeOK, Profile!Launches, Handled
<1>4. Seen'
  BY DEF Profile!Acquire, Profile!MayLock, Profile!NoteRace, Profile!Return, Profile!browserVars,
         Profile!GoTo, Profile!Here,
         Seen, Handled, Profile!TypeOK, Profile!Launches
<1>5. Profile!FilledWhereItBelongs'
  BY DEF Profile!Acquire, Profile!MayLock, Profile!NoteRace, Profile!Return, Profile!browserVars,
         Profile!GoTo, Profile!Here,
         Profile!FilledWhereItBelongs, Seen, Profile!TypeOK
<1> QED
  BY <1>1, <1>2, <1>3, <1>4, <1>5

LEMMA BrowserLaunch ==
  ASSUME BrowserParts, NEW t \in Threads,
         Profile!Launch(t)
  PROVE  BrowserParts'
<1> USE BrowserConstants DEF Profile!NoLaunch, BrowserParts
<1>1. Profile!TypeOK'
  BY DEF Profile!Launch, Profile!AfterFailure, Profile!Unlocked, Profile!NoteRace,
         Profile!browserVars, Profile!GoTo, Profile!Here,
         Profile!TypeOK, Profile!Launches, Profile!Names, Profile!NoTool
<1>a. /\ launches \in Nat /\ launches' = launches + 1
      /\ \A u \in Processes : context[u] \in Nat /\ playwright[u] \in Nat
      /\ \A u \in Threads : tool[u].handle \in Nat
      /\ chrome \in Nat
  BY DEF Profile!TypeOK, Profile!Launches, Profile!Launch
<1>b. \/ /\ chrome = 0 /\ chrome' = launches + 1 /\ owner' = owner
         /\ context' = [context EXCEPT ![ProcessOf[t]] = launches + 1]
         /\ tool' = [tool EXCEPT ![t].handle = launches + 1]
         /\ step' = [step EXCEPT ![t] = "paging"]
      \/ /\ owner' = (IF owner = ProcessOf[t] THEN Profile!Nobody ELSE owner)
         /\ step' = [step EXCEPT ![t] = "failed"]
         /\ UNCHANGED <<chrome, context, tool>>
  BY <1>a DEF Profile!Launch, Profile!AfterFailure, Profile!Unlocked, Profile!GoTo, Profile!Here
<1>c. /\ \/ playwright' = [playwright EXCEPT ![ProcessOf[t]] = launches + 1]
         \/ playwright' \in {playwright, [playwright EXCEPT ![ProcessOf[t]] = 0]} /\ chrome' = chrome
      /\ chrome' # chrome => playwright' = [playwright EXCEPT ![ProcessOf[t]] = launches + 1]
      /\ stranded' = stranded
  BY <1>a DEF Profile!Launch, Profile!Here
<1>2. Handled'
  <2>1. chrome' <= launches'
    BY <1>a, <1>b DEF Handled
  <2>2. \A u \in Processes : context'[u] <= launches' /\ playwright'[u] <= launches'
    <3>1. \A u \in Processes : playwright'[u] \in {playwright[u], launches + 1, 0}
      BY <1>c DEF Profile!TypeOK
    <3>2. \A u \in Processes : context'[u] \in {context[u], launches + 1}
      BY <1>b DEF Profile!TypeOK
    <3> QED
      BY <1>a, <3>1, <3>2 DEF Handled
  <2>3. ASSUME NEW u \in Threads
        PROVE  /\ tool'[u].handle <= launches'
               /\ step'[u] \in {"paging", "ready", "checked"} => tool'[u].handle # 0
               /\ tool'[u].name = "confirm" => tool'[u].site \in Sites
               /\ step'[u] = "checked" => tool'[u].name = "confirm"
    <3>1. CASE step' = [step EXCEPT ![t] = "paging"]
               /\ tool' = [tool EXCEPT ![t].handle = launches + 1]
      BY <1>a, <3>1 DEF Handled, Profile!TypeOK
    <3>2. CASE step' = [step EXCEPT ![t] = "failed"] /\ tool' = tool
      BY <1>a, <3>2 DEF Handled, Profile!TypeOK
    <3> QED
      BY <1>b, <3>1, <3>2
  <2> QED
    BY <2>1, <2>2, <2>3 DEF Handled
<1>3. Owned'
  <2> SUFFICES ASSUME ~raced' PROVE Owned'
    BY DEF Owned
  <2>1. /\ ~raced
        /\ \A u \in Threads \ {t} :
              ProcessOf[u] = ProcessOf[t] => step[u] \notin {"locking", "launching"}
    BY DEF Profile!Launch, Profile!NoteRace, Profile!Here
  <2>2. owner = ProcessOf[t] /\ context[owner] = 0 /\ chrome \in {0, stranded}
    BY <2>1 DEF Owned, Profile!Launch, Profile!TypeOK
  <2>3. \A u \in Threads : step'[u] \in {"locking", "launching"} =>
              step[u] \in {"locking", "launching"} /\ step'[u] = step[u]
                /\ ProcessOf[u] # ProcessOf[t] /\ context'[ProcessOf[u]] = context[ProcessOf[u]]
    BY <1>b, <2>1 DEF Profile!TypeOK
  <2>4. chrome' \notin {0, stranded'} =>
              owner' \in Processes /\ context'[owner'] = chrome' /\ playwright'[owner'] = chrome'
    BY <1>b, <1>c, <2>2 DEF Profile!TypeOK
  <2>5. \A u \in Threads : step'[u] # "launching"
    BY <2>1, <2>2, <2>3 DEF Owned
  <2>6. \A u \in Processes : context'[u] # 0 => owner' = u
    BY <1>b, <2>1, <2>2 DEF Owned, Profile!TypeOK
  <2>7. owner' = Profile!Nobody \/ context'[owner'] # 0
    BY <1>a, <1>b, <2>2 DEF Profile!TypeOK
  <2>8. \A u \in Threads : step'[u] \in {"locking", "launching"} => context'[ProcessOf[u]] = 0
    BY <2>1, <2>3 DEF Owned
  <2> QED
    BY <2>4, <2>5, <2>6, <2>7, <2>8 DEF Owned
<1>4. Seen'
  BY DEF Profile!Launch, Profile!AfterFailure, Profile!Unlocked, Profile!NoteRace,
         Profile!browserVars, Profile!GoTo, Profile!Here,
         Seen, Handled, Profile!TypeOK, Profile!Launches
<1>5. Profile!FilledWhereItBelongs'
  BY DEF Profile!Launch, Profile!AfterFailure, Profile!Unlocked, Profile!NoteRace,
         Profile!browserVars, Profile!GoTo, Profile!Here,
         Profile!FilledWhereItBelongs, Seen, Profile!TypeOK
<1> QED
  BY <1>1, <1>2, <1>3, <1>4, <1>5

LEMMA BrowserGetPage ==
  ASSUME BrowserParts, NEW t \in Threads,
         Profile!GetPage(t)
  PROVE  BrowserParts'
<1> USE BrowserConstants DEF Profile!NoLaunch, BrowserParts
<1>1. Profile!TypeOK'
  <2>1. tool' \in [Threads -> ToolStates]
    BY DEF Profile!GetPage, Profile!TypeOK, Profile!Launches, ToolStates
  <2> QED
    BY <2>1 DEF Profile!GetPage, Profile!browserVars, Profile!GoTo, Profile!TypeOK, ToolStates
<1>2. Handled'
  BY DEF Profile!GetPage, Profile!browserVars, Profile!GoTo, Profile!Here,
         Handled, Profile!TypeOK, Profile!Launches, Profile!NoTool
<1>3. Owned'
  BY DEF Profile!GetPage, Profile!browserVars, Profile!GoTo, Profile!Here,
         Owned, Profile!TypeOK, Profile!Launches, Handled
<1>4. Seen'
  BY DEF Profile!GetPage, Profile!browserVars, Profile!GoTo, Profile!Here,
         Seen, Handled, Profile!TypeOK, Profile!Launches
<1>5. Profile!FilledWhereItBelongs'
  BY DEF Profile!GetPage, Profile!browserVars, Profile!GoTo, Profile!Here,
         Profile!FilledWhereItBelongs, Seen, Profile!TypeOK
<1> QED
  BY <1>1, <1>2, <1>3, <1>4, <1>5

LEMMA BrowserDiscard ==
  ASSUME BrowserParts, NEW t \in Threads,
         Profile!Discard(t)
  PROVE  BrowserParts'
<1> USE BrowserConstants DEF Profile!NoLaunch, BrowserParts
<1>1. Profile!TypeOK'
  <2>1. step' \in [Threads -> {"idle", "wanting", "locking", "launching", "paging",
                                "failed", "ready", "checked"}]
    BY DEF Profile!Discard, Profile!Stop, Profile!Drives, Profile!Unlocked, Profile!NoteRace, Profile!browserVars,
           Profile!GoTo, Profile!Here,
           Profile!TypeOK, Profile!Launches, Profile!Names, Profile!NoTool
  <2>2. tool' \in [Threads -> ToolStates]
    BY NoToolTyped DEF Profile!Discard, Profile!Stop, Profile!Drives, Profile!Unlocked, Profile!NoteRace, Profile!browserVars,
           Profile!GoTo, Profile!Here,
           Profile!TypeOK, Profile!Launches, ToolStates
  <2> QED
    BY <2>1, <2>2 DEF Profile!Discard, Profile!Stop, Profile!Drives, Profile!Unlocked, Profile!NoteRace, Profile!browserVars,
           Profile!GoTo, Profile!Here,
           Profile!TypeOK, Profile!Launches, ToolStates
<1>2. Handled'
  BY DEF Profile!Discard, Profile!Stop, Profile!Drives, Profile!Unlocked, Profile!NoteRace, Profile!browserVars, Profile!GoTo,
         Profile!Here,
         Handled, Profile!TypeOK, Profile!Launches, Profile!NoTool
<1>3. Owned'
  BY DEF Profile!Discard, Profile!Stop, Profile!Drives, Profile!Unlocked, Profile!NoteRace, Profile!browserVars, Profile!GoTo,
         Profile!Here,
         Owned, Profile!TypeOK, Profile!Launches, Handled
<1>4. Seen'
  BY DEF Profile!Discard, Profile!Stop, Profile!Drives, Profile!Unlocked, Profile!NoteRace, Profile!browserVars, Profile!GoTo,
         Profile!Here,
         Seen, Handled, Profile!TypeOK, Profile!Launches
<1>5. Profile!FilledWhereItBelongs'
  BY DEF Profile!Discard, Profile!Stop, Profile!Drives, Profile!Unlocked, Profile!NoteRace, Profile!browserVars, Profile!GoTo,
         Profile!Here,
         Profile!FilledWhereItBelongs, Seen, Profile!TypeOK
<1> QED
  BY <1>1, <1>2, <1>3, <1>4, <1>5

LEMMA BrowserRaise ==
  ASSUME BrowserParts, NEW t \in Threads,
         Profile!Raise(t)
  PROVE  BrowserParts'
<1> USE BrowserConstants DEF Profile!NoLaunch, BrowserParts
<1>1. Profile!TypeOK'
  BY DEF Profile!Raise, Profile!Return, Profile!browserVars, Profile!GoTo, Profile!Here,
         Profile!TypeOK, Profile!Launches, Profile!Names, Profile!NoTool
<1>2. Handled'
  BY DEF Profile!Raise, Profile!Return, Profile!browserVars, Profile!GoTo, Profile!Here,
         Handled, Profile!TypeOK, Profile!Launches, Profile!NoTool
<1>3. Owned'
  BY DEF Profile!Raise, Profile!Return, Profile!browserVars, Profile!GoTo, Profile!Here,
         Owned, Profile!TypeOK, Profile!Launches, Handled
<1>4. Seen'
  BY DEF Profile!Raise, Profile!Return, Profile!browserVars, Profile!GoTo, Profile!Here,
         Seen, Handled, Profile!TypeOK, Profile!Launches
<1>5. Profile!FilledWhereItBelongs'
  BY DEF Profile!Raise, Profile!Return, Profile!browserVars, Profile!GoTo, Profile!Here,
         Profile!FilledWhereItBelongs, Seen, Profile!TypeOK
<1> QED
  BY <1>1, <1>2, <1>3, <1>4, <1>5

LEMMA BrowserAct ==
  ASSUME BrowserParts, NEW t \in Threads,
         Profile!Act(t)
  PROVE  BrowserParts'
<1> USE BrowserConstants DEF Profile!NoLaunch, BrowserParts
<1>1. Profile!TypeOK'
  BY DEF Profile!Act, Profile!Navigate, Profile!Preview, Profile!Show, Profile!Looked,
         Profile!Return, Profile!browserVars, Profile!GoTo, Profile!Here,
         Profile!TypeOK, Profile!Launches, Profile!Names, Profile!NoTool
<1>2. Handled'
  BY DEF Profile!Act, Profile!Navigate, Profile!Preview, Profile!Show, Profile!Looked,
         Profile!Return, Profile!browserVars, Profile!GoTo, Profile!Here,
         Handled, Profile!TypeOK, Profile!Launches, Profile!NoTool
<1>3. Owned'
  BY DEF Profile!Act, Profile!Navigate, Profile!Preview, Profile!Show, Profile!Looked,
         Profile!Return, Profile!browserVars, Profile!GoTo, Profile!Here,
         Owned, Profile!TypeOK, Profile!Launches, Handled
<1>4. Seen'
  BY DEF Profile!Act, Profile!Navigate, Profile!Preview, Profile!Show, Profile!Looked,
         Profile!Return, Profile!browserVars, Profile!GoTo, Profile!Here,
         Seen, Handled, Profile!TypeOK, Profile!Launches
<1>5. Profile!FilledWhereItBelongs'
  BY DEF Profile!Act, Profile!Navigate, Profile!Preview, Profile!Show, Profile!Looked,
         Profile!Return, Profile!browserVars, Profile!GoTo, Profile!Here,
         Profile!FilledWhereItBelongs, Seen, Profile!TypeOK
<1> QED
  BY <1>1, <1>2, <1>3, <1>4, <1>5

LEMMA BrowserCheckDomain ==
  ASSUME BrowserParts, NEW t \in Threads,
         Profile!CheckDomain(t)
  PROVE  BrowserParts'
<1> USE BrowserConstants DEF Profile!NoLaunch, BrowserParts
<1>1. Profile!TypeOK'
  <2>1. step' \in [Threads -> {"idle", "wanting", "locking", "launching", "paging",
                                "failed", "ready", "checked"}]
    BY DEF Profile!CheckDomain, Profile!Matches, Profile!Return, Profile!browserVars,
           Profile!GoTo, Profile!Here,
           Profile!TypeOK, Profile!Launches, Profile!Names, Profile!NoTool
  <2>2. tool' \in [Threads -> ToolStates]
    BY NoToolTyped DEF Profile!CheckDomain, Profile!Matches, Profile!Return, Profile!browserVars,
           Profile!GoTo, Profile!Here,
           Profile!TypeOK, Profile!Launches, ToolStates
  <2> QED
    BY <2>1, <2>2 DEF Profile!CheckDomain, Profile!Matches, Profile!Return, Profile!browserVars,
           Profile!GoTo, Profile!Here,
           Profile!TypeOK, Profile!Launches, ToolStates
<1>2. Handled'
  BY DEF Profile!CheckDomain, Profile!Matches, Profile!Return, Profile!browserVars, Profile!GoTo,
         Profile!Here,
         Handled, Profile!TypeOK, Profile!Launches, Profile!NoTool
<1>3. Owned'
  BY DEF Profile!CheckDomain, Profile!Matches, Profile!Return, Profile!browserVars, Profile!GoTo,
         Profile!Here,
         Owned, Profile!TypeOK, Profile!Launches, Handled
<1>4. Seen'
  BY DEF Profile!CheckDomain, Profile!Matches, Profile!Return, Profile!browserVars, Profile!GoTo,
         Profile!Here,
         Seen, Handled, Profile!TypeOK, Profile!Launches
<1>5. Profile!FilledWhereItBelongs'
  BY DEF Profile!CheckDomain, Profile!Matches, Profile!Return, Profile!browserVars, Profile!GoTo,
         Profile!Here,
         Profile!FilledWhereItBelongs, Seen, Profile!TypeOK
<1> QED
  BY <1>1, <1>2, <1>3, <1>4, <1>5

LEMMA BrowserFillIn ==
  ASSUME BrowserParts, NEW t \in Threads,
         Profile!FillIn(t)
  PROVE  BrowserParts'
<1> USE BrowserConstants DEF Profile!NoLaunch, BrowserParts
<1>0. tool[t].site \in Sites /\ (t \notin moved /\ chrome = tool[t].handle => shown = tool[t].site)
  BY DEF Handled, Seen, Profile!FillIn
<1> DEFINE late == t \in moved
           first == [site |-> tool[t].site, page |-> shown, screen |-> 1, late |-> late]
           second(p) == [site |-> tool[t].site, page |-> p, screen |-> 2, late |-> late]
<1>6. \/ filled' = filled
      \/ /\ chrome = tool[t].handle
         /\ \/ filled' = {first}
            \/ \E p \in Sites \cup {Profile!Nowhere} : filled' = {first, second(p)}
  BY Zenon DEF Profile!FillIn
<1>7. late \in BOOLEAN
  OBVIOUS
<1>8. chrome = tool[t].handle => (~late => shown = tool[t].site)
  BY <1>0
<1> HIDE DEF late
<1>1. Profile!TypeOK'
  <2>1. step' \in [Threads -> {"idle", "wanting", "locking", "launching", "paging",
                                "failed", "ready", "checked"}]
    BY DEF Profile!FillIn, Profile!Looked, Profile!Return, Profile!browserVars, Profile!GoTo,
           Profile!Here,
           Profile!TypeOK, Profile!Launches, Profile!Names, Profile!NoTool
  <2>2. tool' \in [Threads -> ToolStates]
    BY NoToolTyped DEF Profile!FillIn, Profile!Looked, Profile!Return, Profile!browserVars,
           Profile!GoTo, Profile!Here,
           Profile!TypeOK, Profile!Launches, ToolStates
  <2>3. filled' \subseteq [site : Sites, page : Sites \cup {Profile!Nowhere}, screen : 1 .. 2, late : BOOLEAN]
    BY <1>0, <1>6, <1>7 DEF Profile!TypeOK
  <2> QED
    BY <2>1, <2>2, <2>3 DEF Profile!FillIn, Profile!Looked, Profile!Return, Profile!browserVars,
           Profile!GoTo, Profile!Here,
           Profile!TypeOK, Profile!Launches, ToolStates
<1>2. Handled'
  BY DEF Profile!FillIn, Profile!Looked, Profile!Return, Profile!browserVars, Profile!GoTo,
         Profile!Here,
         Handled, Profile!TypeOK, Profile!Launches, Profile!NoTool
<1>3. Owned'
  BY DEF Profile!FillIn, Profile!Looked, Profile!Return, Profile!browserVars, Profile!GoTo,
         Profile!Here,
         Owned, Profile!TypeOK, Profile!Launches, Handled
<1>4. Seen'
  BY DEF Profile!FillIn, Profile!Looked, Profile!Return, Profile!browserVars, Profile!GoTo,
         Profile!Here,
         Seen, Handled, Profile!TypeOK, Profile!Launches
<1>5. Profile!FilledWhereItBelongs'
  BY <1>6, <1>7, <1>8 DEF Profile!FilledWhereItBelongs
<1> QED
  BY <1>1, <1>2, <1>3, <1>4, <1>5

LEMMA BrowserProcessEnds ==
  ASSUME BrowserParts, NEW p \in Processes,
         Profile!ProcessEnds(p)
  PROVE  BrowserParts'
<1> USE BrowserConstants DEF Profile!NoLaunch, BrowserParts
<1>1. Profile!TypeOK'
  BY DEF Profile!ProcessEnds, Profile!Drives, Profile!Unlocked, Profile!NoTool, Profile!browserVars,
         Profile!GoTo, Profile!Here,
         Profile!TypeOK, Profile!Launches, Profile!Names, Profile!NoTool
<1>2. Handled'
  BY DEF Profile!ProcessEnds, Profile!Drives, Profile!Unlocked, Profile!NoTool, Profile!browserVars,
         Profile!GoTo, Profile!Here,
         Handled, Profile!TypeOK, Profile!Launches, Profile!NoTool
<1>3. Owned'
  BY DEF Profile!ProcessEnds, Profile!Drives, Profile!Unlocked, Profile!NoTool, Profile!browserVars,
         Profile!GoTo, Profile!Here,
         Owned, Profile!TypeOK, Profile!Launches, Handled
<1>4. Seen'
  BY DEF Profile!ProcessEnds, Profile!Drives, Profile!Unlocked, Profile!NoTool, Profile!browserVars,
         Profile!GoTo, Profile!Here,
         Seen, Handled, Profile!TypeOK, Profile!Launches
<1>5. Profile!FilledWhereItBelongs'
  BY DEF Profile!ProcessEnds, Profile!Drives, Profile!Unlocked, Profile!NoTool, Profile!browserVars,
         Profile!GoTo, Profile!Here,
         Profile!FilledWhereItBelongs, Seen, Profile!TypeOK
<1> QED
  BY <1>1, <1>2, <1>3, <1>4, <1>5

LEMMA BrowserWorld ==
  ASSUME BrowserParts,
         Profile!ChromeDies \/ Profile!UserNavigates
  PROVE  BrowserParts'
<1> USE BrowserConstants DEF Profile!NoLaunch, BrowserParts
<1>1. Profile!TypeOK'
  BY DEF Profile!ChromeDies, Profile!UserNavigates, Profile!Show, Profile!Looked,
         Profile!browserVars, Profile!GoTo, Profile!Here,
         Profile!TypeOK, Profile!Launches, Profile!Names, Profile!NoTool
<1>2. Handled'
  BY DEF Profile!ChromeDies, Profile!UserNavigates, Profile!Show, Profile!Looked,
         Profile!browserVars, Profile!GoTo, Profile!Here,
         Handled, Profile!TypeOK, Profile!Launches, Profile!NoTool
<1>3. Owned'
  BY DEF Profile!ChromeDies, Profile!UserNavigates, Profile!Show, Profile!Looked,
         Profile!browserVars, Profile!GoTo, Profile!Here,
         Owned, Profile!TypeOK, Profile!Launches, Handled
<1>4. Seen'
  BY DEF Profile!ChromeDies, Profile!UserNavigates, Profile!Show, Profile!Looked,
         Profile!browserVars, Profile!GoTo, Profile!Here,
         Seen, Handled, Profile!TypeOK, Profile!Launches
<1>5. Profile!FilledWhereItBelongs'
  BY DEF Profile!ChromeDies, Profile!UserNavigates, Profile!Show, Profile!Looked,
         Profile!browserVars, Profile!GoTo, Profile!Here,
         Profile!FilledWhereItBelongs, Seen, Profile!TypeOK
<1> QED
  BY <1>1, <1>2, <1>3, <1>4, <1>5

LEMMA BrowserSteps == BrowserParts /\ [Profile!Next]_(Profile!vars) => BrowserParts'
<1> SUFFICES ASSUME BrowserParts, [Profile!Next]_(Profile!vars) PROVE BrowserParts'
  OBVIOUS
<1>1. CASE UNCHANGED Profile!vars
  BY <1>1 DEF Profile!vars, BrowserParts, Profile!TypeOK, Handled, Owned, Seen,
              Profile!FilledWhereItBelongs
<1>2. CASE Profile!Next
  <2>1. ASSUME NEW t \in Threads, Profile!ThreadStep(t) PROVE BrowserParts'
    BY <2>1, BrowserLookForContext, BrowserAcquire, BrowserLaunch, BrowserGetPage, BrowserDiscard,
       BrowserRaise, BrowserAct, BrowserCheckDomain, BrowserFillIn DEF Profile!ThreadStep
  <2>2. ASSUME NEW t \in Threads, Profile!Call(t, "open", Profile!Nowhere) PROVE BrowserParts'
    BY <2>2, BrowserCall
  <2>3. ASSUME NEW t \in Threads, NEW s \in Sites, Profile!Call(t, "fill", s) \/ Profile!Confirm(t, s)
        PROVE  BrowserParts'
    BY <2>3, BrowserCall, BrowserConfirm
  <2>4. ASSUME NEW p \in Processes, Profile!ProcessEnds(p) PROVE BrowserParts'
    BY <2>4, BrowserProcessEnds
  <2>5. CASE Profile!ChromeDies \/ Profile!UserNavigates
    BY <2>5, BrowserWorld
  <2> QED
    BY <1>2, <2>1, <2>2, <2>3, <2>4, <2>5 DEF Profile!Next
<1> QED
  BY <1>1, <1>2

LEMMA BrowserInvariant == Spec => []BrowserInv
<1>1. Init => BrowserInv
  BY BrowserStart DEF Init, BrowserInv
<1>2. BrowserInv /\ [Next]_vars => BrowserInv'
  <2> SUFFICES ASSUME BrowserInv, [Next]_vars, part = "browser" PROVE BrowserParts'
    BY PartIsKept DEF BrowserInv
  <2>1. CASE Next
    BY <2>1, BrowserSteps DEF Next, StopStep, LedgerStep, EmailStep, BrowserStep, BrowserInv
  <2>2. CASE UNCHANGED vars
    <3>1. UNCHANGED Profile!vars
      BY <2>2 DEF vars, browserOnly, shared, Profile!vars
    <3> QED
      BY <3>1, BrowserSteps DEF BrowserInv
  <2> QED
    BY <2>1, <2>2
<1> QED
  BY <1>1, <1>2, PTL DEF Spec

\* Unless two threads of a process were launching or discarding at once, a process keeps a
\* context only under the lock and the lock only for a context or a launch, and a Chrome
\* that runs, but for one that a failed stop() left behind, is the one that the lock's
\* holder drives.
THEOREM ChromeIsOwnedHolds == Spec => []ChromeIsOwned
<1>1. BrowserInv => ChromeIsOwned
  BY BrowserConstants
     DEF BrowserInv, BrowserParts, Owned, ChromeIsOwned, Profile!ChromeIsOwned, Profile!Here
<1> QED
  BY <1>1, BrowserInvariant, PTL

\* The first screen of a login is filled in on its own site only.
THEOREM FilledWhereItBelongsHolds == Spec => []FilledWhereItBelongs
<1>1. BrowserInv => FilledWhereItBelongs
  BY DEF BrowserInv, BrowserParts, FilledWhereItBelongs
<1> QED
  BY <1>1, BrowserInvariant, PTL

----------------------------------------------------------------------------
(* Types: what the invariants above leave open. *)

LEMMA StopTypes == StopProofs!TypeOK => Stop!TypeOK
  BY DEF StopProofs!TypeOK, Stop!TypeOK, StopProofs!Stages, Stop!Stages,
         StopProofs!ChildStages, Stop!ChildStages, StopProofs!CallSteps, Stop!CallSteps

LEMMA LedgerTypes == LedgerProofs!TypeOK => Ledger!TypeOK
  BY DEF LedgerProofs!TypeOK, Ledger!TypeOK, LedgerProofs!Times, Ledger!Times,
         LedgerProofs!Tickets, Ledger!Tickets, LedgerProofs!Entries, Ledger!Entries,
         LedgerProofs!Steps, Ledger!Steps, LedgerProofs!Replies, Ledger!Replies,
         LedgerProofs!Runs, Ledger!Runs

Sendings == [asked : Recipients, message : Email!Messages, taken : Email!Messages]

\* A thread that is past its question knows whom it sends to, and past the record what.
Informed ==
  \A t \in Drafters :
    /\ mode[t] # "idle" => job[t].to \in Recipients
    /\ mode[t] \in {"taken", "cleared"} => job[t].message \in Email!Messages

MailRest ==
  /\ now \in 0 .. MaxTime
  /\ pending \in Email!Records \cup {Email!NoRecord}
  /\ outgoing \in Seq(Email!Messages)
  /\ raced \subseteq 1 .. MaxMessages
  /\ sent \subseteq Sendings
  /\ Informed

LEMMA MailRestStart == Email!Init => MailRest
  BY MailConstants DEF Email!Init, MailRest, Informed

\* A sequence that loses one of its elements.
LEMMA OneIsRemoved ==
  ASSUME NEW S, NEW s \in Seq(S), NEW i \in 1 .. Len(s)
  PROVE  SubSeq(s, 1, i - 1) \o SubSeq(s, i + 1, Len(s)) \in Seq(S)
<1>1. SubSeq(s, 1, i - 1) \in Seq(S)
  <2>1. \A k \in 1 .. i - 1 : s[k] \in S
    BY ElementOfSeq
  <2> QED
    BY <2>1, SubSeqProperties
<1>2. SubSeq(s, i + 1, Len(s)) \in Seq(S)
  <2>1. \A k \in i + 1 .. Len(s) : s[k] \in S
    BY ElementOfSeq
  <2> QED
    BY <2>1, SubSeqProperties
<1> QED
  BY <1>1, <1>2

LEMMA MailRestOfSend ==
  ASSUME MailParts, MailRest, NEW t \in Drafters, NEW r \in Recipients, Email!Send(t, r)
  PROVE  MailRest'
  BY DEF MailRest, MailParts, Email!GoTo, Email!Send, Informed, MailTyped

LEMMA MailRestOfDraft ==
  ASSUME MailParts, MailRest, NEW t \in Drafters, NEW r \in Recipients, NEW s \in Subjects,
         Email!Draft(t, r, s)
  PROVE  MailRest'
<1> USE MailConstants DEF MailRest, MailParts, Email!GoTo
<1> DEFINE m == [id |-> made + 1, to |-> r, subject |-> s]
<1>1. m \in Email!Messages
  BY DEF Email!Draft, Email!Messages, MailTyped
<1> HIDE DEF m
<1>2. /\ outgoing' = Append(outgoing, m) /\ UNCHANGED <<now, pending, raced, sent>>
      /\ job' = [job EXCEPT ![t] = [to |-> r, message |-> m]]
      /\ mode' = [mode EXCEPT ![t] = "drafted"]
  BY DEF Email!Draft, m
<1>3. outgoing' \in Seq(Email!Messages)
  BY <1>1, <1>2
<1>4. Informed'
  BY <1>2 DEF Informed, MailTyped
<1> QED
  BY <1>2, <1>3, <1>4

LEMMA MailRestOfThread ==
  ASSUME MailParts, MailRest, NEW t \in Drafters,
         \/ Email!Pend(t) \/ Email!MatchRecipient(t) \/ Email!CheckExpiry(t)
         \/ Email!TakeSubject(t) \/ Email!Clear(t) \/ Email!RunScript(t)
  PROVE  MailRest'
<1> USE MailConstants DEF MailRest, MailParts, Email!GoTo, Email!GoIdle
<1>1. CASE Email!Pend(t)
  <2>1. pending' \in Email!Records
    BY <1>1 DEF Email!Pend, Drafted, Email!Records
  <2> QED
    BY <1>1, <2>1 DEF Email!Pend, Informed, MailTyped
<1>2. CASE Email!MatchRecipient(t)
  BY <1>2 DEF Email!MatchRecipient, Informed, MailTyped
<1>3. CASE Email!CheckExpiry(t)
  BY <1>3 DEF Email!CheckExpiry, Informed, MailTyped
<1>4. CASE Email!TakeSubject(t)
  <2>1. pending # Email!NoRecord => pending.message \in Email!Messages /\ pending.message.id \in 1 .. MaxMessages
    BY DEF MailTyped, Email!Messages
  <2>2. raced' \subseteq 1 .. MaxMessages
    BY <1>4, <2>1 DEF Email!TakeSubject
  <2>3. Informed'
    <3>1. CASE pending = Email!NoRecord
      BY <1>4, <3>1 DEF Email!TakeSubject, Informed, MailTyped
    <3>2. CASE pending # Email!NoRecord
      <4>1. /\ mode[t] = "fresh" /\ mode' = [mode EXCEPT ![t] = "taken"]
            /\ job' = [job EXCEPT ![t].message = pending.message]
        BY <1>4, <3>2 DEF Email!TakeSubject
      <4>2. /\ job'[t].to = job[t].to /\ job'[t].message = pending.message
            /\ \A u \in Drafters \ {t} : job'[u] = job[u] /\ mode'[u] = mode[u]
        BY <4>1 DEF MailTyped, Jobs
      <4> QED
        BY <2>1, <3>2, <4>1, <4>2 DEF Informed
    <3> QED
      BY <3>1, <3>2
  <2> QED
    BY <1>4, <2>2, <2>3 DEF Email!TakeSubject
<1>5. CASE Email!Clear(t)
  BY <1>5 DEF Email!Clear, Informed, MailTyped
<1>6. CASE Email!RunScript(t)
  <2>0. /\ mode[t] = "cleared" /\ mode' = [mode EXCEPT ![t] = "idle"]
        /\ job' = [job EXCEPT ![t] = Email!Idle]
        /\ UNCHANGED <<now, pending, raced>>
    BY <1>6 DEF Email!RunScript
  <2>1. Informed'
    BY <2>0 DEF Informed, MailTyped
  <2>2. outgoing' \in Seq(Email!Messages) /\ sent' \subseteq Sendings
    <3>1. CASE UNCHANGED <<outgoing, sent>>
      BY <3>1
    <3>2. ASSUME NEW i \in 1 .. Len(outgoing),
                 outgoing' = SubSeq(outgoing, 1, i - 1) \o SubSeq(outgoing, i + 1, Len(outgoing)),
                 sent' = sent \cup {[asked |-> job[t].to, message |-> outgoing[i],
                                     taken |-> job[t].message]}
          PROVE  outgoing' \in Seq(Email!Messages) /\ sent' \subseteq Sendings
      <4>1. outgoing' \in Seq(Email!Messages)
        BY <3>2, OneIsRemoved
      <4>2. [asked |-> job[t].to, message |-> outgoing[i], taken |-> job[t].message] \in Sendings
        BY <2>0, ElementOfSeq DEF Informed, Sendings
      <4> QED
        BY <3>2, <4>1, <4>2
    <3> QED
      BY <1>6, <3>1, <3>2 DEF Email!RunScript
  <2> QED
    BY <2>0, <2>1, <2>2
<1> QED
  BY <1>1, <1>2, <1>3, <1>4, <1>5, <1>6

LEMMA MailRestSteps ==
  ASSUME MailParts, MailRest, [Email!Next]_(Email!vars)
  PROVE  MailRest'
<1>1. ASSUME NEW t \in Drafters, NEW r \in Recipients,
             Email!Send(t, r) \/ \E s \in Subjects : Email!Draft(t, r, s)
      PROVE  MailRest'
  BY <1>1, MailRestOfSend, MailRestOfDraft
<1>2. ASSUME NEW t \in Drafters,
             \/ Email!Pend(t) \/ Email!MatchRecipient(t) \/ Email!CheckExpiry(t)
             \/ Email!TakeSubject(t) \/ Email!Clear(t) \/ Email!RunScript(t)
      PROVE  MailRest'
  BY <1>2, MailRestOfThread
<1>3. CASE Email!CloseByHand
  BY <1>3, OneIsRemoved DEF Email!CloseByHand, MailRest, Informed
<1>4. CASE Email!Tick
  BY <1>4, MailConstants DEF Email!Tick, MailRest, Informed
<1>5. CASE UNCHANGED Email!vars
  BY <1>5 DEF Email!vars, MailRest, Informed
<1> QED
  BY <1>1, <1>2, <1>3, <1>4, <1>5 DEF Email!Next

LEMMA MailTypes == MailParts /\ MailRest => Email!TypeOK
  BY DEF MailParts, MailTyped, MailRest, Email!TypeOK, Jobs, Sendings

RestInv == part = "email" => MailRest

LEMMA RestInvariant == Spec => []RestInv
<1>1. Init => RestInv
  BY MailRestStart DEF Init, RestInv
<1>2. MailInv /\ RestInv /\ [Next]_vars => RestInv'
  <2> SUFFICES ASSUME MailInv, RestInv, [Next]_vars, part = "email" PROVE MailRest'
    BY PartIsKept DEF RestInv
  <2>1. CASE Next
    BY <2>1, MailRestSteps
       DEF Next, StopStep, LedgerStep, EmailStep, BrowserStep, MailInv, RestInv
  <2>2. CASE UNCHANGED vars
    <3>1. UNCHANGED Email!vars
      BY <2>2 DEF vars, emailOnly, shared, Email!vars
    <3> QED
      BY <3>1, MailRestSteps DEF MailInv, RestInv
  <2> QED
    BY <2>1, <2>2
<1> QED
  BY <1>1, <1>2, MailInvariant, PTL DEF Spec

\* In each component every variable keeps a value of its kind.
THEOREM TypeCorrect == Spec => []TypeOK
<1>1. StopInv /\ LedgerInv /\ MailInv /\ BrowserInv /\ RestInv => TypeOK
  BY StopTypes, LedgerTypes, MailTypes
     DEF StopInv, StopProofs!CancelInv, LedgerInv, LedgerProofs!LedgerInv, MailInv, RestInv,
         BrowserInv, BrowserParts, TypeOK
<1> QED
  BY <1>1, StopInvariant, LedgerInvariant, MailInvariant, BrowserInvariant, RestInvariant, PTL
=============================================================================
