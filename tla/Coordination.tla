---------------------------- MODULE Coordination ----------------------------
(***************************************************************************)
(* The components in which several threads, processes or people share one  *)
(* thing: the cancellation of a request, the confirmation ledger, the      *)
(* e-mail draft, and the browser with its logins.  They have no state in   *)
(* common, so the states are those of one (its name is in `part`) or of    *)
(* another; a variable name that two of them use stands for that one's     *)
(* variable, and the variables it does not use are None.                   *)
(***************************************************************************)
EXTENDS Integers, Sequences, FiniteSets

CONSTANTS
    Explored,                                           \* the components of the run
    Window, MaxTime, NoEntry, None,
    Keys, Conversations, MaxAsks,                       \* ConfirmationLedger
    Drafters, Recipients, Subjects, MaxMessages,        \* EmailDraft
    Threads, Processes, ProcessOf, Sites, MaxLaunches, MaxDeaths,   \* Browser
    Hosts, Requests, Home, Ids, MaxCrashes              \* Cancellation

VARIABLES
    part, now, pending, step,
    pc, flag, registry, child, slot, marker, target, crashes, advertised, patient,  \* Cancellation
    key, popped, asked, askedAt, reply, uses, last,                    \* ConfirmationLedger
    outgoing, mode, job, made, used, raced, sent,                      \* EmailDraft
    owner, chrome, shown, playwright, context, login, tool, launches, deaths, filled, moved,
    stranded                                                           \* Browser

Stop == INSTANCE Cancellation WITH Processes <- Hosts
Ledger == INSTANCE ConfirmationLedger
Email == INSTANCE EmailDraft WITH Threads <- Drafters
Profile == INSTANCE Browser

ASSUME CoordinationAssumption ==
    /\ Stop!CancellationAssumption /\ Ledger!LedgerAssumption /\ Email!BoundsAssumption
    /\ Profile!ThreadsAssumption /\ Profile!BoundsAssumption /\ Profile!NobodyAssumption

stopOnly == <<pc, flag, registry, child, slot, marker, target, crashes, advertised, patient>>
ledgerOnly == <<key, popped, asked, askedAt, reply, uses, last>>
emailOnly == <<outgoing, mode, job, made, used, sent>>
browserOnly == <<owner, chrome, shown, playwright, context, login, tool, launches, deaths, filled, moved,
                 stranded>>
shared == <<now, pending, step, raced>>

NoStop ==
    /\ pc = None /\ flag = None /\ registry = None /\ child = None /\ slot = None /\ marker = None
    /\ target = None /\ crashes = None /\ advertised = None /\ patient = None
NoLedger ==
    /\ key = None /\ popped = None /\ asked = None /\ askedAt = None
    /\ reply = None /\ uses = None /\ last = None
NoEmail ==
    /\ outgoing = None /\ mode = None /\ job = None /\ made = None
    /\ used = None /\ sent = None
NoBrowser ==
    /\ owner = None /\ chrome = None /\ shown = None /\ playwright = None /\ context = None
    /\ login = None /\ tool = None /\ launches = None /\ deaths = None /\ filled = None /\ moved = None
    /\ stranded = None

Init ==
    /\ part \in Explored
    /\ \/ /\ part = "stop" /\ Stop!Init /\ NoLedger /\ NoEmail /\ NoBrowser
          /\ now = None /\ pending = None /\ raced = None
       \/ /\ part = "ledger" /\ Ledger!Init /\ NoStop /\ NoEmail /\ NoBrowser
          /\ raced = None
       \/ /\ part = "email" /\ Email!Init /\ NoStop /\ NoLedger /\ NoBrowser
          /\ step = None
       \/ /\ part = "browser" /\ Profile!Init /\ NoStop /\ NoLedger /\ NoEmail
          /\ now = None /\ pending = None

StopStep ==
    /\ part = "stop" /\ Stop!Next
    /\ UNCHANGED <<part, now, pending, raced, ledgerOnly, emailOnly, browserOnly>>
LedgerStep ==
    /\ part = "ledger" /\ Ledger!Next
    /\ UNCHANGED <<part, raced, stopOnly, emailOnly, browserOnly>>
EmailStep ==
    /\ part = "email" /\ Email!Next
    /\ UNCHANGED <<part, step, stopOnly, ledgerOnly, browserOnly>>
BrowserStep ==
    /\ part = "browser" /\ Profile!Next
    /\ UNCHANGED <<part, now, pending, stopOnly, ledgerOnly, emailOnly>>

Next == StopStep \/ LedgerStep \/ EmailStep \/ BrowserStep

vars == <<part, shared, stopOnly, ledgerOnly, emailOnly, browserOnly>>
Spec == Init /\ [][Next]_vars

TypeOK ==
    /\ part = "stop" => Stop!TypeOK
    /\ part = "ledger" => Ledger!TypeOK
    /\ part = "email" => Email!TypeOK
    /\ part = "browser" => Profile!TypeOK

\* The properties of each component: its module says what they mean.
EndedIsNotAdvertised == part = "stop" => Stop!EndedIsNotAdvertised
CancelIsKept == [][(part = "stop") => Stop!MarkersAreKept]_vars
CancelledParentStopsChild == part = "stop" => Stop!CancelledParentStopsChild
OneRunPerQuestion == part = "ledger" => Ledger!OneRunPerQuestion
RunsWithinWindow == part = "ledger" => Ledger!RunsWithinWindow
RunsOnlyAfterYes == part = "ledger" => Ledger!RunsOnlyAfterYes
OneSendPerDraft == part = "email" => Email!OneSendPerDraft
SentToTheOneAsked == part = "email" => Email!SentToTheOneAsked
ChromeIsOwned == part = "browser" => Profile!ChromeIsOwned
FilledWhereItBelongs == part = "browser" => Profile!FilledWhereItBelongs
=============================================================================
