------------------------------ MODULE Services ------------------------------
(***************************************************************************)
(* The components that serve other programs or people and must come back   *)
(* to rest: the OpenClaw bridge, the JSON stores, the Alexa bridge and the *)
(* voice.  They share no state: the states are those of the one that       *)
(* `part` names, and a variable name that two of them use stands for that  *)
(* one's variable.  What it has no use for is None.                        *)
(***************************************************************************)
EXTENDS Integers, Sequences, FiniteSets

CONSTANTS
    Explored, None, Nobody, MaxCrashes,
    Calls, Sends, Acceptable, MaxToken,       \* OpenClaw
    Writers, Kinds, Limit, MaxSaves,          \* Stores
    Posts, MaxRestarts,                       \* AlexaBridge
    People, Scheduler, MaxLate                \* Voice

VARIABLES
    part, at, request,
    pc, attempts, auth, result, cancelled, stored, valid, hello, issued, answer, dials, transmitted,
    kind, file, temp, data, lock, job, fd, seen, saves, crashes, kept,
    configured, reply, runLock, ended, saved, delivered, restarts,
    busy, quiet, round, stopListener, speech, after, wakeListener, command, pid, late

Gateway == INSTANCE OpenClaw
Store == INSTANCE Stores WITH Nil <- Nobody
Alexa == INSTANCE AlexaBridge
Spoken == INSTANCE Voice

ASSUME ServicesAssumption ==
    /\ Gateway!CallsAssumption /\ Gateway!MaxTokenAssumption
    /\ Store!StoresAssumption /\ Alexa!AlexaAssumption /\ Spoken!VoiceAssumption

gatewayOnly == <<pc, attempts, auth, result, cancelled, stored, valid, hello, issued, answer, dials, transmitted>>
storeOnly == <<kind, file, temp, data, lock, job, fd, seen, saves, crashes, kept>>
alexaOnly == <<configured, reply, runLock, ended, saved, delivered, restarts>>
voiceOnly == <<busy, quiet, round, stopListener, speech, after, wakeListener, command, pid, late>>
vars == <<part, at, request, gatewayOnly, storeOnly, alexaOnly, voiceOnly>>

NoGateway ==
    /\ pc = None /\ attempts = None /\ auth = None /\ result = None /\ cancelled = None /\ stored = None
    /\ valid = None /\ hello = None /\ issued = None /\ answer = None /\ dials = None /\ transmitted = None
NoStore ==
    /\ kind = None /\ file = None /\ temp = None /\ data = None /\ lock = None /\ job = None
    /\ fd = None /\ seen = None /\ saves = None /\ crashes = None /\ kept = None
NoAlexa ==
    /\ configured = None /\ reply = None /\ runLock = None /\ ended = None
    /\ saved = None /\ delivered = None /\ restarts = None
NoVoice ==
    /\ busy = None /\ quiet = None /\ round = None /\ stopListener = None /\ speech = None
    /\ after = None /\ wakeListener = None /\ command = None /\ pid = None /\ late = None

Init ==
    /\ part \in Explored
    /\ \/ part = "gateway" /\ Gateway!Init /\ at = None /\ NoStore /\ NoAlexa /\ NoVoice
       \/ part = "store" /\ Store!Init /\ request = None /\ NoGateway /\ NoAlexa /\ NoVoice
       \/ part = "alexa" /\ Alexa!Init /\ request = None /\ NoGateway /\ NoStore /\ NoVoice
       \/ part = "voice" /\ Spoken!Init /\ NoGateway /\ NoStore /\ NoAlexa

InGateway == part = "gateway" /\ UNCHANGED <<part, at, storeOnly, alexaOnly, voiceOnly>>
InStore == part = "store" /\ UNCHANGED <<part, request, gatewayOnly, alexaOnly, voiceOnly>>
InAlexa == part = "alexa" /\ UNCHANGED <<part, request, gatewayOnly, storeOnly, voiceOnly>>
InVoice == part = "voice" /\ UNCHANGED <<part, gatewayOnly, storeOnly, alexaOnly>>

Next ==
    \/ InGateway /\ Gateway!Next
    \/ InStore /\ Store!Next
    \/ InAlexa /\ Alexa!Next
    \/ InVoice /\ Spoken!Next

\* The fairness of OpenClaw's Spec and of Voice's FairSpec.
Fairness ==
    /\ \A c \in Calls : WF_vars(InGateway /\ Gateway!CallStep(c))
    /\ \A c \in People \cup {Scheduler} :
          SF_vars(InVoice /\ Spoken!LastSentence(c)) /\ WF_vars(InVoice /\ Spoken!Progress(c))
    /\ WF_vars(InVoice /\ Spoken!ScheduledEnds)
    /\ WF_vars(InVoice /\ Spoken!LateStop)
    /\ WF_vars(InVoice /\ Spoken!LateWake)

Spec == Init /\ [][Next]_vars /\ Fairness

TypeOK ==
    /\ part = "gateway" => Gateway!TypeOK
    /\ part = "store" => Store!TypeOK
    /\ part = "alexa" => Alexa!TypeOK
    /\ part = "voice" => Spoken!TypeOK

\* What a store with a lock is to its readers; the rest of the module leaves the log alone.
Logged == part = "store" /\ kind \in Store!Locked
Log == INSTANCE SavedLog WITH
    log <- IF Logged THEN Store!Shown ELSE <<>>,
    newest <- IF Logged THEN Store!Newest ELSE 0,
    limit <- IF Logged /\ kind \in Store!Trimmed THEN Limit ELSE 0

\* The properties of each component: its module says what they mean.
OneTransmission == part = "gateway" => Gateway!OneTransmission
ReportsAreTrue == part = "gateway" => Gateway!ReportsAreTrue
NothingIsLost == part = "store" => Store!NothingIsLost
FilesAreWhole == part = "store" => Store!FilesAreWhole
\* A save shows as one step: no reader finds a file in part, no writer takes another's entry
\* away, and no entry is saved twice.  (execution_history.py, usage.py, access_log.py,
\* conversation_store.py.)
ImplementsLog == Log!Spec
LastIsTheNewest == [][(part = "alexa") => Alexa!SavedGoesForward]_vars
OneRequestAtATime == part = "voice" => Spoken!OneRequestAtATime
\* ... and that every call returns, and the busy lock comes back.
EveryCallReturns == \A c \in Calls :
    [](part = "gateway" /\ pc[c] # "new" => <>(part = "gateway" /\ pc[c] = "over"))
BusyIsGivenBack == \A c \in People \cup {Scheduler} :
    [](part = "voice" /\ busy = c => <>(busy # c))
=============================================================================
