------------------------- MODULE CancellationProofs -------------------------
(***************************************************************************)
(* Theorems of Cancellation, for any processes, requests and ids.  The     *)
(* order in execute_task_stream carries them: an id is advertised only     *)
(* after its marker was removed at startup, and whoever writes a marker    *)
(* has seen the id in the slot since.                                      *)
(***************************************************************************)
EXTENDS Cancellation, TLAPS

\* What the slot, the callers of request_cancel and the markers know of an id.
Advertised ==
  /\ slot.id # None => slot.id \in advertised
  /\ \A p \in Processes : step[p] \in {"checking", "writing"} => target[p] \in advertised
  /\ marker \subseteq advertised

\* A request is advertised only after startup, and not once it is over.
Shown ==
  /\ \A r \in advertised : pc[r] \notin {"unborn", "entered"}
  /\ \A r \in Requests : pc[r] = "over" => slot.id # r

CancelInv == TypeOK /\ Advertised /\ Shown

LEMMA CancelInit ==
  ASSUME CancellationAssumption
  PROVE  Init => CancelInv
  BY DEF CancellationAssumption, Init, CancelInv, TypeOK, Advertised, Shown, Idle, Stages, ChildStages, CallSteps

\* The invariant is kept by a step of a request.
LEMMA RequestStep ==
  ASSUME CancellationAssumption, CancelInv, NEW r \in Requests,
         \/ Enter(r) \/ AdvertisePlanning(r) \/ Register(r) \/ AdvertiseThinking(r)
         \/ Escape(r) \/ See(r) \/ Unregister(r) \/ ClearMarker(r) \/ ResetToIdle(r)
         \/ Consult(r) \/ Launch(r) \/ Poll(r) \/ ChildEnds(r)
  PROVE  CancelInv'
<1> USE DEF CancellationAssumption, CancelInv, requestVars, childVars, diskVars, callerVars
<1>1. CASE Enter(r)
  <2>1. TypeOK'
    BY <1>1 DEF Enter, Goto, TypeOK, Stages
  <2>2. Advertised' /\ Shown'
    BY <1>1 DEF Enter, Goto, TypeOK, Advertised, Shown
  <2> QED
    BY <2>1, <2>2
<1>2. CASE AdvertisePlanning(r)
  <2>1. TypeOK'
    BY <1>2 DEF AdvertisePlanning, Advertise, Goto, TypeOK, Stages
  <2>2. Advertised' /\ Shown'
    BY <1>2 DEF AdvertisePlanning, Advertise, Goto, TypeOK, Advertised, Shown
  <2> QED
    BY <2>1, <2>2
<1>3. CASE Register(r)
  <2>1. TypeOK'
    BY <1>3 DEF Register, Goto, TypeOK, Stages
  <2>2. Advertised' /\ Shown'
    BY <1>3 DEF Register, Goto, TypeOK, Advertised, Shown
  <2> QED
    BY <2>1, <2>2
<1>4. CASE AdvertiseThinking(r)
  <2>1. TypeOK'
    BY <1>4 DEF AdvertiseThinking, Advertise, Goto, TypeOK, Stages
  <2>2. Advertised' /\ Shown'
    BY <1>4 DEF AdvertiseThinking, Advertise, Goto, TypeOK, Advertised, Shown
  <2> QED
    BY <2>1, <2>2
<1>5. CASE Escape(r)
  <2>1. TypeOK'
    BY <1>5 DEF Escape, Goto, TypeOK, Stages
  <2>2. Advertised' /\ Shown'
    BY <1>5 DEF Escape, Goto, TypeOK, Advertised, Shown
  <2> QED
    BY <2>1, <2>2
<1>6. CASE See(r)
  BY <1>6 DEF See, TypeOK, Advertised, Shown
<1>7. CASE Unregister(r)
  <2>1. TypeOK'
    BY <1>7 DEF Unregister, Goto, TypeOK, Stages
  <2>2. Advertised' /\ Shown'
    BY <1>7 DEF Unregister, Goto, TypeOK, Advertised, Shown
  <2> QED
    BY <2>1, <2>2
<1>8. CASE ClearMarker(r)
  <2>1. TypeOK'
    BY <1>8 DEF ClearMarker, Goto, TypeOK, Stages
  <2>2. Advertised' /\ Shown'
    BY <1>8 DEF ClearMarker, Goto, TypeOK, Advertised, Shown
  <2> QED
    BY <2>1, <2>2
<1>9. CASE ResetToIdle(r)
  <2>1. TypeOK'
    BY <1>9 DEF ResetToIdle, Goto, TypeOK, Stages, Idle
  <2>2. Advertised' /\ Shown'
    BY <1>9 DEF ResetToIdle, Goto, TypeOK, Advertised, Shown, Idle
  <2> QED
    BY <2>1, <2>2
<1>10. CASE Consult(r) \/ Launch(r) \/ Poll(r) \/ ChildEnds(r)
  <2>1. TypeOK'
    BY <1>10 DEF Consult, Launch, Poll, ChildEnds, TypeOK, ChildStages
  <2>2. UNCHANGED <<requestVars, diskVars, callerVars>>
    BY <1>10 DEF Consult, Launch, Poll, ChildEnds
  <2>3. Advertised' /\ Shown'
    BY <2>2 DEF Advertised, Shown
  <2> QED
    BY <2>1, <2>3
<1> QED
  BY <1>1, <1>2, <1>3, <1>4, <1>5, <1>6, <1>7, <1>8, <1>9, <1>10

\* The invariant is kept by a step of request_cancel and by a crash.
LEMMA CallerStep ==
  ASSUME CancellationAssumption, CancelInv, NEW p \in Processes,
         \/ \E id \in Ids : Call(p, id)
         \/ CancelActive(p) \/ NotLocal(p) \/ SameId(p) \/ Busy(p)
         \/ Refuse(p) \/ WriteMarker(p) \/ Crash(p)
  PROVE  CancelInv'
<1> USE DEF CancellationAssumption, CancelInv, requestVars, childVars, diskVars, callerVars
<1>1. ASSUME NEW id \in Ids, Call(p, id)
      PROVE  CancelInv'
  BY <1>1 DEF Call, TypeOK, Advertised, Shown, CallSteps
<1>2. CASE CancelActive(p) \/ NotLocal(p) \/ Refuse(p)
  <2>1. TypeOK'
    BY <1>2 DEF CancelActive, NotLocal, Refuse, Caller, Local, TypeOK, CallSteps
  <2>2. Advertised' /\ Shown'
    BY <1>2 DEF CancelActive, NotLocal, Refuse, Caller, TypeOK, Advertised, Shown
  <2> QED
    BY <2>1, <2>2
<1>3. CASE SameId(p)
  <2>1. TypeOK'
    BY <1>3 DEF SameId, Caller, TypeOK, CallSteps
  <2>2. target[p] # None
    BY <1>3 DEF SameId, Caller, TypeOK
  <2>3. Advertised' /\ Shown'
    BY <1>3, <2>2 DEF SameId, Caller, TypeOK, Advertised, Shown
  <2> QED
    BY <2>1, <2>3
<1>4. CASE Busy(p)
  <2>1. TypeOK'
    BY <1>4 DEF Busy, Caller, TypeOK, CallSteps
  <2>2. Advertised' /\ Shown'
    BY <1>4 DEF Busy, Caller, TypeOK, Advertised, Shown
  <2> QED
    BY <2>1, <2>2
<1>5. CASE WriteMarker(p)
  <2>1. TypeOK'
    BY <1>5 DEF WriteMarker, Caller, TypeOK, CallSteps
  <2>2. Advertised' /\ Shown'
    BY <1>5 DEF WriteMarker, Caller, TypeOK, Advertised, Shown
  <2> QED
    BY <2>1, <2>2
<1>6. CASE Crash(p)
  <2>1. TypeOK'
    BY <1>6 DEF Crash, Local, TypeOK, Stages, ChildStages, CallSteps
  <2>2. Advertised' /\ Shown'
    BY <1>6 DEF Crash, TypeOK, Advertised, Shown
  <2> QED
    BY <2>1, <2>2
<1> QED
  BY <1>1, <1>2, <1>3, <1>4, <1>5, <1>6

LEMMA CancelStep ==
  ASSUME CancellationAssumption
  PROVE  CancelInv /\ [Next]_vars => CancelInv'
<1> SUFFICES ASSUME CancelInv, [Next]_vars PROVE CancelInv'
  OBVIOUS
<1>1. CASE Next
  BY <1>1, RequestStep, CallerStep DEF Next
<1>2. CASE UNCHANGED vars
  BY <1>2 DEF vars, requestVars, childVars, diskVars, callerVars, CancelInv, TypeOK,
              Advertised, Shown
<1> QED
  BY <1>1, <1>2

LEMMA CancelInvariant ==
  ASSUME CancellationAssumption
  PROVE  Spec => []CancelInv
  BY CancelInit, CancelStep, PTL DEF Spec

\* A marker exists only for an id that was advertised (agent/cancellation.py,
\* request_cancel).
THEOREM MarkersWereAdvertisedHolds ==
  ASSUME CancellationAssumption
  PROVE  Spec => []MarkersWereAdvertised
<1>1. CancelInv => MarkersWereAdvertised
  BY DEF CancelInv, Advertised, MarkersWereAdvertised
<1> QED
  BY <1>1, CancelInvariant, PTL

\* The slot is never left to a request whose cleanup finished
\* (agent/executor.py, the finally block of execute_task_stream).
THEOREM EndedIsNotAdvertisedHolds ==
  ASSUME CancellationAssumption
  PROVE  Spec => []EndedIsNotAdvertised
<1>1. CancelInv => EndedIsNotAdvertised
  BY DEF CancelInv, Shown, EndedIsNotAdvertised
<1> QED
  BY <1>1, CancelInvariant, PTL

\* Only the request's own cleanup takes a marker away.
LEMMA MarkersStep ==
  ASSUME CancellationAssumption
  PROVE  CancelInv /\ [Next]_vars => [MarkersAreKept]_vars
<1>1. ASSUME CancelInv, Next, NEW r \in Requests, r \in marker, r \notin marker'
      PROVE  pc'[r] = "cleared"
  <2> USE <1>1 DEF requestVars, childVars, diskVars, callerVars
  <2>1. ASSUME NEW q \in Requests, Enter(q)
        PROVE  FALSE
    BY <2>1 DEF Enter, Goto, CancelInv, Advertised, Shown
  <2>2. ASSUME NEW q \in Requests, ClearMarker(q)
        PROVE  pc'[r] = "cleared"
    BY <2>2 DEF ClearMarker, Goto, CancelInv, TypeOK
  <2>3. ASSUME NEW q \in Requests,
               \/ AdvertisePlanning(q) \/ Register(q) \/ AdvertiseThinking(q)
               \/ Escape(q) \/ See(q) \/ Unregister(q) \/ ResetToIdle(q)
               \/ Consult(q) \/ Launch(q) \/ Poll(q) \/ ChildEnds(q)
        PROVE  FALSE
    BY <2>3 DEF AdvertisePlanning, Register, AdvertiseThinking, Advertise, Escape, See,
                Unregister, ResetToIdle, Consult, Launch, Poll, ChildEnds
  <2>4. ASSUME NEW p \in Processes,
               \/ \E id \in Ids : Call(p, id)
               \/ CancelActive(p) \/ NotLocal(p) \/ SameId(p) \/ Busy(p)
               \/ Refuse(p) \/ WriteMarker(p) \/ Crash(p)
        PROVE  FALSE
    BY <2>4 DEF Call, CancelActive, NotLocal, SameId, Busy, Refuse, WriteMarker, Crash
  <2> QED
    BY <2>1, <2>2, <2>3, <2>4 DEF Next
<1> QED
  BY <1>1 DEF MarkersAreKept

\* A marker written for an advertised request stays until that request's own
\* cleanup (agent/executor.py, execute_task_stream).
THEOREM CancelIsKeptHolds ==
  ASSUME CancellationAssumption
  PROVE  Spec => CancelIsKept
  BY MarkersStep, CancelInvariant, PTL DEF Spec, CancelIsKept
=============================================================================
