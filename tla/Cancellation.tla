---------------------------- MODULE Cancellation ----------------------------
(***************************************************************************)
(* Cancelling a request from any process: request_cancel with its markers  *)
(* on disk (agent/cancellation.py), the one status slot every process      *)
(* writes (agent/jarvis_state.py), each process's registry of live         *)
(* requests (agent/execution_state.py), the places where                   *)
(* execute_task_stream touches them (agent/executor.py), and the coworker  *)
(* subprocess that polls for the marker (agent/agents/manager.py).         *)
(* RequestExecutor looks inside one request; this module looks at several  *)
(* requests and several callers of request_cancel at once.                 *)
(***************************************************************************)
EXTENDS Integers

CONSTANTS
  Processes,
  Requests,
  Home,        (* request -> the process that runs it                         *)
  Ids,         (* what request_cancel may be called with                      *)
  None,
  MaxCrashes   (* process crashes (bound)                                     *)

\* What is assumed of the constants.
CancellationAssumption ==
  /\ Home \in [Requests -> Processes]
  /\ Requests \subseteq Ids
  /\ None \notin Ids
  /\ MaxCrashes \in Nat

VARIABLES
  pc,          (* request -> where execute_task_stream is                     *)
  flag,        (* requests whose ExecutionState.cancelled is set              *)
  registry,    (* requests in the _active registry of their process           *)
  child,       (* request -> its coworker call                                *)
  slot,        (* the status file: the advertised id, and whether it is busy  *)
  marker,      (* ids with a cancellation marker on disk                      *)
  step,        (* process -> where its request_cancel is                      *)
  target,      (* process -> the id that call is for                          *)
  crashes,
  \* History variables.
  advertised,  (* ids that were in the busy slot at some time                 *)
  patient      (* requests whose coworker is waited for after their cancel    *)

requestVars == <<pc, flag, registry>>
childVars   == <<child, patient>>
diskVars    == <<slot, marker, advertised>>
callerVars  == <<step, target>>
vars == <<requestVars, childVars, diskVars, callerVars, crashes>>

Idle == [busy |-> FALSE, id |-> None]

Init ==
  /\ pc = [r \in Requests |-> "unborn"]
  /\ flag = {}
  /\ registry = {}
  /\ child = [r \in Requests |-> "none"]
  /\ slot = Idle
  /\ marker = {}
  /\ step = [p \in Processes |-> "idle"]
  /\ target = [p \in Processes |-> None]
  /\ crashes = 0
  /\ advertised = {}
  /\ patient = {}

-----------------------------------------------------------------------------
(* The request, as far as cancellation can tell. *)

Goto(r, from, to) == pc[r] \in from /\ pc' = [pc EXCEPT ![r] = to]

\* set_status with this request's id: the last writer has the slot.
Advertise(r) ==
  /\ slot' = [busy |-> TRUE, id |-> r]
  /\ advertised' = advertised \cup {r}
  /\ UNCHANGED marker

\* execute_task_stream begins by removing a marker of that id.
Enter(r) ==
  /\ Goto(r, {"unborn"}, "entered")
  /\ marker' = marker \ {r}
  /\ UNCHANGED <<flag, registry, childVars, slot, advertised, callerVars, crashes>>

\* A complex request advertises itself before it is in the registry.
AdvertisePlanning(r) ==
  /\ Goto(r, {"entered"}, "planning")
  /\ Advertise(r)
  /\ UNCHANGED <<flag, registry, childVars, callerVars, crashes>>

\* Mutant: the marker is removed here, after the request was advertised.
RegisterAndClear(r) ==
  /\ Goto(r, {"entered", "planning"}, "registered")
  /\ registry' = registry \cup {r}
  /\ marker' = marker \ {r}
  /\ UNCHANGED <<flag, childVars, slot, advertised, callerVars, crashes>>

Register(r) ==
  /\ Goto(r, {"entered", "planning"}, "registered")
  /\ registry' = registry \cup {r}
  /\ UNCHANGED <<flag, childVars, diskVars, callerVars, crashes>>

\* THINKING before the try block, then every status change inside it.
AdvertiseThinking(r) ==
  /\ Goto(r, {"registered", "looping"}, "looping")
  /\ Advertise(r)
  /\ UNCHANGED <<flag, registry, childVars, callerVars, crashes>>

\* An exception before the try block leaves without the cleanup; one of the
\* last write of the status file, with most of it.
Escape(r) ==
  /\ Goto(r, {"entered", "planning", "registered", "cleared"}, "escaped")
  /\ UNCHANGED <<flag, registry, childVars, diskVars, callerVars, crashes>>

\* _is_cancelled at a safe boundary copies the marker into the state.
See(r) ==
  /\ pc[r] = "looping"
  /\ child[r] \notin {"gated", "running"}
  /\ r \in marker
  /\ flag' = flag \cup {r}
  /\ UNCHANGED <<pc, registry, childVars, diskVars, callerVars, crashes>>

\* The finally block: three steps, in this order.
Unregister(r) ==
  /\ Goto(r, {"looping"}, "unregistered")
  /\ child[r] \notin {"gated", "running"}
  /\ registry' = registry \ {r}
  /\ UNCHANGED <<flag, childVars, diskVars, callerVars, crashes>>

ClearMarker(r) ==
  /\ Goto(r, {"unregistered"}, "cleared")
  /\ marker' = marker \ {r}
  /\ UNCHANGED <<flag, registry, childVars, slot, advertised, callerVars, crashes>>

\* Mutant: the cleanup leaves the slot as the last status change wrote it.
ResetLeavesSlot(r) ==
  /\ Goto(r, {"cleared"}, "over")
  /\ UNCHANGED <<flag, registry, childVars, diskVars, callerVars, crashes>>

\* reset_to_idle does not look at whose id is in the slot.
ResetToIdle(r) ==
  /\ Goto(r, {"cleared"}, "over")
  /\ slot' = Idle
  /\ UNCHANGED <<flag, registry, childVars, marker, advertised, callerVars, crashes>>

-----------------------------------------------------------------------------
(* A coworker call of the request: the gate of _run_tool, then execute_agent. *)

Consult(r) ==
  /\ pc[r] = "looping"
  /\ child[r] = "none"
  /\ r \notin flag \cup marker
  /\ child' = [child EXCEPT ![r] = "gated"]
  /\ UNCHANGED <<requestVars, patient, diskVars, callerVars, crashes>>

\* execute_agent looks for the marker once more before the subprocess starts.
Launch(r) ==
  /\ child[r] = "gated"
  /\ child' = [child EXCEPT ![r] = IF r \in marker THEN "ended" ELSE "running"]
  /\ UNCHANGED <<requestVars, patient, diskVars, callerVars, crashes>>

\* _run_agent_subprocess, between two slices of communicate: a marker ends the
\* wait; the flag of the parent is not looked at.
Poll(r) ==
  /\ child[r] = "running"
  /\ IF r \in marker
       THEN /\ child' = [child EXCEPT ![r] = "ended"]
            /\ patient' = patient \ {r}
       ELSE /\ patient' = IF r \in flag THEN patient \cup {r} ELSE patient
            /\ UNCHANGED child
  /\ UNCHANGED <<requestVars, diskVars, callerVars, crashes>>

\* The subprocess exits by itself, or the timeout kills it.
ChildEnds(r) ==
  /\ child[r] = "running"
  /\ child' = [child EXCEPT ![r] = "ended"]
  /\ patient' = patient \ {r}
  /\ UNCHANGED <<requestVars, diskVars, callerVars, crashes>>

-----------------------------------------------------------------------------
(* request_cancel, called from process p. *)

\* Mutant: the tool does not insist on being given an id.
CallWithoutId(p, id) ==
  /\ step[p] = "idle"
  /\ step' = [step EXCEPT ![p] = "called"]
  /\ UNCHANGED <<requestVars, childVars, diskVars, target, crashes>>

\* The id comes from a page rendered a while ago, from the model, or from the
\* registry: any id at all.
Call(p, id) ==
  /\ step[p] = "idle"
  /\ step' = [step EXCEPT ![p] = "called"]
  /\ target' = [target EXCEPT ![p] = id]
  /\ UNCHANGED <<requestVars, childVars, diskVars, crashes>>

Caller(p, from, to) ==
  /\ step[p] = from
  /\ step' = [step EXCEPT ![p] = to]
  /\ target' = [target EXCEPT ![p] = IF to = "idle" THEN None ELSE @]

Local(p) == {r \in registry : Home[r] = p}

\* cancel_active found the request in this process: the flag, and no marker.
CancelActive(p) ==
  /\ Caller(p, "called", "idle")
  /\ target[p] \in Local(p)
  /\ flag' = flag \cup {target[p]}
  /\ UNCHANGED <<pc, registry, childVars, diskVars, crashes>>

NotLocal(p) ==
  /\ Caller(p, "called", "comparing")
  /\ target[p] \notin Local(p)
  /\ UNCHANGED <<requestVars, childVars, diskVars, crashes>>

\* get_state, then is_busy, which reads the file again.
SameId(p) ==
  /\ Caller(p, "comparing", "checking")
  /\ slot.id = target[p]
  /\ UNCHANGED <<requestVars, childVars, diskVars, crashes>>

Busy(p) ==
  /\ Caller(p, "checking", "writing")
  /\ slot.busy
  /\ UNCHANGED <<requestVars, childVars, diskVars, crashes>>

Refuse(p) ==
  /\ \/ Caller(p, "comparing", "idle") /\ slot.id # target[p]
     \/ Caller(p, "checking", "idle") /\ ~slot.busy
  /\ UNCHANGED <<requestVars, childVars, diskVars, crashes>>

\* Mutant: any id is good enough for a marker.
WriteMarkerForAny(p) ==
  /\ Caller(p, "comparing", "idle")
  /\ marker' = marker \cup {target[p]}
  /\ UNCHANGED <<requestVars, childVars, slot, advertised, crashes>>

WriteMarker(p) ==
  /\ Caller(p, "writing", "idle")
  /\ marker' = marker \cup {target[p]}
  /\ UNCHANGED <<requestVars, childVars, slot, advertised, crashes>>

-----------------------------------------------------------------------------

\* A process dies: its memory goes, the files stay as they are.
Crash(p) ==
  /\ crashes < MaxCrashes
  /\ crashes' = crashes + 1
  /\ pc' = [r \in Requests |->
              IF Home[r] = p /\ pc[r] \notin {"unborn", "over"} THEN "escaped" ELSE pc[r]]
  /\ registry' = registry \ Local(p)
  /\ child' = [r \in Requests |-> IF Home[r] = p /\ child[r] \in {"gated", "running"}
                                    THEN "ended" ELSE child[r]]
  /\ step' = [step EXCEPT ![p] = "idle"]
  /\ target' = [target EXCEPT ![p] = None]
  /\ patient' = {r \in patient : Home[r] # p}
  /\ UNCHANGED <<flag, diskVars>>

Next ==
  \/ \E r \in Requests :
       \/ Enter(r) \/ AdvertisePlanning(r) \/ Register(r) \/ AdvertiseThinking(r)
       \/ Escape(r) \/ See(r) \/ Unregister(r) \/ ClearMarker(r) \/ ResetToIdle(r)
       \/ Consult(r) \/ Launch(r) \/ Poll(r) \/ ChildEnds(r)
  \/ \E p \in Processes :
       \/ \E id \in Ids : Call(p, id)
       \/ CancelActive(p) \/ NotLocal(p) \/ SameId(p) \/ Busy(p)
       \/ Refuse(p) \/ WriteMarker(p) \/ Crash(p)

Spec == Init /\ [][Next]_vars

-----------------------------------------------------------------------------

Stages      == {"unborn", "entered", "planning", "registered", "looping",
                "unregistered", "cleared", "over", "escaped"}
ChildStages == {"none", "gated", "running", "ended"}
CallSteps   == {"idle", "called", "comparing", "checking", "writing"}

\* The variables hold values of their kinds.
TypeOK ==
  /\ pc \in [Requests -> Stages]
  /\ flag \subseteq Requests
  /\ registry \subseteq Requests
  /\ child \in [Requests -> ChildStages]
  /\ slot \in [busy : BOOLEAN, id : Requests \cup {None}]
  /\ marker \subseteq Ids
  /\ step \in [Processes -> CallSteps]
  /\ target \in [Processes -> Ids \cup {None}]
  /\ \A p \in Processes : step[p] # "idle" => target[p] \in Ids
  /\ crashes \in 0..MaxCrashes
  /\ advertised \subseteq Requests
  /\ patient \subseteq Requests

\* A marker exists only for a request that was advertised as the busy one, even
\* though the id and the busy status are read separately and the slot may have
\* changed hands in between (agent/cancellation.py, request_cancel).
MarkersWereAdvertised == marker \subseteq advertised

MarkersAreKept == \A r \in Requests : r \in marker /\ r \notin marker' => pc'[r] = "cleared"

\* A request that has been advertised keeps a marker written for it until its
\* own finally block: the removal at startup comes before anybody can find the
\* id, so it never swallows a cancel (agent/executor.py, execute_task_stream).
CancelIsKept == [][MarkersAreKept]_vars

\* The slot never stays busy with a request whose cleanup finished, whichever
\* requests of whichever processes wrote it in the meantime (agent/executor.py,
\* the finally block of execute_task_stream).
EndedIsNotAdvertised ==
  \A r \in Requests : pc[r] = "over" => slot # [busy |-> TRUE, id |-> r]

\* What _run_agent_subprocess's docstring promises: a parent cancelled mid-flight
\* does not go on waiting for its coworker.  A cancel from the parent's own
\* process sets the flag and writes no marker, and only the marker is polled.
CancelledParentStopsChild == patient = {}
=============================================================================
