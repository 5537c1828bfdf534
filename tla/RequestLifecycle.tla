-------------------------- MODULE RequestLifecycle --------------------------
(***************************************************************************)
(* What a request promises its caller, whatever providers, tools and       *)
(* cancellations do meanwhile: it is registered once, it speaks with the   *)
(* voice of one provider, its outcome is decided at most once and only     *)
(* while it is live, and nothing happens to it once it is over.            *)
(***************************************************************************)

CONSTANT Voices      (* the providers that may answer *)

VARIABLES stage,     (* "new", "live" or "over"                                 *)
          voice,     (* the providers whose text the user has been shown        *)
          outcome    (* what the execution history says of the request          *)

vars == <<stage, voice, outcome>>

Outcomes == {"completed", "failed", "cancelled"}

Init ==
  /\ stage = "new"
  /\ voice = {}
  /\ outcome = "none"

Open ==
  /\ stage = "new"
  /\ stage' = "live"
  /\ UNCHANGED <<voice, outcome>>

Speak ==
  /\ stage = "live"
  /\ outcome = "none"
  /\ \E p \in Voices : voice \in {{}, {p}} /\ voice' = {p}
  /\ UNCHANGED <<stage, outcome>>

Decide ==
  /\ stage = "live"
  /\ outcome = "none"
  /\ outcome' \in Outcomes
  /\ UNCHANGED <<stage, voice>>

Close ==
  /\ stage = "live"
  /\ stage' = "over"
  /\ UNCHANGED <<voice, outcome>>

Next == Open \/ Speak \/ Decide \/ Close

Spec == Init /\ [][Next]_vars
=============================================================================
