----------------------------- MODULE MCCoworkers -----------------------------
(* Small instances of Coworkers: r1, r2 and r3 are the runs, the loops and *)
(* the requests, of which two are of the chat in one process and the third *)
(* is the scheduler's.                                                     *)
EXTENDS Coworkers, TLC

CONSTANTS r1, r2, r3, q1, q2, p, q

MCProcessOf == r1 :> p @@ r2 :> p @@ r3 :> q
MCSourceOf == r1 :> "chat" @@ r2 :> "chat" @@ r3 :> "scheduled"

\* Two runs, two loops or two requests of the chat are alike, and so are two request ids.
RunSymmetry == Permutations({r1, r2}) \cup Permutations({q1, q2})
=============================================================================
