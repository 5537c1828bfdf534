--------------------------- MODULE MCCoordination ---------------------------
(* Small instances of Coordination: two threads in one process and a third *)
(* in another; a request in each.                                          *)
EXTENDS Coordination, TLC

CONSTANTS t1, t2, t3, p, q, h1, h2, r1, r2

MCProcessOf == t1 :> p @@ t2 :> p @@ t3 :> q
MCHome == r1 :> h1 @@ r2 :> h2

\* Two threads of one process are alike in the safety properties, and so are the two
\* requests, each with the process that runs it.
Swap == r1 :> r2 @@ r2 :> r1 @@ h1 :> h2 @@ h2 :> h1
ThreadSymmetry == Permutations({t1, t2}) \cup {Swap}
=============================================================================
