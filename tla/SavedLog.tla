------------------------------- MODULE SavedLog -------------------------------
(* What a store with a lock promises to whoever reads it, at any moment: a    *)
(* log to which a save adds one new entry, all at once, and which lets go of  *)
(* its oldest entry only when it is longer than its limit.                    *)
EXTENDS Integers, Sequences

VARIABLES
    log,                \* the entries that a reader finds
    newest,             \* the number of the entry saved last
    limit               \* how many are kept, or 0 for all of them

vars == <<log, newest, limit>>

Init == log = <<>> /\ newest = 0 /\ limit \in Nat

Kept(s) == IF limit > 0 /\ Len(s) > limit THEN SubSeq(s, Len(s) - limit + 1, Len(s)) ELSE s

Save ==
    /\ newest' \in Nat /\ newest' > newest
    /\ log' = Kept(Append(log, newest'))
    /\ UNCHANGED limit

Spec == Init /\ [][Save]_vars
=============================================================================
