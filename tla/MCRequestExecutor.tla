------------------------- MODULE MCRequestExecutor --------------------------
(***************************************************************************)
(* Small instances of RequestExecutor.  Three calls stand for the kinds    *)
(* the executor tells apart: a pure read, a local side effect that is      *)
(* allowed, retried and verified against a store, and an external one that *)
(* needs a yes at the chosen autonomy level and is never retried.          *)
(***************************************************************************)
EXTENDS RequestExecutor

MCTools      == {"look", "save", "send"}
MCPermission == [t \in MCTools |-> CASE t = "look" -> 0 [] t = "save" -> 1 [] t = "send" -> 3]

\* A streaming candidate, then one driven by the shared non-streaming loop.
ClaudeThenOpenAI == <<"streaming", "looping">>
\* A grounded-research chain: the single-shot provider, then one of each of the others.
ResearchChain == <<"single_shot", "looping", "streaming">>
=============================================================================
