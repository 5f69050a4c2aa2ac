----------------------------- MODULE MC_AsyncJobs -----------------------------
(* Two agents "a" and "b": x1 and x2 are successive sessions of "a". *)
EXTENDS AsyncJobs, TLC

CONSTANTS x1, x2, y1

OneSession  == x1 :> "a"
TwoAgents   == x1 :> "a" @@ y1 :> "b"
Everyone    == x1 :> "a" @@ x2 :> "a" @@ y1 :> "b"

Interchangeable == Permutations(Jobs) \cup Permutations(Ids)
=============================================================================
