-------------------------- MODULE MC_AgentLifecycle --------------------------
EXTENDS AgentLifecycle, TLC
Interchangeable == Permutations(Refs) \cup Permutations(Sessions)
    \cup Permutations(Adoptions) \cup Permutations(Parks)
    \cup Permutations(Callers) \cup Permutations(Releasers)
=============================================================================
