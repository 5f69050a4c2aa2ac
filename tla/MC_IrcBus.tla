------------------------------ MODULE MC_IrcBus ------------------------------
(* The main agent and a subagent of its. *)
EXTENDS IrcBus, TLC
CONSTANTS main, sub
MCParent == sub :> main @@ main :> None
=============================================================================
