------------------------------ MODULE AgentSlot ------------------------------
(***************************************************************************)
(* What the registry and its lifecycle manager promise to the rest of the  *)
(* program about one agent id, whatever parks, revivals, kills and         *)
(* releases overlap underneath (the header comments of                     *)
(* packages/coding-agent/src/registry/agent-lifecycle.ts and               *)
(* agent-registry.ts):                                                     *)
(*   - the id is held by at most one generation at a time, and a           *)
(*     generation that lost the id never gets it back;                     *)
(*   - a generation starts (or is restored from disk, parked or killed),   *)
(*     then alternates between live and parked, each change being one      *)
(*     indivisible step for an observer;                                   *)
(*   - a kill is final.                                                    *)
(***************************************************************************)
CONSTANTS Refs, None

VARIABLES
    holder,  \* the generation the id resolves to
    phase    \* the life of every generation

slotVars == <<holder, phase>>

Phase == {"absent", "starting", "live", "parked", "killed"}

SlotInit ==
    /\ holder = None
    /\ phase = [r \in Refs |-> "absent"]

Create(r) ==
    /\ holder = None /\ phase[r] = "absent"
    /\ holder' = r
    /\ \E start \in {"starting", "parked", "killed"} : phase' = [phase EXCEPT ![r] = start]

Moves(r, from, to) ==
    /\ holder = r /\ phase[r] \in from
    /\ phase' = [phase EXCEPT ![r] = to]
    /\ UNCHANGED holder

Start(r)  == Moves(r, {"starting"}, "live")
Park(r)   == Moves(r, {"live"}, "parked")
Revive(r) == Moves(r, {"parked"}, "live")
Kill(r)   == Moves(r, {"starting", "live", "parked"}, "killed")

Drop(r) == holder = r /\ holder' = None /\ UNCHANGED phase

SlotNext ==
    \E r \in Refs : Create(r) \/ Start(r) \/ Park(r) \/ Revive(r) \/ Kill(r) \/ Drop(r)

SlotSpec == SlotInit /\ [][SlotNext]_slotVars
=============================================================================
