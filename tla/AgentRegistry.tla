---------------------------- MODULE AgentRegistry ----------------------------
(***************************************************************************)
(* The process-global registry of agents                                   *)
(* (packages/coding-agent/src/registry/agent-registry.ts), seen through    *)
(* one agent id.  Every registry operation takes an id and touches only    *)
(* the map entry of that id, so one id with several GENERATIONS of         *)
(* AgentRef objects is the whole story: the hard case is a second ref      *)
(* registered under the id while callbacks of the first are still around.  *)
(*                                                                         *)
(* `reg` is the registry seen by the program: `current` is the ref stored  *)
(* under the id, `status` and `session` are fields of the AgentRef objects *)
(* (which outlive their removal from the map: closures keep them).         *)
(* Operators compute the registry an operation leaves; several operations  *)
(* that run without an await between them are composed by the caller.      *)
(* Telemetry (activity, history, timestamps) does not influence control.   *)
(***************************************************************************)
CONSTANTS
    Refs,       \* AgentRef objects that may ever be created for the id
    Sessions,   \* AgentSession objects
    None,       \* null / undefined
    Anyone      \* the omitted `expected` argument

ASSUME RegistryAssumption ==
    /\ None \notin Refs \cup Sessions
    /\ Anyone \notin Refs \cup Sessions \cup {None}
    /\ Refs \cap Sessions = {}

VARIABLE reg

AgentStatus == {"running", "idle", "parked", "aborted"}

\* A ref that was not created yet has the status "unborn".
Registry ==
    [current : Refs \cup {None},
     status  : [Refs -> AgentStatus \cup {"unborn"}],
     session : [Refs -> Sessions \cup {None}]]

EmptyRegistry ==
    [current |-> None,
     status  |-> [r \in Refs |-> "unborn"],
     session |-> [r \in Refs |-> None]]

(***************************************************************************)
(* The compare-and-set guard: no expectation, the exact ref, or a ref      *)
(* whose attached session is the expected one.                             *)
(***************************************************************************)
MatchesExpected(g, expected) ==
    \/ expected = Anyone
    \/ g.current = expected
    \/ g.session[g.current] = expected

Holds(g, expected) == g.current # None /\ MatchesExpected(g, expected)

\* Variant: the new ref is stored before its status is set.
RegisteredBare(g, r, status, session) ==
    [current |-> r,
     status  |-> g.status,
     session |-> [g.session EXCEPT ![r] = session]]

\* register: overwrites whatever the id mapped to.
Registered(g, r, status, session) ==
    [current |-> r,
     status  |-> [g.status EXCEPT ![r] = status],
     session |-> [g.session EXCEPT ![r] = session]]

(***************************************************************************)
(* registerIfAvailable: a new ref only under a free id; with an expected   *)
(* ref, that very ref again, if it is still parked and detached.  The      *)
(* result is the ref handed to the caller, None when the CAS fails.        *)
(***************************************************************************)
\* Variant: a spawn takes the id without looking.
AlwaysAvailable(g) == TRUE

IsAvailable(g) == g.current = None

IsRevivable(g, expected) ==
    /\ g.current = expected
    /\ g.status[expected] = "parked"
    /\ g.session[expected] = None

\* Variant: no terminal status.
AcceptsAnyStatus(g, status, expected) == Holds(g, expected)

\* setStatus: `aborted` is terminal.
AcceptsStatus(g, status, expected) ==
    /\ Holds(g, expected)
    /\ g.status[g.current] = "aborted" => status = "aborted"

WithStatus(g, status, expected) ==
    IF AcceptsStatus(g, status, expected)
    THEN [g EXCEPT !.status[g.current] = status] ELSE g

\* setStatus tells the listeners only about a change.
StatusChanges(g, status, expected) ==
    AcceptsStatus(g, status, expected) /\ g.status[g.current] # status

\* attachSession: never onto a hard-killed tombstone.
AcceptsSession(g, expected) ==
    Holds(g, expected) /\ g.status[g.current] # "aborted"

WithSession(g, session, expected) ==
    IF AcceptsSession(g, expected)
    THEN [g EXCEPT !.session[g.current] = session] ELSE g

\* Variant: detaches the ref the caller names, whoever holds the id.
DetachedNamed(g, expected) ==
    IF expected \in Refs THEN [g EXCEPT !.session[expected] = None] ELSE g

Detached(g, expected) ==
    IF Holds(g, expected) THEN [g EXCEPT !.session[g.current] = None] ELSE g

Unregistered(g, expected) ==
    IF Holds(g, expected) THEN [g EXCEPT !.current = None] ELSE g

-----------------------------------------------------------------------------
(***************************************************************************)
(* The registry on its own: any caller, any argument.  A caller names as   *)
(* `expected` any ref that exists, any session, or nothing.                *)
(***************************************************************************)
Born(r) == reg.status[r] # "unborn"

Expectation == {r \in Refs : Born(r)} \cup Sessions \cup {Anyone}

RegistryInit == reg = EmptyRegistry

Register(r) ==
    /\ ~Born(r)
    /\ \E status \in AgentStatus, session \in Sessions \cup {None} :
          reg' = Registered(reg, r, status, session)

RegisterIfAvailable(r) ==
    /\ ~Born(r)
    /\ IsAvailable(reg)
    /\ \E status \in AgentStatus, session \in Sessions \cup {None} :
          reg' = Registered(reg, r, status, session)

SetStatus ==
    \E status \in AgentStatus, expected \in Expectation :
        reg' = WithStatus(reg, status, expected)

AttachSession ==
    \E session \in Sessions, expected \in Expectation :
        reg' = WithSession(reg, session, expected)

DetachSession == \E expected \in Expectation : reg' = Detached(reg, expected)

Unregister == \E expected \in Expectation : reg' = Unregistered(reg, expected)

RegistryNext ==
    \/ \E r \in Refs : Register(r) \/ RegisterIfAvailable(r)
    \/ SetStatus
    \/ AttachSession
    \/ DetachSession
    \/ Unregister

RegistrySpec == RegistryInit /\ [][RegistryNext]_reg

-----------------------------------------------------------------------------
\* The registry always holds well-formed refs, and only refs that were created.
RegistryTypeOK ==
    /\ reg \in Registry
    /\ reg.current # None => Born(reg.current)

(***************************************************************************)
(* A hard kill is final for the generation it hit: whatever progress       *)
(* report, reviver or finalizer comes late, the killed ref never becomes   *)
(* live again and never receives a session it did not have.                *)
(***************************************************************************)
AbortedStaysDown(r) ==
    reg.status[r] = "aborted" =>
        /\ reg'.status[r] = "aborted"
        /\ reg'.session[r] \in {reg.session[r], None}

AbortedIsTerminal == [][\A r \in Refs : AbortedStaysDown(r)]_reg

(***************************************************************************)
(* A ref that lost the id (removed or overwritten) is out of reach of      *)
(* every registry operation: nothing done to the id later, by any caller   *)
(* and with any expectation, changes the old generation's fields, and it   *)
(* never gets the id back.                                                 *)
(***************************************************************************)
RetiredIsFrozen(r) ==
    Born(r) /\ reg.current # r =>
        /\ reg'.current # r
        /\ reg'.status[r] = reg.status[r]
        /\ reg'.session[r] = reg.session[r]

RetiredNeverReturns == [][\A r \in Refs : RetiredIsFrozen(r)]_reg
=============================================================================
