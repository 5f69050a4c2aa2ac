---------------------------- MODULE AgentLifecycle ----------------------------
(***************************************************************************)
(* AgentLifecycleManager (packages/coding-agent/src/registry/              *)
(* agent-lifecycle.ts) together with the registry it manages and with the  *)
(* code that calls it: the task executor that spawns and finalizes         *)
(* subagents, the revivers, hub and vibe kills, the disk rescan.           *)
(*                                                                         *)
(* The model follows ONE agent id.  #adopted, #parks and #revivals are     *)
(* maps keyed by id and no operation relates two ids (dispose() releases   *)
(* every id in parallel), so each map is one entry here.                   *)
(*                                                                         *)
(* An action is the code between two awaits.  Continuations of settled     *)
(* promises are microtasks: they run, in any order, before the next timer  *)
(* or I/O completion (Quiet).  Calls into the manager come from other code *)
(* and may come at any point between two actions.                          *)
(***************************************************************************)
EXTENDS AgentRegistry

CONSTANTS
    Adoptions,  \* AdoptedAgent objects, reused once nothing refers to them
    Parks,      \* ParkInFlight objects, reused once nothing awaits them
    Callers,    \* concurrent ensureLive() calls
    Releasers,  \* concurrent release() calls
    Overrun     \* may the disposal of an isolated run outlast its deadline?

ASSUME LifecycleAssumption ==
    /\ None \notin Adoptions \cup Parks \cup Callers
    /\ Overrun \in BOOLEAN

VARIABLES
    sess,      \* phase of every AgentSession object
    home,      \* the ref a session was built for (its dispose wrapper knows it)
    spawn,     \* the executor's run of a ref: building, running, finishing
    adopted,   \* #adopted entry of the id
    armed,     \* adoptions whose idle timer is pending
    parkEntry, \* #parks entry of the id
    park,      \* the park attempts
    revivalEntry, \* #revivals entry of the id
    call,      \* the ensureLive calls
    revival,   \* the #resolveAndRevive run started by each call
    release,   \* the release calls
    reclaim,   \* the ref a reclaimDeadCorpse probe is looking at
    mgr,       \* "open", "closing" (dispose awaits its releases), "closed"
    parkedOut  \* history: sessions some park committed to dispose

registryVars == <<reg, sess, home>>
adoptionVars == <<adopted, armed>>
parkVars     == <<parkEntry, park, parkedOut>>
callVars     == <<revivalEntry, call, revival>>
otherVars    == <<spawn, release, reclaim, mgr>>
vars == <<registryVars, adoptionVars, parkVars, callVars, otherVars>>

NotAdopted == [tok |-> None, ref |-> None, revive |-> FALSE, ttl |-> FALSE]
NoPark     == [pc |-> "settled", ref |-> None, session |-> None, cancelled |-> FALSE]
NoCall     == [pc |-> "idle", park |-> None, ref |-> None, on |-> None, got |-> None]
NoRevival  == [pc |-> "none", ref |-> None, session |-> None, tok |-> None]
NoRelease  == [pc |-> "idle", ref |-> None, session |-> None, tomb |-> FALSE, park |-> None]

Init ==
    /\ reg = EmptyRegistry
    /\ sess = [s \in Sessions |-> "unborn"]
    /\ home = [s \in Sessions |-> None]
    /\ spawn = [r \in Refs |-> "none"]
    /\ adopted = NotAdopted
    /\ armed = {}
    /\ parkEntry = None
    /\ park = [p \in Parks |-> NoPark]
    /\ revivalEntry = None
    /\ call = [c \in Callers |-> NoCall]
    /\ revival = [c \in Callers |-> NoRevival]
    /\ release = [k \in Releasers |-> NoRelease]
    /\ reclaim = None
    /\ mgr = "open"
    /\ parkedOut = {}

Disposed == mgr # "open"
FactoryInstalled == mgr # "closed"

Current == reg.current
Attached == IF Current = None THEN None ELSE reg.session[Current]

-----------------------------------------------------------------------------
(* What the manager's registry listener does (#onRegistryEvent).           *)

\* "running" disarms the timer; "idle" arms it, unless a park is in flight.
ArmedOnStatus(status, expected) ==
    IF ~StatusChanges(reg, status, expected) \/ Disposed \/ adopted.ref # Current
    THEN armed
    ELSE CASE status = "running" -> armed \ {adopted.tok}
           [] status = "idle" /\ parkEntry = None /\ adopted.ttl
                -> armed \cup {adopted.tok}
           [] OTHER -> armed

\* Variant: the entry is emptied and left in the map.
EmptiesAdoption(ref) ==
    /\ reg' = Unregistered(reg, ref)
    /\ adopted' = IF adopted.ref = ref THEN [adopted EXCEPT !.ref = None] ELSE adopted
    /\ UNCHANGED armed

\* "removed" drops the adoption of the removed ref.
ForgetsAdoption(ref) ==
    /\ ~Disposed
    /\ ref # None
    /\ Holds(reg, ref)
    /\ adopted.ref = ref

UnregisterRef(ref) ==
    /\ reg' = Unregistered(reg, ref)
    /\ adopted' = IF ForgetsAdoption(ref) THEN NotAdopted ELSE adopted
    /\ armed' = IF ForgetsAdoption(ref) THEN armed \ {adopted.tok} ELSE armed

\* dispose() is idempotent: later calls await the first one.
Disposing(s) == [sess EXCEPT ![s] = IF @ = "live" THEN "disposing" ELSE @]

FreeAdoption(a) ==
    /\ a # adopted.tok
    /\ a \notin armed
    /\ \A c \in Callers : revival[c].tok # a

IsParking(ref) ==
    parkEntry # None /\ ~park[parkEntry].cancelled /\ park[parkEntry].ref = ref

-----------------------------------------------------------------------------
(* Microtasks: continuations whose promise is settled.                     *)

\* Variant: park()'s promise resolves at the detach.
ParkDetached(p) == p # None => park[p].pc # "yielding"

ParkSettled(p) == p # None => park[p].pc = "settled"

ParkReady(p) ==
    \/ park[p].pc = "yielding"
    \/ park[p].pc = "disposing" /\ sess[park[p].session] = "disposed"

CallReady(c) ==
    \/ call[c].pc \in {"keeping", "waiting"} /\ ParkSettled(call[c].park)
    \/ call[c].pc = "reviving" /\ revival[call[c].on].pc \in {"resolved", "rejected"}

RevivalReady(c) ==
    \/ revival[c].pc = "returned"
    \/ /\ revival[c].pc \in {"discarding", "unwinding"}
       /\ sess[revival[c].session] = "disposed"

ReleaseReady(k) ==
    \/ release[k].pc = "awaitPark" /\ ParkSettled(release[k].park)
    \/ release[k].pc = "disposing" /\ sess[release[k].session] = "disposed"

Quiet ==
    /\ \A p \in Parks : ~ParkReady(p)
    /\ \A c \in Callers : ~CallReady(c) /\ ~RevivalReady(c)
    /\ \A k \in Releasers : ~ReleaseReady(k)

-----------------------------------------------------------------------------
(* The executor's side: spawning and finalizing a subagent.                *)

\* createAgentSession claims a free id before it builds the session.
SpawnRegisters(r) ==
    /\ ~Born(r)
    /\ IsAvailable(reg)
    /\ reg' = Registered(reg, r, "running", None)
    /\ spawn' = [spawn EXCEPT ![r] = "building"]
    /\ UNCHANGED <<sess, home, adoptionVars, parkVars, callVars, release, reclaim, mgr>>

\* The session is attached, or discarded when the ref was removed or killed.
SpawnAttaches(r, s) ==
    /\ spawn[r] = "building"
    /\ sess[s] = "unborn"
    /\ home' = [home EXCEPT ![s] = r]
    /\ \/ /\ AcceptsSession(reg, r)
          /\ reg' = WithStatus(WithSession(reg, s, r), "running", r)
          /\ sess' = [sess EXCEPT ![s] = "live"]
          /\ spawn' = [spawn EXCEPT ![r] = "working"]
       \/ /\ ~AcceptsSession(reg, r)
          /\ sess' = [sess EXCEPT ![s] = "disposing"]
          /\ spawn' = [spawn EXCEPT ![r] = "done"]
          /\ UNCHANGED reg
    /\ UNCHANGED <<adoptionVars, parkVars, callVars, release, reclaim, mgr>>

\* ownsRef: the session being finalized is still the one the id resolves to.
Owns(s) == Current # None /\ reg.session[Current] = s

Finishing(r, s) == spawn[r] = "working" /\ home[s] = r

\* Kept alive: idle, then handed to the manager, which arms the timer.
FinishKeptAlive(r, s) ==
    /\ Finishing(r, s)
    /\ Owns(s) /\ AcceptsStatus(reg, "idle", Current)
    /\ ~Disposed
    /\ reg' = WithStatus(reg, "idle", Current)
    /\ \E a \in Adoptions, revive, ttl \in BOOLEAN :
          /\ FreeAdoption(a)
          /\ adopted' = [tok |-> a, ref |-> Current, revive |-> revive, ttl |-> ttl]
          /\ armed' = (ArmedOnStatus("idle", Current) \ {adopted.tok})
                         \cup (IF ttl THEN {a} ELSE {})
    /\ spawn' = [spawn EXCEPT ![r] = "done"]
    /\ UNCHANGED <<sess, home, parkVars, callVars, release, reclaim, mgr>>

\* Isolated run: parked without adoption, disposed, then detached.
FinishIsolated(r, s) ==
    /\ Finishing(r, s)
    /\ Owns(s)
    /\ reg' = WithStatus(reg, "parked", Current)
    /\ sess' = Disposing(s)
    /\ spawn' = [spawn EXCEPT ![r] = "isolating"]
    /\ UNCHANGED <<home, adoptionVars, parkVars, callVars, release, reclaim, mgr>>

\* ... once the disposal settled or the cleanup deadline passed.
IsolatedDetaches(r) ==
    /\ spawn[r] = "isolating"
    /\ Overrun \/ \A s \in Sessions : home[s] = r => sess[s] = "disposed"
    /\ reg' = Detached(reg, r)
    /\ spawn' = [spawn EXCEPT ![r] = "done"]
    /\ UNCHANGED <<sess, home, adoptionVars, parkVars, callVars, release, reclaim, mgr>>

\* One-shot helpers, and runs that lost their ref: the session is disposed
\* (its dispose wrapper unregisters the ref, see SessionDisposed).
FinishDisposes(r, s) ==
    /\ Finishing(r, s)
    /\ sess' = Disposing(s)
    /\ spawn' = [spawn EXCEPT ![r] = IF Owns(s) THEN "dropping" ELSE "done"]
    /\ UNCHANGED <<reg, home, adoptionVars, parkVars, callVars, release, reclaim, mgr>>

\* The helper's ref is dropped once the disposal settled or the deadline passed.
HelperDrops(r) ==
    /\ spawn[r] = "dropping"
    /\ UnregisterRef(r)
    /\ spawn' = [spawn EXCEPT ![r] = "done"]
    /\ UNCHANGED <<sess, home, parkVars, callVars, release, reclaim, mgr>>

\* The disk scan restores a transcript nobody holds the id of, as parked or, if
\* its tombstone was persisted, as aborted.
RestoreParked(r) ==
    /\ ~Born(r)
    /\ IsAvailable(reg)
    /\ \E status \in {"parked", "aborted"} : reg' = Registered(reg, r, status, None)
    /\ UNCHANGED <<sess, home, adoptionVars, parkVars, callVars, otherVars>>

\* Run-state notifications of an attached session (syncSessionStatus); a
\* reviver subscribes as its last act, and its session runs no turn before.
Reviving(s) ==
    \E c \in Callers : /\ revival[c].session = s
                       /\ revival[c].pc \in {"attached", "returned", "unwinding"}

RunStarts(s) ==
    /\ Owns(s) /\ sess[s] = "live" /\ ~Reviving(s)
    /\ reg.status[Current] = "idle"
    /\ reg' = WithStatus(reg, "running", s)
    /\ armed' = ArmedOnStatus("running", s)
    /\ UNCHANGED <<sess, home, adopted, parkVars, callVars, otherVars>>

RunEnds(s) ==
    /\ Owns(s) /\ ~Reviving(s)
    /\ reg.status[Current] = "running"
    /\ reg' = WithStatus(reg, "idle", s)
    /\ armed' = ArmedOnStatus("idle", s)
    /\ UNCHANGED <<sess, home, adopted, parkVars, callVars, otherVars>>

\* dispose() settles; the wrapper's finally forgets the ref unless it is
\* parked, being parked, or a detached tombstone (unregisterUnlessParked).
KeepsRef(r) ==
    \/ reg.status[r] = "parked"
    \/ reg.status[r] = "aborted" /\ reg.session[r] = None
    \/ IsParking(r)

SessionDisposed(s) ==
    /\ Quiet
    /\ sess[s] = "disposing"
    /\ sess' = [sess EXCEPT ![s] = "disposed"]
    /\ IF Current = home[s] /\ ~KeepsRef(home[s])
       THEN UnregisterRef(home[s])
       ELSE UNCHANGED <<reg, adoptionVars>>
    /\ UNCHANGED <<home, parkVars, callVars, otherVars>>

-----------------------------------------------------------------------------
(* park(): the idle timer is its only caller.                              *)

CanPark ==
    /\ parkEntry = None
    /\ adopted.tok # None
    /\ adopted.ref = Current
    /\ Attached # None

TimerFires(a) ==
    /\ Quiet
    /\ a \in armed
    /\ \/ /\ CanPark
          /\ \E p \in Parks :
                /\ park[p] = NoPark
                /\ \A c \in Callers : call[c].park # p
                /\ \A k \in Releasers : release[k].park # p
                /\ park' = [park EXCEPT ![p] =
                      [pc |-> "yielding", ref |-> Current, session |-> Attached,
                       cancelled |-> FALSE]]
                /\ parkEntry' = p
          /\ armed' = armed \ {a, adopted.tok}
       \/ /\ ~CanPark
          /\ armed' = armed \ {a}
          /\ UNCHANGED <<parkEntry, park>>
    /\ UNCHANGED <<registryVars, adopted, parkedOut, callVars, otherVars>>

StillParkable(p) ==
    /\ ~park[p].cancelled
    /\ Current = park[p].ref
    /\ Attached = park[p].session
    /\ adopted.ref = park[p].ref

\* Variant: a cancelled park returns before its `finally` is armed.
SettleUnlessCancelled(p) ==
    /\ park' = IF park[p].cancelled THEN park ELSE [park EXCEPT ![p] = NoPark]
    /\ parkEntry' = IF parkEntry = p THEN None ELSE parkEntry

\* The `finally` of park().
SettlePark(p) ==
    /\ park' = [park EXCEPT ![p] = NoPark]
    /\ parkEntry' = IF parkEntry = p THEN None ELSE parkEntry

\* Variants: the commit forgets to detach; it forgets to flip the status.
StatusOnly(ref) == WithStatus(reg, "parked", ref)
DetachOnly(ref) == Detached(reg, ref)

\* The commit: no caller may see a disposing session through the ref.
ParkedRegistry(ref) == WithStatus(Detached(reg, ref), "parked", ref)

\* After the yield: give up, or detach and flip to parked, then dispose.
ParkCommits(p) ==
    /\ park[p].pc = "yielding"
    /\ \/ /\ ~StillParkable(p)
          /\ SettlePark(p)
          /\ UNCHANGED <<reg, sess, parkedOut>>
       \/ /\ StillParkable(p)
          /\ reg' = ParkedRegistry(park[p].ref)
          /\ sess' = Disposing(park[p].session)
          /\ park' = [park EXCEPT ![p].pc = "disposing"]
          /\ parkedOut' = parkedOut \cup {park[p].session}
          /\ UNCHANGED parkEntry
    /\ UNCHANGED <<home, adoptionVars, callVars, otherVars>>

ParkSettles(p) ==
    /\ park[p].pc = "disposing"
    /\ sess[park[p].session] = "disposed"
    /\ SettlePark(p)
    /\ UNCHANGED <<registryVars, adoptionVars, parkedOut, callVars, otherVars>>

-----------------------------------------------------------------------------
(* ensureLive()                                                            *)

Returns(c, s) == call' = [call EXCEPT ![c] = [NoCall EXCEPT !.pc = "done", !.got = s]]
Throws(c)     == call' = [call EXCEPT ![c] = [NoCall EXCEPT !.pc = "failed"]]

HasReviver(ref) == adopted.ref = ref /\ adopted.revive

\* The synchronous start of #resolveAndRevive.
FirstRevivalStep(ref) ==
    CASE reg.status[ref] = "parked" /\ HasReviver(ref) -> "opening"
      [] reg.status[ref] = "parked" /\ ~HasReviver(ref) /\ FactoryInstalled -> "factory"
      [] OTHER -> "rejected"

\* Variant: the revival is published only once its reviver was found.
CoalescesLate ==
    /\ revivalEntry # None
    /\ revival[revivalEntry].ref = Current
    /\ revival[revivalEntry].pc # "factory"

\* A revival of the very ref the id resolves to is in flight.
Coalesces == revivalEntry # None /\ revival[revivalEntry].ref = Current

\* The tail of ensureLive, once no park is in the way.
Lookup(c) ==
    CASE Current = None -> Throws(c) /\ UNCHANGED <<revivalEntry, revival>>
      [] Attached # None -> Returns(c, Attached) /\ UNCHANGED <<revivalEntry, revival>>
      [] Current # None /\ Attached = None /\ Coalesces ->
            /\ call' = [call EXCEPT ![c] = [NoCall EXCEPT !.pc = "reviving", !.on = revivalEntry]]
            /\ UNCHANGED <<revivalEntry, revival>>
      [] OTHER ->
            /\ call' = [call EXCEPT ![c] = [NoCall EXCEPT !.pc = "reviving", !.on = c]]
            /\ revival' = [revival EXCEPT ![c] =
                  [NoRevival EXCEPT !.pc = FirstRevivalStep(Current), !.ref = Current]]
            /\ revivalEntry' = c

EnsureLive(c) ==
    /\ call[c].pc = "idle"
    /\ \A d \in Callers : call[d].on # c
    /\ \/ /\ parkEntry # None
          /\ Attached # None /\ park[parkEntry].pc = "yielding"
          /\ park' = [park EXCEPT ![parkEntry].cancelled = TRUE]
          /\ call' = [call EXCEPT ![c] =
                [NoCall EXCEPT !.pc = "keeping", !.park = parkEntry, !.ref = Current]]
          /\ UNCHANGED <<revivalEntry, revival>>
       \/ /\ parkEntry # None
          /\ ~(Attached # None /\ park[parkEntry].pc = "yielding")
          /\ call' = [call EXCEPT ![c] = [NoCall EXCEPT !.pc = "waiting", !.park = parkEntry]]
          /\ UNCHANGED <<park, revivalEntry, revival>>
       \/ /\ parkEntry = None
          /\ Lookup(c)
          /\ UNCHANGED park
    /\ UNCHANGED <<registryVars, adoptionVars, parkEntry, parkedOut, otherVars>>

\* The caller uses what it got and may call again later.
Collect(c) ==
    /\ call[c].pc \in {"done", "failed"}
    /\ call' = [call EXCEPT ![c] = NoCall]
    /\ UNCHANGED <<registryVars, adoptionVars, parkVars, revivalEntry, revival, otherVars>>

\* Variant: the kept session stays without a timer.
NotRearmed(ref) == armed

\* Park cleared the idle timer of the session that is kept: arm it again.
Rearmed(ref) ==
    IF /\ adopted.tok # None /\ adopted.ref = ref
       /\ reg.status[ref] = "idle" /\ adopted.ttl
    THEN armed \cup {adopted.tok} ELSE armed

\* The cancelled park is over: keep the session and re-arm its timer.
KeepResumes(c) ==
    /\ call[c].pc = "keeping" /\ ParkSettled(call[c].park)
    /\ \/ /\ Attached # None
          /\ Returns(c, Attached)
          /\ armed' = Rearmed(call[c].ref)
          /\ UNCHANGED <<revivalEntry, revival>>
       \/ /\ Attached = None
          /\ Lookup(c)
          /\ UNCHANGED armed
    /\ UNCHANGED <<registryVars, adopted, parkVars, otherVars>>

WaitResumes(c) ==
    /\ call[c].pc = "waiting" /\ ParkSettled(call[c].park)
    /\ Lookup(c)
    /\ UNCHANGED <<registryVars, adoptionVars, parkVars, otherVars>>

\* The revival promise settled: the creator's finally clears the map entry.
RevivedResumes(c) ==
    LET on == call[c].on IN
    /\ call[c].pc = "reviving" /\ revival[on].pc \in {"resolved", "rejected"}
    /\ IF revival[on].pc = "resolved" THEN Returns(c, revival[on].session) ELSE Throws(c)
    /\ revivalEntry' = IF on = c /\ revivalEntry = c THEN None ELSE revivalEntry
    /\ revival' = IF \E d \in Callers \ {c} : call[d].on = on
                  THEN revival ELSE [revival EXCEPT ![on] = NoRevival]
    /\ UNCHANGED <<registryVars, adoptionVars, parkVars, otherVars>>

-----------------------------------------------------------------------------
(* #resolveAndRevive and #revive: one run per revival[c].                  *)

Goes(c, pc) == revival' = [revival EXCEPT ![c].pc = pc]

\* The persisted-reviver factory answers: the ref is adopted on demand.
ColdAdopt(c) ==
    /\ ~Disposed
    /\ \E a \in Adoptions :
          /\ FreeAdoption(a)
          /\ adopted' = [tok |-> a, ref |-> revival[c].ref, revive |-> TRUE, ttl |-> TRUE]
          /\ revival' = [revival EXCEPT
                ![c] = IF Current = @.ref /\ reg.status[@.ref] = "parked"
                       THEN [@ EXCEPT !.pc = "opening", !.tok = a]
                       ELSE [@ EXCEPT !.pc = "rejected"]]

FactoryAnswers(c) ==
    /\ Quiet
    /\ revival[c].pc = "factory"
    /\ \/ ColdAdopt(c)
       \/ Goes(c, "rejected") /\ UNCHANGED adopted  \* no reviver, error, or disposed
    /\ UNCHANGED <<registryVars, armed, parkVars, revivalEntry, call, otherVars>>

\* A failed run drops the adoption it made itself (no timer is cleared).
Rejects(c) ==
    /\ Goes(c, "rejected")
    /\ adopted' = IF revival[c].tok # None /\ adopted.tok = revival[c].tok
                  THEN NotAdopted ELSE adopted

\* The reviver throws before it has a session.
ReviverFails(c) ==
    /\ Quiet
    /\ revival[c].pc \in {"opening", "claimed"}
    /\ Rejects(c)
    /\ UNCHANGED <<registryVars, armed, parkVars, revivalEntry, call, otherVars>>

\* createAgentSession claims the exact parked ref (registerIfAvailable) ...
ReviverClaims(c) ==
    /\ Quiet
    /\ revival[c].pc = "opening"
    /\ IsRevivable(reg, revival[c].ref)
    /\ Goes(c, "claimed")
    /\ UNCHANGED <<registryVars, adoptionVars, parkVars, revivalEntry, call, otherVars>>

\* ... and attaches the session it built, or disposes it when it lost the ref.
ReviverAttaches(c, s) ==
    LET ref == revival[c].ref
        wins == AcceptsSession(reg, ref)
    IN
    /\ Quiet
    /\ revival[c].pc = "claimed"
    /\ sess[s] = "unborn"
    /\ home' = [home EXCEPT ![s] = ref]
    /\ sess' = [sess EXCEPT ![s] = IF wins THEN "live" ELSE "disposing"]
    /\ reg' = WithStatus(WithSession(reg, s, ref), "running", ref)
    /\ armed' = ArmedOnStatus("running", ref)
    /\ revival' = [revival EXCEPT ![c].pc = IF wins THEN "attached" ELSE "unwinding",
                                  ![c].session = s]
    /\ UNCHANGED <<adopted, parkVars, revivalEntry, call, otherVars>>

\* The rest of the reviver: extension start-up, then it returns the session;
\* a construction error after the attach disposes the session.
ReviverFinishes(c) ==
    /\ Quiet
    /\ revival[c].pc = "attached"
    /\ \/ Goes(c, "returned") /\ UNCHANGED sess
       \/ Goes(c, "unwinding") /\ sess' = Disposing(revival[c].session)
    /\ UNCHANGED <<reg, home, adoptionVars, parkVars, revivalEntry, call, otherVars>>

\* A reviver that returns a session without claiming the ref.
SimpleReviverReturns(c, s) ==
    /\ Quiet
    /\ revival[c].pc = "opening"
    /\ sess[s] = "unborn"
    /\ home' = [home EXCEPT ![s] = revival[c].ref]
    /\ sess' = [sess EXCEPT ![s] = "live"]
    /\ revival' = [revival EXCEPT ![c].pc = "returned", ![c].session = s]
    /\ UNCHANGED <<reg, adoptionVars, parkVars, revivalEntry, call, otherVars>>

\* Variant: the waiters fail and the late session is forgotten.
Forgets(c) == Goes(c, "rejected") /\ UNCHANGED sess

\* A stale result is disposed before the waiters fail.
Discards(c) == Goes(c, "discarding") /\ sess' = Disposing(revival[c].session)

\* #revive after `await revive(ref)`: attach or confirm, then idle; a stale
\* result is disposed and the waiters fail.
ReviveReturns(c) ==
    LET ref == revival[c].ref
        s   == revival[c].session
        unclaimed == IsRevivable(reg, ref)
        claimed   == /\ Current = ref /\ reg.status[ref] = "running"
                     /\ reg.session[ref] = s
    IN
    /\ revival[c].pc = "returned"
    /\ \/ /\ ~Disposed /\ unclaimed
          /\ reg' = WithStatus(WithSession(reg, s, ref), "idle", ref)
          /\ armed' = ArmedOnStatus("idle", ref)
          /\ Goes(c, "resolved")
          /\ UNCHANGED sess
       \/ /\ ~Disposed /\ claimed
          /\ reg' = WithStatus(reg, "idle", ref)
          /\ armed' = ArmedOnStatus("idle", ref)
          /\ Goes(c, "resolved")
          /\ UNCHANGED sess
       \/ /\ Disposed \/ ~(unclaimed \/ claimed)
          /\ Discards(c)
          /\ UNCHANGED <<reg, armed>>
    /\ UNCHANGED <<home, adopted, parkVars, revivalEntry, call, otherVars>>

RevivalRejects(c) ==
    /\ revival[c].pc \in {"discarding", "unwinding"}
    /\ sess[revival[c].session] = "disposed"
    /\ Rejects(c)
    /\ UNCHANGED <<registryVars, armed, parkVars, revivalEntry, call, otherVars>>

-----------------------------------------------------------------------------
(* release(): teardown, or with `tomb` an explicit kill.                   *)

ReleaseTarget(expected) ==
    IF Holds(reg, expected) THEN Current
    ELSE IF adopted.tok # None /\ (expected = Anyone \/ adopted.ref = expected)
         THEN adopted.ref ELSE None

\* After the park is out of the way: persist the tombstone, or dispose.
ReleaseTail(k, ref, tomb) ==
    LET live == IF Current = ref THEN reg.session[ref] ELSE None IN
    CASE tomb ->
            /\ release' = [release EXCEPT ![k] =
                  [NoRelease EXCEPT !.pc = "persist", !.ref = ref, !.tomb = TRUE]]
            /\ UNCHANGED <<reg, sess>>
      [] ~tomb /\ live # None ->
            /\ sess' = Disposing(live)
            /\ release' = [release EXCEPT ![k] =
                  [NoRelease EXCEPT !.pc = "disposing", !.ref = ref, !.session = live]]
            /\ UNCHANGED reg
      [] OTHER ->
            /\ reg' = Unregistered(reg, ref)
            /\ release' = [release EXCEPT ![k] = NoRelease]
            /\ UNCHANGED sess

StartRelease(k, expected, tomb) ==
    LET ref == ReleaseTarget(expected) IN
    /\ release[k].pc = "idle"
    /\ ref # None
    /\ adopted' = IF adopted.ref = ref THEN NotAdopted ELSE adopted
    /\ armed' = IF adopted.ref = ref THEN armed \ {adopted.tok} ELSE armed
    /\ IF parkEntry # None /\ park[parkEntry].ref = ref
       THEN /\ park' = [park EXCEPT ![parkEntry].cancelled = @ \/ park[parkEntry].pc = "yielding"]
            /\ release' = [release EXCEPT ![k] =
                  [NoRelease EXCEPT !.pc = "awaitPark", !.ref = ref, !.tomb = tomb,
                                    !.park = parkEntry]]
            /\ UNCHANGED <<reg, sess>>
       ELSE ReleaseTail(k, ref, tomb) /\ UNCHANGED park
    /\ UNCHANGED <<home, parkEntry, parkedOut, callVars, spawn, reclaim>>

Release(k) ==
    /\ \E expected \in {r \in Refs : Born(r)} \cup {Anyone}, tomb \in BOOLEAN :
          StartRelease(k, expected, tomb)
    /\ UNCHANGED mgr

ReleaseResumes(k) ==
    /\ release[k].pc = "awaitPark" /\ ParkSettled(release[k].park)
    /\ ReleaseTail(k, release[k].ref, release[k].tomb)
    /\ IF release'[k] = NoRelease /\ ForgetsAdoption(release[k].ref)
       THEN adopted' = NotAdopted /\ armed' = armed \ {adopted.tok}
       ELSE UNCHANGED adoptionVars
    /\ UNCHANGED <<home, parkVars, callVars, spawn, reclaim, mgr>>

\* The tombstone file is written: abort the ref, detach, dispose.
TombstonePersisted(k) ==
    LET ref  == release[k].ref
        live == IF Current = ref THEN reg.session[ref] ELSE None
    IN
    /\ Quiet
    /\ release[k].pc = "persist"
    /\ reg' = Detached(WithStatus(reg, "aborted", ref), ref)
    /\ IF live # None
       THEN /\ sess' = Disposing(live)
            /\ release' = [release EXCEPT ![k].pc = "disposing", ![k].session = live]
       ELSE /\ release' = [release EXCEPT ![k] = NoRelease]
            /\ UNCHANGED sess
    /\ UNCHANGED <<home, adoptionVars, parkVars, callVars, spawn, reclaim, mgr>>

\* Writing it fails: release throws; the executor then aborts and disposes
\* by itself, other callers leave the agent as it is.
TombstoneFails(k) ==
    LET ref == release[k].ref IN
    /\ Quiet
    /\ release[k].pc = "persist"
    /\ \/ UNCHANGED <<reg, sess>>
       \/ /\ Current = ref /\ Attached # None
          /\ reg' = Detached(WithStatus(reg, "aborted", ref), ref)
          /\ sess' = Disposing(Attached)
    /\ release' = [release EXCEPT ![k] = NoRelease]
    /\ UNCHANGED <<home, adoptionVars, parkVars, callVars, spawn, reclaim, mgr>>

ReleaseFinishes(k) ==
    /\ release[k].pc = "disposing" /\ sess[release[k].session] = "disposed"
    /\ IF release[k].tomb THEN UNCHANGED <<reg, adoptionVars>>
                          ELSE UnregisterRef(release[k].ref)
    /\ release' = [release EXCEPT ![k] = NoRelease]
    /\ UNCHANGED <<sess, home, parkVars, callVars, spawn, reclaim, mgr>>

\* Vibe stops waiting for a release at its deadline and drops the ref itself.
ReleaseTimesOut(k) ==
    /\ Quiet
    /\ release[k].pc \in {"awaitPark", "disposing"} /\ ~release[k].tomb
    /\ Current = release[k].ref
    /\ UnregisterRef(release[k].ref)
    /\ UNCHANGED <<sess, home, parkVars, callVars, otherVars>>

-----------------------------------------------------------------------------
(* reclaimDeadCorpse(), for a spawn that collides with a parked ref.       *)

IsCorpse(r) ==
    /\ IsRevivable(reg, r)
    /\ adopted.tok = None /\ parkEntry = None /\ revivalEntry = None

ReclaimStarts ==
    /\ reclaim = None
    /\ Current # None /\ IsCorpse(Current)
    /\ IF FactoryInstalled
       THEN reclaim' = Current /\ UNCHANGED <<reg, adoptionVars>>
       ELSE UnregisterRef(Current) /\ UNCHANGED reclaim
    /\ UNCHANGED <<sess, home, parkVars, callVars, spawn, release, mgr>>

\* The probe yields no reviver; every condition is checked again.
ReclaimProbed ==
    /\ Quiet
    /\ reclaim # None
    /\ reclaim' = None
    /\ \/ UNCHANGED <<reg, adoptionVars>>
       \/ IsCorpse(reclaim) /\ UnregisterRef(reclaim)
    /\ UNCHANGED <<sess, home, parkVars, callVars, spawn, release, mgr>>

-----------------------------------------------------------------------------
(* dispose(): releases what it manages, waits until done or the deadline.  *)

DisposeManager ==
    /\ mgr = "open"
    /\ mgr' = "closing"
    /\ \/ /\ adopted.tok # None \/ parkEntry # None
          /\ \E k \in Releasers : StartRelease(k, Anyone, FALSE)
       \/ /\ (adopted.tok = None /\ parkEntry = None) \/ ReleaseTarget(Anyone) = None
          /\ UNCHANGED <<registryVars, adoptionVars, parkVars, callVars, spawn,
                         release, reclaim>>

CloseManager ==
    /\ Quiet
    /\ mgr = "closing"
    /\ mgr' = "closed"
    /\ revivalEntry' = None
    /\ parkEntry' = None
    /\ UNCHANGED <<registryVars, adoptionVars, park, parkedOut, call, revival,
                   spawn, release, reclaim>>

-----------------------------------------------------------------------------
Microtask ==
    \/ \E p \in Parks : ParkCommits(p) \/ ParkSettles(p)
    \/ \E c \in Callers :
          KeepResumes(c) \/ WaitResumes(c) \/ RevivedResumes(c)
             \/ ReviveReturns(c) \/ RevivalRejects(c)
    \/ \E k \in Releasers : ReleaseResumes(k) \/ ReleaseFinishes(k)

ReviverStep(c) ==
    \/ FactoryAnswers(c) \/ ReviverFails(c) \/ ReviverClaims(c) \/ ReviverFinishes(c)
    \/ \E s \in Sessions : ReviverAttaches(c, s) \/ SimpleReviverReturns(c, s)

Executor ==
    \/ \E r \in Refs :
          SpawnRegisters(r) \/ RestoreParked(r) \/ IsolatedDetaches(r) \/ HelperDrops(r)
    \/ \E r \in Refs, s \in Sessions :
          \/ SpawnAttaches(r, s) \/ FinishKeptAlive(r, s) \/ FinishIsolated(r, s)
          \/ FinishDisposes(r, s)
    \/ \E s \in Sessions : RunStarts(s) \/ RunEnds(s)

Next ==
    \/ Microtask
    \/ Executor
    \/ \E s \in Sessions : SessionDisposed(s)
    \/ \E a \in Adoptions : TimerFires(a)
    \/ \E c \in Callers : EnsureLive(c) \/ Collect(c) \/ ReviverStep(c)
    \/ \E k \in Releasers :
          \/ Release(k) \/ TombstonePersisted(k) \/ TombstoneFails(k) \/ ReleaseTimesOut(k)
    \/ ReclaimStarts \/ ReclaimProbed
    \/ DisposeManager \/ CloseManager

Spec == Init /\ [][Next]_vars

(***************************************************************************)
(* Every continuation of a settled promise runs.  Timers and I/O wait for  *)
(* the microtask queue to drain, which other calls may refill: the event   *)
(* loop still comes back to them, hence strong fairness.  A disposal and   *)
(* each step of a reviver is assumed to end (the code bounds neither).     *)
(***************************************************************************)
Fairness ==
    /\ \A p \in Parks : WF_vars(ParkCommits(p) \/ ParkSettles(p))
    /\ \A c \in Callers :
          /\ WF_vars(KeepResumes(c) \/ WaitResumes(c) \/ RevivedResumes(c))
          /\ WF_vars(ReviveReturns(c) \/ RevivalRejects(c))
          /\ SF_vars(ReviverStep(c))
    /\ \A k \in Releasers : WF_vars(ReleaseResumes(k) \/ ReleaseFinishes(k))
    /\ \A s \in Sessions : SF_vars(SessionDisposed(s))

FairSpec == Spec /\ Fairness

-----------------------------------------------------------------------------
ParkPhase    == {"settled", "yielding", "disposing"}
CallPhase    == {"idle", "keeping", "waiting", "reviving", "done", "failed"}
RevivalPhase == {"none", "factory", "opening", "claimed", "attached", "returned",
                 "discarding", "unwinding", "resolved", "rejected"}
ReleasePhase == {"idle", "awaitPark", "persist", "disposing"}

\* Types of the lifecycle's state; an entry in use is filled in.
LifecycleTypeOK ==
    /\ RegistryTypeOK
    /\ sess \in [Sessions -> {"unborn", "live", "disposing", "disposed"}]
    /\ home \in [Sessions -> Refs \cup {None}]
    /\ spawn \in [Refs -> {"none", "building", "working", "isolating", "dropping", "done"}]
    /\ adopted \in [tok : Adoptions, ref : Refs, revive : BOOLEAN, ttl : BOOLEAN]
                      \cup {NotAdopted}
    /\ armed \subseteq Adoptions
    /\ parkEntry \in Parks \cup {None}
    /\ park \in [Parks -> [pc : ParkPhase \ {"settled"}, ref : Refs, session : Sessions,
                           cancelled : BOOLEAN] \cup {NoPark}]
    /\ revivalEntry \in Callers \cup {None}
    /\ call \in [Callers -> [pc : CallPhase, park : Parks \cup {None}, ref : Refs \cup {None},
                             on : Callers \cup {None}, got : Sessions \cup {None}]]
    /\ revival \in [Callers -> [pc : RevivalPhase, ref : Refs \cup {None},
                                session : Sessions \cup {None}, tok : Adoptions \cup {None}]]
    /\ release \in [Releasers -> [pc : ReleasePhase, ref : Refs \cup {None},
                                  session : Sessions \cup {None}, tomb : BOOLEAN,
                                  park : Parks \cup {None}]]
    /\ reclaim \in Refs \cup {None}
    /\ mgr \in {"open", "closing", "closed"}
    /\ parkedOut \subseteq Sessions

HandsOut(c, s) == call[c].pc # "done" /\ call'[c].pc = "done" /\ call'[c].got = s

(***************************************************************************)
(* ensureLive never returns a session that a park took out of service: it  *)
(* cancels the park while the session is still attached, or awaits it and  *)
(* revives.  With a third generation it may: the timer of an adoption that *)
(* a late factory answer replaced parks whatever the id then resolves to.  *)
(***************************************************************************)
ParkedNeverHandedOut ==
    [][\A c \in Callers, s \in Sessions : HandsOut(c, s) => s \notin parkedOut]_vars

(***************************************************************************)
(* A reviver reopens the transcript only after every earlier session of    *)
(* the ref has closed its writer (its dispose settled): the transcript has *)
(* a single writer.                                                        *)
(***************************************************************************)
SingleWriter ==
    \A c \in Callers, s \in Sessions :
        /\ revival[c].pc \in {"opening", "claimed", "attached"}
        /\ s # revival[c].session
        /\ home[s] = revival[c].ref
        => sess[s] = "disposed"

\* Concurrent ensureLive calls share one revival: two are never in flight
\* for the same ref.
InFlight(c) == revival[c].pc \in {"factory", "opening", "claimed", "attached", "returned"}

OneRevivalPerRef ==
    \A c, d \in Callers :
        c # d /\ InFlight(c) /\ InFlight(d) => revival[c].ref # revival[d].ref

(***************************************************************************)
(* No session leaks: a session that is not being disposed belongs to the   *)
(* ref the id resolves to, or to a revival that will attach or dispose it. *)
(***************************************************************************)
NoLeakedSession ==
    \A s \in Sessions : sess[s] = "live" =>
        \/ Owns(s)
        \/ \E c \in Callers : /\ revival[c].session = s
                              /\ revival[c].pc \in {"attached", "returned"}

\* For the agent the manager owns, `session` is null exactly when the status
\* is parked or aborted: no caller observes half a park or half a revival.
DetachedExactlyWhenParked ==
    adopted.tok # None /\ adopted.ref = Current =>
        (Attached = None <=> reg.status[Current] \in {"parked", "aborted"})

(***************************************************************************)
(* "arms a TTL timer whenever the agent goes idle": an adopted agent that  *)
(* sits idle with a live session always has its timer pending, or a park   *)
(* of it under way.  (Within one generation of the id: with a second one   *)
(* the park of the first stands in the way of the timer of the second.)    *)
(***************************************************************************)
IdleIsTimed ==
    /\ mgr = "open" /\ Quiet
    /\ adopted.tok # None /\ adopted.ttl /\ adopted.ref = Current
    /\ reg.status[Current] = "idle" /\ Attached # None
    => adopted.tok \in armed \/ (parkEntry # None /\ park[parkEntry].ref = Current)

\* Every ensureLive call ends, with a session or an error.
EnsureLiveReturns ==
    \A c \in Callers :
        call[c].pc \in {"keeping", "waiting", "reviving"} ~> call[c].pc \in {"done", "failed"}

-----------------------------------------------------------------------------
\* The life of a generation as the rest of the program sees it.
PhaseOf(r) ==
    CASE reg.status[r] = "unborn"  -> "absent"
      [] reg.status[r] = "aborted" -> "killed"
      [] reg.status[r] = "parked"  -> "parked"
      [] reg.status[r] \in {"running", "idle"} ->
            IF reg.session[r] = None THEN "starting" ELSE "live"

Slot == INSTANCE AgentSlot WITH holder <- reg.current, phase <- [r \in Refs |-> PhaseOf(r)]

(***************************************************************************)
(* The manager implements the abstract slot: every overlap of park,        *)
(* revival, kill, release and respawn looks like single steps of it.       *)
(***************************************************************************)
ImplementsSlot == Slot!SlotSpec
=============================================================================
