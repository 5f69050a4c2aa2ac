--------------------------- MODULE AgentSlot_proofs ---------------------------
(***************************************************************************)
(* The lifecycle manager implements the abstract slot of AgentSlot.tla,    *)
(* and concurrent ensureLive calls share one revival, for any number of    *)
(* generations, sessions, parks, callers and releasers.                    *)
(*                                                                         *)
(* Both rest on who may act on a generation: while the executor's run of   *)
(* it is under way the generation is not adopted, not parked and not       *)
(* revived, although no guard of the manager asks for that.                *)
(***************************************************************************)
EXTENDS AgentLifecycle_proofs

USE RegistryAssumption

\* No run of the executor holds the ref (any more).
SpawnOver(r) == spawn[r] \in {"none", "done"}

\* A session is attached to the ref it was built for.
HomeInv ==
    \A r \in Refs, s \in Sessions :
        reg.session[r] = s => home[s] = r /\ sess[s] # "unborn"

\* What a ref looks like while its run is under way.
LooksRun(r) ==
    reg.current = r =>
        /\ spawn[r] = "building" => reg.status[r] # "parked" /\ reg.session[r] = None
        /\ spawn[r] \in {"working", "dropping"} => reg.status[r] # "parked"
        /\ spawn[r] = "isolating" =>
              \/ reg.status[r] = "aborted"
              \/ reg.status[r] = "parked" /\ reg.session[r] # None

SpawnInv == \A r \in Refs : (spawn[r] # "none" => Born(r)) /\ LooksRun(r)

\* Adopted refs are beyond their run; a manager that is disposed has let go of
\* the holder of the id.
AdoptInv ==
    \A r \in Refs : adopted.ref = r =>
        /\ SpawnOver(r) /\ Born(r)
        /\ Disposed => reg.current # r

\* A revival is under way until it resolves or rejects, also while it takes
\* back the session it built.
IsUnderway(v) == v.pc \notin {"none", "resolved", "rejected"}
HasSession(v) == v.pc \in {"attached", "returned", "discarding", "unwinding"}
Underway(c) == IsUnderway(revival[c])

\* So are refs that are being revived, by a session built for them.
GoodFlight(v) ==
    /\ IsUnderway(v) => SpawnOver(v.ref) /\ Born(v.ref)
    /\ HasSession(v) => home[v.session] = v.ref /\ sess[v.session] # "unborn"
    /\ IsUnderway(v) /\ ~HasSession(v) => v.session = None

FlightInv == \A c \in Callers : GoodFlight(revival[c])

\* A revival under way is in the map, or its ref lost the id; no ref has two.
EntryInv ==
    /\ \A c \in Callers : Underway(c) /\ revivalEntry # c =>
          reg.current # revival[c].ref \/ ~FactoryInstalled
    /\ \A c, d \in Callers :
          c # d /\ Underway(c) /\ Underway(d) => revival[c].ref # revival[d].ref

SlotInv == TypedInv /\ HomeInv /\ SpawnInv /\ AdoptInv /\ FlightInv /\ EntryInv

LEMMA SlotInitially == Init => SlotInv
<1> SUFFICES ASSUME Init PROVE SlotInv
  OBVIOUS
<1>1. TypedInv  BY TypedInit
<1>2. HomeInv /\ SpawnInv /\ AdoptInv
  BY DEF Init, EmptyRegistry, HomeInv, SpawnInv, LooksRun, AdoptInv, NotAdopted,
     Disposed
<1>3. FlightInv /\ EntryInv
  BY DEF Init, FlightInv, GoodFlight, EntryInv, Underway, IsUnderway, HasSession, NoRevival
<1> QED  BY <1>1, <1>2, <1>3 DEF SlotInv

-----------------------------------------------------------------------------
(* Steps that take something from the holder of the id, or nothing         *)

LEMMA HoldsRef ==
  ASSUME GoodRegistry(reg), NEW r \in Refs
  PROVE  Holds(reg, r) <=> reg.current = r
BY DEF GoodRegistry, Registry, Holds, MatchesExpected

\* A kill detaches the session it disposes.
Kills(e) ==
    /\ reg' = Detached(WithStatus(reg, "aborted", e), e)
    /\ Current = e /\ Attached # None => sess' = Disposing(Attached)

RegistryEbbs ==
    \/ reg' = reg
    \/ \E e : reg' = Unregistered(reg, e)
    \/ \E r \in Refs : Kills(r)

\* The actions that do more, or that are steps of a run.
Acts ==
    \/ \E r \in Refs :
          SpawnRegisters(r) \/ RestoreParked(r) \/ IsolatedDetaches(r) \/ HelperDrops(r)
    \/ \E r \in Refs, s \in Sessions :
          \/ SpawnAttaches(r, s) \/ FinishKeptAlive(r, s) \/ FinishIsolated(r, s)
          \/ FinishDisposes(r, s)
    \/ \E s \in Sessions : RunStarts(s) \/ RunEnds(s)
    \/ \E p \in Parks : ParkCommits(p)
    \/ \E c \in Callers, s \in Sessions : ReviverAttaches(c, s)
    \/ \E c \in Callers : ReviveReturns(c)

LEMMA EbbsOrActs ==
  ASSUME TypedInv, [Next]_vars
  PROVE  Acts \/ (RegistryEbbs /\ spawn' = spawn)
<1> USE DEF registryVars, adoptionVars, parkVars, callVars, otherVars
<1>1. ASSUME NEW s \in Sessions, SessionDisposed(s) PROVE RegistryEbbs /\ spawn' = spawn
  BY <1>1 DEF SessionDisposed, UnregisterRef, RegistryEbbs
<1>2. ASSUME NEW k \in Releasers, NEW e, NEW tomb, StartRelease(k, e, tomb)
      PROVE  RegistryEbbs /\ spawn' = spawn
  <2>1. spawn' = spawn /\ (reg' = reg \/ ReleaseTail(k, ReleaseTarget(e), tomb))
    BY <1>2 DEF StartRelease
  <2> QED  BY <2>1, ReleaseTailGoes DEF RegistryEbbs
<1>3. ASSUME NEW k \in Releasers, Release(k) PROVE RegistryEbbs /\ spawn' = spawn
  BY <1>2, <1>3 DEF Release
<1>4. ASSUME NEW k \in Releasers, ReleaseResumes(k) PROVE RegistryEbbs /\ spawn' = spawn
  BY <1>4, ReleaseTailGoes DEF ReleaseResumes, RegistryEbbs
<1>5. ASSUME NEW k \in Releasers, TombstonePersisted(k) \/ TombstoneFails(k)
      PROVE  RegistryEbbs /\ spawn' = spawn
  <2>1. PICK r \in Refs : r = release[k].ref
    BY <1>5 DEF TombstonePersisted, TombstoneFails, TypedInv, ReleaseTyped
  <2>2. reg' = reg \/ Kills(r)
    BY <1>5, <2>1 DEF TombstonePersisted, TombstoneFails, Kills, Attached, Current
  <2>3. spawn' = spawn  BY <1>5 DEF TombstonePersisted, TombstoneFails
  <2> QED  BY <2>2, <2>3 DEF RegistryEbbs
<1>6. ASSUME NEW k \in Releasers, ReleaseFinishes(k) \/ ReleaseTimesOut(k)
      PROVE  RegistryEbbs /\ spawn' = spawn
  BY <1>6 DEF ReleaseFinishes, ReleaseTimesOut, UnregisterRef, RegistryEbbs
<1>7. CASE ReclaimStarts \/ ReclaimProbed
  BY <1>7 DEF ReclaimStarts, ReclaimProbed, UnregisterRef, RegistryEbbs
<1>8. CASE DisposeManager  BY <1>2, <1>8 DEF DisposeManager, RegistryEbbs
<1>9. ASSUME NEW c \in Callers,
             \/ KeepResumes(c) \/ WaitResumes(c) \/ RevivedResumes(c) \/ RevivalRejects(c)
             \/ EnsureLive(c) \/ Collect(c)
      PROVE  reg' = reg /\ spawn' = spawn
  BY <1>9 DEF KeepResumes, WaitResumes, RevivedResumes, RevivalRejects, EnsureLive, Collect
<1>10. ASSUME NEW c \in Callers,
              \/ FactoryAnswers(c) \/ ReviverFails(c) \/ ReviverClaims(c) \/ ReviverFinishes(c)
              \/ \E s \in Sessions : SimpleReviverReturns(c, s)
       PROVE  reg' = reg /\ spawn' = spawn
  BY <1>10 DEF FactoryAnswers, ReviverFails, ReviverClaims, ReviverFinishes, SimpleReviverReturns
<1>11. ASSUME \/ \E a \in Adoptions : TimerFires(a)
              \/ \E p \in Parks : ParkSettles(p)
              \/ CloseManager \/ UNCHANGED vars
       PROVE  reg' = reg /\ spawn' = spawn
  BY <1>11 DEF TimerFires, ParkSettles, CloseManager, vars
<1>12. reg' = reg => RegistryEbbs  BY DEF RegistryEbbs
<1> QED
  BY <1>1, <1>3, <1>4, <1>5, <1>6, <1>7, <1>8, <1>9, <1>10, <1>11, <1>12
  DEF Next, Microtask, Executor, ReviverStep, Acts

\* What such a step leaves of the holder, and of all others.
LEMMA EbbLeaves ==
  ASSUME GoodRegistry(reg), RegistryEbbs, NEW r \in Refs
  PROVE  /\ reg'.current = r => reg.current = r
         /\ reg'.current \in {reg.current, None}
         /\ \/ reg'.status[r] = reg.status[r] /\ reg'.session[r] = reg.session[r]
            \/ /\ reg.current = r /\ reg'.status[r] = "aborted" /\ reg'.session[r] = None
               /\ reg.session[r] # None => sess' = Disposing(reg.session[r])
<1> DEFINE Leaves(g) ==
             /\ g.current = r => reg.current = r
             /\ g.current \in {reg.current, None}
             /\ \/ g.status[r] = reg.status[r] /\ g.session[r] = reg.session[r]
                \/ reg.current = r /\ g.status[r] = "aborted" /\ g.session[r] = None
<1>1. ASSUME NEW e PROVE Leaves(Unregistered(reg, e))
  BY DEF GoodRegistry, Registry, Unregistered
<1>2. ASSUME NEW e PROVE Leaves(Detached(WithStatus(reg, "aborted", e), e))
  <2>1. CASE Holds(reg, e)
    <3> DEFINE g == WithStatus(reg, "aborted", e)
    <3>1. /\ g.current = reg.current /\ g.session = reg.session
          /\ g.status = [reg.status EXCEPT ![reg.current] = "aborted"]
          /\ g \in Registry
      BY <2>1 DEF WithStatus, AcceptsStatus, GoodRegistry, Registry, Holds, AgentStatus
    <3> HIDE DEF g
    <3>2. Holds(g, e)  BY <2>1, <3>1 DEF Holds, MatchesExpected
    <3>3. /\ Detached(g, e).current = reg.current /\ Detached(g, e).status = g.status
          /\ Detached(g, e).session = [reg.session EXCEPT ![reg.current] = None]
      BY <3>1, <3>2 DEF Detached, Registry
    <3>4. Leaves(Detached(g, e))
      BY <2>1, <3>1, <3>3 DEF GoodRegistry, Registry, Holds
    <3> QED  BY <3>4 DEF g
  <2>2. CASE ~Holds(reg, e)
    BY <2>2 DEF WithStatus, AcceptsStatus, Detached
  <2> QED  BY <2>1, <2>2
<1>3. ASSUME NEW e \in Refs, Kills(e), reg'.session[r] # reg.session[r], reg.session[r] # None
      PROVE  sess' = Disposing(reg.session[r])
  <2>1. reg.current = e  BY <1>3, HoldsRef DEF Kills, Detached, WithStatus, AcceptsStatus
  <2>2. CASE e # r
    <3>1. reg'.session[r] = reg.session[r]
      BY <1>3, <2>1, <2>2 DEF Kills, Detached, WithStatus, GoodRegistry, Registry
    <3> QED  BY <1>3, <3>1
  <2> QED  BY <1>3, <2>1, <2>2 DEF Kills, Attached, Current
<1> HIDE DEF Leaves
<1>4. Leaves(reg)  BY DEF Leaves
<1>5. Leaves(reg')  BY <1>1, <1>2, <1>4 DEF RegistryEbbs, Kills
<1>6. CASE \E e \in Refs : Kills(e)  BY <1>3, <1>5, <1>6 DEF Leaves
<1>7. CASE reg' = reg \/ \E e : reg' = Unregistered(reg, e)
  <2>1. reg'.session = reg.session /\ reg'.status = reg.status
    BY <1>7 DEF Unregistered, GoodRegistry, Registry
  <2> QED  BY <1>5, <2>1 DEF Leaves
<1> QED  BY <1>6, <1>7 DEF RegistryEbbs

-----------------------------------------------------------------------------
(* What no step undoes                                                     *)

\* A session, once born, stays the session of its ref.
LEMMA SessionsStay ==
  ASSUME TypedInv, [Next]_vars, NEW s \in Sessions, sess[s] # "unborn"
  PROVE  sess'[s] # "unborn" /\ home'[s] = home[s]
<1> USE DEF registryVars, adoptionVars, parkVars, callVars, otherVars
<1> DEFINE Stays == sess'[s] # "unborn" /\ home'[s] = home[s]
<1>0. SessTyped  BY DEF TypedInv
<1>1. ASSUME NEW q, sess' = Disposing(q), home' = home PROVE Stays
  BY <1>0, <1>1 DEF Disposing, SessTyped
<1>2. ASSUME NEW r \in Refs, NEW q \in Sessions, SpawnAttaches(r, q) PROVE Stays
  BY <1>0, <1>2 DEF SpawnAttaches, SessTyped
<1>3. ASSUME NEW c \in Callers, NEW q \in Sessions,
             ReviverAttaches(c, q) \/ SimpleReviverReturns(c, q)
      PROVE  Stays
  BY <1>0, <1>3 DEF ReviverAttaches, SimpleReviverReturns, SessTyped
<1>4. ASSUME NEW q \in Sessions, SessionDisposed(q) PROVE Stays
  BY <1>0, <1>4 DEF SessionDisposed, SessTyped
<1>5. ASSUME NEW k, NEW e, NEW tomb, StartRelease(k, e, tomb) \/ ReleaseTail(k, e, tomb)
      PROVE  sess' = sess \/ \E q : sess' = Disposing(q)
  <2>1. ASSUME NEW ref, ReleaseTail(k, ref, tomb) PROVE sess' = sess \/ \E q : sess' = Disposing(q)
    BY <2>1 DEF ReleaseTail
  <2>2. StartRelease(k, e, tomb) => sess' = sess \/ ReleaseTail(k, ReleaseTarget(e), tomb)
    BY DEF StartRelease
  <2> QED  BY <1>5, <2>1, <2>2
<1>6. ASSUME \/ \E k \in Releasers : Release(k) \/ ReleaseResumes(k)
             \/ DisposeManager
      PROVE  home' = home /\ (sess' = sess \/ \E q : sess' = Disposing(q))
  BY <1>5, <1>6 DEF Release, ReleaseResumes, DisposeManager, StartRelease
<1>7. ASSUME \/ \E k \in Releasers :
                   \/ TombstonePersisted(k) \/ TombstoneFails(k) \/ ReleaseFinishes(k)
                   \/ ReleaseTimesOut(k)
             \/ \E r \in Refs, q \in Sessions :
                   FinishKeptAlive(r, q) \/ FinishIsolated(r, q) \/ FinishDisposes(r, q)
             \/ \E p \in Parks : ParkCommits(p)
             \/ \E c \in Callers : ReviverFinishes(c) \/ ReviveReturns(c)
      PROVE  home' = home /\ (sess' = sess \/ \E q : sess' = Disposing(q))
  BY <1>7 DEF TombstonePersisted, TombstoneFails, ReleaseFinishes, ReleaseTimesOut,
              FinishKeptAlive, FinishIsolated, FinishDisposes, ParkCommits, ReviverFinishes,
              ReviveReturns, Discards
<1>8. ASSUME \/ \E r \in Refs :
                   SpawnRegisters(r) \/ RestoreParked(r) \/ IsolatedDetaches(r) \/ HelperDrops(r)
             \/ \E q \in Sessions : RunStarts(q) \/ RunEnds(q)
             \/ \E p \in Parks : ParkSettles(p)
             \/ \E a \in Adoptions : TimerFires(a)
             \/ ReclaimStarts \/ ReclaimProbed \/ CloseManager \/ UNCHANGED vars
      PROVE  home' = home /\ sess' = sess
  BY <1>8 DEF SpawnRegisters, RestoreParked, IsolatedDetaches, HelperDrops, RunStarts, RunEnds,
              ParkSettles, TimerFires, ReclaimStarts, ReclaimProbed, CloseManager, vars
<1>9. ASSUME NEW c \in Callers,
             \/ KeepResumes(c) \/ WaitResumes(c) \/ RevivedResumes(c) \/ RevivalRejects(c)
             \/ EnsureLive(c) \/ Collect(c)
             \/ FactoryAnswers(c) \/ ReviverFails(c) \/ ReviverClaims(c)
      PROVE  home' = home /\ sess' = sess
  BY <1>9 DEF KeepResumes, WaitResumes, RevivedResumes, RevivalRejects, EnsureLive, Collect,
              FactoryAnswers, ReviverFails, ReviverClaims
<1> QED
  BY <1>1, <1>2, <1>3, <1>4, <1>6, <1>7, <1>8, <1>9 DEF Next, Microtask, Executor, ReviverStep

\* A ref that was created stays created, and its run never starts again.
LEMMA RefsStay ==
  ASSUME TypedInv, [Next]_vars, NEW r \in Refs
  PROVE  /\ Born(r) => Born(r)'
         /\ Born(r) /\ SpawnOver(r) => SpawnOver(r)'
         /\ Born(r) /\ reg.current # r => reg'.current # r
<1> USE DEF registryVars, adoptionVars, parkVars, callVars, otherVars
<1>1. Follows(reg, reg')  BY RegistryMoves, GoesFollows DEF TypedInv
<1>2. Born(r) /\ SpawnOver(r) => SpawnOver(r)'
  <2> SUFFICES ASSUME Born(r), SpawnOver(r) PROVE SpawnOver(r)'
    OBVIOUS
  <2>0. spawn \in [Refs -> {"none", "building", "working", "isolating", "dropping", "done"}]
    BY DEF TypedInv, SessTyped
  <2>1. CASE spawn' = spawn  BY <2>1 DEF SpawnOver
  <2>2. ASSUME NEW q \in Refs, SpawnRegisters(q) PROVE SpawnOver(r)'
    BY <2>0, <2>2 DEF SpawnRegisters, SpawnOver
  <2>3. ASSUME NEW q \in Refs, NEW s \in Sessions,
               \/ SpawnAttaches(q, s) \/ FinishKeptAlive(q, s) \/ FinishIsolated(q, s)
               \/ FinishDisposes(q, s)
        PROVE  SpawnOver(r)'
    BY <2>0, <2>3 DEF SpawnAttaches, FinishKeptAlive, FinishIsolated, FinishDisposes, Finishing,
                      SpawnOver
  <2>4. ASSUME NEW q \in Refs, IsolatedDetaches(q) \/ HelperDrops(q) PROVE SpawnOver(r)'
    BY <2>0, <2>4 DEF IsolatedDetaches, HelperDrops, SpawnOver
  <2>5. ASSUME \/ \E q \in Refs : RestoreParked(q)
               \/ \E s \in Sessions : RunStarts(s) \/ RunEnds(s)
               \/ \E p \in Parks : ParkCommits(p)
               \/ \E c \in Callers, s \in Sessions : ReviverAttaches(c, s)
               \/ \E c \in Callers : ReviveReturns(c)
        PROVE  spawn' = spawn
    BY <2>5 DEF RestoreParked, RunStarts, RunEnds, ParkCommits, ReviverAttaches, ReviveReturns
  <2> QED  BY <2>1, <2>2, <2>3, <2>4, <2>5, EbbsOrActs DEF Acts
<1> QED  BY <1>1, <1>2 DEF Follows, Born

-----------------------------------------------------------------------------
(* The registry operations of the other actions                            *)

LEMMA HoldsOwned ==
  ASSUME GoodRegistry(reg), NEW s \in Sessions, Owns(s)
  PROVE  Holds(reg, s) /\ Holds(reg, Current) /\ Current \in Refs /\ reg.session[Current] = s
BY DEF GoodRegistry, Registry, Holds, MatchesExpected, Owns, Current

\* setStatus by who owns the ref.
StatusSet(r, st) ==
    \/ reg' = reg /\ reg.status[r] = "aborted"
    \/ /\ reg.status[r] # "aborted"
       /\ reg'.current = reg.current /\ reg'.session = reg.session
       /\ reg'.status = [reg.status EXCEPT ![r] = st]

LEMMA OwnerSets ==
  ASSUME GoodRegistry(reg), NEW st \in AgentStatus \ {"aborted"}, NEW e, Holds(reg, e),
         reg' = WithStatus(reg, st, e)
  PROVE  StatusSet(Current, st)
BY DEF GoodRegistry, Registry, WithStatus, AcceptsStatus, StatusSet, Current

\* attachSession and setStatus by who brings a session.
Brought(r, s, st) ==
    /\ reg.current = r /\ reg.status[r] # "aborted"
    /\ reg'.current = reg.current
    /\ reg'.status = [reg.status EXCEPT ![r] = st]
    /\ reg'.session = [reg.session EXCEPT ![r] = s]

LEMMA BringerSets ==
  ASSUME GoodRegistry(reg), NEW r \in Refs, NEW s \in Sessions, NEW st \in {"running", "idle"},
         reg' = WithStatus(WithSession(reg, s, r), st, r)
  PROVE  \/ reg' = reg /\ ~AcceptsSession(reg, r)
         \/ Brought(r, s, st) /\ AcceptsSession(reg, r)
<1>1. CASE ~AcceptsSession(reg, r)
  BY <1>1 DEF WithSession, WithStatus, AcceptsStatus, AcceptsSession
<1>2. CASE AcceptsSession(reg, r)
  <2> DEFINE g == WithSession(reg, s, r)
  <2>1. reg.current = r /\ reg.status[r] # "aborted"  BY <1>2, HoldsRef DEF AcceptsSession
  <2>2. /\ g.current = r /\ g.status = reg.status
        /\ g.session = [reg.session EXCEPT ![r] = s] /\ g \in Registry
    BY <1>2, <2>1 DEF WithSession, GoodRegistry, Registry
  <2> HIDE DEF g
  <2>3. AcceptsStatus(g, st, r)  BY <2>1, <2>2 DEF AcceptsStatus, Holds, MatchesExpected
  <2>4. reg' = [g EXCEPT !.status[g.current] = st]  BY <2>3 DEF WithStatus, g
  <2> QED  BY <1>2, <2>1, <2>2, <2>4 DEF Brought, Registry
<1> QED  BY <1>1, <1>2

\* detachSession and setStatus by a park.
LEMMA ParkSets ==
  ASSUME GoodRegistry(reg), NEW r \in Refs, reg.current = r, reg' = ParkedRegistry(r)
  PROVE  /\ reg'.current = reg.current
         /\ reg'.session = [reg.session EXCEPT ![r] = None]
         /\ reg'.status = IF reg.status[r] = "aborted" THEN reg.status
                          ELSE [reg.status EXCEPT ![r] = "parked"]
<1> DEFINE g == Detached(reg, r)
<1>1. /\ g.current = r /\ g.status = reg.status
      /\ g.session = [reg.session EXCEPT ![r] = None] /\ g \in Registry
  BY HoldsRef DEF Detached, GoodRegistry, Registry
<1> HIDE DEF g
<1>2. Holds(g, r)  BY <1>1 DEF Holds, MatchesExpected
<1>3. reg' = WithStatus(g, "parked", r)  BY DEF ParkedRegistry, g
<1> QED  BY <1>1, <1>2, <1>3 DEF WithStatus, AcceptsStatus, Registry

LEMMA RefSpawned ==
  ASSUME GoodRegistry(reg), NEW r \in Refs, NEW st \in AgentStatus,
         reg' = Registered(reg, r, st, None)
  PROVE  /\ reg'.current = r
         /\ reg'.status = [reg.status EXCEPT ![r] = st]
         /\ reg'.session = [reg.session EXCEPT ![r] = None]
BY DEF Registered

LEMMA RefDetached ==
  ASSUME GoodRegistry(reg), NEW r \in Refs, reg' = Detached(reg, r)
  PROVE  \/ reg' = reg /\ reg.current # r
         \/ /\ reg.current = r /\ reg'.current = r /\ reg'.status = reg.status
            /\ reg'.session = [reg.session EXCEPT ![r] = None]
BY HoldsRef DEF Detached, GoodRegistry, Registry

LEMMA RefDropped ==
  ASSUME GoodRegistry(reg), NEW r \in Refs, reg' = Unregistered(reg, r)
  PROVE  /\ reg'.current = IF reg.current = r THEN None ELSE reg.current
         /\ reg'.status = reg.status /\ reg'.session = reg.session
BY HoldsRef DEF Unregistered, GoodRegistry, Registry

-----------------------------------------------------------------------------
(* The invariant, part by part                                             *)

\* Whoever brings a session brings one built for the ref.
LEMMA HomeStep ==
  ASSUME SlotInv, [Next]_vars
  PROVE  HomeInv'
<1> DEFINE NoneBrought == \A r \in Refs : reg'.session[r] \in {reg.session[r], None}
<1>0. TypedInv /\ GoodRegistry(reg) /\ HomeInv  BY DEF SlotInv, TypedInv
<1>1. ASSUME NoneBrought PROVE HomeInv'
  BY <1>0, <1>1, SessionsStay DEF HomeInv
<1>2. ASSUME NEW q \in Refs, NEW b \in Sessions, NEW st \in {"running", "idle"},
             Brought(q, b, st), home'[b] = q, sess'[b] # "unborn"
      PROVE  HomeInv'
  <2>1. reg.session \in [Refs -> Sessions \cup {None}]  BY <1>0 DEF GoodRegistry, Registry
  <2>2. SUFFICES ASSUME NEW r \in Refs, NEW s \in Sessions, reg'.session[r] = s
                 PROVE  home'[s] = r /\ sess'[s] # "unborn"
    BY DEF HomeInv
  <2>3. (r = q /\ s = b) \/ reg.session[r] = s  BY <1>2, <2>1, <2>2 DEF Brought
  <2> QED  BY <1>0, <1>2, <2>3, SessionsStay DEF HomeInv
<1>3. RegistryEbbs => NoneBrought  BY <1>0, EbbLeaves
<1>4. ASSUME NEW r \in Refs, SpawnRegisters(r) \/ RestoreParked(r) PROVE NoneBrought
  <2>1. PICK st \in AgentStatus : reg' = Registered(reg, r, st, None)
    BY <1>4 DEF SpawnRegisters, RestoreParked, AgentStatus
  <2> QED  BY <1>0, <2>1, RefSpawned DEF GoodRegistry, Registry
<1>5. ASSUME NEW r \in Refs, IsolatedDetaches(r) PROVE NoneBrought
  BY <1>0, <1>5, RefDetached DEF IsolatedDetaches, GoodRegistry, Registry
<1>6. ASSUME NEW r \in Refs, HelperDrops(r) PROVE NoneBrought
  BY <1>0, <1>6, RefDropped DEF HelperDrops, UnregisterRef
<1>7. ASSUME NEW e, NEW st \in AgentStatus, reg' = WithStatus(reg, st, e) PROVE NoneBrought
  BY <1>0, <1>7 DEF WithStatus, GoodRegistry, Registry
<1>8. ASSUME \/ \E r \in Refs, s \in Sessions : FinishKeptAlive(r, s) \/ FinishIsolated(r, s)
             \/ \E s \in Sessions : RunStarts(s) \/ RunEnds(s)
      PROVE  NoneBrought
  <2>1. \E st \in AgentStatus : \E e : reg' = WithStatus(reg, st, e)
    BY <1>8 DEF FinishKeptAlive, FinishIsolated, RunStarts, RunEnds, AgentStatus
  <2> QED  BY <1>7, <2>1
<1>9. ASSUME NEW r \in Refs, NEW s \in Sessions, FinishDisposes(r, s) PROVE NoneBrought
  BY <1>9 DEF FinishDisposes
<1>10. ASSUME NEW p \in Parks, ParkCommits(p) PROVE NoneBrought
  <2>1. CASE reg' = reg  BY <2>1
  <2>2. CASE StillParkable(p) /\ reg' = ParkedRegistry(park[p].ref)
    <3>1. park[p].ref \in Refs  BY <1>0, <1>10 DEF ParkCommits, TypedInv, ParkTyped, NoPark
    <3> QED  BY <1>0, <2>2, <3>1, ParkSets DEF StillParkable, Current, GoodRegistry, Registry
  <2> QED  BY <1>10, <2>1, <2>2 DEF ParkCommits
<1>11. ASSUME NEW r \in Refs, NEW s \in Sessions, SpawnAttaches(r, s) PROVE HomeInv'
  <2>1. home'[s] = r  BY <1>0, <1>11 DEF SpawnAttaches, TypedInv, SessTyped
  <2>2. CASE reg' = reg  BY <1>1, <2>2
  <2>3. CASE reg' = WithStatus(WithSession(reg, s, r), "running", r) /\ sess' = [sess EXCEPT ![s] = "live"]
    <3>1. sess'[s] = "live"  BY <1>0, <2>3 DEF TypedInv, SessTyped
    <3> QED  BY <1>0, <1>1, <1>2, <2>1, <2>3, <3>1, BringerSets
  <2> QED  BY <1>11, <2>2, <2>3 DEF SpawnAttaches
<1>12. ASSUME NEW c \in Callers, NEW s \in Sessions, ReviverAttaches(c, s) PROVE HomeInv'
  <2> DEFINE r == revival[c].ref
  <2>1. r \in Refs  BY <1>0, <1>12 DEF ReviverAttaches, TypedInv, RevivalFilled
  <2>2. home'[s] = r /\ sess'[s] # "unborn"
    BY <1>0, <1>12 DEF ReviverAttaches, TypedInv, SessTyped
  <2>3. reg' = WithStatus(WithSession(reg, s, r), "running", r)  BY <1>12 DEF ReviverAttaches
  <2> HIDE DEF r
  <2> QED  BY <1>0, <1>1, <1>2, <2>1, <2>2, <2>3, BringerSets
<1>13. ASSUME NEW c \in Callers, ReviveReturns(c) PROVE HomeInv'
  <2> DEFINE r == revival[c].ref
             s == revival[c].session
  <2>1. r \in Refs /\ s \in Sessions  BY <1>0, <1>13 DEF ReviveReturns, TypedInv, RevivalFilled
  <2>2. home[s] = r /\ sess[s] # "unborn"
    BY <1>13 DEF ReviveReturns, SlotInv, FlightInv, GoodFlight, HasSession
  <2>3. home'[s] = r /\ sess'[s] # "unborn"  BY <1>0, <2>1, <2>2, SessionsStay
  <2>4. \/ reg' = reg
        \/ reg' = WithStatus(reg, "idle", r)
        \/ reg' = WithStatus(WithSession(reg, s, r), "idle", r)
    BY <1>13 DEF ReviveReturns
  <2> HIDE DEF r, s
  <2> QED  BY <1>0, <1>1, <1>2, <1>7, <2>1, <2>3, <2>4, BringerSets DEF AgentStatus
<1> QED
  BY <1>0, <1>1, <1>3, <1>4, <1>5, <1>6, <1>8, <1>9, <1>10, <1>11, <1>12, <1>13, EbbsOrActs
  DEF Acts

\* A run under way is not parked and not revived by anybody else.
LEMMA LooksStep ==
  ASSUME SlotInv, [Next]_vars, NEW r \in Refs
  PROVE  LooksRun(r)'
<1> USE DEF registryVars, adoptionVars, parkVars, callVars, otherVars
<1>0. /\ TypedInv /\ GoodRegistry(reg) /\ LooksRun(r) /\ (spawn[r] # "none" => Born(r))
      /\ reg.current # r => reg'.current # r \/ ~Born(r)
      /\ spawn \in [Refs -> {"none", "building", "working", "isolating", "dropping", "done"}]
      /\ reg.status \in [Refs -> AgentStatus \cup {"unborn"}]
      /\ reg.session \in [Refs -> Sessions \cup {None}]
  BY RefsStay DEF SlotInv, TypedInv, SpawnInv, SessTyped, GoodRegistry, Registry
<1>1. CASE RegistryEbbs /\ spawn' = spawn
  BY <1>0, <1>1, EbbLeaves DEF LooksRun
<1>4. ASSUME NEW q \in Refs, SpawnRegisters(q) \/ RestoreParked(q) PROVE LooksRun(r)'
  <2>1. PICK st \in AgentStatus : reg' = Registered(reg, q, st, None)
    BY <1>4 DEF SpawnRegisters, RestoreParked, AgentStatus
  <2>2. reg'.current = q /\ reg'.session[q] = None /\ reg'.status[q] = st
    BY <1>0, <2>1 DEF Registered
  <2>3. CASE SpawnRegisters(q)
    <3>1. spawn'[q] = "building" /\ reg'.status[q] = "running"
      BY <1>0, <2>3 DEF SpawnRegisters, Registered
    <3> QED  BY <2>2, <3>1 DEF LooksRun
  <2>4. CASE RestoreParked(q)
    <3>1. spawn' = spawn /\ spawn[q] = "none"
      BY <2>4 DEF RestoreParked, SlotInv, SpawnInv
    <3> QED  BY <2>2, <3>1 DEF LooksRun
  <2> QED  BY <1>4, <2>3, <2>4
<1>5. ASSUME NEW q \in Refs, NEW s \in Sessions, SpawnAttaches(q, s) PROVE LooksRun(r)'
  <2>1. CASE reg' = reg /\ spawn' = [spawn EXCEPT ![q] = "done"]
    BY <1>0, <2>1 DEF LooksRun
  <2>2. CASE /\ reg' = WithStatus(WithSession(reg, s, q), "running", q) /\ AcceptsSession(reg, q)
             /\ spawn' = [spawn EXCEPT ![q] = "working"]
    <3>1. Brought(q, s, "running")  BY <1>0, <2>2, BringerSets
    <3> QED  BY <1>0, <2>2, <3>1 DEF LooksRun, Brought
  <2> QED  BY <1>5, <2>1, <2>2 DEF SpawnAttaches
<1>6. ASSUME NEW q \in Refs, NEW s \in Sessions, FinishKeptAlive(q, s) \/ FinishIsolated(q, s)
      PROVE  LooksRun(r)'
  <2>1. Owns(s) /\ home[s] = q /\ spawn[q] = "working"
    BY <1>6 DEF FinishKeptAlive, FinishIsolated, Finishing
  <2>2. Current = q /\ reg.session[q] = s /\ Holds(reg, Current)
    BY <1>0, <2>1, HoldsOwned DEF SlotInv, HomeInv
  <2>3. CASE FinishKeptAlive(q, s)
    <3>1. StatusSet(q, "idle")
      BY <1>0, <2>2, <2>3, OwnerSets DEF FinishKeptAlive, AgentStatus
    <3> QED  BY <1>0, <2>2, <2>3, <3>1 DEF FinishKeptAlive, StatusSet, LooksRun
  <2>4. CASE FinishIsolated(q, s)
    <3>1. StatusSet(q, "parked")
      BY <1>0, <2>2, <2>4, OwnerSets DEF FinishIsolated, AgentStatus
    <3>2. spawn' = [spawn EXCEPT ![q] = "isolating"]  BY <2>4 DEF FinishIsolated
    <3> QED  BY <1>0, <2>2, <3>1, <3>2 DEF StatusSet, LooksRun, Current
  <2> QED  BY <1>6, <2>3, <2>4
<1>7. ASSUME NEW q \in Refs, IsolatedDetaches(q) PROVE LooksRun(r)'
  <2>1. spawn' = [spawn EXCEPT ![q] = "done"] /\ reg' = Detached(reg, q)
    BY <1>7 DEF IsolatedDetaches
  <2> QED  BY <1>0, <2>1, RefDetached DEF LooksRun
<1>8. ASSUME NEW q \in Refs, NEW s \in Sessions, FinishDisposes(q, s) PROVE LooksRun(r)'
  BY <1>0, <1>8 DEF FinishDisposes, Finishing, LooksRun
<1>9. ASSUME NEW q \in Refs, HelperDrops(q) PROVE LooksRun(r)'
  <2>1. spawn' = [spawn EXCEPT ![q] = "done"] /\ reg' = Unregistered(reg, q)
    BY <1>9 DEF HelperDrops, UnregisterRef
  <2> QED  BY <1>0, <2>1, RefDropped DEF LooksRun
<1>10. ASSUME NEW s \in Sessions, RunStarts(s) \/ RunEnds(s) PROVE LooksRun(r)'
  <2>1. /\ Owns(s) /\ spawn' = spawn /\ reg.status[Current] \in {"running", "idle"}
        /\ \E st \in {"running", "idle"} : reg' = WithStatus(reg, st, s)
    BY <1>10 DEF RunStarts, RunEnds
  <2>2. PICK st \in {"running", "idle"} : StatusSet(Current, st)
    BY <1>0, <2>1, OwnerSets, HoldsOwned DEF AgentStatus
  <2> QED  BY <1>0, <2>1, <2>2, HoldsOwned DEF StatusSet, LooksRun, Current
<1>11. ASSUME NEW p \in Parks, ParkCommits(p) PROVE LooksRun(r)'
  <2>0. spawn' = spawn  BY <1>11 DEF ParkCommits
  <2>1. CASE reg' = reg  BY <1>0, <2>0, <2>1 DEF LooksRun
  <2>2. CASE StillParkable(p) /\ reg' = ParkedRegistry(park[p].ref)
    <3> DEFINE q == park[p].ref
    <3>1. q \in Refs  BY <1>0, <1>11 DEF ParkCommits, TypedInv, ParkTyped, NoPark
    <3>2. reg.current = q /\ SpawnOver(q)
      BY <2>2, <3>1 DEF StillParkable, Current, SlotInv, AdoptInv
    <3> HIDE DEF q
    <3>3. reg' = ParkedRegistry(q)  BY <2>2 DEF q
    <3>4. reg'.current = q  BY <1>0, <3>1, <3>2, <3>3, ParkSets
    <3> QED  BY <2>0, <3>2, <3>4 DEF LooksRun, SpawnOver
  <2> QED  BY <1>11, <2>1, <2>2 DEF ParkCommits
<1>12. ASSUME NEW c \in Callers, ReviveReturns(c) \/ \E s \in Sessions : ReviverAttaches(c, s)
       PROVE  LooksRun(r)'
  <2> DEFINE q == revival[c].ref
  <2>1. /\ spawn' = spawn /\ revival[c].pc \in {"claimed", "returned"}
        /\ \/ reg' = reg
           \/ reg' = WithStatus(reg, "idle", q) /\ reg.current = q
           \/ \E s, st : /\ reg' = WithStatus(WithSession(reg, s, q), st, q)
                         /\ s \in Sessions /\ st \in {"running", "idle"}
    BY <1>0, <1>12 DEF ReviveReturns, ReviverAttaches, Current, TypedInv, RevivalFilled
  <2>2. q \in Refs /\ SpawnOver(q)
    BY <1>0, <2>1 DEF TypedInv, RevivalFilled, SlotInv, FlightInv, GoodFlight, IsUnderway
  <2> HIDE DEF q
  <2>3. CASE reg' = reg  BY <1>0, <2>1, <2>3 DEF LooksRun
  <2>4. CASE reg' = WithStatus(reg, "idle", q) /\ reg.current = q
    <3>1. reg'.current = q  BY <2>4, <1>0 DEF WithStatus, GoodRegistry, Registry
    <3> QED  BY <2>1, <2>2, <3>1 DEF LooksRun, SpawnOver
  <2>5. ASSUME NEW s \in Sessions, NEW st \in {"running", "idle"},
               reg' = WithStatus(WithSession(reg, s, q), st, q)
        PROVE  LooksRun(r)'
    <3>1. CASE reg' = reg  BY <1>0, <2>1, <3>1 DEF LooksRun
    <3>2. CASE Brought(q, s, st)  BY <2>1, <2>2, <3>2 DEF Brought, LooksRun, SpawnOver
    <3> QED  BY <1>0, <2>2, <2>5, <3>1, <3>2, BringerSets
  <2> QED  BY <2>1, <2>3, <2>4, <2>5
<1> QED
  BY <1>1, <1>4, <1>5, <1>6, <1>7, <1>8, <1>9, <1>10, <1>11, <1>12, <1>0, EbbsOrActs
  DEF Acts

LEMMA SpawnStep ==
  ASSUME SlotInv, [Next]_vars
  PROVE  SpawnInv'
<1> SUFFICES ASSUME NEW r \in Refs PROVE spawn'[r] # "none" => Born(r)'
  BY LooksStep DEF SpawnInv
<1> USE DEF registryVars, adoptionVars, parkVars, callVars, otherVars
<1>0. /\ TypedInv /\ GoodRegistry(reg) /\ (spawn[r] # "none" => Born(r))
      /\ Born(r) => Born(r)'
      /\ spawn \in [Refs -> {"none", "building", "working", "isolating", "dropping", "done"}]
  BY RefsStay DEF SlotInv, TypedInv, SpawnInv, SessTyped
<1>1. CASE spawn'[r] # "none" => spawn[r] # "none"  BY <1>0, <1>1
<1>2. ASSUME NEW q \in Refs, SpawnRegisters(q) PROVE spawn'[r] # "none" => Born(r)'
  <2>1. r # q => spawn'[r] = spawn[r]  BY <1>0, <1>2 DEF SpawnRegisters
  <2>2. reg'.status[q] = "running"
    BY <1>0, <1>2 DEF SpawnRegisters, Registered, GoodRegistry, Registry
  <2> QED  BY <1>0, <2>1, <2>2 DEF Born
<1>3. ASSUME NEW q \in Refs, NEW s \in Sessions,
             \/ SpawnAttaches(q, s) \/ FinishKeptAlive(q, s) \/ FinishIsolated(q, s)
             \/ FinishDisposes(q, s)
      PROVE  spawn'[r] # "none" => spawn[r] # "none"
  BY <1>0, <1>3 DEF SpawnAttaches, FinishKeptAlive, FinishIsolated, FinishDisposes, Finishing
<1>4. ASSUME NEW q \in Refs, IsolatedDetaches(q) \/ HelperDrops(q)
      PROVE  spawn'[r] # "none" => spawn[r] # "none"
  BY <1>0, <1>4 DEF IsolatedDetaches, HelperDrops
<1>5. ASSUME \/ \E q \in Refs : RestoreParked(q)
             \/ \E s \in Sessions : RunStarts(s) \/ RunEnds(s)
             \/ \E p \in Parks : ParkCommits(p)
             \/ \E c \in Callers, s \in Sessions : ReviverAttaches(c, s)
             \/ \E c \in Callers : ReviveReturns(c)
      PROVE  spawn' = spawn
  BY <1>5 DEF RestoreParked, RunStarts, RunEnds, ParkCommits, ReviverAttaches, ReviveReturns
<1> QED  BY <1>0, <1>1, <1>2, <1>3, <1>4, <1>5, EbbsOrActs DEF Acts

\* The adoption is replaced by a finished run and by a cold revival only, and
\* only while the manager is open.
LEMMA AdoptionMoves ==
  ASSUME TypedInv, [Next]_vars
  PROVE  \/ adopted' \in {adopted, NotAdopted} /\ (Disposed' <=> Disposed)
         \/ \E r \in Refs, s \in Sessions : FinishKeptAlive(r, s)
         \/ \E c \in Callers : ColdAdopt(c) /\ FactoryAnswers(c)
         \/ DisposeManager
<1> USE DEF registryVars, adoptionVars, parkVars, callVars, otherVars, Disposed
<1> DEFINE Keeps == adopted' \in {adopted, NotAdopted} /\ (Disposed' <=> Disposed)
<1>1. ASSUME NEW r, UnregisterRef(r) PROVE adopted' \in {adopted, NotAdopted}
  BY <1>1 DEF UnregisterRef
<1>2. ASSUME \/ \E r \in Refs : HelperDrops(r)
             \/ \E s \in Sessions : SessionDisposed(s)
             \/ \E k \in Releasers : ReleaseFinishes(k) \/ ReleaseTimesOut(k)
             \/ ReclaimStarts \/ ReclaimProbed
      PROVE  Keeps
  <2>1. mgr' = mgr /\ (adopted' = adopted \/ \E r : UnregisterRef(r))
    BY <1>2 DEF HelperDrops, SessionDisposed, ReleaseFinishes, ReleaseTimesOut, ReclaimStarts,
                ReclaimProbed
  <2> QED  BY <1>1, <2>1
<1>3. ASSUME NEW k \in Releasers, Release(k) \/ ReleaseResumes(k) PROVE Keeps
  BY <1>3 DEF Release, ReleaseResumes, StartRelease
<1>4. ASSUME NEW c \in Callers, FactoryAnswers(c), ~ColdAdopt(c) PROVE Keeps
  BY <1>4 DEF FactoryAnswers
<1>5. ASSUME NEW c \in Callers, ReviverFails(c) \/ RevivalRejects(c) PROVE Keeps
  BY <1>5 DEF ReviverFails, RevivalRejects, Rejects
<1>6. ASSUME \/ \E r \in Refs : SpawnRegisters(r) \/ RestoreParked(r) \/ IsolatedDetaches(r)
             \/ \E r \in Refs, s \in Sessions :
                   SpawnAttaches(r, s) \/ FinishIsolated(r, s) \/ FinishDisposes(r, s)
             \/ \E s \in Sessions : RunStarts(s) \/ RunEnds(s)
      PROVE  Keeps
  BY <1>6 DEF SpawnRegisters, RestoreParked, IsolatedDetaches, SpawnAttaches, FinishIsolated,
              FinishDisposes, RunStarts, RunEnds
<1>7. ASSUME NEW c \in Callers,
             \/ KeepResumes(c) \/ WaitResumes(c) \/ RevivedResumes(c) \/ EnsureLive(c)
             \/ Collect(c) \/ ReviveReturns(c)
      PROVE  Keeps
  BY <1>7 DEF KeepResumes, WaitResumes, RevivedResumes, EnsureLive, Collect, ReviveReturns
<1>8. ASSUME NEW c \in Callers,
             \/ ReviverClaims(c) \/ ReviverFinishes(c)
             \/ \E s \in Sessions : SimpleReviverReturns(c, s) \/ ReviverAttaches(c, s)
      PROVE  Keeps
  BY <1>8 DEF ReviverClaims, ReviverFinishes, SimpleReviverReturns, ReviverAttaches
<1>9. ASSUME \/ \E p \in Parks : ParkCommits(p) \/ ParkSettles(p)
             \/ \E a \in Adoptions : TimerFires(a)
             \/ \E k \in Releasers : TombstonePersisted(k) \/ TombstoneFails(k)
             \/ CloseManager \/ UNCHANGED vars
      PROVE  Keeps
  BY <1>9 DEF ParkCommits, ParkSettles, TimerFires, TombstonePersisted, TombstoneFails,
              CloseManager, vars
<1> QED
  BY <1>2, <1>3, <1>4, <1>5, <1>6, <1>7, <1>8, <1>9 DEF Next, Microtask, Executor, ReviverStep

LEMMA AdoptInvStep ==
  ASSUME SlotInv, [Next]_vars
  PROVE  AdoptInv'
<1> SUFFICES ASSUME NEW r \in Refs, adopted'.ref = r
             PROVE  /\ SpawnOver(r)' /\ Born(r)'
                    /\ Disposed' => reg'.current # r
  BY DEF AdoptInv
<1> USE DEF registryVars, adoptionVars, parkVars, callVars, otherVars
<1>0. TypedInv /\ GoodRegistry(reg)  BY DEF SlotInv, TypedInv
<1>1. ASSUME adopted.ref = r
      PROVE  /\ SpawnOver(r)' /\ Born(r)'
             /\ Disposed => reg'.current # r
  BY <1>0, <1>1, RefsStay DEF SlotInv, AdoptInv
<1>2. CASE adopted' \in {adopted, NotAdopted} /\ (Disposed' <=> Disposed)
  BY <1>1, <1>2 DEF NotAdopted
<1>3. ASSUME NEW q \in Refs, NEW s \in Sessions, FinishKeptAlive(q, s)
      PROVE  SpawnOver(r)' /\ Born(r)' /\ ~Disposed'
  <2>1. Owns(s) /\ home[s] = q /\ spawn[q] = "working" /\ ~Disposed /\ mgr' = mgr
    BY <1>3 DEF FinishKeptAlive, Finishing
  <2>2. Current = q  BY <1>0, <2>1, HoldsOwned DEF SlotInv, HomeInv
  <2>3. adopted'.ref = q /\ spawn' = [spawn EXCEPT ![q] = "done"]
    BY <1>3, <2>2 DEF FinishKeptAlive
  <2>4. SpawnOver(q)'  BY <1>0, <2>3 DEF SpawnOver, TypedInv, SessTyped
  <2>5. Born(q)'  BY <1>0, <2>2, RefsStay DEF GoodRegistry, Born, Current
  <2> QED  BY <2>1, <2>3, <2>4, <2>5 DEF Disposed
<1>4. ASSUME NEW c \in Callers, ColdAdopt(c), FactoryAnswers(c)
      PROVE  SpawnOver(r)' /\ Born(r)' /\ ~Disposed'
  <2>1. ~Disposed /\ mgr' = mgr /\ revival[c].pc = "factory"  BY <1>4 DEF ColdAdopt, FactoryAnswers
  <2>2. r = revival[c].ref  BY <1>4 DEF ColdAdopt
  <2>3. SpawnOver(r) /\ Born(r)  BY <2>1, <2>2 DEF SlotInv, FlightInv, GoodFlight, IsUnderway
  <2> QED  BY <1>0, <2>1, <2>3, RefsStay DEF Disposed
<1>5. CASE DisposeManager
  <2>1. CASE adopted.ref # r
    <3>1. adopted' = adopted \/ adopted' = NotAdopted
      BY <1>5 DEF DisposeManager, StartRelease
    <3> QED  BY <2>1, <3>1 DEF NotAdopted
  <2>2. CASE adopted.ref = r /\ reg.current # r
    BY <1>0, <1>1, <2>2, RefsStay DEF SlotInv, AdoptInv
  <2>3. CASE adopted.ref = r /\ reg.current = r
    <3>1. Holds(reg, Anyone) /\ ReleaseTarget(Anyone) = r
      BY <2>3 DEF Holds, MatchesExpected, ReleaseTarget, Current
    <3>2. adopted.tok # None
      BY <1>0, <2>3, LifecycleAssumption DEF TypedInv, AdoptTyped, NotAdopted
    <3>3. \E k \in Releasers : StartRelease(k, Anyone, FALSE)
      BY <1>5, <3>1, <3>2 DEF DisposeManager
    <3>4. adopted' = NotAdopted  BY <2>3, <3>1, <3>3 DEF StartRelease
    <3> QED  BY <3>4 DEF NotAdopted
  <2> QED  BY <2>1, <2>2, <2>3
<1> QED  BY <1>0, <1>2, <1>3, <1>4, <1>5, AdoptionMoves

\* What a step may do to a revival: go on with it for the same ref, with the
\* session it has or with one just built for that ref; end it; or start it for
\* the holder of the id, and then it is in the map.
Continues(c) ==
    /\ revival'[c].session = revival[c].session
    /\ HasSession(revival'[c]) <=> HasSession(revival[c])

Builds(c) ==
    LET s == revival'[c].session IN
    /\ revival[c].pc \in {"opening", "claimed"} /\ HasSession(revival'[c])
    /\ s \in Sessions /\ home'[s] = revival[c].ref /\ sess'[s] # "unborn"

Advances(c) ==
    /\ Underway(c) /\ IsUnderway(revival'[c]) /\ revival'[c].ref = revival[c].ref
    /\ Continues(c) \/ Builds(c)
    /\ revival'[c].pc \in {"discarding", "unwinding"} =>
          revival[c].pc \in {"discarding", "unwinding"} \/ sess'[revival'[c].session] # "live"

Ends(c) ==
    /\ ~IsUnderway(revival'[c])
    /\ HasSession(revival[c]) => RevivalRejects(c) \/ ReviveReturns(c)

\* A new call of ensureLive found no park, or has waited for the one it found.
LooksPast(c) ==
    \/ parkEntry = None /\ call[c].pc = "idle" /\ \A d \in Callers : call[d].on # c
    \/ call[c].pc \in {"keeping", "waiting"} /\ ParkSettled(call[c].park)

Starts(c) ==
    /\ Current \in Refs /\ Attached = None /\ ~Coalesces /\ LooksPast(c)
    /\ UNCHANGED <<reg, sess, home, mgr>>
    /\ revivalEntry' = c
    /\ revival' = [revival EXCEPT ![c] =
          [NoRevival EXCEPT !.pc = FirstRevivalStep(Current), !.ref = Current]]

RevivalMoves ==
    \/ /\ \A c \in Callers : revival'[c] = revival[c] \/ Ends(c) \/ Advances(c)
       /\ \/ revivalEntry' = revivalEntry
          \/ ~FactoryInstalled'
          \/ \E c \in Callers : revivalEntry = c /\ ~IsUnderway(revival'[c])
    \/ \E c \in Callers : Starts(c)

LEMMA LookupMoves ==
  ASSUME TypedInv, NEW c \in Callers, Lookup(c), LooksPast(c), UNCHANGED <<reg, sess, home, mgr>>
  PROVE  RevivalMoves
<1>1. CASE UNCHANGED <<revivalEntry, revival>>  BY <1>1 DEF RevivalMoves
<1>2. CASE ~UNCHANGED <<revivalEntry, revival>>
  <2>1. Current # None /\ Attached = None /\ ~Coalesces
    BY <1>2 DEF Lookup
  <2>2. Current \in Refs  BY <2>1, CurrentTyped
  <2> QED  BY <2>1, <2>2 DEF Lookup, RevivalMoves, Starts
<1> QED  BY <1>1, <1>2

LEMMA RevivalStep ==
  ASSUME SlotInv, [Next]_vars
  PROVE  RevivalMoves
<1> USE DEF registryVars, adoptionVars, parkVars, callVars, otherVars
<1>0. /\ TypedInv
      /\ revival \in [Callers -> RevivalRecord]
      /\ \A c \in Callers : GoodRevival(revival[c])
  BY CallParts DEF SlotInv, TypedInv, CallsGood
<1> DEFINE Others(c) == \A d \in Callers \ {c} : revival'[d] = revival[d]
<1> USE DEF IsUnderway, HasSession
<1>1. ASSUME NEW c \in Callers, Others(c), revivalEntry' = revivalEntry, Ends(c) \/ Advances(c)
      PROVE  RevivalMoves
  BY <1>1 DEF RevivalMoves
<1>2. ASSUME NEW c \in Callers, NEW q \in RevivalPhase \ {"none"}, Goes(c, q), revivalEntry' = revivalEntry,
             Underway(c),
             q \in {"rejected", "resolved"} /\ HasSession(revival[c]) => RevivalRejects(c) \/ ReviveReturns(c),
             q \notin {"rejected", "resolved"} =>
                (q \in {"attached", "returned", "discarding", "unwinding"} <=> HasSession(revival[c])),
             q \in {"discarding", "unwinding"} => sess' = Disposing(revival[c].session)
      PROVE  RevivalMoves
  <2>1. /\ Others(c) /\ revival'[c].ref = revival[c].ref /\ revival'[c].pc = q
        /\ revival'[c].session = revival[c].session
    BY <1>0, <1>2 DEF Goes, RevivalRecord
  <2>2. CASE q \in {"rejected", "resolved"}  BY <1>1, <1>2, <2>1, <2>2 DEF Ends
  <2>3. CASE q \notin {"rejected", "resolved"}
    <3>1. CASE q \in {"discarding", "unwinding"}
      <4>1. revival[c].session \in Sessions  BY <1>0, <1>2, <2>3, <3>1 DEF GoodRevival
      <4>2. sess'[revival[c].session] # "live"
        BY <1>0, <1>2, <3>1, <4>1 DEF Disposing, TypedInv, SessTyped
      <4> QED  BY <1>1, <1>2, <2>1, <2>3, <4>2 DEF Advances, Continues
    <3> QED  BY <1>1, <1>2, <2>1, <2>3, <3>1 DEF Advances, Continues
  <2> QED  BY <2>2, <2>3
<1>3. ASSUME NEW c \in Callers, EnsureLive(c) \/ KeepResumes(c) \/ WaitResumes(c)
      PROVE  RevivalMoves
  <2>1. /\ UNCHANGED <<reg, sess, home, mgr>>
        /\ (Lookup(c) /\ LooksPast(c)) \/ UNCHANGED <<revivalEntry, revival>>
    BY <1>3 DEF EnsureLive, KeepResumes, WaitResumes, LooksPast
  <2> QED  BY <1>0, <2>1, LookupMoves DEF RevivalMoves
<1>4. ASSUME NEW c \in Callers, RevivedResumes(c) PROVE RevivalMoves
  <2>1. PICK on \in Callers :
           /\ revival[on].pc \in {"resolved", "rejected"}
           /\ revivalEntry' = IF on = c /\ revivalEntry = c THEN None ELSE revivalEntry
           /\ revival' = revival \/ revival' = [revival EXCEPT ![on] = NoRevival]
    BY <1>0, <1>4 DEF RevivedResumes, TypedInv, RevivalFilled
  <2>2. Ends(on) /\ Others(on) /\ ~IsUnderway(revival'[on])
    BY <1>0, <2>1 DEF Ends, NoRevival
  <2> QED  BY <2>1, <2>2 DEF RevivalMoves
<1>5. ASSUME NEW c \in Callers, FactoryAnswers(c) PROVE RevivalMoves
  <2>0. revivalEntry' = revivalEntry /\ revival[c].pc = "factory"  BY <1>5 DEF FactoryAnswers
  <2>1. CASE Goes(c, "rejected")  BY <1>2, <2>0, <2>1 DEF Underway, RevivalPhase
  <2>2. CASE ColdAdopt(c)
    <3>1. PICK a \in Adoptions :
             \/ revival' = [revival EXCEPT ![c] = [@ EXCEPT !.pc = "opening", !.tok = a]]
             \/ revival' = [revival EXCEPT ![c] = [@ EXCEPT !.pc = "rejected"]]
      BY <2>2 DEF ColdAdopt
    <3>2. Others(c) /\ revival'[c].ref = revival[c].ref
          /\ revival'[c].session = revival[c].session
          /\ revival'[c].pc \in {"opening", "rejected"}
      BY <1>0, <3>1 DEF RevivalRecord
    <3> QED  BY <1>1, <2>0, <3>2 DEF Advances, Continues, Ends, Underway
  <2> QED  BY <1>5, <2>1, <2>2 DEF FactoryAnswers
<1>6. ASSUME NEW c \in Callers, ReviverFails(c) \/ RevivalRejects(c) PROVE RevivalMoves
  <2>1. /\ Goes(c, "rejected") /\ revivalEntry' = revivalEntry
        /\ \/ revival[c].pc \in {"opening", "claimed"}
           \/ RevivalRejects(c) /\ revival[c].pc \in {"discarding", "unwinding"}
    BY <1>6 DEF ReviverFails, RevivalRejects, Rejects
  <2> QED  BY <1>2, <2>1 DEF RevivalPhase, Underway
<1>7. ASSUME NEW c \in Callers, ReviverClaims(c) PROVE RevivalMoves
  BY <1>2, <1>7 DEF ReviverClaims, RevivalPhase, Underway
<1>8. ASSUME NEW c \in Callers, NEW s \in Sessions,
             ReviverAttaches(c, s) \/ SimpleReviverReturns(c, s)
      PROVE  RevivalMoves
  <2>1. PICK q \in {"attached", "unwinding", "returned"} :
           revival' = [revival EXCEPT ![c] = [@ EXCEPT !.pc = q, !.session = s]]
    BY <1>8 DEF ReviverAttaches, SimpleReviverReturns
  <2>2. /\ Others(c) /\ revival'[c].ref = revival[c].ref
        /\ revival'[c].session = s /\ revival'[c].pc = q
    BY <1>0, <2>1 DEF RevivalRecord
  <2>3. home'[s] = revival[c].ref /\ sess'[s] # "unborn"
    BY <1>0, <1>8 DEF ReviverAttaches, SimpleReviverReturns, TypedInv, SessTyped
  <2>4. revival[c].pc \in {"opening", "claimed"} /\ revivalEntry' = revivalEntry
    BY <1>8 DEF ReviverAttaches, SimpleReviverReturns
  <2>5. q = "unwinding" => sess'[s] # "live"
    <3>1. ReviverAttaches(c, s) => (q = "unwinding" <=> ~AcceptsSession(reg, revival[c].ref))
      BY <1>0, <2>2 DEF ReviverAttaches, RevivalRecord
    <3>2. SimpleReviverReturns(c, s) => q = "returned"
      BY <1>0, <2>2 DEF SimpleReviverReturns, RevivalRecord
    <3> QED  BY <1>0, <1>8, <3>1, <3>2 DEF ReviverAttaches, TypedInv, SessTyped
  <2> QED  BY <1>1, <2>1, <2>2, <2>3, <2>4, <2>5 DEF Advances, Builds, Underway
<1>9. ASSUME NEW c \in Callers, ReviverFinishes(c) PROVE RevivalMoves
  <2>1. /\ Goes(c, "returned") \/ Goes(c, "unwinding")
        /\ revivalEntry' = revivalEntry /\ revival[c].pc = "attached"
    BY <1>9 DEF ReviverFinishes
  <2>2. Goes(c, "unwinding") => sess' = Disposing(revival[c].session)
    BY <1>0, <1>9 DEF ReviverFinishes, Goes, RevivalRecord
  <2> QED  BY <1>2, <2>1, <2>2 DEF RevivalPhase, Underway
<1>10. ASSUME NEW c \in Callers, ReviveReturns(c) PROVE RevivalMoves
  <2>1. /\ Goes(c, "resolved") \/ Goes(c, "discarding")
        /\ revivalEntry' = revivalEntry /\ revival[c].pc = "returned"
    BY <1>10 DEF ReviveReturns, Discards
  <2>2. Goes(c, "discarding") => sess' = Disposing(revival[c].session)
    BY <1>0, <1>10 DEF ReviveReturns, Discards, Goes, RevivalRecord
  <2> QED  BY <1>2, <1>10, <2>1, <2>2 DEF RevivalPhase, Underway
<1>11. CASE CloseManager  BY <1>11 DEF CloseManager, RevivalMoves, FactoryInstalled
<1>12. ASSUME \/ Executor
              \/ \E s \in Sessions : SessionDisposed(s)
              \/ \E a \in Adoptions : TimerFires(a)
              \/ \E p \in Parks : ParkCommits(p) \/ ParkSettles(p)
       PROVE  UNCHANGED callVars
  BY <1>12 DEF Executor, SpawnRegisters, RestoreParked, IsolatedDetaches, HelperDrops,
               SpawnAttaches, FinishKeptAlive, FinishIsolated, FinishDisposes, RunStarts, RunEnds,
               SessionDisposed, TimerFires, ParkCommits, ParkSettles
<1>13. ASSUME \/ \E k \in Releasers :
                    \/ Release(k) \/ TombstonePersisted(k) \/ TombstoneFails(k)
                    \/ ReleaseTimesOut(k) \/ ReleaseResumes(k) \/ ReleaseFinishes(k)
              \/ \E c \in Callers : Collect(c)
              \/ ReclaimStarts \/ ReclaimProbed \/ DisposeManager \/ UNCHANGED vars
       PROVE  UNCHANGED <<revivalEntry, revival>>
  BY <1>13 DEF Release, StartRelease, TombstonePersisted, TombstoneFails, ReleaseTimesOut,
               ReleaseResumes, ReleaseFinishes, Collect, ReclaimStarts, ReclaimProbed,
               DisposeManager, vars
<1>14. UNCHANGED <<revivalEntry, revival>> => RevivalMoves  BY DEF RevivalMoves
<1> QED
  BY <1>3, <1>4, <1>5, <1>6, <1>7, <1>8, <1>9, <1>10, <1>11, <1>12, <1>13, <1>14
  DEF Next, Microtask, ReviverStep

\* A revival starts for a ref that is parked, hence beyond its run.
LEMMA StartsParked ==
  ASSUME SlotInv, NEW c \in Callers, Starts(c)
  PROVE  /\ Current \in Refs /\ Born(Current)
         /\ revival'[c].ref = Current
         /\ revival'[c].pc \in {"factory", "opening", "rejected"}
         /\ revival'[c].pc # "rejected" => SpawnOver(Current) /\ FactoryInstalled
<1>0. /\ TypedInv /\ GoodRegistry(reg) /\ Current \in Refs
      /\ revival \in [Callers -> RevivalRecord]
  BY CallParts DEF SlotInv, TypedInv, CallsGood, Starts
<1>1. /\ revival'[c].ref = Current /\ revival'[c].pc = FirstRevivalStep(Current)
  BY <1>0 DEF Starts, NoRevival
<1>2. Born(Current)  BY <1>0 DEF GoodRegistry, Born, Current
<1>3. ASSUME FirstRevivalStep(Current) # "rejected" PROVE SpawnOver(Current) /\ FactoryInstalled
  <2>1. reg.status[Current] = "parked" /\ (HasReviver(Current) \/ FactoryInstalled)
    BY <1>3 DEF FirstRevivalStep
  <2>2. reg.current = Current /\ reg.session[Current] = None  BY <1>0 DEF Starts, Attached, Current
  <2>3. LooksRun(Current) /\ spawn[Current] \in
           {"none", "building", "working", "isolating", "dropping", "done"}
    BY <1>0 DEF SlotInv, SpawnInv, TypedInv, SessTyped
  <2>4. SpawnOver(Current)  BY <2>1, <2>2, <2>3 DEF LooksRun, SpawnOver
  <2>5. HasReviver(Current) => ~Disposed
    BY <1>0, <2>2 DEF HasReviver, SlotInv, AdoptInv
  <2> QED  BY <2>1, <2>4, <2>5 DEF Disposed, FactoryInstalled
<1>4. FirstRevivalStep(Current) \in {"factory", "opening", "rejected"}  BY DEF FirstRevivalStep
<1> QED  BY <1>0, <1>1, <1>2, <1>3, <1>4

LEMMA FlightStep ==
  ASSUME SlotInv, [Next]_vars
  PROVE  FlightInv'
<1> SUFFICES ASSUME NEW c \in Callers PROVE GoodFlight(revival[c])'
  BY DEF FlightInv
<1> DEFINE v == revival[c]
           w == revival'[c]
<1> USE DEF IsUnderway, HasSession
<1>0. TypedInv /\ GoodFlight(v)  BY DEF SlotInv, FlightInv
<1>1. Underway(c) => v.ref \in Refs /\ SpawnOver(v.ref) /\ Born(v.ref)
  BY <1>0 DEF GoodFlight, TypedInv, RevivalFilled, Underway
<1>2. HasSession(v) => v.session \in Sessions /\ home[v.session] = v.ref /\ sess[v.session] # "unborn"
  BY <1>0 DEF GoodFlight, TypedInv, RevivalFilled
<1>3. ASSUME NEW q \in Refs, SpawnOver(q), Born(q) PROVE SpawnOver(q)' /\ Born(q)'
  BY <1>0, <1>3, RefsStay
<1>4. ASSUME NEW q \in Sessions, sess[q] # "unborn" PROVE sess'[q] # "unborn" /\ home'[q] = home[q]
  BY <1>0, <1>4, SessionsStay
<1>5. ASSUME \E q \in Refs : q = w.ref /\ SpawnOver(q)' /\ Born(q)',
             HasSession(w) => home'[w.session] = w.ref /\ sess'[w.session] # "unborn",
             ~HasSession(w) => w.session = None
      PROVE  GoodFlight(revival[c])'
  BY <1>5 DEF GoodFlight, SpawnOver, Born
<1>6. CASE ~IsUnderway(w)  BY <1>6 DEF GoodFlight
<1>7. ASSUME Underway(c), w.ref = v.ref, Continues(c) PROVE GoodFlight(revival[c])'
  <2>1. \E q \in Refs : q = w.ref /\ SpawnOver(q)' /\ Born(q)'  BY <1>1, <1>3, <1>7
  <2>2. HasSession(w) => home'[w.session] = w.ref /\ sess'[w.session] # "unborn"
    BY <1>2, <1>4, <1>7 DEF Continues
  <2>3. ~HasSession(w) => w.session = None
    BY <1>0, <1>7 DEF Continues, GoodFlight, Underway
  <2> QED  BY <1>5, <2>1, <2>2, <2>3
<1>8. CASE Advances(c)
  <2>1. \E q \in Refs : q = w.ref /\ SpawnOver(q)' /\ Born(q)'  BY <1>1, <1>3, <1>8 DEF Advances
  <2>2. CASE Builds(c)  BY <1>5, <1>8, <2>1, <2>2 DEF Builds, Advances
  <2> QED  BY <1>7, <1>8, <2>2 DEF Advances
<1>9. CASE w = v
  <2>1. CASE ~Underway(c)  BY <1>6, <1>9, <2>1 DEF Underway
  <2>2. CASE Underway(c)  BY <1>7, <1>9, <2>2 DEF Continues
  <2> QED  BY <2>1, <2>2
<1>10. ASSUME NEW d \in Callers, Starts(d), d # c PROVE w = v
  <2>1. revival \in [Callers -> RevivalRecord]  BY <1>0, CallParts DEF TypedInv, CallsGood
  <2> QED  BY <1>10, <2>1 DEF Starts
<1>11. CASE Starts(c)
  <2>1. /\ \E q \in Refs : q = w.ref /\ Born(q) /\ (w.pc # "rejected" => SpawnOver(q))
        /\ w.pc \in {"factory", "opening", "rejected"}
    BY <1>11, StartsParked
  <2>2. w.session = None
    BY <1>0, <1>11, CallParts DEF Starts, NoRevival, TypedInv, CallsGood
  <2>3. w.pc # "rejected" => \E q \in Refs : q = w.ref /\ SpawnOver(q)' /\ Born(q)'
    BY <1>3, <2>1
  <2> QED  BY <1>5, <1>6, <2>1, <2>2, <2>3
<1> QED  BY <1>6, <1>8, <1>9, <1>10, <1>11, RevivalStep DEF RevivalMoves, Ends

LEMMA EntryStep ==
  ASSUME SlotInv, [Next]_vars
  PROVE  EntryInv'
<1> DEFINE Entered(c) == Underway(c) /\ revivalEntry # c =>
             reg.current # revival[c].ref \/ ~FactoryInstalled
           Single == \A c, d \in Callers :
             c # d /\ Underway(c) /\ Underway(d) => revival[c].ref # revival[d].ref
<1> USE DEF IsUnderway
<1>0. /\ TypedInv /\ Single
      /\ revival \in [Callers -> RevivalRecord]
      /\ \A c \in Callers : Entered(c)
      /\ \A c \in Callers : Underway(c) => revival[c].ref \in Refs /\ Born(revival[c].ref)
  BY CallParts DEF SlotInv, EntryInv, TypedInv, CallsGood, FlightInv, GoodFlight, Underway, RevivalFilled
<1>1. ~FactoryInstalled => ~FactoryInstalled'
  <2>1. mgr = "closed" => mgr' = "closed"
    BY DEF Next, Microtask, Executor, ReviverStep, vars, registryVars, adoptionVars, parkVars,
           callVars, otherVars,
           ParkCommits, ParkSettles, KeepResumes, WaitResumes, RevivedResumes, ReviveReturns,
           RevivalRejects, ReleaseResumes, ReleaseFinishes, SpawnRegisters, RestoreParked,
           IsolatedDetaches, HelperDrops, SpawnAttaches, FinishKeptAlive, FinishIsolated,
           FinishDisposes, RunStarts, RunEnds, SessionDisposed, TimerFires, EnsureLive, Collect,
           FactoryAnswers, ReviverFails, ReviverClaims, ReviverFinishes, ReviverAttaches,
           SimpleReviverReturns, Release, TombstonePersisted, TombstoneFails, ReleaseTimesOut,
           ReclaimStarts, ReclaimProbed, DisposeManager, CloseManager
  <2> QED  BY <2>1 DEF FactoryInstalled
<1>2. ASSUME NEW r \in Refs, Born(r), reg.current # r PROVE reg'.current # r
  BY <1>0, <1>2, RefsStay
<1>3. CASE \E c \in Callers : Starts(c)
  <2>1. PICK c \in Callers : Starts(c)  BY <1>3
  <2>2. /\ reg' = reg /\ mgr' = mgr /\ revivalEntry' = c /\ ~Coalesces
        /\ \A d \in Callers \ {c} : revival'[d] = revival[d]
    BY <1>0, <2>1 DEF Starts
  <2>3. /\ Underway(c)' => FactoryInstalled
        /\ revival'[c].ref = reg.current
    BY <2>1, StartsParked DEF Underway, Current
  <2>4. ASSUME NEW d \in Callers, d # c, Underway(d)'
        PROVE  reg.current # revival[d].ref \/ ~FactoryInstalled
    <3>1. Underway(d)  BY <2>2, <2>4 DEF Underway
    <3>2. CASE revivalEntry = d
      <4>1. revivalEntry # None  BY <3>2, LifecycleAssumption
      <4> QED  BY <2>2, <3>2, <4>1 DEF Coalesces, Current
    <3>3. CASE revivalEntry # d  BY <1>0, <3>1, <3>3
    <3> QED  BY <3>2, <3>3
  <2>5. \A d \in Callers : Entered(d)'
    BY <2>2, <2>4 DEF FactoryInstalled
  <2>6. Single'
    <3> SUFFICES ASSUME NEW d \in Callers, NEW e \in Callers, d # e, Underway(d)', Underway(e)'
                 PROVE  revival'[d].ref # revival'[e].ref
      OBVIOUS
    <3>1. CASE d # c /\ e # c
      BY <1>0, <2>2, <3>1 DEF Underway
    <3>2. CASE d = c  BY <2>2, <2>3, <2>4, <3>2
    <3>3. CASE e = c  BY <2>2, <2>3, <2>4, <3>3
    <3> QED  BY <3>1, <3>2, <3>3
  <2> QED  BY <2>5, <2>6 DEF EntryInv
<1>4. CASE ~\E c \in Callers : Starts(c)
  <2>1. ASSUME NEW c \in Callers, Underway(c)'
        PROVE  Underway(c) /\ revival'[c].ref = revival[c].ref
    BY <1>4, <2>1, RevivalStep DEF RevivalMoves, Advances, Ends, Underway
  <2>2. \A c \in Callers : Entered(c)'
    <3> SUFFICES ASSUME NEW c \in Callers, Underway(c)', revivalEntry' # c, FactoryInstalled'
                 PROVE  reg'.current # revival'[c].ref
      OBVIOUS
    <3>1. Underway(c) /\ revival'[c].ref = revival[c].ref /\ FactoryInstalled
      BY <1>1, <2>1
    <3>2. revivalEntry # c
      BY <1>4, RevivalStep DEF RevivalMoves, Underway
    <3>3. reg.current # revival[c].ref  BY <1>0, <3>1, <3>2
    <3> QED  BY <1>0, <1>2, <3>1, <3>3
  <2>3. Single'
    BY <1>0, <2>1
  <2> QED  BY <2>2, <2>3 DEF EntryInv
<1> QED  BY <1>3, <1>4

LEMMA SlotStep == SlotInv /\ [Next]_vars => SlotInv'
<1> SUFFICES ASSUME SlotInv, [Next]_vars PROVE SlotInv'
  OBVIOUS
<1>1. TypedInv'  BY TypedStep DEF SlotInv
<1> QED  BY <1>1, HomeStep, SpawnStep, AdoptInvStep, FlightStep, EntryStep DEF SlotInv

LEMMA SlotInvariant == Spec => []SlotInv
BY SlotInitially, SlotStep, PTL DEF Spec

\* Two ensureLive calls never revive the same ref side by side, for any number
\* of callers, generations and revivals whose ref lost the id meanwhile.
THEOREM RevivalIsShared == Spec => []OneRevivalPerRef
<1>1. SlotInv => OneRevivalPerRef
  BY DEF SlotInv, EntryInv, OneRevivalPerRef, InFlight, Underway, IsUnderway
<1> QED  BY <1>1, SlotInvariant, PTL

-----------------------------------------------------------------------------
(* The refinement                                                          *)

phases == [r \in Refs |-> PhaseOf(r)]

Allowed(from, to) ==
    \/ from = to
    \/ from = "starting" /\ to = "live"
    \/ from = "live" /\ to = "parked"
    \/ from = "parked" /\ to = "live"
    \/ from \in {"starting", "live", "parked"} /\ to = "killed"

SlotMove == [Slot!SlotNext]_(Slot!slotVars)

\* A step that changes the fields of the holder only.
LEMMA HolderMoves ==
  ASSUME NEW r \in Refs, reg.current = r, reg'.current = r,
         \A q \in Refs \ {r} : reg'.status[q] = reg.status[q] /\ reg'.session[q] = reg.session[q],
         Allowed(PhaseOf(r), PhaseOf(r)')
  PROVE  SlotMove
<1>1. \A q \in Refs \ {r} : PhaseOf(q)' = PhaseOf(q)  BY DEF PhaseOf
<1>2. phases' = [phases EXCEPT ![r] = PhaseOf(r)']  BY <1>1 DEF phases
<1>3. phases[r] = PhaseOf(r)  BY DEF phases
<1>4. CASE PhaseOf(r)' = PhaseOf(r)
  <2>1. phases' = phases  BY <1>1, <1>4 DEF phases
  <2> QED  BY <2>1 DEF SlotMove, Slot!slotVars, phases
<1>5. CASE PhaseOf(r)' # PhaseOf(r)
  <2>1. \/ Slot!Moves(r, {"starting"}, "live") \/ Slot!Moves(r, {"live"}, "parked")
        \/ Slot!Moves(r, {"parked"}, "live")
        \/ Slot!Moves(r, {"starting", "live", "parked"}, "killed")
    BY <1>2, <1>3, <1>5 DEF Allowed, Slot!Moves, phases
  <2>2. Slot!SlotNext
    BY <2>1 DEF Slot!SlotNext, Slot!Start, Slot!Park, Slot!Revive, Slot!Kill
  <2> QED  BY <2>2 DEF SlotMove
<1> QED  BY <1>4, <1>5

LEMMA SlotStutters ==
  ASSUME reg' = reg
  PROVE  SlotMove
<1>1. \A q \in Refs : PhaseOf(q)' = PhaseOf(q)  BY DEF PhaseOf
<1>2. phases' = phases  BY <1>1 DEF phases
<1> QED  BY <1>2 DEF SlotMove, Slot!slotVars, phases

LEMMA SlotDrops ==
  ASSUME GoodRegistry(reg), NEW e, reg' = Unregistered(reg, e)
  PROVE  SlotMove
<1>1. CASE reg' = reg  BY <1>1, SlotStutters
<1>2. CASE Holds(reg, e)
  <2>1. /\ reg.current \in Refs /\ reg'.current = None
        /\ reg'.status = reg.status /\ reg'.session = reg.session
    BY <1>2 DEF GoodRegistry, Registry, Unregistered, Holds
  <2>2. \A q \in Refs : PhaseOf(q)' = PhaseOf(q)  BY <2>1 DEF PhaseOf
  <2>3. phases' = phases  BY <2>2 DEF phases
  <2>4. Slot!Drop(reg.current)  BY <2>1, <2>3 DEF Slot!Drop, phases
  <2> QED  BY <2>1, <2>4 DEF SlotMove, Slot!SlotNext
<1> QED  BY <1>1, <1>2 DEF Unregistered

LEMMA SlotCreates ==
  ASSUME GoodRegistry(reg), NEW r \in Refs, ~Born(r), reg.current = None,
         NEW st \in {"running", "parked", "aborted"}, reg' = Registered(reg, r, st, None)
  PROVE  SlotMove
<1>1. /\ reg'.current = r
      /\ reg'.status[r] = st /\ reg'.session[r] = None
      /\ \A q \in Refs \ {r} : reg'.status[q] = reg.status[q] /\ reg'.session[q] = reg.session[q]
  BY DEF GoodRegistry, Registry, Registered
<1>2. \A q \in Refs \ {r} : PhaseOf(q)' = PhaseOf(q)  BY <1>1 DEF PhaseOf
<1>3. PhaseOf(r) = "absent" /\ PhaseOf(r)' \in {"starting", "parked", "killed"}
  BY <1>1 DEF PhaseOf, Born
<1>4. phases' = [phases EXCEPT ![r] = PhaseOf(r)']  BY <1>2 DEF phases
<1>5. phases[r] = "absent"  BY <1>3 DEF phases
<1>6. Slot!Create(r)  BY <1>1, <1>3, <1>4, <1>5 DEF Slot!Create, phases
<1> QED  BY <1>6 DEF SlotMove, Slot!SlotNext

LEMMA SlotEbbs ==
  ASSUME GoodRegistry(reg), RegistryEbbs
  PROVE  SlotMove
<1>1. CASE reg' = reg  BY <1>1, SlotStutters
<1>2. ASSUME NEW e, reg' = Unregistered(reg, e) PROVE SlotMove  BY <1>2, SlotDrops
<1>3. ASSUME NEW e \in Refs, Kills(e) PROVE SlotMove
  <2>1. CASE ~Holds(reg, e)
    <3>1. reg' = reg  BY <1>3, <2>1 DEF Kills, WithStatus, AcceptsStatus, Detached
    <3> QED  BY <3>1, SlotStutters
  <2>2. CASE Holds(reg, e)
    <3> DEFINE g == WithStatus(reg, "aborted", e)
    <3>1. /\ g.current = reg.current /\ g.session = reg.session /\ reg.current \in Refs
          /\ g.status = [reg.status EXCEPT ![reg.current] = "aborted"]
          /\ g \in Registry
      BY <2>2 DEF WithStatus, AcceptsStatus, GoodRegistry, Registry, Holds, AgentStatus
    <3> HIDE DEF g
    <3>2. Holds(g, e)  BY <2>2, <3>1 DEF Holds, MatchesExpected
    <3>3. reg' = Detached(g, e)  BY <1>3 DEF Kills, g
    <3>4. /\ reg'.current = reg.current /\ reg'.status = g.status
          /\ reg'.session = [reg.session EXCEPT ![reg.current] = None]
      BY <3>1, <3>2, <3>3 DEF Detached, Registry
    <3>5. PICK r \in Refs : reg.current = r  BY <3>1
    <3>6. reg'.status[r] = "aborted" /\ reg.status[r] \in AgentStatus
      BY <3>1, <3>4, <3>5 DEF GoodRegistry, Registry
    <3>7. Allowed(PhaseOf(r), PhaseOf(r)')
      BY <3>6 DEF PhaseOf, Allowed, AgentStatus
    <3>8. \A q \in Refs \ {r} : reg'.status[q] = reg.status[q] /\ reg'.session[q] = reg.session[q]
      BY <3>1, <3>4, <3>5 DEF GoodRegistry, Registry
    <3> QED  BY <3>4, <3>5, <3>7, <3>8, HolderMoves
  <2> QED  BY <2>1, <2>2
<1> QED  BY <1>1, <1>2, <1>3 DEF RegistryEbbs

LEMMA SlotBrought ==
  ASSUME GoodRegistry(reg), NEW r \in Refs, NEW s \in Sessions, NEW st \in {"running", "idle"},
         reg' = WithStatus(WithSession(reg, s, r), st, r)
  PROVE  SlotMove
<1>1. CASE reg' = reg  BY <1>1, SlotStutters
<1>2. CASE Brought(r, s, st)
  <2>1. /\ reg'.status[r] = st /\ reg'.session[r] = s /\ reg.status[r] \in AgentStatus \ {"aborted"}
        /\ \A q \in Refs \ {r} : reg'.status[q] = reg.status[q] /\ reg'.session[q] = reg.session[q]
    BY <1>2 DEF Brought, GoodRegistry, Registry
  <2>2. PhaseOf(r)' = "live" /\ PhaseOf(r) \in {"starting", "live", "parked"}
    BY <2>1 DEF PhaseOf, AgentStatus
  <2> QED  BY <1>2, <2>1, <2>2, HolderMoves DEF Brought, Allowed
<1> QED  BY <1>1, <1>2, BringerSets

LEMMA SlotSet ==
  ASSUME GoodRegistry(reg), NEW r \in Refs, reg.current = r, NEW st \in {"running", "idle", "parked"},
         StatusSet(r, st), reg.session[r] # None
  PROVE  SlotMove
<1>1. CASE reg' = reg  BY <1>1, SlotStutters
<1>2. CASE /\ reg.status[r] # "aborted"
           /\ reg'.current = reg.current /\ reg'.session = reg.session
           /\ reg'.status = [reg.status EXCEPT ![r] = st]
  <2>1. /\ reg'.status[r] = st /\ reg'.session[r] # None
        /\ reg.status[r] \in AgentStatus \ {"aborted"}
        /\ \A q \in Refs \ {r} : reg'.status[q] = reg.status[q] /\ reg'.session[q] = reg.session[q]
    BY <1>2 DEF GoodRegistry, Registry
  <2>2. PhaseOf(r)' \in {"live", "parked"} /\ PhaseOf(r) \in {"live", "parked"}
    BY <2>1 DEF PhaseOf, AgentStatus
  <2> QED  BY <1>2, <2>1, <2>2, HolderMoves DEF Allowed
<1> QED  BY <1>1, <1>2 DEF StatusSet

LEMMA SlotSimulates ==
  ASSUME SlotInv, [Next]_vars
  PROVE  SlotMove
<1> USE DEF registryVars, adoptionVars, parkVars, callVars, otherVars
<1>0. TypedInv /\ GoodRegistry(reg)  BY DEF SlotInv, TypedInv
<1>1. CASE RegistryEbbs  BY <1>0, <1>1, SlotEbbs
<1>2. ASSUME NEW r \in Refs, SpawnRegisters(r) \/ RestoreParked(r) PROVE SlotMove
  <2>1. ~Born(r) /\ reg.current = None
    BY <1>2 DEF SpawnRegisters, RestoreParked, IsAvailable
  <2>2. PICK st \in {"running", "parked", "aborted"} : reg' = Registered(reg, r, st, None)
    BY <1>2 DEF SpawnRegisters, RestoreParked
  <2> QED  BY <1>0, <2>1, <2>2, SlotCreates
<1>3. ASSUME NEW r \in Refs, IsolatedDetaches(r) PROVE SlotMove
  <2>1. reg' = Detached(reg, r) /\ spawn[r] = "isolating"  BY <1>3 DEF IsolatedDetaches
  <2>2. CASE reg' = reg  BY <2>2, SlotStutters
  <2>3. CASE /\ reg.current = r /\ reg'.current = r /\ reg'.status = reg.status
             /\ reg'.session = [reg.session EXCEPT ![r] = None]
    <3>1. reg.status[r] \in {"parked", "aborted"}
      BY <2>1, <2>3 DEF SlotInv, SpawnInv, LooksRun
    <3>2. PhaseOf(r)' = PhaseOf(r)  BY <2>3, <3>1 DEF PhaseOf
    <3>3. \A q \in Refs \ {r} : reg'.session[q] = reg.session[q]
      BY <1>0, <2>3 DEF GoodRegistry, Registry
    <3> QED  BY <2>3, <3>2, <3>3, HolderMoves DEF Allowed
  <2> QED  BY <1>0, <2>1, <2>2, <2>3, RefDetached
<1>4. ASSUME NEW r \in Refs, HelperDrops(r) PROVE SlotMove
  BY <1>0, <1>4, SlotDrops DEF HelperDrops, UnregisterRef
<1>5. ASSUME NEW r \in Refs, NEW s \in Sessions, SpawnAttaches(r, s) PROVE SlotMove
  BY <1>0, <1>5, SlotBrought, SlotStutters DEF SpawnAttaches
<1>6. ASSUME NEW s \in Sessions, Owns(s), NEW e \in {s, Current},
             NEW st \in {"running", "idle", "parked"}, reg' = WithStatus(reg, st, e)
      PROVE  SlotMove
  <2>1. Holds(reg, e) /\ Current \in Refs /\ reg.session[Current] = s
    BY <1>0, <1>6, HoldsOwned
  <2>2. StatusSet(Current, st)  BY <1>0, <1>6, <2>1, OwnerSets DEF AgentStatus
  <2>3. PICK r \in Refs : Current = r  BY <2>1
  <2> QED  BY <1>0, <2>1, <2>2, <2>3, SlotSet DEF Current
<1>7. ASSUME NEW r \in Refs, NEW s \in Sessions, FinishKeptAlive(r, s) \/ FinishIsolated(r, s)
      PROVE  SlotMove
  BY <1>6, <1>7 DEF FinishKeptAlive, FinishIsolated
<1>8. ASSUME NEW s \in Sessions, RunStarts(s) \/ RunEnds(s) PROVE SlotMove
  BY <1>6, <1>8 DEF RunStarts, RunEnds
<1>9. ASSUME NEW r \in Refs, NEW s \in Sessions, FinishDisposes(r, s) PROVE SlotMove
  BY <1>9, SlotStutters DEF FinishDisposes
<1>10. ASSUME NEW p \in Parks, ParkCommits(p) PROVE SlotMove
  <2>1. CASE reg' = reg  BY <2>1, SlotStutters
  <2>2. CASE StillParkable(p) /\ reg' = ParkedRegistry(park[p].ref)
    <3>1. /\ park[p].ref \in Refs /\ park[p].session \in Sessions
      BY <1>0, <1>10 DEF ParkCommits, TypedInv, ParkTyped, NoPark
    <3>2. PICK r \in Refs : r = park[p].ref  BY <3>1
    <3>3. reg.current = r /\ reg.session[r] # None
      BY <2>2, <3>1, <3>2 DEF StillParkable, Current, Attached
    <3>4. /\ reg'.current = r
          /\ reg'.session = [reg.session EXCEPT ![r] = None]
          /\ reg'.status = IF reg.status[r] = "aborted" THEN reg.status
                           ELSE [reg.status EXCEPT ![r] = "parked"]
      BY <1>0, <2>2, <3>2, <3>3, ParkSets
    <3>5. /\ reg.status[r] \in AgentStatus
          /\ \A q \in Refs \ {r} : reg'.status[q] = reg.status[q] /\ reg'.session[q] = reg.session[q]
          /\ reg'.status[r] = IF reg.status[r] = "aborted" THEN "aborted" ELSE "parked"
      BY <1>0, <3>3, <3>4 DEF GoodRegistry, Registry
    <3>6. Allowed(PhaseOf(r), PhaseOf(r)')  BY <3>3, <3>5 DEF PhaseOf, Allowed, AgentStatus
    <3> QED  BY <3>3, <3>4, <3>5, <3>6, HolderMoves
  <2> QED  BY <1>10, <2>1, <2>2 DEF ParkCommits
<1>11. ASSUME NEW c \in Callers, NEW s \in Sessions, ReviverAttaches(c, s) PROVE SlotMove
  <2>1. revival[c].ref \in Refs  BY <1>0, <1>11 DEF ReviverAttaches, TypedInv, RevivalFilled
  <2> QED  BY <1>0, <1>11, <2>1, SlotBrought DEF ReviverAttaches
<1>12. ASSUME NEW c \in Callers, ReviveReturns(c) PROVE SlotMove
  <2>1. PICK r \in Refs, s \in Sessions : r = revival[c].ref /\ s = revival[c].session
    BY <1>0, <1>12 DEF ReviveReturns, TypedInv, RevivalFilled
  <2>2. CASE reg' = reg  BY <2>2, SlotStutters
  <2>3. CASE reg' = WithStatus(WithSession(reg, s, r), "idle", r)
    BY <1>0, <2>3, SlotBrought
  <2>4. CASE reg' = WithStatus(reg, "idle", r) /\ Current = r /\ reg.session[r] = s
    BY <1>6, <2>4 DEF Owns
  <2> QED  BY <1>12, <2>1, <2>2, <2>3, <2>4 DEF ReviveReturns
<1> QED
  BY <1>0, <1>1, <1>2, <1>3, <1>4, <1>5, <1>7, <1>8, <1>9, <1>10, <1>11, <1>12, EbbsOrActs
  DEF Acts

\* The whole manager, with every overlap of parks, revivals, kills, releases,
\* respawns and late finalizers, implements the abstract slot: each of its steps
\* is one indivisible step of the slot or none.
THEOREM ManagerImplementsSlot == Spec => ImplementsSlot
<1>1. Init => Slot!SlotInit
  BY DEF Init, EmptyRegistry, Slot!SlotInit, PhaseOf
<1>2. SlotInv /\ [Next]_vars => [Slot!SlotNext]_(Slot!slotVars)
  BY SlotSimulates DEF SlotMove
<1> QED  BY <1>1, <1>2, SlotInvariant, PTL DEF Spec, ImplementsSlot, Slot!SlotSpec
=============================================================================
