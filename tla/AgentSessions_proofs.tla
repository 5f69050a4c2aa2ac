------------------------- MODULE AgentSessions_proofs -------------------------
(***************************************************************************)
(* Who holds an AgentSession of the agent id, for any number of            *)
(* generations, sessions, parks, callers and releasers: the ref, a park    *)
(* that disposes it, or the revival that built it.  From that follow that  *)
(* a transcript has one writer, that no session leaks, that a ref is       *)
(* detached exactly when it is parked or killed, that ensureLive hands out *)
(* no parked session, and, within one generation, that an idle agent has   *)
(* its timer.                                                              *)
(*                                                                         *)
(* A session is only ever built when every earlier one of the same ref is  *)
(* disposed; no guard asks for that, it follows from what a revival has to *)
(* find before it starts.                                                  *)
(***************************************************************************)
EXTENDS AgentSlot_proofs

USE RegistryAssumption

\* A session has a home from its birth on.
BornInv == \A s \in Sessions : home[s] = None <=> sess[s] = "unborn"

\* The executor's run of a ref builds its first session, and has no other;
\* what it finishes is no longer live.
RunOf(r) ==
    /\ ~Born(r) \/ spawn[r] = "building" => \A s \in Sessions : home[s] # r
    /\ ~SpawnOver(r) => \A s, t \in Sessions : home[s] = r /\ home[t] = r => s = t
    /\ spawn[r] \in {"isolating", "dropping"} =>
          \A s \in Sessions : home[s] = r => sess[s] # "live"

RunInv == \A r \in Refs : RunOf(r)

\* The holder of the id has a session as long as it is up.
StateOf(r) ==
    reg.current = r =>
        /\ reg.status[r] \in {"running", "idle"} /\ spawn[r] # "building" => reg.session[r] # None
        /\ reg.status[r] = "aborted" => reg.session[r] = None
        /\ reg.status[r] = "parked" /\ spawn[r] # "isolating" => reg.session[r] = None

StateInv == \A r \in Refs : StateOf(r)

\* A park in flight is in the map, unless the manager closed, and has a session
\* of its ref; who has waited for one finds no other.
ParkInv ==
    /\ \A p \in Parks : park[p] # NoPark =>
          /\ parkEntry = p \/ ~FactoryInstalled
          /\ home[park[p].session] = park[p].ref
          /\ park[p].pc = "disposing" => sess[park[p].session] \in {"disposing", "disposed"}
    /\ parkEntry # None => park[parkEntry] # NoPark /\ FactoryInstalled
    /\ \A c \in Callers :
          call[c].pc \in {"keeping", "waiting"} =>
             /\ call[c].park \in Parks
             /\ park[call[c].park] = NoPark => parkEntry = None

\* A ref that is being revived has no session but the revival's.
AwaitInv ==
    \A c \in Callers : Underway(c) /\ reg.current = revival[c].ref =>
        reg.session[revival[c].ref] \in {None, revival[c].session}

BaseInv == SlotInv /\ BornInv /\ RunInv /\ StateInv /\ ParkInv /\ AwaitInv

LEMMA BaseInitially == Init => BaseInv
<1> SUFFICES ASSUME Init PROVE BaseInv
  OBVIOUS
<1>1. BornInv /\ RunInv  BY DEF Init, BornInv, RunInv, RunOf, SpawnOver
<1>2. StateInv  BY DEF Init, EmptyRegistry, StateInv, StateOf
<1>3. ParkInv  BY DEF Init, ParkInv, NoCall
<1>4. AwaitInv  BY DEF Init, AwaitInv, Underway, IsUnderway, NoRevival
<1> QED  BY <1>1, <1>2, <1>3, <1>4, SlotInitially DEF BaseInv

-----------------------------------------------------------------------------
(* What a step may do to a session                                         *)

Disposes(q) == sess' = Disposing(q)

\* A session gets older, and stays the session of its ref.
Ages(s) ==
    /\ home'[s] = home[s]
    /\ \/ sess'[s] = sess[s]
       \/ sess[s] = "live" /\ sess'[s] = "disposing"
       \/ sess[s] = "disposing" /\ sess'[s] = "disposed"

\* A session is built by a run or by a revival.
BuiltFor(s, r) ==
    /\ sess[s] = "unborn" /\ home'[s] = r /\ sess'[s] \in {"live", "disposing"}
    /\ \/ SpawnAttaches(r, s)
       \/ \E c \in Callers :
             /\ ReviverAttaches(c, s) \/ SimpleReviverReturns(c, s)
             /\ revival[c].ref = r /\ revival'[c].session = s
             /\ Underway(c) /\ ~HasSession(revival[c]) /\ HasSession(revival'[c])

LEMMA SessionMoves ==
  ASSUME TypedInv, [Next]_vars
  PROVE  \/ \A s \in Sessions : Ages(s)
         \/ \E s \in Sessions, r \in Refs :
               BuiltFor(s, r) /\ \A t \in Sessions \ {s} : sess'[t] = sess[t] /\ home'[t] = home[t]
<1> USE DEF registryVars, adoptionVars, parkVars, callVars, otherVars
<1> DEFINE AllAge == \A s \in Sessions : Ages(s)
           OneBuilt == \E s \in Sessions, r \in Refs :
              BuiltFor(s, r) /\ \A t \in Sessions \ {s} : sess'[t] = sess[t] /\ home'[t] = home[t]
<1>0. SessTyped /\ RevivalFilled /\ revival \in [Callers -> RevivalRecord]
  BY CallParts DEF TypedInv, CallsGood
<1>1. ASSUME home' = home, sess' = sess \/ \E q : Disposes(q) PROVE AllAge
  BY <1>0, <1>1 DEF Disposes, Disposing, SessTyped, Ages
<1>2. ASSUME NEW r \in Refs, NEW s \in Sessions, SpawnAttaches(r, s) PROVE OneBuilt
  BY <1>0, <1>2 DEF SpawnAttaches, SessTyped, BuiltFor
<1>3. ASSUME NEW c \in Callers, NEW s \in Sessions,
             ReviverAttaches(c, s) \/ SimpleReviverReturns(c, s)
      PROVE  OneBuilt
  <2>1. PICK q \in {"attached", "unwinding", "returned"} :
           revival' = [revival EXCEPT ![c] = [@ EXCEPT !.pc = q, !.session = s]]
    BY <1>3 DEF ReviverAttaches, SimpleReviverReturns
  <2>2. revival'[c].session = s /\ revival'[c].pc = q
    BY <1>0, <2>1 DEF RevivalRecord
  <2>3. revival[c].pc \in {"opening", "claimed"} /\ revival[c].ref \in Refs
    BY <1>0, <1>3 DEF ReviverAttaches, SimpleReviverReturns, RevivalFilled
  <2>4. /\ sess[s] = "unborn" /\ home' = [home EXCEPT ![s] = revival[c].ref]
        /\ \E x \in {"live", "disposing"} : sess' = [sess EXCEPT ![s] = x]
    BY <1>3 DEF ReviverAttaches, SimpleReviverReturns
  <2>5. BuiltFor(s, revival[c].ref)
    BY <1>0, <1>3, <2>2, <2>3, <2>4
    DEF BuiltFor, Underway, IsUnderway, HasSession, SessTyped
  <2> QED  BY <1>0, <2>3, <2>4, <2>5 DEF SessTyped
<1>4. ASSUME NEW q \in Sessions, SessionDisposed(q) PROVE AllAge
  BY <1>0, <1>4 DEF SessionDisposed, SessTyped, Ages
<1>5. ASSUME NEW k, NEW e, NEW tomb, StartRelease(k, e, tomb) \/ ReleaseTail(k, e, tomb)
      PROVE  sess' = sess \/ \E q : Disposes(q)
  <2>1. ASSUME NEW ref, ReleaseTail(k, ref, tomb) PROVE sess' = sess \/ \E q : Disposes(q)
    BY <2>1 DEF ReleaseTail, Disposes
  <2>2. StartRelease(k, e, tomb) => sess' = sess \/ ReleaseTail(k, ReleaseTarget(e), tomb)
    BY DEF StartRelease
  <2> QED  BY <1>5, <2>1, <2>2
<1>6. ASSUME \/ \E k \in Releasers : Release(k) \/ ReleaseResumes(k)
             \/ DisposeManager
      PROVE  home' = home /\ (sess' = sess \/ \E q : Disposes(q))
  BY <1>5, <1>6 DEF Release, ReleaseResumes, DisposeManager, StartRelease
<1>7. ASSUME \/ \E k \in Releasers :
                   \/ TombstonePersisted(k) \/ TombstoneFails(k) \/ ReleaseFinishes(k)
                   \/ ReleaseTimesOut(k)
             \/ \E r \in Refs, q \in Sessions :
                   FinishKeptAlive(r, q) \/ FinishIsolated(r, q) \/ FinishDisposes(r, q)
             \/ \E p \in Parks : ParkCommits(p)
             \/ \E c \in Callers : ReviverFinishes(c) \/ ReviveReturns(c)
      PROVE  home' = home /\ (sess' = sess \/ \E q : Disposes(q))
  BY <1>7 DEF TombstonePersisted, TombstoneFails, ReleaseFinishes, ReleaseTimesOut,
              FinishKeptAlive, FinishIsolated, FinishDisposes, ParkCommits, ReviverFinishes,
              ReviveReturns, Discards, Disposes
<1>8. ASSUME \/ \E r \in Refs :
                   SpawnRegisters(r) \/ RestoreParked(r) \/ IsolatedDetaches(r) \/ HelperDrops(r)
             \/ \E q \in Sessions : RunStarts(q) \/ RunEnds(q)
             \/ \E p \in Parks : ParkSettles(p)
             \/ \E a \in Adoptions : TimerFires(a)
             \/ ReclaimStarts \/ ReclaimProbed \/ CloseManager \/ UNCHANGED vars
      PROVE  home' = home /\ sess' = sess
  BY <1>8 DEF SpawnRegisters, RestoreParked, IsolatedDetaches, HelperDrops, RunStarts, RunEnds,
              ParkSettles, TimerFires, ReclaimStarts, ReclaimProbed, CloseManager, vars
<1>9. ASSUME NEW c \in Callers,
             \/ KeepResumes(c) \/ WaitResumes(c) \/ RevivedResumes(c) \/ RevivalRejects(c)
             \/ EnsureLive(c) \/ Collect(c)
             \/ FactoryAnswers(c) \/ ReviverFails(c) \/ ReviverClaims(c)
      PROVE  home' = home /\ sess' = sess
  BY <1>9 DEF KeepResumes, WaitResumes, RevivedResumes, RevivalRejects, EnsureLive, Collect,
              FactoryAnswers, ReviverFails, ReviverClaims
<1> QED
  BY <1>1, <1>2, <1>3, <1>4, <1>6, <1>7, <1>8, <1>9 DEF Next, Microtask, Executor, ReviverStep

LEMMA BornStep ==
  ASSUME BaseInv, [Next]_vars
  PROVE  BornInv'
<1>0. TypedInv /\ BornInv  BY DEF BaseInv, SlotInv
<1>1. CASE \A s \in Sessions : Ages(s)
  BY <1>0, <1>1 DEF BornInv, Ages
<1>2. CASE \E s \in Sessions, r \in Refs :
              BuiltFor(s, r) /\ \A t \in Sessions \ {s} : sess'[t] = sess[t] /\ home'[t] = home[t]
  BY <1>0, <1>2 DEF BornInv, BuiltFor
<1> QED  BY <1>0, <1>1, <1>2, SessionMoves

\* A session keeps its home; a new one of a ref that has a run is its first.
LEMMA HomesStay ==
  ASSUME BaseInv, [Next]_vars, NEW r \in Refs, NEW s \in Sessions, home'[s] = r
  PROVE  \/ home[s] = r /\ Ages(s)
         \/ /\ BuiltFor(s, r)
            /\ \A t \in Sessions \ {s} : sess'[t] = sess[t] /\ home'[t] = home[t]
<1>0. TypedInv /\ BornInv  BY DEF BaseInv, SlotInv
<1>1. CASE \A t \in Sessions : Ages(t)  BY <1>1 DEF Ages
<1>2. ASSUME NEW q \in Sessions, NEW p \in Refs, BuiltFor(q, p),
             \A t \in Sessions \ {q} : sess'[t] = sess[t] /\ home'[t] = home[t]
      PROVE  \/ home[s] = r /\ Ages(s)
             \/ /\ BuiltFor(s, r)
                /\ \A t \in Sessions \ {s} : sess'[t] = sess[t] /\ home'[t] = home[t]
  BY <1>2 DEF BuiltFor, Ages
<1> QED  BY <1>0, <1>1, <1>2, SessionMoves

\* The steps of a run.
LEMMA SpawnMoves ==
  ASSUME TypedInv, [Next]_vars, NEW r \in Refs
  PROVE  \/ spawn'[r] = spawn[r]
         \/ SpawnRegisters(r) /\ spawn'[r] = "building"
         \/ spawn[r] = "building" /\ spawn'[r] \in {"working", "done"}
         \/ /\ spawn[r] = "working" /\ spawn'[r] \in {"isolating", "dropping", "done"}
            /\ spawn'[r] # "done" => \E s \in Sessions : home[s] = r /\ Disposes(s)
         \/ spawn[r] \in {"isolating", "dropping"} /\ spawn'[r] = "done"
<1> USE DEF registryVars, adoptionVars, parkVars, callVars, otherVars
<1>0. spawn \in [Refs -> {"none", "building", "working", "isolating", "dropping", "done"}]
  BY DEF TypedInv, SessTyped
<1>1. ASSUME NEW q \in Refs, SpawnRegisters(q)
      PROVE  spawn'[r] = spawn[r] \/ (SpawnRegisters(r) /\ spawn'[r] = "building")
  BY <1>0, <1>1 DEF SpawnRegisters
<1>2. ASSUME NEW q \in Refs, NEW s \in Sessions, SpawnAttaches(q, s)
      PROVE  \/ spawn'[r] = spawn[r]
             \/ spawn[r] = "building" /\ spawn'[r] \in {"working", "done"}
  BY <1>0, <1>2 DEF SpawnAttaches
<1>3. ASSUME NEW q \in Refs, NEW s \in Sessions,
             FinishKeptAlive(q, s) \/ FinishIsolated(q, s) \/ FinishDisposes(q, s)
      PROVE  \/ spawn'[r] = spawn[r]
             \/ /\ spawn[r] = "working" /\ spawn'[r] \in {"isolating", "dropping", "done"}
                /\ spawn'[r] # "done" => \E t \in Sessions : home[t] = r /\ Disposes(t)
  <2>1. /\ spawn[q] = "working" /\ home[s] = q
        /\ \E x \in {"isolating", "dropping", "done"} :
              spawn' = [spawn EXCEPT ![q] = x] /\ (x # "done" => Disposes(s))
    BY <1>3 DEF FinishKeptAlive, FinishIsolated, FinishDisposes, Finishing, Disposes
  <2> QED  BY <1>0, <2>1
<1>4. ASSUME NEW q \in Refs, IsolatedDetaches(q) \/ HelperDrops(q)
      PROVE  \/ spawn'[r] = spawn[r]
             \/ spawn[r] \in {"isolating", "dropping"} /\ spawn'[r] = "done"
  BY <1>0, <1>4 DEF IsolatedDetaches, HelperDrops
<1>5. ASSUME \/ \E q \in Refs : RestoreParked(q)
             \/ \E s \in Sessions : RunStarts(s) \/ RunEnds(s)
             \/ \E p \in Parks : ParkCommits(p)
             \/ \E c \in Callers, s \in Sessions : ReviverAttaches(c, s)
             \/ \E c \in Callers : ReviveReturns(c)
      PROVE  spawn' = spawn
  BY <1>5 DEF RestoreParked, RunStarts, RunEnds, ParkCommits, ReviverAttaches, ReviveReturns
<1> QED  BY <1>1, <1>2, <1>3, <1>4, <1>5, EbbsOrActs DEF Acts

\* A revival that builds a session has a ref whose run is over.
LEMMA BuilderKnown ==
  ASSUME BaseInv, NEW s \in Sessions, NEW r \in Refs, BuiltFor(s, r)
  PROVE  (SpawnAttaches(r, s) /\ spawn[r] = "building") \/ (SpawnOver(r) /\ Born(r))
BY DEF BuiltFor, SpawnAttaches, BaseInv, SlotInv, FlightInv, GoodFlight, Underway

LEMMA RunStep ==
  ASSUME BaseInv, [Next]_vars
  PROVE  RunInv'
<1> SUFFICES ASSUME NEW r \in Refs PROVE RunOf(r)'
  BY DEF RunInv
<1>0. /\ TypedInv /\ SessTyped /\ RunOf(r)
      /\ Born(r) => Born(r)'
      /\ Born(r) /\ SpawnOver(r) => SpawnOver(r)'
      /\ spawn[r] # "none" => Born(r)
      /\ spawn[r] \in {"none", "building", "working", "isolating", "dropping", "done"}
  BY RefsStay DEF BaseInv, SlotInv, TypedInv, RunInv, SpawnInv, SessTyped
<1>1. CASE \A s \in Sessions : home'[s] = r => home[s] = r /\ Ages(s)
  <2>1. ~Born(r)' \/ spawn'[r] = "building" => \A s \in Sessions : home'[s] # r
    <3>1. ~Born(r)' => ~Born(r)  BY <1>0
    <3>2. spawn'[r] = "building" => ~Born(r) \/ spawn[r] = "building"
      BY <1>0, SpawnMoves DEF SpawnRegisters
    <3> QED  BY <1>0, <1>1, <3>1, <3>2 DEF RunOf
  <2>2. ~SpawnOver(r)' => \A s, t \in Sessions : home'[s] = r /\ home'[t] = r => s = t
    <3>1. ~SpawnOver(r)' => ~Born(r) \/ ~SpawnOver(r)  BY <1>0
    <3> QED  BY <1>0, <1>1, <3>1 DEF RunOf
  <2>3. ASSUME spawn'[r] \in {"isolating", "dropping"}, NEW s \in Sessions, home'[s] = r
        PROVE  sess'[s] # "live"
    <3>1. home[s] = r /\ Ages(s)  BY <1>1, <2>3
    <3>2. CASE spawn[r] \in {"isolating", "dropping"}
      BY <1>0, <3>1, <3>2 DEF RunOf, Ages
    <3>3. CASE spawn[r] = "working" /\ \E t \in Sessions : home[t] = r /\ Disposes(t)
      <4>1. Disposes(s)  BY <1>0, <3>1, <3>3 DEF RunOf, SpawnOver
      <4> QED  BY <1>0, <4>1 DEF Disposes, Disposing, SessTyped
    <3> QED  BY <1>0, <2>3, <3>2, <3>3, SpawnMoves
  <2> QED  BY <2>1, <2>2, <2>3 DEF RunOf
<1>2. ASSUME NEW s \in Sessions, BuiltFor(s, r),
             \A t \in Sessions \ {s} : sess'[t] = sess[t] /\ home'[t] = home[t]
      PROVE  RunOf(r)'
  <2>1. CASE SpawnAttaches(r, s) /\ spawn[r] = "building"
    <3>1. spawn'[r] \in {"working", "done"}  BY <1>0, <2>1 DEF SpawnAttaches, SessTyped
    <3>2. \A t \in Sessions \ {s} : home'[t] # r  BY <1>0, <1>2, <2>1 DEF RunOf
    <3> QED  BY <1>0, <2>1, <3>1, <3>2 DEF RunOf
  <2>2. CASE SpawnOver(r) /\ Born(r)
    BY <1>0, <2>2 DEF RunOf, SpawnOver
  <2> QED  BY <1>2, <2>1, <2>2, BuilderKnown
<1> QED  BY <1>1, <1>2, HomesStay

-----------------------------------------------------------------------------
(* What a step may do to the session of a ref                              *)

Detaches(r) ==
    /\ reg'.session[r] = None
    /\ \/ reg'.status[r] = "aborted" /\ (reg.session[r] # None => Disposes(reg.session[r]))
       \/ reg.current # r
       \/ IsolatedDetaches(r)
       \/ \E p \in Parks : ParkCommits(p) /\ StillParkable(p) /\ park[p].ref = r

Brings(r) ==
    /\ reg.current = r /\ reg'.current = r
    /\ \/ \E s \in Sessions : SpawnAttaches(r, s) /\ reg'.session[r] = s
       \/ \E c \in Callers, s \in Sessions :
             ReviverAttaches(c, s) /\ revival[c].ref = r /\ reg'.session[r] = s
       \/ \E c \in Callers :
             /\ ReviveReturns(c) /\ ~IsUnderway(revival'[c])
             /\ revival[c].ref = r /\ reg'.session[r] = revival[c].session

LEMMA FieldMoves ==
  ASSUME BaseInv, [Next]_vars, NEW r \in Refs
  PROVE  reg'.session[r] = reg.session[r] \/ Detaches(r) \/ Brings(r)
<1> USE DEF registryVars, adoptionVars, parkVars, callVars, otherVars
<1> DEFINE Goal == reg'.session[r] = reg.session[r] \/ Detaches(r) \/ Brings(r)
<1>0. /\ TypedInv /\ GoodRegistry(reg)
      /\ reg.session \in [Refs -> Sessions \cup {None}]
      /\ revival \in [Callers -> RevivalRecord]
  BY CallParts DEF BaseInv, SlotInv, TypedInv, CallsGood, GoodRegistry, Registry
<1>1. CASE RegistryEbbs  BY <1>0, <1>1, EbbLeaves DEF Detaches, Disposes
<1>2. ASSUME NEW q \in Refs, SpawnRegisters(q) \/ RestoreParked(q) PROVE Goal
  <2>1. PICK st \in AgentStatus : reg' = Registered(reg, q, st, None) /\ reg.current = None
    BY <1>2 DEF SpawnRegisters, RestoreParked, AgentStatus, IsAvailable
  <2> QED  BY <1>0, <2>1, RefSpawned DEF Detaches
<1>3. ASSUME NEW q \in Refs, IsolatedDetaches(q) PROVE Goal
  <2>1. reg' = Detached(reg, q)  BY <1>3 DEF IsolatedDetaches
  <2> QED  BY <1>0, <1>3, <2>1, RefDetached DEF Detaches
<1>4. ASSUME NEW q \in Refs, HelperDrops(q) PROVE Goal
  BY <1>0, <1>4, RefDropped DEF HelperDrops, UnregisterRef
<1>5. ASSUME NEW e, NEW st \in AgentStatus, reg' = WithStatus(reg, st, e) PROVE Goal
  BY <1>0, <1>5 DEF WithStatus, GoodRegistry, Registry
<1>6. ASSUME \/ \E q \in Refs, s \in Sessions : FinishKeptAlive(q, s) \/ FinishIsolated(q, s)
             \/ \E s \in Sessions : RunStarts(s) \/ RunEnds(s)
      PROVE  Goal
  <2>1. \E st \in AgentStatus : \E e : reg' = WithStatus(reg, st, e)
    BY <1>6 DEF FinishKeptAlive, FinishIsolated, RunStarts, RunEnds, AgentStatus
  <2> QED  BY <1>5, <2>1
<1>7. ASSUME NEW q \in Refs, NEW s \in Sessions, FinishDisposes(q, s) PROVE Goal
  BY <1>7 DEF FinishDisposes
<1>8. ASSUME NEW p \in Parks, ParkCommits(p) PROVE Goal
  <2>1. CASE reg' = reg  BY <2>1
  <2>2. CASE StillParkable(p) /\ reg' = ParkedRegistry(park[p].ref)
    <3>1. park[p].ref \in Refs  BY <1>0, <1>8 DEF ParkCommits, TypedInv, ParkTyped, NoPark
    <3>2. reg'.session = [reg.session EXCEPT ![park[p].ref] = None]
      BY <1>0, <2>2, <3>1, ParkSets DEF StillParkable, Current
    <3> QED  BY <1>0, <1>8, <2>2, <3>1, <3>2 DEF Detaches
  <2> QED  BY <1>8, <2>1, <2>2 DEF ParkCommits
<1>9. ASSUME NEW q \in Refs, NEW s \in Sessions, SpawnAttaches(q, s) PROVE Goal
  <2>1. CASE reg' = reg  BY <2>1
  <2>2. CASE reg' = WithStatus(WithSession(reg, s, q), "running", q) /\ AcceptsSession(reg, q)
    <3>1. Brought(q, s, "running")  BY <1>0, <2>2, BringerSets
    <3> QED  BY <1>0, <1>9, <3>1 DEF Brought, Brings
  <2> QED  BY <1>9, <2>1, <2>2 DEF SpawnAttaches
<1>10. ASSUME NEW c \in Callers, NEW s \in Sessions, ReviverAttaches(c, s) PROVE Goal
  <2>1. PICK q \in Refs : q = revival[c].ref
    BY <1>0, <1>10 DEF ReviverAttaches, TypedInv, RevivalFilled
  <2>2. reg' = reg \/ Brought(q, s, "running")
    BY <1>0, <1>10, <2>1, BringerSets DEF ReviverAttaches
  <2> QED  BY <1>0, <1>10, <2>1, <2>2 DEF Brought, Brings
<1>11. ASSUME NEW c \in Callers, ReviveReturns(c) PROVE Goal
  <2>1. PICK q \in Refs, s \in Sessions : q = revival[c].ref /\ s = revival[c].session
    BY <1>0, <1>11 DEF ReviveReturns, TypedInv, RevivalFilled
  <2>2. CASE reg' = reg  BY <2>2
  <2>3. CASE reg' = WithStatus(WithSession(reg, s, q), "idle", q) /\ Goes(c, "resolved")
    <3>1. reg' = reg \/ Brought(q, s, "idle")  BY <1>0, <2>3, BringerSets
    <3>2. ~IsUnderway(revival'[c])  BY <1>0, <2>3 DEF Goes, RevivalRecord, IsUnderway
    <3> QED  BY <1>0, <1>11, <2>1, <3>1, <3>2 DEF Brought, Brings
  <2>4. CASE reg' = WithStatus(reg, "idle", q)  BY <1>5, <2>4 DEF AgentStatus
  <2> QED  BY <1>11, <2>1, <2>2, <2>3, <2>4 DEF ReviveReturns
<1> QED
  BY <1>0, <1>1, <1>2, <1>3, <1>4, <1>6, <1>7, <1>8, <1>9, <1>10, <1>11, EbbsOrActs DEF Acts

\* A revival that is under way after a step and did not start in it was before.
LEMMA GoesOn ==
  ASSUME SlotInv, [Next]_vars, NEW c \in Callers, IsUnderway(revival'[c]), ~Starts(c)
  PROVE  Underway(c) /\ (revival'[c] = revival[c] \/ Advances(c))
<1>1. CASE \E d \in Callers : Starts(d)
  <2>1. revival \in [Callers -> RevivalRecord]  BY CallParts DEF SlotInv, TypedInv, CallsGood
  <2>2. revival'[c] = revival[c]  BY <1>1, <2>1 DEF Starts
  <2> QED  BY <2>2 DEF Underway
<1>2. CASE ~\E d \in Callers : Starts(d)
  BY <1>2, RevivalStep DEF RevivalMoves, Ends, Advances, Underway
<1> QED  BY <1>1, <1>2

\* A ref that is being revived is not left by any other bringer.
LEMMA AwaitStep ==
  ASSUME BaseInv, [Next]_vars
  PROVE  AwaitInv'
<1> SUFFICES ASSUME NEW c \in Callers, IsUnderway(revival'[c]), reg'.current = revival'[c].ref
             PROVE  reg'.session[revival'[c].ref] \in {None, revival'[c].session}
  BY DEF AwaitInv, Underway, IsUnderway
<1>0. /\ TypedInv /\ revival \in [Callers -> RevivalRecord]
      /\ \A d \in Callers : Underway(d) => revival[d].ref \in Refs /\ GoodFlight(revival[d])
  BY CallParts DEF BaseInv, SlotInv, FlightInv, TypedInv, CallsGood, RevivalFilled, Underway, IsUnderway
<1>1. CASE Starts(c)
  <2>1. revival'[c].ref = Current /\ reg' = reg  BY <1>0, <1>1 DEF Starts, NoRevival
  <2> QED  BY <1>1, <2>1 DEF Starts, Attached, Current
<1>2. CASE ~Starts(c)
  <2>1. Underway(c) /\ (revival'[c] = revival[c] \/ Advances(c))  BY <1>2, GoesOn DEF BaseInv
  <2>2. PICK r \in Refs : r = revival[c].ref /\ r = revival'[c].ref
    BY <1>0, <2>1 DEF Advances
  <2>3. Born(r) /\ SpawnOver(r)  BY <1>0, <2>1, <2>2 DEF GoodFlight, Underway
  <2>4. reg.current = r  BY <1>0, <2>2, <2>3, RefsStay
  <2>5. reg.session[r] \in {None, revival[c].session}
    BY <2>1, <2>2, <2>4 DEF BaseInv, AwaitInv
  <2>6. reg.session[r] \in {None, revival'[c].session}
    <3>1. Builds(c) => revival[c].session = None
      BY <1>0, <2>1 DEF Builds, GoodFlight, Underway, IsUnderway, HasSession
    <3> QED  BY <2>1, <2>5, <3>1 DEF Advances, Continues
  <2>7. CASE Brings(r)
    <3>1. \A d \in Callers : Underway(d) /\ revival[d].ref = r => d = c
      BY <2>1, <2>2 DEF BaseInv, SlotInv, EntryInv
    <3>2. ASSUME NEW s \in Sessions, SpawnAttaches(r, s) PROVE FALSE
      BY <2>3, <3>2 DEF SpawnAttaches, SpawnOver
    <3>3. ASSUME NEW d \in Callers, NEW s \in Sessions, ReviverAttaches(d, s), revival[d].ref = r
          PROVE  d = c /\ revival'[c].session = s
      <4>1. d = c  BY <3>1, <3>3 DEF ReviverAttaches, Underway, IsUnderway
      <4> QED  BY <1>0, <3>3, <4>1 DEF ReviverAttaches, RevivalRecord
    <3>4. ASSUME NEW d \in Callers, ReviveReturns(d), ~IsUnderway(revival'[d]), revival[d].ref = r
          PROVE  FALSE
      BY <3>1, <3>4 DEF ReviveReturns, Underway, IsUnderway
    <3> QED  BY <2>2, <2>7, <3>2, <3>3, <3>4 DEF Brings
  <2> QED  BY <2>2, <2>6, <2>7, FieldMoves DEF Detaches
<1> QED  BY <1>1, <1>2

\* Whatever sets the status leaves the session in step with it.
LEMMA StateStep ==
  ASSUME BaseInv, [Next]_vars, NEW r \in Refs
  PROVE  StateOf(r)'
<1> USE DEF registryVars, adoptionVars, parkVars, callVars, otherVars
<1>0. /\ TypedInv /\ GoodRegistry(reg) /\ StateOf(r) /\ LooksRun(r)
      /\ reg.status \in [Refs -> AgentStatus \cup {"unborn"}]
      /\ reg.session \in [Refs -> Sessions \cup {None}]
      /\ spawn \in [Refs -> {"none", "building", "working", "isolating", "dropping", "done"}]
  BY DEF BaseInv, SlotInv, TypedInv, StateInv, SpawnInv, SessTyped, GoodRegistry, Registry
<1>1. CASE RegistryEbbs /\ spawn' = spawn
  BY <1>0, <1>1, EbbLeaves DEF StateOf
<1>2. ASSUME NEW q \in Refs, SpawnRegisters(q) PROVE StateOf(r)'
  BY <1>0, <1>2 DEF SpawnRegisters, Registered, StateOf
<1>3. ASSUME NEW q \in Refs, RestoreParked(q) PROVE StateOf(r)'
  BY <1>0, <1>3 DEF RestoreParked, Registered, StateOf
<1>4. ASSUME NEW q \in Refs, NEW s \in Sessions, SpawnAttaches(q, s) PROVE StateOf(r)'
  <2>1. CASE ~AcceptsSession(reg, q) /\ reg' = reg /\ spawn' = [spawn EXCEPT ![q] = "done"]
    <3>1. reg.current = q => reg.status[q] = "aborted"
      BY <1>0, <2>1, HoldsRef DEF AcceptsSession
    <3> QED  BY <1>0, <2>1, <3>1 DEF StateOf
  <2>2. CASE /\ reg' = WithStatus(WithSession(reg, s, q), "running", q) /\ AcceptsSession(reg, q)
             /\ spawn' = [spawn EXCEPT ![q] = "working"]
    <3>1. Brought(q, s, "running")  BY <1>0, <2>2, BringerSets
    <3> QED  BY <1>0, <2>2, <3>1 DEF StateOf, Brought
  <2> QED  BY <1>4, <2>1, <2>2 DEF SpawnAttaches
<1>5. ASSUME NEW q \in Refs, NEW s \in Sessions, FinishKeptAlive(q, s) \/ FinishIsolated(q, s)
      PROVE  StateOf(r)'
  <2>1. Owns(s) /\ home[s] = q /\ spawn[q] = "working"
    BY <1>5 DEF FinishKeptAlive, FinishIsolated, Finishing
  <2>2. Current = q /\ reg.session[q] = s /\ Holds(reg, Current)
    BY <1>0, <2>1, HoldsOwned DEF BaseInv, SlotInv, HomeInv
  <2>3. CASE FinishKeptAlive(q, s)
    <3>1. StatusSet(q, "idle")
      BY <1>0, <2>2, <2>3, OwnerSets DEF FinishKeptAlive, AgentStatus
    <3> QED  BY <1>0, <2>2, <2>3, <3>1 DEF FinishKeptAlive, StatusSet, StateOf, Current
  <2>4. CASE FinishIsolated(q, s)
    <3>1. StatusSet(q, "parked")
      BY <1>0, <2>2, <2>4, OwnerSets DEF FinishIsolated, AgentStatus
    <3>2. spawn' = [spawn EXCEPT ![q] = "isolating"]  BY <2>4 DEF FinishIsolated
    <3> QED  BY <1>0, <2>2, <3>1, <3>2 DEF StatusSet, StateOf, Current
  <2> QED  BY <1>5, <2>3, <2>4
<1>6. ASSUME NEW q \in Refs, IsolatedDetaches(q) PROVE StateOf(r)'
  <2>1. spawn' = [spawn EXCEPT ![q] = "done"] /\ reg' = Detached(reg, q) /\ spawn[q] = "isolating"
    BY <1>6 DEF IsolatedDetaches
  <2> QED  BY <1>0, <2>1, RefDetached DEF StateOf, LooksRun
<1>7. ASSUME NEW q \in Refs, NEW s \in Sessions, FinishDisposes(q, s) PROVE StateOf(r)'
  BY <1>0, <1>7 DEF FinishDisposes, Finishing, StateOf, LooksRun
<1>8. ASSUME NEW q \in Refs, HelperDrops(q) PROVE StateOf(r)'
  <2>1. spawn' = [spawn EXCEPT ![q] = "done"] /\ reg' = Unregistered(reg, q)
    BY <1>8 DEF HelperDrops, UnregisterRef
  <2> QED  BY <1>0, <2>1, RefDropped DEF StateOf
<1>9. ASSUME NEW s \in Sessions, RunStarts(s) \/ RunEnds(s) PROVE StateOf(r)'
  <2>1. /\ Owns(s) /\ spawn' = spawn
        /\ \E st \in {"running", "idle"} : reg' = WithStatus(reg, st, s)
    BY <1>9 DEF RunStarts, RunEnds
  <2>2. PICK st \in {"running", "idle"} : StatusSet(Current, st)
    BY <1>0, <2>1, OwnerSets, HoldsOwned DEF AgentStatus
  <2>3. Current \in Refs /\ reg.session[Current] # None  BY <1>0, <2>1, HoldsOwned
  <2> QED  BY <1>0, <2>1, <2>2, <2>3 DEF StatusSet, StateOf, Current
<1>10. ASSUME NEW p \in Parks, ParkCommits(p) PROVE StateOf(r)'
  <2>0. spawn' = spawn  BY <1>10 DEF ParkCommits
  <2>1. CASE reg' = reg  BY <1>0, <2>0, <2>1 DEF StateOf
  <2>2. CASE StillParkable(p) /\ reg' = ParkedRegistry(park[p].ref)
    <3>1. PICK q \in Refs : q = park[p].ref
      BY <1>0, <1>10 DEF ParkCommits, TypedInv, ParkTyped, NoPark
    <3>2. reg.current = q  BY <2>2, <3>1 DEF StillParkable, Current
    <3> QED  BY <1>0, <2>0, <2>2, <3>1, <3>2, ParkSets DEF StateOf
  <2> QED  BY <1>10, <2>1, <2>2 DEF ParkCommits
<1>11. ASSUME NEW c \in Callers, ReviveReturns(c) \/ \E s \in Sessions : ReviverAttaches(c, s)
       PROVE  StateOf(r)'
  <2>0. PICK q \in Refs : q = revival[c].ref
    BY <1>0, <1>11 DEF ReviveReturns, ReviverAttaches, TypedInv, RevivalFilled
  <2>1. /\ spawn' = spawn
        /\ \/ reg' = reg
           \/ reg' = WithStatus(reg, "idle", q) /\ reg.current = q /\ reg.session[q] \in Sessions
           \/ \E s \in Sessions, st \in {"running", "idle"} :
                 reg' = WithStatus(WithSession(reg, s, q), st, q)
    BY <1>0, <1>11, <2>0 DEF ReviveReturns, ReviverAttaches, Current, TypedInv, RevivalFilled
  <2>2. CASE reg' = reg  BY <1>0, <2>1, <2>2 DEF StateOf
  <2>3. CASE reg' = WithStatus(reg, "idle", q) /\ reg.current = q /\ reg.session[q] \in Sessions
    <3>1. StatusSet(q, "idle")
      BY <1>0, <2>3, HoldsRef, OwnerSets DEF AgentStatus, Current
    <3> QED  BY <1>0, <2>1, <2>3, <3>1 DEF StatusSet, StateOf
  <2>4. ASSUME NEW s \in Sessions, NEW st \in {"running", "idle"}, Brought(q, s, st)
        PROVE  StateOf(r)'
    BY <1>0, <2>1, <2>4 DEF Brought, StateOf
  <2> QED  BY <1>0, <2>1, <2>2, <2>3, <2>4, BringerSets
<1> QED
  BY <1>0, <1>1, <1>2, <1>3, <1>4, <1>5, <1>6, <1>7, <1>8, <1>9, <1>10, <1>11, EbbsOrActs DEF Acts

-----------------------------------------------------------------------------
(* What a step may do to a park                                            *)

ParkStarts(p) ==
    /\ CanPark /\ Quiet /\ armed # {} /\ park[p] = NoPark
    /\ \A c \in Callers : call[c].park # p
    /\ \A k \in Releasers : release[k].park # p
    /\ parkEntry' = p /\ revival' = revival
    /\ park' = [park EXCEPT ![p] = [pc |-> "yielding", ref |-> Current, session |-> Attached,
                                    cancelled |-> FALSE]]
    /\ UNCHANGED <<reg, adopted>>
    /\ \E a \in Adoptions : armed' = armed \ {a, adopted.tok}

\* Who cancels a park: a caller that keeps the session, or a release.
Cancels ==
    \/ \E c \in Callers :
          call' = [call EXCEPT ![c] =
                [NoCall EXCEPT !.pc = "keeping", !.park = parkEntry, !.ref = Current]]
    \/ \E k, e, tomb : StartRelease(k, e, tomb)

ParkMarks(p) ==
    /\ parkEntry' = parkEntry /\ park[p] # NoPark
    /\ \/ /\ \E b : park' = [park EXCEPT ![p] = [@ EXCEPT !.cancelled = b]]
          /\ Cancels
       \/ /\ ParkCommits(p) /\ StillParkable(p)
          /\ park' = [park EXCEPT ![p] = [@ EXCEPT !.pc = "disposing"]]

ParkEnds(p) ==
    /\ SettlePark(p)
    /\ \/ park[p].pc = "yielding" /\ ~StillParkable(p) /\ sess' = sess
       \/ park[p].pc = "disposing" /\ sess[park[p].session] = "disposed"

ParkMoves ==
    \/ UNCHANGED <<park, parkEntry>>
    \/ \E p \in Parks : ParkStarts(p) \/ ParkMarks(p) \/ ParkEnds(p)
    \/ CloseManager

LEMMA ParksMove ==
  ASSUME TypedInv, [Next]_vars
  PROVE  ParkMoves
<1> USE DEF registryVars, adoptionVars, parkVars, callVars, otherVars
<1>0. ParkTyped  BY DEF TypedInv
<1>1. ASSUME NEW a \in Adoptions, TimerFires(a) PROVE ParkMoves
  BY <1>1 DEF TimerFires, ParkMoves, ParkStarts
<1>2. ASSUME NEW p \in Parks, ParkCommits(p) PROVE ParkMoves
  BY <1>0, <1>2 DEF ParkCommits, ParkMoves, ParkMarks, ParkEnds, NoPark
<1>3. ASSUME NEW p \in Parks, ParkSettles(p) PROVE ParkMoves
  BY <1>3 DEF ParkSettles, ParkMoves, ParkEnds
<1>4. ASSUME NEW c \in Callers, EnsureLive(c) PROVE ParkMoves
  <2>1. CASE UNCHANGED <<park, parkEntry>>  BY <2>1 DEF ParkMoves
  <2>2. CASE /\ parkEntry # None /\ park[parkEntry].pc = "yielding" /\ parkEntry' = parkEntry
             /\ park' = [park EXCEPT ![parkEntry] = [@ EXCEPT !.cancelled = TRUE]]
             /\ call' = [call EXCEPT ![c] =
                   [NoCall EXCEPT !.pc = "keeping", !.park = parkEntry, !.ref = Current]]
    <3>1. PICK p \in Parks : p = parkEntry  BY <1>0, <2>2 DEF ParkTyped
    <3>2. park' = [park EXCEPT ![p] = [@ EXCEPT !.cancelled = TRUE]]  BY <2>2, <3>1
    <3>3. park[p] # NoPark  BY <2>2, <3>1 DEF NoPark
    <3> QED  BY <2>2, <3>2, <3>3 DEF ParkMoves, ParkMarks, Cancels
  <2> QED  BY <1>4, <2>1, <2>2 DEF EnsureLive
<1>5. ASSUME NEW k, NEW e, NEW tomb, StartRelease(k, e, tomb) PROVE ParkMoves
  <2>1. CASE UNCHANGED <<park, parkEntry>>  BY <2>1 DEF ParkMoves
  <2>2. CASE parkEntry # None /\ park[parkEntry].ref = ReleaseTarget(e)
    <3> DEFINE b == park[parkEntry].cancelled \/ park[parkEntry].pc = "yielding"
    <3>1. park' = [park EXCEPT ![parkEntry] = [@ EXCEPT !.cancelled = b]]
      BY <1>5, <2>2 DEF StartRelease
    <3>2. ReleaseTarget(e) # None /\ parkEntry' = parkEntry  BY <1>5 DEF StartRelease
    <3>3. park[parkEntry] # NoPark  BY <2>2, <3>2 DEF NoPark
    <3>4. parkEntry \in Parks  BY <1>0, <2>2 DEF ParkTyped
    <3> HIDE DEF b
    <3> QED  BY <1>5, <3>1, <3>2, <3>3, <3>4 DEF ParkMoves, ParkMarks, Cancels
  <2> QED  BY <1>5, <2>1, <2>2 DEF StartRelease
<1>6. ASSUME (\E k \in Releasers : Release(k)) \/ DisposeManager PROVE ParkMoves
  <2>1. UNCHANGED <<park, parkEntry>> \/ \E k, e, tomb : StartRelease(k, e, tomb)
    BY <1>6 DEF Release, DisposeManager
  <2> QED  BY <1>5, <2>1 DEF ParkMoves
<1>9. ASSUME Executor \/ \E s \in Sessions : SessionDisposed(s)
      PROVE  UNCHANGED <<park, parkEntry>>
  BY <1>9 DEF Executor, SpawnRegisters, RestoreParked, IsolatedDetaches, HelperDrops,
              SpawnAttaches, FinishKeptAlive, FinishIsolated, FinishDisposes, RunStarts, RunEnds,
              SessionDisposed
<1>10. ASSUME NEW c \in Callers,
              \/ KeepResumes(c) \/ WaitResumes(c) \/ RevivedResumes(c) \/ RevivalRejects(c)
              \/ Collect(c) \/ ReviveReturns(c) \/ ReviverStep(c)
       PROVE  UNCHANGED <<park, parkEntry>>
  BY <1>10 DEF KeepResumes, WaitResumes, RevivedResumes, RevivalRejects, Collect, ReviveReturns,
               ReviverStep, FactoryAnswers, ReviverFails, ReviverClaims, ReviverFinishes,
               ReviverAttaches, SimpleReviverReturns
<1>12. ASSUME \/ \E k \in Releasers : ReleaseResumes(k) \/ ReleaseFinishes(k) \/ ReleaseTimesOut(k)
                                      \/ TombstonePersisted(k) \/ TombstoneFails(k)
              \/ ReclaimStarts \/ ReclaimProbed \/ UNCHANGED vars
       PROVE  UNCHANGED <<park, parkEntry>>
  BY <1>12 DEF ReleaseResumes, ReleaseFinishes, ReleaseTimesOut, TombstonePersisted,
               TombstoneFails, ReclaimStarts, ReclaimProbed, vars
<1> QED
  BY <1>1, <1>2, <1>3, <1>4, <1>6, <1>9, <1>10, <1>12 DEF Next, Microtask, ParkMoves

\* A session that was built only gets older.
LEMMA SessionAges ==
  ASSUME TypedInv, [Next]_vars, NEW s \in Sessions, sess[s] # "unborn"
  PROVE  Ages(s)
BY SessionMoves DEF BuiltFor, Ages

LEMMA ManagerMoves ==
  ASSUME TypedInv, [Next]_vars
  PROVE  \/ (FactoryInstalled' <=> FactoryInstalled)
         \/ CloseManager /\ ~FactoryInstalled'
<1>1. mgr' = mgr \/ DisposeManager \/ CloseManager
  BY DEF Next, Microtask, Executor, ReviverStep, vars, registryVars, adoptionVars, parkVars,
         callVars, otherVars,
         ParkCommits, ParkSettles, KeepResumes, WaitResumes, RevivedResumes, ReviveReturns,
         RevivalRejects, ReleaseResumes, ReleaseFinishes, SpawnRegisters, RestoreParked,
         IsolatedDetaches, HelperDrops, SpawnAttaches, FinishKeptAlive, FinishIsolated,
         FinishDisposes, RunStarts, RunEnds, SessionDisposed, TimerFires, EnsureLive, Collect,
         FactoryAnswers, ReviverFails, ReviverClaims, ReviverFinishes, ReviverAttaches,
         SimpleReviverReturns, Release, TombstonePersisted, TombstoneFails, ReleaseTimesOut,
         ReclaimStarts, ReclaimProbed
<1> QED  BY <1>1 DEF DisposeManager, CloseManager, FactoryInstalled

\* Who starts to wait for a park waits for the one in the map.
LEMMA CallMoves ==
  ASSUME TypedInv, [Next]_vars, NEW c \in Callers, call'[c].pc \in {"keeping", "waiting"}
  PROVE  \/ call'[c] = call[c]
         \/ parkEntry # None /\ parkEntry' = parkEntry /\ call'[c].park = parkEntry
<1> USE DEF registryVars, adoptionVars, parkVars, callVars, otherVars
<1>0. call \in [Callers -> CallRecord]  BY CallParts DEF TypedInv, CallsGood
<1>1. ASSUME NEW d \in Callers, NEW v, call' = [call EXCEPT ![d] = v], v.pc \notin {"keeping", "waiting"}
      PROVE  call'[c] = call[c]
  BY <1>0, <1>1
<1>2. ASSUME NEW d \in Callers, NEW r, Throws(d) \/ Returns(d, r) PROVE call'[c] = call[c]
  BY <1>1, <1>2 DEF Throws, Returns, NoCall
<1>3. ASSUME NEW d \in Callers, Lookup(d) PROVE call'[c] = call[c]
  <2>1. ASSUME NEW e, call' = [call EXCEPT ![d] = [NoCall EXCEPT !.pc = "reviving", !.on = e]]
        PROVE  call'[c] = call[c]
    BY <1>1, <2>1 DEF NoCall
  <2> QED  BY <1>2, <1>3, <2>1 DEF Lookup
<1>4. ASSUME NEW d \in Callers,
             \/ KeepResumes(d) \/ WaitResumes(d) \/ RevivedResumes(d) \/ Collect(d)
      PROVE  call'[c] = call[c]
  <2>1. Collect(d) => call'[c] = call[c]  BY <1>1 DEF Collect, NoCall
  <2>2. KeepResumes(d) \/ WaitResumes(d) => Lookup(d) \/ Returns(d, Attached)
    BY DEF KeepResumes, WaitResumes
  <2>3. RevivedResumes(d) => Throws(d) \/ \E r : Returns(d, r)
    BY DEF RevivedResumes
  <2> QED  BY <1>2, <1>3, <1>4, <2>1, <2>2, <2>3
<1>5. ASSUME NEW d \in Callers, EnsureLive(d)
      PROVE  \/ call'[c] = call[c]
             \/ parkEntry # None /\ parkEntry' = parkEntry /\ call'[c].park = parkEntry
  <2>1. CASE Lookup(d)  BY <1>3, <2>1
  <2>2. ASSUME NEW q, NEW r, parkEntry # None, parkEntry' = parkEntry,
               call' = [call EXCEPT ![d] = [NoCall EXCEPT !.pc = q, !.park = parkEntry, !.ref = r]]
        PROVE  call'[c] = call[c] \/ (parkEntry' = parkEntry /\ call'[c].park = parkEntry)
    BY <1>0, <2>2 DEF NoCall
  <2>3. ASSUME parkEntry # None, parkEntry' = parkEntry,
               call' = [call EXCEPT ![d] = [NoCall EXCEPT !.pc = "waiting", !.park = parkEntry]]
        PROVE  call'[c] = call[c] \/ (parkEntry' = parkEntry /\ call'[c].park = parkEntry)
    BY <1>0, <2>3 DEF NoCall
  <2> QED  BY <1>5, <2>1, <2>2, <2>3 DEF EnsureLive
<1>6. ASSUME NEW d \in Callers, ReviverStep(d) \/ ReviveReturns(d) \/ RevivalRejects(d)
      PROVE  call' = call
  BY <1>6 DEF ReviverStep, FactoryAnswers, ReviverFails, ReviverClaims, ReviverFinishes,
              ReviverAttaches, SimpleReviverReturns, ReviveReturns, RevivalRejects
<1>7. ASSUME \/ Executor \/ ReclaimStarts \/ ReclaimProbed \/ UNCHANGED vars
             \/ \E s \in Sessions : SessionDisposed(s)
             \/ \E a \in Adoptions : TimerFires(a)
             \/ \E p \in Parks : ParkCommits(p) \/ ParkSettles(p)
      PROVE  call' = call
  BY <1>7 DEF Executor, SpawnRegisters, RestoreParked, IsolatedDetaches, HelperDrops,
              SpawnAttaches, FinishKeptAlive, FinishIsolated, FinishDisposes, RunStarts, RunEnds,
              SessionDisposed, TimerFires, ParkCommits, ParkSettles, ReclaimStarts, ReclaimProbed,
              vars
<1>8. ASSUME \/ \E k \in Releasers :
                   \/ Release(k) \/ TombstonePersisted(k) \/ TombstoneFails(k)
                   \/ ReleaseTimesOut(k) \/ ReleaseResumes(k) \/ ReleaseFinishes(k)
             \/ DisposeManager \/ CloseManager
      PROVE  call' = call
  BY <1>8 DEF Release, StartRelease, TombstonePersisted, TombstoneFails, ReleaseTimesOut,
              ReleaseResumes, ReleaseFinishes, DisposeManager, CloseManager
<1> QED  BY <1>4, <1>5, <1>6, <1>7, <1>8 DEF Next, Microtask

LEMMA ParkInvStep ==
  ASSUME BaseInv, [Next]_vars
  PROVE  ParkInv'
<1> USE DEF ParkSettled
<1>0. /\ TypedInv /\ ParkInv /\ ParkTyped /\ GoodRegistry(reg)
      /\ park \in [Parks -> ParkRecord \cup {NoPark}]
      /\ parkEntry # None => parkEntry \in Parks
      /\ \A s \in Sessions : home[s] \in Refs => sess[s] # "unborn"
  BY DEF BaseInv, SlotInv, TypedInv, ParkTyped, ParkRecord, BornInv
<1>1. \A p \in Parks : park[p] # NoPark =>
         /\ park[p].pc \in {"yielding", "disposing"}
         /\ park[p].session \in Sessions /\ park[p].ref \in Refs
         /\ sess[park[p].session] # "unborn" /\ Ages(park[p].session)
  <2> SUFFICES ASSUME NEW p \in Parks, park[p] # NoPark
               PROVE  /\ park[p].pc \in {"yielding", "disposing"}
                      /\ park[p].session \in Sessions /\ park[p].ref \in Refs
                      /\ sess[park[p].session] # "unborn" /\ Ages(park[p].session)
    OBVIOUS
  <2>1. /\ park[p].pc \in {"yielding", "disposing"}
        /\ park[p].session \in Sessions /\ park[p].ref \in Refs
    BY <1>0 DEF ParkRecord, ParkPhase
  <2>2. sess[park[p].session] # "unborn"  BY <1>0, <2>1 DEF ParkInv
  <2> QED  BY <1>0, <2>1, <2>2, SessionAges
<1>2. \A c \in Callers : call'[c].pc \in {"keeping", "waiting"} =>
         \/ call'[c] = call[c]
         \/ parkEntry # None /\ parkEntry' = parkEntry /\ call'[c].park = parkEntry
  BY <1>0, CallMoves
<1>3. CASE UNCHANGED <<park, parkEntry>> /\ (FactoryInstalled' <=> FactoryInstalled)
  <2>1. \A p \in Parks : park'[p] # NoPark =>
          /\ parkEntry' = p \/ ~FactoryInstalled'
          /\ home'[park'[p].session] = park'[p].ref
          /\ park'[p].pc = "disposing" => sess'[park'[p].session] \in {"disposing", "disposed"}
    BY <1>0, <1>1, <1>3 DEF ParkInv, Ages
  <2>2. parkEntry' # None => park'[parkEntry'] # NoPark /\ FactoryInstalled'
    BY <1>0, <1>3 DEF ParkInv
  <2>3. \A c \in Callers : call'[c].pc \in {"keeping", "waiting"} =>
             /\ call'[c].park \in Parks
             /\ park'[call'[c].park] = NoPark => parkEntry' = None
    BY <1>0, <1>2, <1>3 DEF ParkInv
  <2> QED  BY <2>1, <2>2, <2>3 DEF ParkInv
<1>4. CASE CloseManager /\ ~FactoryInstalled'
  <2>1. park' = park /\ parkEntry' = None /\ sess' = sess /\ home' = home
    BY <1>4 DEF CloseManager, registryVars
  <2>2. \A c \in Callers : call'[c].pc \in {"keeping", "waiting"} => call'[c].park \in Parks
    BY <1>0, <1>2, <2>1 DEF ParkInv
  <2> QED  BY <1>0, <1>4, <2>1, <2>2 DEF ParkInv
<1>5. ASSUME NEW p \in Parks, ParkStarts(p), FactoryInstalled' <=> FactoryInstalled PROVE ParkInv'
  <2>1. /\ Current \in Refs /\ Attached \in Sessions /\ parkEntry = None
        /\ adopted.ref = Current
    BY <1>0, <1>5, CurrentTyped DEF ParkStarts, CanPark, Attached
  <2>2. FactoryInstalled
    BY <2>1 DEF BaseInv, SlotInv, AdoptInv, Disposed, FactoryInstalled, Current
  <2>3. home[Attached] = Current /\ sess[Attached] # "unborn"
    BY <2>1 DEF BaseInv, SlotInv, HomeInv, Attached
  <2>4. Ages(Attached)  BY <1>0, <2>1, <2>3, SessionAges
  <2>5. \A q \in Parks : park[q] = NoPark
    BY <1>0, <2>1, <2>2, LifecycleAssumption DEF ParkInv
  <2>6. \A q \in Parks \ {p} : park'[q] = NoPark  BY <1>0, <1>5, <2>5 DEF ParkStarts
  <2>7. /\ park'[p] = [pc |-> "yielding", ref |-> Current, session |-> Attached, cancelled |-> FALSE]
        /\ parkEntry' = p
    BY <1>0, <1>5 DEF ParkStarts
  <2>8. ASSUME NEW c \in Callers PROVE call'[c].pc \notin {"keeping", "waiting"}
    <3>1. call[c].pc \notin {"keeping", "waiting"}
      <4>1. ~CallReady(c)  BY <1>5 DEF ParkStarts, Quiet
      <4>2. call[c].pc \in {"keeping", "waiting"} => park[call[c].park].pc # "settled"
        BY <4>1 DEF CallReady
      <4> QED  BY <1>0, <2>5, <4>2 DEF ParkInv, NoPark
    <3> QED  BY <1>2, <2>1, <3>1
  <2>9. \A q \in Parks : park'[q] # NoPark =>
          /\ parkEntry' = q \/ ~FactoryInstalled'
          /\ home'[park'[q].session] = park'[q].ref
          /\ park'[q].pc = "disposing" => sess'[park'[q].session] \in {"disposing", "disposed"}
    BY <2>3, <2>4, <2>6, <2>7 DEF Ages
  <2>10. park'[p] # NoPark  BY <2>7 DEF NoPark
  <2> QED  BY <1>5, <2>2, <2>7, <2>8, <2>9, <2>10 DEF ParkInv
<1>6. ASSUME NEW p \in Parks, ParkMarks(p), FactoryInstalled' <=> FactoryInstalled PROVE ParkInv'
  <2>1. /\ parkEntry' = parkEntry /\ park[p] # NoPark /\ park[p] \in ParkRecord
        /\ \A q \in Parks \ {p} : park'[q] = park[q]
    BY <1>0, <1>6 DEF ParkMarks
  <2>2. /\ park'[p].ref = park[p].ref /\ park'[p].session = park[p].session
        /\ park'[p].pc \in {park[p].pc, "disposing"}
    BY <1>0, <1>6, <2>1 DEF ParkMarks, ParkRecord
  <2>3. park'[p].pc = "disposing" => sess'[park[p].session] \in {"disposing", "disposed"}
    <3>1. CASE park'[p].pc = park[p].pc
      BY <1>0, <1>1, <2>1, <3>1 DEF ParkInv, Ages
    <3>2. CASE ParkCommits(p) /\ StillParkable(p)
      <4>1. park[p].pc = "yielding"  BY <3>2 DEF ParkCommits
      <4>2. sess' = Disposing(park[p].session)  BY <3>2 DEF ParkCommits
      <4> QED  BY <1>0, <1>1, <2>1, <4>2 DEF Disposing, TypedInv, SessTyped
    <3>3. CASE \E b : park' = [park EXCEPT ![p] = [@ EXCEPT !.cancelled = b]]
      <4>1. park'[p].pc = park[p].pc  BY <1>0, <2>1, <3>3 DEF ParkRecord
      <4> QED  BY <3>1, <4>1
    <3> QED  BY <1>6, <3>2, <3>3 DEF ParkMarks
  <2>4. \A q \in Parks : park'[q] = NoPark => park[q] = NoPark
    <3>1. park[p].pc \in {"yielding", "disposing"}  BY <1>1, <2>1
    <3>2. park'[p] # NoPark  BY <2>2, <3>1 DEF NoPark
    <3> QED  BY <2>1, <3>2
  <2>5. \A q \in Parks : park'[q] # NoPark =>
          /\ parkEntry' = q \/ ~FactoryInstalled'
          /\ home'[park'[q].session] = park'[q].ref
          /\ park'[q].pc = "disposing" => sess'[park'[q].session] \in {"disposing", "disposed"}
    BY <1>0, <1>1, <1>6, <2>1, <2>2, <2>3 DEF ParkInv, Ages
  <2>6. parkEntry' # None => park'[parkEntry'] # NoPark /\ FactoryInstalled'
    BY <1>0, <1>6, <2>1, <2>4 DEF ParkInv
  <2>7. \A c \in Callers : call'[c].pc \in {"keeping", "waiting"} =>
             /\ call'[c].park \in Parks
             /\ park'[call'[c].park] = NoPark => parkEntry' = None
    BY <1>0, <1>2, <2>1, <2>4 DEF ParkInv
  <2> QED  BY <2>5, <2>6, <2>7 DEF ParkInv
<1>7. ASSUME NEW p \in Parks, ParkEnds(p), FactoryInstalled' <=> FactoryInstalled PROVE ParkInv'
  <2>1. /\ park' = [park EXCEPT ![p] = NoPark]
        /\ parkEntry' = IF parkEntry = p THEN None ELSE parkEntry
        /\ park[p] # NoPark
    BY <1>7 DEF ParkEnds, SettlePark, NoPark
  <2>2. \A q \in Parks \ {p} : park'[q] = park[q]  BY <1>0, <2>1
  <2>3. park'[p] = NoPark  BY <1>0, <2>1
  <2>5. parkEntry # None => parkEntry = p
    BY <1>0, <2>1 DEF ParkInv
  <2>6. parkEntry' = None  BY <2>1, <2>5
  <2>7. \A c \in Callers : call'[c].pc \in {"keeping", "waiting"} => call'[c].park \in Parks
    BY <1>0, <1>2 DEF ParkInv
  <2>8. \A q \in Parks : park'[q] # NoPark =>
          /\ parkEntry' = q \/ ~FactoryInstalled'
          /\ home'[park'[q].session] = park'[q].ref
          /\ park'[q].pc = "disposing" => sess'[park'[q].session] \in {"disposing", "disposed"}
    <3> SUFFICES ASSUME NEW q \in Parks, park'[q] # NoPark
                 PROVE  /\ parkEntry' = q \/ ~FactoryInstalled'
                        /\ home'[park'[q].session] = park'[q].ref
                        /\ park'[q].pc = "disposing" => sess'[park'[q].session] \in {"disposing", "disposed"}
      OBVIOUS
    <3>1. q # p /\ park'[q] = park[q]  BY <2>2, <2>3
    <3>2. ~FactoryInstalled'
      BY <1>0, <1>7, <2>1, <3>1 DEF ParkInv
    <3> QED  BY <1>0, <1>1, <3>1, <3>2 DEF ParkInv, Ages
  <2> QED  BY <2>6, <2>7, <2>8 DEF ParkInv
<1>8. CASE CloseManager /\ (FactoryInstalled' <=> FactoryInstalled)
  BY <1>4, <1>8 DEF CloseManager, FactoryInstalled
<1> QED  BY <1>0, <1>3, <1>4, <1>5, <1>6, <1>7, <1>8, ParksMove, ManagerMoves DEF ParkMoves

LEMMA BaseStep == BaseInv /\ [Next]_vars => BaseInv'
<1> SUFFICES ASSUME BaseInv, [Next]_vars PROVE BaseInv'
  OBVIOUS
<1>1. SlotInv'  BY SlotStep DEF BaseInv
<1>2. StateInv'  BY StateStep DEF StateInv
<1> QED  BY <1>1, <1>2, BornStep, RunStep, ParkInvStep, AwaitStep DEF BaseInv

LEMMA BaseInvariant == Spec => []BaseInv
BY BaseInitially, BaseStep, PTL DEF Spec

\* A ref the manager owns has no session exactly when it is parked or killed: no
\* caller of any generation observes half a park, half a kill or half a revival.
THEOREM DetachedIsParked == Spec => []DetachedExactlyWhenParked
<1>1. BaseInv => DetachedExactlyWhenParked
  <2> SUFFICES ASSUME BaseInv, adopted.tok # None, adopted.ref = Current
               PROVE  Attached = None <=> reg.status[Current] \in {"parked", "aborted"}
    BY DEF DetachedExactlyWhenParked
  <2>1. /\ TypedInv /\ AdoptTyped /\ GoodRegistry(reg)
    BY DEF BaseInv, SlotInv, TypedInv
  <2>2. adopted.ref \in Refs  BY <2>1 DEF AdoptTyped, NotAdopted
  <2>3. PICK r \in Refs : r = Current /\ reg.current = r  BY <2>2 DEF Current
  <2>4. SpawnOver(r) /\ Born(r) /\ StateOf(r)
    BY <2>3 DEF BaseInv, SlotInv, AdoptInv, StateInv
  <2>5. reg.status[r] \in AgentStatus  BY <2>1, <2>4 DEF GoodRegistry, Registry, Born
  <2>6. Attached = reg.session[r]  BY <2>3 DEF Attached
  <2> QED  BY <2>3, <2>4, <2>5, <2>6 DEF StateOf, SpawnOver, AgentStatus
<1> QED  BY <1>1, BaseInvariant, PTL

-----------------------------------------------------------------------------
(* Who waits for a revival                                                 *)

\* A revival that started has somebody who waits for it, and only such calls
\* wait; who waits for a park has none of its own.
JoinInv ==
    \A c \in Callers :
        /\ revival[c].pc # "none" => \E d \in Callers : call[d].on = c
        /\ revival[c].pc = "none" => revival[c].ref = None
        /\ call[c].on # None => call[c].pc = "reviving" /\ revival[call[c].on].pc # "none"
        /\ call[c].pc \in {"keeping", "waiting"} => revival[c].pc = "none"

LEMMA JoinInitially == Init => JoinInv
BY DEF Init, JoinInv, NoCall, NoRevival

\* A call that waits for no revival looks the agent up, or goes somewhere else.
LEMMA JoinLookup ==
  ASSUME TypedInv, JoinInv, NEW c \in Callers, call[c].on = None, revival[c].pc = "none",
         \/ Lookup(c)
         \/ /\ revival' = revival
            /\ \E v : v.on = None /\ call' = [call EXCEPT ![c] = v]
  PROVE  JoinInv'
<1>0. /\ call \in [Callers -> CallRecord] /\ revival \in [Callers -> RevivalRecord]
      /\ revivalEntry \in Callers \cup {None}
  BY CallParts DEF TypedInv, CallsGood
<1>1. ASSUME revival' = revival, NEW v, v.on = None, call' = [call EXCEPT ![c] = v]
      PROVE  JoinInv'
  <2>1. call'[c] = v /\ \A d \in Callers \ {c} : call'[d] = call[d]  BY <1>0, <1>1
  <2> QED  BY <1>0, <1>1, <2>1, LifecycleAssumption DEF JoinInv
<1>2. ASSUME revival' = revival, Coalesces, Current # None,
             call' = [call EXCEPT ![c] = [NoCall EXCEPT !.pc = "reviving", !.on = revivalEntry]]
      PROVE  JoinInv'
  <2>1. /\ call'[c].on = revivalEntry /\ call'[c].pc = "reviving"
        /\ \A d \in Callers \ {c} : call'[d] = call[d]
    BY <1>0, <1>2 DEF NoCall
  <2>2. revivalEntry \in Callers /\ revival[revivalEntry].pc # "none"
    BY <1>0, <1>2 DEF JoinInv, Coalesces
  <2> QED  BY <1>0, <1>2, <2>1, <2>2, LifecycleAssumption DEF JoinInv
<1>3. ASSUME Current # None,
             call' = [call EXCEPT ![c] = [NoCall EXCEPT !.pc = "reviving", !.on = c]],
             revival' = [revival EXCEPT ![c] =
                [NoRevival EXCEPT !.pc = FirstRevivalStep(Current), !.ref = Current]]
      PROVE  JoinInv'
  <2>1. /\ call'[c].on = c /\ call'[c].pc = "reviving"
        /\ \A d \in Callers \ {c} : call'[d] = call[d]
    BY <1>0, <1>3 DEF NoCall
  <2>2. /\ revival'[c].pc # "none" /\ revival'[c].ref = Current
        /\ \A d \in Callers \ {c} : revival'[d] = revival[d]
    BY <1>0, <1>3 DEF NoRevival, FirstRevivalStep
  <2>3. \A e \in Callers : revival'[e].pc # "none" => \E d \in Callers : call'[d].on = e
    BY <2>1, <2>2, LifecycleAssumption DEF JoinInv
  <2>4. \A d \in Callers : call'[d].on # None =>
           call'[d].pc = "reviving" /\ revival'[call'[d].on].pc # "none"
    BY <1>0, <2>1, <2>2 DEF JoinInv, CallRecord
  <2> QED  BY <2>1, <2>2, <2>3, <2>4 DEF JoinInv
<1>4. ASSUME NEW s, Throws(c) \/ Returns(c, s), revival' = revival PROVE JoinInv'
  BY <1>1, <1>4 DEF Throws, Returns, NoCall
<1> QED  BY <1>1, <1>2, <1>3, <1>4 DEF Lookup

LEMMA JoinStep ==
  ASSUME TypedInv, JoinInv, [Next]_vars
  PROVE  JoinInv'
<1> USE DEF registryVars, adoptionVars, parkVars, callVars, otherVars
<1>0. /\ call \in [Callers -> CallRecord] /\ revival \in [Callers -> RevivalRecord]
      /\ \A c \in Callers : GoodCall(call[c]) /\ GoodRevival(revival[c])
  BY CallParts DEF TypedInv, CallsGood
<1>1. ASSUME call' = call,
             \A c \in Callers : \/ revival'[c] = revival[c]
                                \/ revival[c].pc # "none" /\ revival'[c].pc # "none"
      PROVE  JoinInv'
  BY <1>0, <1>1 DEF JoinInv, GoodCall, CallRecord
<1>2. ASSUME NEW c \in Callers, EnsureLive(c) PROVE JoinInv'
  <2>1. call[c].on = None /\ revival[c].pc = "none"
    BY <1>0, <1>2 DEF EnsureLive, JoinInv
  <2>2. Lookup(c) \/ (revival' = revival /\ \E v : v.on = None /\ call' = [call EXCEPT ![c] = v])
    <3>1. [NoCall EXCEPT !.pc = "keeping", !.park = parkEntry, !.ref = Current].on = None
      BY DEF NoCall
    <3>2. [NoCall EXCEPT !.pc = "waiting", !.park = parkEntry].on = None
      BY DEF NoCall
    <3> QED  BY <1>2, <3>1, <3>2 DEF EnsureLive
  <2> QED  BY <2>1, <2>2, JoinLookup
<1>3. ASSUME NEW c \in Callers, KeepResumes(c) \/ WaitResumes(c) PROVE JoinInv'
  <2>1. call[c].on = None /\ revival[c].pc = "none"
    BY <1>0, <1>3 DEF KeepResumes, WaitResumes, JoinInv
  <2>2. Lookup(c) \/ (revival' = revival /\ \E v : v.on = None /\ call' = [call EXCEPT ![c] = v])
    <3>1. [NoCall EXCEPT !.pc = "done", !.got = Attached].on = None  BY DEF NoCall
    <3> QED  BY <1>3, <3>1 DEF KeepResumes, WaitResumes, Returns
  <2> QED  BY <2>1, <2>2, JoinLookup
<1>4. ASSUME NEW c \in Callers, RevivedResumes(c) PROVE JoinInv'
  <2>1. PICK on \in Callers : on = call[c].on
    BY <1>0, <1>4 DEF RevivedResumes, GoodCall
  <2>2. PICK v : v.on = None /\ v.pc \notin {"keeping", "waiting"} /\ call' = [call EXCEPT ![c] = v]
    <3>1. \A s : /\ [NoCall EXCEPT !.pc = "done", !.got = s].on = None
                 /\ [NoCall EXCEPT !.pc = "done", !.got = s].pc = "done"
      BY DEF NoCall
    <3>2. /\ [NoCall EXCEPT !.pc = "failed"].on = None /\ [NoCall EXCEPT !.pc = "failed"].pc = "failed"
      BY DEF NoCall
    <3> QED  BY <1>4, <3>1, <3>2 DEF RevivedResumes, Returns, Throws
  <2>3. call'[c] = v /\ \A d \in Callers \ {c} : call'[d] = call[d]  BY <1>0, <2>2
  <2>4. revival[on].pc # "none"  BY <1>4, <2>1 DEF RevivedResumes
  <2>5. CASE \E d \in Callers \ {c} : call[d].on = on
    <3>1. revival' = revival  BY <1>4, <2>1, <2>5 DEF RevivedResumes
    <3>2. \A e \in Callers : revival[e].pc # "none" => \E d \in Callers : call'[d].on = e
      BY <2>1, <2>3, <2>5 DEF JoinInv
    <3> QED  BY <2>2, <2>3, <3>1, <3>2 DEF JoinInv
  <2>6. CASE ~\E d \in Callers \ {c} : call[d].on = on
    <3>1. revival' = [revival EXCEPT ![on] = NoRevival]
      BY <1>4, <2>1, <2>6 DEF RevivedResumes
    <3>2. /\ revival'[on] = NoRevival /\ \A d \in Callers \ {on} : revival'[d] = revival[d]
      BY <1>0, <3>1
    <3>3. \A e \in Callers : revival'[e].pc # "none" => \E d \in Callers : call'[d].on = e
      BY <2>1, <2>3, <3>2 DEF JoinInv, NoRevival
    <3>4. \A d \in Callers : call'[d].on # None =>
             call'[d].pc = "reviving" /\ revival'[call'[d].on].pc # "none"
      BY <1>0, <2>1, <2>2, <2>3, <2>6, <3>2 DEF JoinInv, CallRecord
    <3> QED  BY <2>2, <2>3, <3>2, <3>3, <3>4 DEF JoinInv, NoRevival
  <2> QED  BY <2>5, <2>6
<1>5. ASSUME NEW c \in Callers, Collect(c) PROVE JoinInv'
  <2>1. call[c].pc # "reviving" /\ call[c].on = None /\ call' = [call EXCEPT ![c] = NoCall]
    BY <1>0, <1>5 DEF Collect, JoinInv
  <2>2. revival' = revival  BY <1>5 DEF Collect
  <2>3. call'[c] = NoCall /\ \A d \in Callers \ {c} : call'[d] = call[d]  BY <1>0, <2>1
  <2> QED  BY <2>1, <2>2, <2>3, LifecycleAssumption DEF JoinInv, NoCall
<1>6. ASSUME NEW c \in Callers, NEW q \in RevivalPhase \ {"none"}, Goes(c, q),
             revival[c].pc # "none", call' = call
      PROVE  JoinInv'
  BY <1>0, <1>1, <1>6 DEF Goes, RevivalRecord
<1>7. ASSUME NEW c \in Callers, FactoryAnswers(c) PROVE JoinInv'
  <2>1. call' = call /\ revival[c].pc = "factory"  BY <1>7 DEF FactoryAnswers
  <2>2. CASE Goes(c, "rejected")  BY <1>6, <2>1, <2>2 DEF RevivalPhase
  <2>3. CASE ColdAdopt(c)
    <3>1. PICK a \in Adoptions :
             \/ revival' = [revival EXCEPT ![c] = [@ EXCEPT !.pc = "opening", !.tok = a]]
             \/ revival' = [revival EXCEPT ![c] = [@ EXCEPT !.pc = "rejected"]]
      BY <2>3 DEF ColdAdopt
    <3>2. /\ revival'[c].pc \in {"opening", "rejected"}
          /\ \A d \in Callers \ {c} : revival'[d] = revival[d]
      BY <1>0, <3>1 DEF RevivalRecord
    <3> QED  BY <1>1, <2>1, <3>2
  <2> QED  BY <1>7, <2>2, <2>3 DEF FactoryAnswers
<1>8. ASSUME NEW c \in Callers, NEW s \in Sessions,
             ReviverAttaches(c, s) \/ SimpleReviverReturns(c, s)
      PROVE  JoinInv'
  <2>1. PICK q \in {"attached", "unwinding", "returned"} :
           revival' = [revival EXCEPT ![c] = [@ EXCEPT !.pc = q, !.session = s]]
    BY <1>8 DEF ReviverAttaches, SimpleReviverReturns
  <2>2. revival'[c].pc = q /\ \A d \in Callers \ {c} : revival'[d] = revival[d]
    BY <1>0, <2>1 DEF RevivalRecord
  <2>3. revival[c].pc # "none" /\ call' = call
    BY <1>8 DEF ReviverAttaches, SimpleReviverReturns
  <2> QED  BY <1>1, <2>2, <2>3
<1>9. ASSUME NEW c \in Callers,
             \/ ReviverFails(c) \/ ReviverClaims(c) \/ ReviverFinishes(c)
             \/ ReviveReturns(c) \/ RevivalRejects(c)
      PROVE  JoinInv'
  <2>1. /\ \E q \in RevivalPhase \ {"none"} : Goes(c, q)
        /\ revival[c].pc # "none" /\ call' = call
    BY <1>9 DEF ReviverFails, ReviverClaims, ReviverFinishes, ReviveReturns, RevivalRejects,
                Rejects, Discards, RevivalPhase
  <2> QED  BY <1>6, <2>1
<1>10. ASSUME \/ Executor \/ ReclaimStarts \/ ReclaimProbed \/ UNCHANGED vars
              \/ \E s \in Sessions : SessionDisposed(s)
              \/ \E a \in Adoptions : TimerFires(a)
              \/ \E p \in Parks : ParkCommits(p) \/ ParkSettles(p)
       PROVE  UNCHANGED <<call, revival>>
  BY <1>10 DEF Executor, SpawnRegisters, RestoreParked, IsolatedDetaches, HelperDrops,
               SpawnAttaches, FinishKeptAlive, FinishIsolated, FinishDisposes, RunStarts, RunEnds,
               SessionDisposed, TimerFires, ParkCommits, ParkSettles, ReclaimStarts, ReclaimProbed,
               vars
<1>11. ASSUME \/ \E k \in Releasers :
                    \/ Release(k) \/ TombstonePersisted(k) \/ TombstoneFails(k)
                    \/ ReleaseTimesOut(k) \/ ReleaseResumes(k) \/ ReleaseFinishes(k)
              \/ DisposeManager \/ CloseManager
       PROVE  UNCHANGED <<call, revival>>
  BY <1>11 DEF Release, StartRelease, TombstonePersisted, TombstoneFails, ReleaseTimesOut,
               ReleaseResumes, ReleaseFinishes, DisposeManager, CloseManager
<1> QED
  BY <1>1, <1>2, <1>3, <1>4, <1>5, <1>7, <1>8, <1>9, <1>10, <1>11 DEF Next, Microtask, ReviverStep

\* A revival is only started by a call whose last one is over and collected.
LEMMA StartsFresh ==
  ASSUME TypedInv, JoinInv, NEW c \in Callers, Starts(c)
  PROVE  revival[c].pc = "none"
BY DEF JoinInv, Starts, LooksPast

-----------------------------------------------------------------------------
(* One session at a time                                                   *)

\* A session of the holder of the id that is not disposed is attached to it, or
\* a park is disposing it, or the revival that built it has not ended.
Held(s) ==
    \/ reg.session[home[s]] = s
    \/ \E p \in Parks : park[p].pc = "disposing" /\ park[p].session = s
    \/ \E c \in Callers : HasSession(revival[c]) /\ revival[c].session = s

HeldInv ==
    \A s \in Sessions :
        /\ sess[s] \in {"live", "disposing"}
        /\ reg.current = home[s]
        /\ reg.status[home[s]] # "aborted"
        => Held(s)

\* All sessions of a ref under revival are disposed, but the revival's own.
AloneInv ==
    \A c \in Callers, s \in Sessions :
        Underway(c) /\ s # revival[c].session /\ home[s] = revival[c].ref
        => sess[s] = "disposed"

\* Two sessions of a ref are never up together.
OnePerRef ==
    \A s, t \in Sessions :
        s # t /\ home[s] = home[t] /\ home[s] # None => "disposed" \in {sess[s], sess[t]}

SessionInv == BaseInv /\ JoinInv /\ HeldInv /\ AloneInv /\ OnePerRef

LEMMA SessionInitially == Init => SessionInv
<1> SUFFICES ASSUME Init PROVE SessionInv
  OBVIOUS
<1>1. HeldInv /\ AloneInv /\ OnePerRef
  BY DEF Init, HeldInv, AloneInv, OnePerRef, Underway, IsUnderway, NoRevival
<1> QED  BY <1>1, BaseInitially, JoinInitially DEF SessionInv

\* What a park that disposes a session and a revival that has one keep.
LEMMA HoldersStay ==
  ASSUME BaseInv, JoinInv, [Next]_vars
  PROVE  /\ \A p \in Parks : park[p].pc = "disposing" =>
              \/ park'[p].pc = "disposing" /\ park'[p].session = park[p].session
              \/ sess[park[p].session] = "disposed"
         /\ \A c \in Callers : HasSession(revival[c]) =>
              \/ HasSession(revival'[c]) /\ revival'[c].session = revival[c].session
              \/ sess[revival[c].session] = "disposed"
              \/ ReviveReturns(c) /\ ~IsUnderway(revival'[c])
<1>0. TypedInv /\ ParkTyped /\ revival \in [Callers -> RevivalRecord]
  BY CallParts DEF BaseInv, SlotInv, TypedInv, CallsGood
<1>1. ASSUME NEW p \in Parks, park[p].pc = "disposing"
      PROVE  \/ park'[p].pc = "disposing" /\ park'[p].session = park[p].session
             \/ sess[park[p].session] = "disposed"
  <2>0. park \in [Parks -> ParkRecord \cup {NoPark}] /\ park[p] \in ParkRecord
    BY <1>0, <1>1 DEF ParkTyped, ParkRecord, NoPark
  <2>1. ASSUME NEW q \in Parks, ParkStarts(q) PROVE park'[p] = park[p]
    BY <1>1, <2>0, <2>1 DEF ParkStarts, NoPark
  <2>2. ASSUME NEW q \in Parks, ParkMarks(q)
        PROVE  park'[p].pc = "disposing" /\ park'[p].session = park[p].session
    BY <1>1, <2>0, <2>2 DEF ParkMarks, ParkRecord
  <2>3. ASSUME NEW q \in Parks, ParkEnds(q)
        PROVE  park'[p] = park[p] \/ sess[park[p].session] = "disposed"
    BY <1>1, <2>0, <2>3 DEF ParkEnds, SettlePark
  <2>4. CloseManager => park' = park  BY DEF CloseManager
  <2> QED  BY <1>0, <1>1, <2>1, <2>2, <2>3, <2>4, ParksMove DEF ParkMoves
<1>2. ASSUME NEW c \in Callers, HasSession(revival[c])
      PROVE  \/ HasSession(revival'[c]) /\ revival'[c].session = revival[c].session
             \/ sess[revival[c].session] = "disposed"
             \/ ReviveReturns(c) /\ ~IsUnderway(revival'[c])
  <2>1. Ends(c) => \/ sess[revival[c].session] = "disposed"
                   \/ ReviveReturns(c) /\ ~IsUnderway(revival'[c])
    BY <1>2 DEF Ends, RevivalRejects
  <2>2. Advances(c) => HasSession(revival'[c]) /\ revival'[c].session = revival[c].session
    BY <1>2 DEF Advances, Continues, Builds, HasSession
  <2>3. ASSUME NEW d \in Callers, Starts(d) PROVE revival'[c] = revival[c]
    <3>1. d # c  BY <1>0, <1>2, <2>3, StartsFresh DEF HasSession
    <3> QED  BY <1>0, <2>3, <3>1 DEF Starts
  <2> QED  BY <1>2, <2>1, <2>2, <2>3, RevivalStep DEF BaseInv, RevivalMoves
<1> QED  BY <1>1, <1>2

\* What is attached leaves by a kill, with the id, or into a park.
LEMMA AttachedStays ==
  ASSUME BaseInv, [Next]_vars, ~Overrun, NEW r \in Refs, NEW s \in Sessions,
         reg.current = r, reg.session[r] = s, sess[s] # "disposed",
         reg'.current = r, reg'.status[r] # "aborted"
  PROVE  \/ reg'.session[r] = s
         \/ \E p \in Parks : park'[p].pc = "disposing" /\ park'[p].session = s
<1>0. /\ TypedInv /\ home[s] = r /\ revival \in [Callers -> RevivalRecord]
      /\ park \in [Parks -> ParkRecord \cup {NoPark}]
      /\ \A c \in Callers : GoodFlight(revival[c])
  BY CallParts DEF BaseInv, SlotInv, HomeInv, TypedInv, CallsGood, ParkTyped, ParkRecord, FlightInv
<1>1. CASE Detaches(r)
  <2>1. ~IsolatedDetaches(r)
    BY <1>0 DEF IsolatedDetaches
  <2>2. PICK p \in Parks : ParkCommits(p) /\ StillParkable(p) /\ park[p].ref = r
    BY <1>1, <2>1 DEF Detaches
  <2>3. park[p].session = s  BY <2>2 DEF StillParkable, Attached, Current
  <2>4. park' = [park EXCEPT ![p].pc = "disposing"] /\ park[p] \in ParkRecord
    BY <1>0, <2>2 DEF ParkCommits, NoPark
  <2>5. park'[p].pc = "disposing" /\ park'[p].session = s
    BY <1>0, <2>3, <2>4 DEF ParkRecord
  <2> QED  BY <2>5
<1>2. CASE Brings(r)
  <2>1. ASSUME NEW t \in Sessions, SpawnAttaches(r, t) PROVE FALSE
    BY <1>0, <2>1 DEF SpawnAttaches, BaseInv, RunInv, RunOf
  <2>2. ASSUME NEW c \in Callers, NEW t \in Sessions, ReviverAttaches(c, t), revival[c].ref = r
        PROVE  FALSE
    <3>1. Underway(c) /\ ~HasSession(revival[c])
      BY <2>2 DEF ReviverAttaches, Underway, IsUnderway, HasSession
    <3>2. revival[c].session = None  BY <1>0, <3>1 DEF GoodFlight, Underway
    <3> QED  BY <2>2, <3>1, <3>2 DEF BaseInv, AwaitInv
  <2>3. ASSUME NEW c \in Callers, ReviveReturns(c), revival[c].ref = r,
               reg'.session[r] = revival[c].session
        PROVE  reg'.session[r] = s
    <3>1. Underway(c)  BY <2>3 DEF ReviveReturns, Underway, IsUnderway
    <3> QED  BY <2>3, <3>1 DEF BaseInv, AwaitInv
  <2> QED  BY <1>2, <2>1, <2>2, <2>3 DEF Brings
<1> QED  BY <1>1, <1>2, FieldMoves

\* A revival that resolves leaves its session attached, if the id is still its ref's.
LEMMA ResolvedAttached ==
  ASSUME TypedInv, NEW c \in Callers, ReviveReturns(c), ~IsUnderway(revival'[c])
  PROVE  /\ reg'.session[revival[c].ref] = revival[c].session
         /\ reg'.current = revival[c].ref
<1>0. /\ GoodRegistry(reg) /\ revival \in [Callers -> RevivalRecord]
      /\ revival[c].ref \in Refs /\ revival[c].session \in Sessions
  BY CallParts DEF TypedInv, CallsGood, ReviveReturns, RevivalFilled
<1>1. PICK r \in Refs, s \in Sessions : r = revival[c].ref /\ s = revival[c].session
  BY <1>0
<1>2. ~Discards(c)  BY <1>0 DEF Discards, Goes, RevivalRecord, IsUnderway
<1>3. CASE IsRevivable(reg, r) /\ reg' = WithStatus(WithSession(reg, s, r), "idle", r)
  <2>1. AcceptsSession(reg, r)
    BY <1>0, <1>3, HoldsRef DEF IsRevivable, AcceptsSession
  <2>2. Brought(r, s, "idle")  BY <1>0, <1>3, <2>1, BringerSets DEF AcceptsSession
  <2> QED  BY <1>0, <1>1, <2>2 DEF Brought, GoodRegistry, Registry
<1>4. CASE reg.current = r /\ reg.session[r] = s /\ reg' = WithStatus(reg, "idle", r)
  BY <1>0, <1>1, <1>4 DEF WithStatus, GoodRegistry, Registry
<1> QED  BY <1>1, <1>2, <1>3, <1>4 DEF ReviveReturns, Current

LEMMA HeldStep ==
  ASSUME SessionInv, [Next]_vars, ~Overrun
  PROVE  HeldInv'
<1> SUFFICES ASSUME NEW s \in Sessions, sess'[s] \in {"live", "disposing"},
                    reg'.current = home'[s], reg'.status[home'[s]] # "aborted"
             PROVE  Held(s)'
  BY DEF HeldInv
<1>0. TypedInv /\ GoodRegistry(reg) /\ BaseInv /\ JoinInv /\ HeldInv
  BY DEF SessionInv, BaseInv, SlotInv, TypedInv
<1>1. PICK r \in Refs : home'[s] = r
  <2>1. BornInv' /\ SessTyped'  BY <1>0, BornStep, SessStep
  <2> QED  BY <2>1 DEF BornInv, SessTyped
<1>2. CASE BuiltFor(s, r)
  <2>1. CASE SpawnAttaches(r, s)
    <3>1. CASE ~AcceptsSession(reg, r) /\ reg' = reg
      BY <1>0, <1>1, <3>1, HoldsRef DEF AcceptsSession
    <3>2. CASE AcceptsSession(reg, r) /\ reg' = WithStatus(WithSession(reg, s, r), "running", r)
      <4>1. Brought(r, s, "running")  BY <1>0, <3>2, BringerSets
      <4>2. reg'.session[r] = s  BY <1>0, <4>1 DEF Brought, GoodRegistry, Registry
      <4> QED  BY <1>1, <4>2 DEF Held
    <3> QED  BY <2>1, <3>1, <3>2 DEF SpawnAttaches
  <2> QED  BY <1>2, <2>1 DEF BuiltFor, Held
<1>3. CASE home[s] = r /\ Ages(s)
  <2>1. sess[s] \in {"live", "disposing"}  BY <1>3 DEF Ages
  <2>2. Born(r)  BY <1>0, <1>3 DEF BaseInv, RunInv, RunOf
  <2>3. reg.current = r /\ reg.status[r] # "aborted"
    <3>1. Follows(reg, reg')  BY <1>0, RegistryMoves, GoesFollows
    <3> QED  BY <1>1, <2>2, <3>1 DEF Follows, Born
  <2>4. Held(s)  BY <1>0, <1>3, <2>1, <2>3 DEF HeldInv
  <2>5. CASE reg.session[r] = s
    BY <1>0, <1>1, <2>1, <2>3, <2>5, AttachedStays DEF Held
  <2>6. ASSUME NEW p \in Parks, park[p].pc = "disposing", park[p].session = s PROVE Held(s)'
    BY <1>0, <2>1, <2>6, HoldersStay DEF Held
  <2>7. ASSUME NEW c \in Callers, HasSession(revival[c]), revival[c].session = s PROVE Held(s)'
    <3>1. \/ HasSession(revival'[c]) /\ revival'[c].session = s
          \/ ReviveReturns(c) /\ ~IsUnderway(revival'[c])
      BY <1>0, <2>1, <2>7, HoldersStay
    <3>2. revival[c].ref = r
      BY <1>0, <1>3, <2>7 DEF BaseInv, SlotInv, FlightInv, GoodFlight
    <3> QED  BY <1>0, <1>1, <2>7, <3>1, <3>2, ResolvedAttached DEF Held
  <2> QED  BY <1>3, <2>4, <2>5, <2>6, <2>7 DEF Held
<1> QED  BY <1>0, <1>1, <1>2, <1>3, HomesStay

\* What a revival finds when it starts: every earlier session is disposed.
LEMMA StartsAlone ==
  ASSUME SessionInv, NEW c \in Callers, Starts(c), IsUnderway(revival'[c]),
         NEW s \in Sessions, home[s] = Current
  PROVE  sess[s] = "disposed"
<1>0. /\ TypedInv /\ BaseInv /\ SlotInv /\ JoinInv /\ HeldInv /\ EntryInv /\ ParkInv
      /\ park \in [Parks -> ParkRecord \cup {NoPark}]
      /\ sess \in [Sessions -> {"unborn", "live", "disposing", "disposed"}]
  BY DEF SessionInv, BaseInv, SlotInv, TypedInv, ParkTyped, ParkRecord, SessTyped
<1>1. /\ Current \in Refs /\ SpawnOver(Current) /\ FactoryInstalled
      /\ revival'[c].pc \in {"factory", "opening"}
  BY <1>0, StartsParked DEF IsUnderway
<1>2. reg.status[Current] = "parked" /\ reg.session[Current] = None /\ reg.current = Current
  <2>1. revival'[c].pc = FirstRevivalStep(Current)
    BY <1>0, CallParts DEF Starts, TypedInv, CallsGood, NoRevival
  <2>2. reg.status[Current] = "parked"  BY <1>1, <2>1 DEF FirstRevivalStep
  <2> QED  BY <1>1, <2>2 DEF Starts, Attached, Current
<1>3. parkEntry = None
  <2>1. CASE call[c].pc \in {"keeping", "waiting"} /\ ParkSettled(call[c].park)
    <3>1. call[c].park \in Parks  BY <1>0, <2>1 DEF ParkInv
    <3>2. park[call[c].park].pc = "settled"  BY <2>1, <3>1, LifecycleAssumption DEF ParkSettled
    <3>3. park[call[c].park] = NoPark  BY <1>0, <3>1, <3>2 DEF ParkRecord
    <3> QED  BY <1>0, <2>1, <3>3 DEF ParkInv
  <2> QED  BY <2>1 DEF Starts, LooksPast
<1>4. \A p \in Parks : park[p] = NoPark
  BY <1>0, <1>1, <1>3, LifecycleAssumption DEF ParkInv
<1>5. ASSUME NEW d \in Callers, HasSession(revival[d]), revival[d].session = s PROVE FALSE
  <2>1. Underway(d) /\ revival[d].ref = Current
    BY <1>0, <1>5 DEF SlotInv, FlightInv, GoodFlight, Underway, IsUnderway, HasSession
  <2>2. revivalEntry = d  BY <1>0, <1>1, <1>2, <2>1 DEF EntryInv
  <2> QED  BY <2>1, <2>2, LifecycleAssumption DEF Starts, Coalesces
<1>6. ~Held(s)  BY <1>1, <1>2, <1>4, <1>5 DEF Held, NoPark
<1>7. sess[s] # "unborn"  BY <1>0, <1>1 DEF BaseInv, BornInv
<1> QED  BY <1>0, <1>1, <1>2, <1>6, <1>7 DEF HeldInv

LEMMA AloneStep ==
  ASSUME SessionInv, [Next]_vars
  PROVE  AloneInv'
<1> SUFFICES ASSUME NEW c \in Callers, NEW s \in Sessions, IsUnderway(revival'[c]),
                    s # revival'[c].session, home'[s] = revival'[c].ref
             PROVE  sess'[s] = "disposed"
  BY DEF AloneInv, Underway
<1>0. /\ TypedInv /\ BaseInv /\ SlotInv /\ JoinInv /\ AloneInv
      /\ revival \in [Callers -> RevivalRecord]
      /\ \A d \in Callers : Underway(d) => revival[d].ref \in Refs /\ GoodFlight(revival[d])
  BY CallParts DEF SessionInv, BaseInv, SlotInv, TypedInv, CallsGood, RevivalFilled, FlightInv,
                   Underway, IsUnderway
<1>1. CASE Starts(c)
  <2>1. sess' = sess /\ home' = home /\ revival'[c].ref = Current
    BY <1>0, <1>1 DEF Starts, NoRevival
  <2> QED  BY <1>1, <2>1, StartsAlone
<1>2. CASE ~Starts(c)
  <2>1. Underway(c) /\ (revival'[c] = revival[c] \/ Advances(c))  BY <1>0, <1>2, GoesOn
  <2>2. PICK r \in Refs : r = revival[c].ref /\ r = revival'[c].ref
    BY <1>0, <2>1 DEF Advances
  <2>3. CASE home[s] = r /\ Ages(s)
    <3>1. revival[c].session \in {None, revival'[c].session}
      BY <1>0, <2>1 DEF Advances, Continues, Builds, GoodFlight, Underway, IsUnderway, HasSession
    <3>2. sess[s] = "disposed"  BY <1>0, <2>1, <2>2, <2>3, <3>1 DEF AloneInv
    <3> QED  BY <2>3, <3>2 DEF Ages
  <2>4. CASE BuiltFor(s, r)
    <3>1. ~SpawnAttaches(r, s)
      BY <1>0, <2>1, <2>2 DEF SpawnAttaches, GoodFlight, Underway, SpawnOver
    <3>2. PICK d \in Callers : Underway(d) /\ revival[d].ref = r /\ revival'[d].session = s
      BY <2>4, <3>1 DEF BuiltFor
    <3>3. d = c  BY <1>0, <2>1, <2>2, <3>2 DEF SlotInv, EntryInv
    <3> QED  BY <3>2, <3>3
  <2> QED  BY <1>0, <2>2, <2>3, <2>4, HomesStay
<1> QED  BY <1>1, <1>2

LEMMA OneStep ==
  ASSUME SessionInv, [Next]_vars
  PROVE  OnePerRef'
<1> SUFFICES ASSUME NEW s \in Sessions, NEW t \in Sessions, s # t, home'[s] = home'[t],
                    home'[s] # None
             PROVE  "disposed" \in {sess'[s], sess'[t]}
  BY DEF OnePerRef
<1>0. /\ TypedInv /\ BaseInv /\ AloneInv /\ OnePerRef
      /\ \A d \in Callers : GoodFlight(revival[d])
  BY DEF SessionInv, BaseInv, SlotInv, FlightInv
<1>1. PICK r \in Refs : home'[s] = r /\ home'[t] = r
  <2>1. SessTyped'  BY <1>0, SessStep
  <2> QED  BY <2>1 DEF SessTyped
<1>2. ASSUME NEW p \in Sessions, NEW q \in Sessions, p # q, BuiltFor(p, r), home[q] = r, Ages(q)
      PROVE  sess'[q] = "disposed"
  <2>1. ~SpawnAttaches(r, p)
    BY <1>0, <1>2 DEF SpawnAttaches, BaseInv, RunInv, RunOf
  <2>2. PICK c \in Callers : Underway(c) /\ ~HasSession(revival[c]) /\ revival[c].ref = r
    BY <1>2, <2>1 DEF BuiltFor
  <2>3. revival[c].session = None  BY <1>0, <2>2 DEF GoodFlight, Underway
  <2>4. sess[q] = "disposed"  BY <1>0, <1>2, <2>2, <2>3 DEF AloneInv
  <2> QED  BY <1>2, <2>4 DEF Ages
<1>3. CASE home[s] = r /\ Ages(s) /\ home[t] = r /\ Ages(t)
  BY <1>0, <1>3 DEF OnePerRef, Ages
<1>4. ASSUME NEW p \in Sessions, NEW q \in Sessions, p # q, home'[p] = r, home'[q] = r
      PROVE  \/ home[q] = r /\ Ages(q)
             \/ home[p] = r /\ Ages(p) /\ BuiltFor(q, r)
  <2>1. CASE BuiltFor(q, r) /\ \A x \in Sessions \ {q} : sess'[x] = sess[x] /\ home'[x] = home[x]
    BY <1>4, <2>1 DEF Ages
  <2> QED  BY <1>0, <1>4, <2>1, HomesStay
<1> QED  BY <1>1, <1>2, <1>3, <1>4

LEMMA SessionStep == ~Overrun /\ SessionInv /\ [Next]_vars => SessionInv'
<1> SUFFICES ASSUME ~Overrun, SessionInv, [Next]_vars PROVE SessionInv'
  OBVIOUS
<1>1. BaseInv' /\ JoinInv'
  BY BaseStep, JoinStep DEF SessionInv, BaseInv, SlotInv
<1> QED  BY <1>1, HeldStep, AloneStep, OneStep DEF SessionInv

LEMMA SessionInvariant == ASSUME ~Overrun PROVE Spec => []SessionInv
<1>1. SessionInv /\ [Next]_vars => SessionInv'  BY SessionStep
<1> QED  BY <1>1, SessionInitially, PTL DEF Spec

\* While a reviver works on a ref, every other session ever built for that ref is
\* disposed: no two sessions write one transcript, however parks, kills, respawns
\* and revivals overlap, provided no disposal outlasts its deadline.
THEOREM TranscriptHasOneWriter == ASSUME ~Overrun PROVE Spec => []SingleWriter
<1>1. SessionInv => SingleWriter
  BY DEF SessionInv, AloneInv, SingleWriter, Underway, IsUnderway
<1> QED  BY <1>1, SessionInvariant, PTL

-----------------------------------------------------------------------------
(* Who gives a session up                                                  *)

\* A session its revival takes back is not live.
TakenInv ==
    \A c \in Callers :
        revival[c].pc \in {"discarding", "unwinding"} => sess[revival[c].session] # "live"

\* A release that disposes a session disposes the last one of its ref, and one
\* that waits for a park waits for a park of its ref.
ReleaseOf(k) ==
    /\ release[k].pc = "disposing" =>
          /\ release[k].session \in Sessions
          /\ home[release[k].session] = release[k].ref
          /\ sess[release[k].session] \in {"disposing", "disposed"}
          /\ \A s \in Sessions : home[s] = release[k].ref => sess[s] # "live"
    /\ release[k].pc = "awaitPark" =>
          /\ release[k].park \in Parks
          /\ park[release[k].park] = NoPark \/ park[release[k].park].ref = release[k].ref

ReleaseInv == \A k \in Releasers : ReleaseOf(k)

LeakInv == SessionInv /\ TakenInv /\ ReleaseInv /\ NoLeakedSession

LEMMA LeakInitially == Init => LeakInv
<1> SUFFICES ASSUME Init PROVE LeakInv
  OBVIOUS
<1>1. TakenInv /\ ReleaseInv /\ NoLeakedSession
  BY DEF Init, TakenInv, ReleaseInv, ReleaseOf, NoLeakedSession, NoRevival, NoRelease
<1> QED  BY <1>1, SessionInitially DEF LeakInv

LEMMA TakenStep ==
  ASSUME SessionInv, TakenInv, [Next]_vars
  PROVE  TakenInv'
<1> SUFFICES ASSUME NEW c \in Callers, revival'[c].pc \in {"discarding", "unwinding"}
             PROVE  sess'[revival'[c].session] # "live"
  BY DEF TakenInv
<1> USE DEF IsUnderway, HasSession
<1>0. /\ TypedInv /\ SlotInv /\ IsUnderway(revival'[c])
      /\ GoodFlight(revival[c]) /\ RevivalFilled
  BY DEF SessionInv, BaseInv, SlotInv, TypedInv, FlightInv
<1>1. ~Starts(c)  BY <1>0, StartsParked
<1>2. Underway(c) /\ (revival'[c] = revival[c] \/ Advances(c))  BY <1>0, <1>1, GoesOn
<1>3. CASE /\ revival[c].pc \in {"discarding", "unwinding"}
           /\ revival'[c].session = revival[c].session
  <2>1. /\ sess[revival[c].session] \notin {"live", "unborn"}
        /\ revival[c].session \in Sessions
    BY <1>0, <1>3 DEF TakenInv, GoodFlight, RevivalFilled
  <2> QED  BY <1>0, <1>3, <2>1, SessionAges DEF Ages
<1> QED  BY <1>2, <1>3 DEF Advances, Continues, Builds

\* A release starts to dispose what is attached, or to wait for the park in the map.
DisposesAttached(k) ==
    LET ref == release'[k].ref IN
    /\ release'[k].pc = "disposing" /\ ref \in Refs /\ reg.current = ref
    /\ reg.session[ref] # None /\ release'[k].session = reg.session[ref]
    /\ Disposes(reg.session[ref]) /\ home' = home

AwaitsPark(k) ==
    /\ release'[k].pc = "awaitPark"
    /\ parkEntry # None /\ release'[k].park = parkEntry
    /\ park[parkEntry].ref = release'[k].ref

ReleaseMoved(k) ==
    \/ release'[k] = release[k]
    \/ release'[k].pc \in {"idle", "persist"}
    \/ DisposesAttached(k)
    \/ AwaitsPark(k)

LEMMA ReleaseMoves ==
  ASSUME TypedInv, [Next]_vars, NEW k \in Releasers
  PROVE  ReleaseMoved(k)
<1> USE DEF registryVars, adoptionVars, parkVars, callVars, otherVars
<1>0. release \in [Releasers -> ReleaseRecord]  BY DEF TypedInv, ReleaseTyped, ReleaseRecord
<1>1. ASSUME NEW j \in Releasers, NEW ref \in Refs, NEW tomb, ReleaseTail(j, ref, tomb), home' = home
      PROVE  ReleaseMoved(k)
  <2>1. ASSUME NEW v, release' = [release EXCEPT ![j] = v], v.pc \in {"idle", "persist"}
        PROVE  ReleaseMoved(k)
    BY <1>0, <2>1 DEF ReleaseMoved
  <2>2. ASSUME NEW live, live = reg.session[ref], reg.current = ref, live # None, sess' = Disposing(live),
               release' = [release EXCEPT ![j] =
                  [NoRelease EXCEPT !.pc = "disposing", !.ref = ref, !.session = live]]
        PROVE  ReleaseMoved(k)
    BY <1>0, <1>1, <2>2 DEF ReleaseMoved, DisposesAttached, Disposes, NoRelease
  <2> QED  BY <1>1, <2>1, <2>2 DEF ReleaseTail, NoRelease, Current
<1>2. ASSUME NEW j \in Releasers, NEW e, NEW tomb, StartRelease(j, e, tomb) PROVE ReleaseMoved(k)
  <2>1. ReleaseTarget(e) \in Refs  BY <1>2, TargetTyped DEF StartRelease
  <2>2. CASE ReleaseTail(j, ReleaseTarget(e), tomb)
    BY <1>1, <1>2, <2>1, <2>2 DEF StartRelease
  <2>3. CASE /\ parkEntry # None /\ park[parkEntry].ref = ReleaseTarget(e)
             /\ release' = [release EXCEPT ![j] =
                  [NoRelease EXCEPT !.pc = "awaitPark", !.ref = ReleaseTarget(e), !.tomb = tomb,
                                    !.park = parkEntry]]
    BY <1>0, <2>3 DEF ReleaseMoved, AwaitsPark, NoRelease
  <2> QED  BY <1>2, <2>2, <2>3 DEF StartRelease
<1>3. ASSUME NEW j \in Releasers, ReleaseResumes(j) PROVE ReleaseMoved(k)
  <2>1. release[j].ref \in Refs  BY <1>3 DEF ReleaseResumes, TypedInv, ReleaseTyped
  <2> QED  BY <1>1, <1>3, <2>1 DEF ReleaseResumes
<1>4. ASSUME NEW j \in Releasers, TombstonePersisted(j) PROVE ReleaseMoved(k)
  <2>1. release[j].ref \in Refs  BY <1>4 DEF TombstonePersisted, TypedInv, ReleaseTyped
  <2>2. CASE release' = [release EXCEPT ![j] = NoRelease]
    BY <1>0, <2>2 DEF ReleaseMoved, NoRelease
  <2>3. ASSUME NEW live, live = reg.session[release[j].ref], reg.current = release[j].ref,
               live # None, sess' = Disposing(live),
               release' = [release EXCEPT ![j] = [@ EXCEPT !.pc = "disposing", !.session = live]]
        PROVE  ReleaseMoved(k)
    <3>1. home' = home  BY <1>4 DEF TombstonePersisted
    <3> QED  BY <1>0, <2>1, <2>3, <3>1 DEF ReleaseMoved, DisposesAttached, Disposes, ReleaseRecord
  <2> QED  BY <1>4, <2>2, <2>3 DEF TombstonePersisted, Current
<1>5. ASSUME NEW j \in Releasers, TombstoneFails(j) \/ ReleaseFinishes(j) PROVE ReleaseMoved(k)
  BY <1>0, <1>5 DEF TombstoneFails, ReleaseFinishes, ReleaseMoved, NoRelease
<1>6. ASSUME (\E j \in Releasers : Release(j)) \/ DisposeManager PROVE ReleaseMoved(k)
  <2>1. release' = release \/ \E j \in Releasers : \E e, tomb : StartRelease(j, e, tomb)
    BY <1>6 DEF Release, DisposeManager
  <2> QED  BY <1>2, <2>1 DEF ReleaseMoved
<1>7. ASSUME \/ Executor \/ ReclaimStarts \/ ReclaimProbed \/ CloseManager \/ UNCHANGED vars
             \/ \E s \in Sessions : SessionDisposed(s)
             \/ \E a \in Adoptions : TimerFires(a)
             \/ \E p \in Parks : ParkCommits(p) \/ ParkSettles(p)
             \/ \E j \in Releasers : ReleaseTimesOut(j)
      PROVE  release' = release
  BY <1>7 DEF Executor, SpawnRegisters, RestoreParked, IsolatedDetaches, HelperDrops,
              SpawnAttaches, FinishKeptAlive, FinishIsolated, FinishDisposes, RunStarts, RunEnds,
              SessionDisposed, TimerFires, ParkCommits, ParkSettles, ReclaimStarts, ReclaimProbed,
              CloseManager, ReleaseTimesOut, vars
<1>8. ASSUME NEW c \in Callers,
             \/ KeepResumes(c) \/ WaitResumes(c) \/ RevivedResumes(c) \/ RevivalRejects(c)
             \/ EnsureLive(c) \/ Collect(c) \/ ReviveReturns(c) \/ ReviverStep(c)
      PROVE  release' = release
  BY <1>8 DEF KeepResumes, WaitResumes, RevivedResumes, RevivalRejects, EnsureLive, Collect,
              ReviveReturns, ReviverStep, FactoryAnswers, ReviverFails, ReviverClaims,
              ReviverFinishes, ReviverAttaches, SimpleReviverReturns
<1>9. release' = release => ReleaseMoved(k)  BY DEF ReleaseMoved
<1> QED
  BY <1>3, <1>4, <1>5, <1>6, <1>7, <1>8, <1>9 DEF Next, Microtask

\* A park in flight stays one of its ref, and none starts that a release awaits.
LEMMA ParkRefStays ==
  ASSUME BaseInv, [Next]_vars, NEW p \in Parks
  PROVE  /\ park[p] # NoPark => park'[p] = NoPark \/ park'[p].ref = park[p].ref
         /\ park[p] = NoPark /\ (\E k \in Releasers : release[k].park = p) => park'[p] = NoPark
<1>0. TypedInv /\ park \in [Parks -> ParkRecord \cup {NoPark}]
  BY DEF BaseInv, SlotInv, TypedInv, ParkTyped, ParkRecord
<1>1. ASSUME NEW q \in Parks, ParkStarts(q)
      PROVE  /\ q = p => park[p] = NoPark /\ \A k \in Releasers : release[k].park # p
             /\ q # p => park'[p] = park[p]
  BY <1>0, <1>1 DEF ParkStarts
<1>2. ASSUME NEW q \in Parks, ParkMarks(q)
      PROVE  /\ q = p => park[p] # NoPark /\ park'[p].ref = park[p].ref
             /\ q # p => park'[p] = park[p]
  <2>1. CASE q # p  BY <1>0, <1>2, <2>1 DEF ParkMarks
  <2>2. CASE q = p
    <3>1. park[p] \in ParkRecord  BY <1>0, <1>2, <2>2 DEF ParkMarks
    <3> QED  BY <1>0, <1>2, <2>2, <3>1 DEF ParkMarks, ParkRecord
  <2> QED  BY <2>1, <2>2
<1>3. ASSUME NEW q \in Parks, ParkEnds(q) PROVE park'[p] \in {park[p], NoPark}
  BY <1>0, <1>3 DEF ParkEnds, SettlePark
<1>4. CloseManager => park' = park  BY DEF CloseManager
<1> QED  BY <1>0, <1>1, <1>2, <1>3, <1>4, ParksMove DEF ParkMoves

LEMMA ReleaseInvStep ==
  ASSUME LeakInv, [Next]_vars
  PROVE  ReleaseInv'
<1> SUFFICES ASSUME NEW k \in Releasers PROVE ReleaseOf(k)'
  BY DEF ReleaseInv
<1>0. /\ SessionInv /\ BaseInv /\ TypedInv /\ SessTyped /\ ReleaseOf(k) /\ BornInv /\ HomeInv
      /\ \A d \in Callers : GoodFlight(revival[d])
  BY DEF LeakInv, SessionInv, BaseInv, SlotInv, TypedInv, ReleaseInv, FlightInv
<1>1. ASSUME release'[k] = release[k], release[k].pc = "disposing" PROVE ReleaseOf(k)'
  <2> DEFINE s == release[k].session
             r == release[k].ref
  <2>1. /\ s \in Sessions /\ home[s] = r /\ sess[s] \in {"disposing", "disposed"}
        /\ \A t \in Sessions : home[t] = r => sess[t] # "live"
        /\ r \in Refs
    BY <1>0, <1>1 DEF ReleaseOf, TypedInv, ReleaseTyped
  <2> HIDE DEF s, r
  <2>2. Ages(s)  BY <1>0, <2>1, SessionAges
  <2>3. ASSUME NEW t \in Sessions, home'[t] = r PROVE sess'[t] # "live"
    <3>1. CASE home[t] = r /\ Ages(t)
      BY <1>0, <2>1, <3>1 DEF Ages
    <3>2. CASE BuiltFor(t, r)
      <4>1. ~SpawnAttaches(r, t)
        BY <1>0, <2>1 DEF SpawnAttaches, BaseInv, RunInv, RunOf
      <4>2. PICK c \in Callers :
               /\ ReviverAttaches(c, t) \/ SimpleReviverReturns(c, t)
               /\ Underway(c) /\ ~HasSession(revival[c]) /\ revival[c].ref = r
        BY <3>2, <4>1 DEF BuiltFor
      <4>3. Quiet  BY <4>2 DEF ReviverAttaches, SimpleReviverReturns
      <4>4. sess[s] # "disposed"  BY <1>1, <4>3 DEF Quiet, ReleaseReady, s
      <4>5. revival[c].session = None  BY <1>0, <4>2 DEF GoodFlight, Underway
      <4> QED  BY <1>0, <2>1, <4>2, <4>4, <4>5 DEF SessionInv, AloneInv
    <3> QED  BY <1>0, <2>1, <2>3, <3>1, <3>2, HomesStay
  <2>4. home'[s] = r /\ sess'[s] \in {"disposing", "disposed"}  BY <2>1, <2>2 DEF Ages
  <2>5. release'[k].session = s /\ release'[k].ref = r /\ release'[k].pc = "disposing"
    BY <1>1 DEF s, r
  <2> QED  BY <2>1, <2>3, <2>4, <2>5 DEF ReleaseOf
<1>2. ASSUME release'[k] = release[k], release[k].pc = "awaitPark" PROVE ReleaseOf(k)'
  <2>1. PICK p \in Parks : p = release[k].park /\ (park[p] = NoPark \/ park[p].ref = release[k].ref)
    BY <1>0, <1>2 DEF ReleaseOf
  <2>2. park'[p] = NoPark \/ park'[p].ref = release[k].ref
    BY <1>0, <2>1, ParkRefStays
  <2> QED  BY <1>2, <2>1, <2>2 DEF ReleaseOf
<1>3. ASSUME release'[k].pc \in {"idle", "persist"} PROVE ReleaseOf(k)'
  BY <1>3 DEF ReleaseOf
<1>4. ASSUME DisposesAttached(k) PROVE ReleaseOf(k)'
  <2>1. PICK r \in Refs : r = release'[k].ref  BY <1>4 DEF DisposesAttached
  <2>2. PICK s \in Sessions : s = reg.session[r] /\ release'[k].session = s /\ Disposes(s)
    BY <1>0, <1>4, <2>1 DEF DisposesAttached, TypedInv, GoodRegistry, Registry
  <2>3. home[s] = r /\ sess[s] # "unborn" /\ reg.current = r
    BY <1>0, <1>4, <2>1, <2>2 DEF HomeInv, DisposesAttached
  <2>4. sess'[s] \in {"disposing", "disposed"} /\ home'[s] = r
    BY <1>0, <1>4, <2>2, <2>3 DEF Disposes, Disposing, SessTyped, DisposesAttached
  <2>5. ASSUME NEW t \in Sessions, home[t] = r, t # s PROVE sess[t] # "live"
    <3>1. ~Owns(t)  BY <2>2, <2>3, <2>5 DEF Owns, Current
    <3>2. ASSUME NEW c \in Callers, revival[c].session = t, revival[c].pc \in {"attached", "returned"}
          PROVE  FALSE
      <4>1. revival[c].ref = r /\ Underway(c)
        BY <1>0, <2>5, <3>2 DEF GoodFlight, Underway, IsUnderway, HasSession
      <4> QED  BY <1>0, <2>2, <2>3, <2>5, <3>2, <4>1 DEF BaseInv, AwaitInv
    <3> QED  BY <3>1, <3>2 DEF LeakInv, NoLeakedSession
  <2>6. \A t \in Sessions : home'[t] = r => sess'[t] # "live"
    BY <1>0, <1>4, <2>2, <2>4, <2>5 DEF Disposes, Disposing, SessTyped, DisposesAttached
  <2> QED  BY <1>4, <2>1, <2>2, <2>4, <2>6 DEF ReleaseOf, DisposesAttached
<1>5. ASSUME AwaitsPark(k) PROVE ReleaseOf(k)'
  <2>1. PICK p \in Parks : p = parkEntry /\ release'[k].park = p /\ park[p].ref = release'[k].ref
    BY <1>0, <1>5 DEF AwaitsPark, TypedInv, ParkTyped
  <2>2. park[p] # NoPark
    BY <1>0, <1>5, <2>1 DEF BaseInv, ParkInv, AwaitsPark
  <2>3. park'[p] = NoPark \/ park'[p].ref = release'[k].ref
    BY <1>0, <2>1, <2>2, ParkRefStays
  <2> QED  BY <1>5, <2>1, <2>3 DEF ReleaseOf, AwaitsPark
<1>6. release[k].pc \in {"idle", "awaitPark", "persist", "disposing"}
  BY <1>0 DEF TypedInv, ReleaseTyped, ReleasePhase
<1> QED  BY <1>0, <1>1, <1>2, <1>3, <1>4, <1>5, <1>6, ReleaseMoves DEF ReleaseMoved

\* Who may take a ref out of the registry that has a session.
Drops(r) ==
    \/ HelperDrops(r)
    \/ \E s \in Sessions : SessionDisposed(s) /\ home[s] = r
    \/ \E k \in Releasers : ReleaseFinishes(k) /\ release[k].ref = r
    \/ \E k \in Releasers : ReleaseTimesOut(k) /\ release[k].ref = r

LEMMA DropMoves ==
  ASSUME TypedInv, [Next]_vars, NEW r \in Refs,
         reg.current = r, reg.session[r] # None, reg'.current # r
  PROVE  Drops(r)
<1> USE DEF registryVars, adoptionVars, parkVars, callVars, otherVars
<1>0. GoodRegistry(reg)  BY DEF TypedInv
<1>1. ASSUME NEW q \in Refs, reg' = Unregistered(reg, q) PROVE q = r
  BY <1>0, <1>1, RefDropped
<1>2. ASSUME NEW k \in Releasers, NEW q \in Refs, NEW tomb, ReleaseTail(k, q, tomb) PROVE FALSE
  <2>1. CASE reg' = reg  BY <2>1
  <2>2. CASE /\ reg' = Unregistered(reg, q)
             /\ (IF Current = q THEN reg.session[q] ELSE None) = None
    BY <1>1, <2>2 DEF Current
  <2> QED  BY <1>2, <2>1, <2>2 DEF ReleaseTail
<1>3. ASSUME NEW k \in Releasers, NEW e, NEW tomb, StartRelease(k, e, tomb) PROVE FALSE
  <2>1. ReleaseTarget(e) \in Refs  BY <1>3, TargetTyped DEF StartRelease
  <2> QED  BY <1>2, <1>3, <2>1 DEF StartRelease
<1>4. ASSUME \/ \E k \in Releasers : Release(k) \/ ReleaseResumes(k)
             \/ DisposeManager
      PROVE  FALSE
  <2>1. ASSUME NEW k \in Releasers, ReleaseResumes(k) PROVE FALSE
    <3>1. release[k].ref \in Refs  BY <2>1 DEF ReleaseResumes, TypedInv, ReleaseTyped
    <3> QED  BY <1>2, <2>1, <3>1 DEF ReleaseResumes
  <2> QED  BY <1>3, <1>4, <2>1 DEF Release, DisposeManager
<1>5. ASSUME ReclaimStarts \/ ReclaimProbed PROVE FALSE
  <2>1. reg' = reg \/ \E q \in Refs : reg' = Unregistered(reg, q) /\ IsCorpse(q)
    BY <1>0, <1>5 DEF ReclaimStarts, ReclaimProbed, UnregisterRef, TypedInv, ReleaseTyped, Current,
                      GoodRegistry, Registry
  <2> QED  BY <1>1, <2>1 DEF IsCorpse, IsRevivable
<1>6. ASSUME NEW k \in Releasers, ReleaseFinishes(k) \/ ReleaseTimesOut(k) PROVE Drops(r)
  <2>1. release[k].ref \in Refs
    BY <1>6 DEF ReleaseFinishes, ReleaseTimesOut, TypedInv, ReleaseTyped
  <2> QED  BY <1>1, <1>6, <2>1 DEF ReleaseFinishes, ReleaseTimesOut, UnregisterRef, Drops
<1>7. ASSUME NEW s \in Sessions, SessionDisposed(s) PROVE Drops(r)
  BY <1>7 DEF SessionDisposed, Drops, Current
<1>8. ASSUME NEW q \in Refs, HelperDrops(q) PROVE Drops(r)
  BY <1>1, <1>8 DEF HelperDrops, UnregisterRef, Drops
<1>9. ASSUME NEW k \in Releasers, TombstonePersisted(k) \/ TombstoneFails(k) PROVE FALSE
  <2>1. release[k].ref \in Refs
    BY <1>9 DEF TombstonePersisted, TombstoneFails, TypedInv, ReleaseTyped
  <2>2. reg' = reg \/ reg' = Detached(WithStatus(reg, "aborted", release[k].ref), release[k].ref)
    BY <1>9 DEF TombstonePersisted, TombstoneFails
  <2>3. reg'.current = reg.current
    BY <1>0, <2>2 DEF Detached, WithStatus, GoodRegistry, Registry
  <2> QED  BY <2>3
<1>10. ASSUME NEW q \in Refs, SpawnRegisters(q) \/ RestoreParked(q) PROVE FALSE
  BY <1>10 DEF SpawnRegisters, RestoreParked, IsAvailable
<1>11. ASSUME \/ \E q \in Refs : IsolatedDetaches(q)
              \/ \E q \in Refs, s \in Sessions :
                    SpawnAttaches(q, s) \/ FinishKeptAlive(q, s) \/ FinishIsolated(q, s)
              \/ \E s \in Sessions : RunStarts(s) \/ RunEnds(s)
              \/ \E p \in Parks : ParkCommits(p)
       PROVE  reg'.current = reg.current
  BY <1>0, <1>11 DEF IsolatedDetaches, SpawnAttaches, FinishKeptAlive, FinishIsolated, RunStarts,
                     RunEnds, ParkCommits, ParkedRegistry, Detached, WithStatus, WithSession,
                     GoodRegistry, Registry
<1>12. ASSUME NEW c \in Callers, ReviveReturns(c) \/ \E s \in Sessions : ReviverAttaches(c, s)
       PROVE  reg'.current = reg.current
  BY <1>0, <1>12 DEF ReviveReturns, ReviverAttaches, WithStatus, WithSession, GoodRegistry, Registry
<1>13. ASSUME \/ \E q \in Refs, s \in Sessions : FinishDisposes(q, s)
              \/ \E p \in Parks : ParkSettles(p)
              \/ \E a \in Adoptions : TimerFires(a)
              \/ CloseManager \/ UNCHANGED vars
       PROVE  reg' = reg
  BY <1>13 DEF FinishDisposes, ParkSettles, TimerFires, CloseManager, vars
<1>14. ASSUME NEW c \in Callers,
              \/ KeepResumes(c) \/ WaitResumes(c) \/ RevivedResumes(c) \/ RevivalRejects(c)
              \/ EnsureLive(c) \/ Collect(c)
              \/ FactoryAnswers(c) \/ ReviverFails(c) \/ ReviverClaims(c) \/ ReviverFinishes(c)
              \/ \E s \in Sessions : SimpleReviverReturns(c, s)
       PROVE  reg' = reg
  BY <1>14 DEF KeepResumes, WaitResumes, RevivedResumes, RevivalRejects, EnsureLive, Collect,
               FactoryAnswers, ReviverFails, ReviverClaims, ReviverFinishes, SimpleReviverReturns
<1> QED
  BY <1>4, <1>5, <1>6, <1>7, <1>8, <1>9, <1>10, <1>11, <1>12, <1>13, <1>14
  DEF Next, Microtask, Executor, ReviverStep

\* No ref is taken out while a session of it is live.
LEMMA LiveIsKept ==
  ASSUME LeakInv, [Next]_vars, NEW r \in Refs, NEW s \in Sessions,
         reg.current = r, reg.session[r] = s, sess[s] = "live"
  PROVE  reg'.current = r
<1> SUFFICES ASSUME Drops(r) PROVE FALSE
  BY DropMoves DEF LeakInv, SessionInv, BaseInv, SlotInv
<1>0. /\ BaseInv /\ ParkInv /\ OnePerRef /\ home[s] = r
      /\ park \in [Parks -> ParkRecord \cup {NoPark}]
  BY DEF LeakInv, SessionInv, BaseInv, SlotInv, HomeInv, TypedInv, ParkTyped, ParkRecord
<1>1. ~HelperDrops(r)  BY <1>0 DEF HelperDrops, BaseInv, RunInv, RunOf
<1>2. ASSUME NEW t \in Sessions, SessionDisposed(t), home[t] = r PROVE FALSE
  BY <1>0, <1>2 DEF SessionDisposed, OnePerRef
<1>3. ASSUME NEW k \in Releasers, release[k].pc = "disposing", release[k].ref = r PROVE FALSE
  BY <1>0, <1>3 DEF LeakInv, ReleaseInv, ReleaseOf
<1>4. ASSUME NEW k \in Releasers, release[k].pc = "awaitPark", release[k].ref = r, Quiet
      PROVE  FALSE
  <2>1. PICK p \in Parks : p = release[k].park /\ (park[p] = NoPark \/ park[p].ref = r)
    BY <1>4 DEF LeakInv, ReleaseInv, ReleaseOf
  <2>2. park[p].pc # "settled"
    BY <1>4, <2>1, LifecycleAssumption DEF Quiet, ReleaseReady, ParkSettled
  <2>3. park[p] \in ParkRecord /\ park[p].ref = r  BY <1>0, <2>1, <2>2 DEF NoPark
  <2>4. park[p].pc = "disposing" /\ sess[park[p].session] # "disposed"
    BY <1>4, <2>3 DEF Quiet, ParkReady, ParkRecord, ParkPhase
  <2>5. /\ park[p].session \in Sessions /\ home[park[p].session] = r
        /\ sess[park[p].session] = "disposing"
    BY <1>0, <2>2, <2>3, <2>4 DEF ParkInv, NoPark, ParkRecord
  <2> QED  BY <1>0, <2>5 DEF OnePerRef
<1> QED  BY <1>1, <1>2, <1>3, <1>4 DEF Drops, ReleaseFinishes, ReleaseTimesOut

LEMMA LeakStep ==
  ASSUME LeakInv, [Next]_vars, ~Overrun, TakenInv'
  PROVE  NoLeakedSession'
<1> SUFFICES ASSUME NEW s \in Sessions, sess'[s] = "live"
             PROVE  \/ Owns(s)'
                    \/ \E c \in Callers : /\ revival'[c].session = s
                                          /\ revival'[c].pc \in {"attached", "returned"}
  BY DEF NoLeakedSession
<1>0. /\ SessionInv /\ BaseInv /\ JoinInv /\ TypedInv /\ SessTyped /\ GoodRegistry(reg)
      /\ revival \in [Callers -> RevivalRecord]
      /\ \A c \in Callers : GoodFlight(revival[c])
  BY CallParts DEF LeakInv, SessionInv, BaseInv, SlotInv, TypedInv, CallsGood, FlightInv
<1>1. PICK r \in Refs : home'[s] = r
  <2>1. BornInv' /\ SessTyped'  BY <1>0, BornStep, SessStep
  <2> QED  BY <2>1 DEF BornInv, SessTyped
<1>2. CASE BuiltFor(s, r)
  <2>1. CASE SpawnAttaches(r, s)
    <3>1. /\ AcceptsSession(reg, r)
          /\ reg' = WithStatus(WithSession(reg, s, r), "running", r)
      BY <1>0, <2>1 DEF SpawnAttaches, SessTyped
    <3>2. Brought(r, s, "running")  BY <1>0, <3>1, BringerSets
    <3>3. reg'.current = r /\ reg'.session[r] = s
      BY <1>0, <3>2 DEF Brought, GoodRegistry, Registry
    <3> QED  BY <3>3 DEF Owns, Current
  <2>2. ASSUME NEW c \in Callers, ReviverAttaches(c, s) PROVE revival'[c].pc = "attached"
    BY <1>0, <2>2 DEF ReviverAttaches, SessTyped, RevivalRecord
  <2>3. ASSUME NEW c \in Callers, SimpleReviverReturns(c, s) PROVE revival'[c].pc = "returned"
    BY <1>0, <2>3 DEF SimpleReviverReturns, RevivalRecord
  <2> QED  BY <1>2, <2>1, <2>2, <2>3 DEF BuiltFor
<1>3. CASE home[s] = r /\ Ages(s)
  <2>1. sess[s] = "live"  BY <1>3 DEF Ages
  <2>2. ~Disposes(s)  BY <1>0 DEF Disposes, Disposing, SessTyped
  <2>3. CASE Owns(s)
    <3>1. reg.current = r /\ reg.session[r] = s
      BY <1>0, <1>3, <2>3, HoldsOwned DEF BaseInv, SlotInv, HomeInv, Current
    <3>2. reg'.current = r  BY <2>1, <3>1, LiveIsKept
    <3>3. reg'.session[r] = s
      <4>1. ~Detaches(r)
        <5>1. ~IsolatedDetaches(r)
          BY <1>0, <1>3, <2>1 DEF IsolatedDetaches, BaseInv, RunInv, RunOf
        <5>2. ASSUME NEW p \in Parks, ParkCommits(p), StillParkable(p), park[p].ref = r PROVE FALSE
          BY <2>2, <3>1, <5>2 DEF ParkCommits, StillParkable, Attached, Current, Disposes
        <5> QED  BY <2>2, <3>1, <5>1, <5>2 DEF Detaches
      <4>2. ASSUME NEW t \in Sessions, SpawnAttaches(r, t) PROVE FALSE
        BY <1>0, <1>3, <4>2 DEF SpawnAttaches, BaseInv, RunInv, RunOf
      <4>3. ASSUME NEW c \in Callers, NEW t \in Sessions, ReviverAttaches(c, t), revival[c].ref = r
            PROVE  FALSE
        <5>1. Underway(c) /\ revival[c].session = None
          BY <1>0, <4>3 DEF ReviverAttaches, Underway, IsUnderway, HasSession, GoodFlight
        <5> QED  BY <1>0, <3>1, <4>3, <5>1 DEF BaseInv, AwaitInv
      <4>4. ASSUME NEW c \in Callers, ReviveReturns(c), revival[c].ref = r
            PROVE  revival[c].session = s
        <5>1. Underway(c)  BY <4>4 DEF ReviveReturns, Underway, IsUnderway
        <5> QED  BY <1>0, <3>1, <4>4, <5>1 DEF BaseInv, AwaitInv
      <4> QED  BY <1>0, <3>1, <4>1, <4>2, <4>3, <4>4, FieldMoves DEF Brings
    <3> QED  BY <3>2, <3>3 DEF Owns, Current
  <2>4. ASSUME NEW c \in Callers, revival[c].session = s, revival[c].pc \in {"attached", "returned"}
        PROVE  \/ Owns(s)'
               \/ revival'[c].session = s /\ revival'[c].pc \in {"attached", "returned"}
    <3>1. \/ HasSession(revival'[c]) /\ revival'[c].session = s
          \/ ReviveReturns(c) /\ ~IsUnderway(revival'[c])
      BY <1>0, <2>1, <2>4, HoldersStay DEF HasSession
    <3>2. CASE HasSession(revival'[c]) /\ revival'[c].session = s
      BY <3>2 DEF HasSession, TakenInv
    <3>3. CASE ReviveReturns(c) /\ ~IsUnderway(revival'[c])
      <4>1. PICK q \in Refs : q = revival[c].ref
        BY <1>0, <3>3 DEF ReviveReturns, TypedInv, RevivalFilled
      <4>2. reg'.current = q /\ reg'.session[q] = s
        BY <1>0, <2>4, <3>3, <4>1, ResolvedAttached
      <4> QED  BY <4>2 DEF Owns, Current
    <3> QED  BY <3>1, <3>2, <3>3
  <2> QED  BY <2>1, <2>3, <2>4 DEF LeakInv, NoLeakedSession
<1> QED  BY <1>0, <1>1, <1>2, <1>3, HomesStay

LEMMA LeakInvariant == ASSUME ~Overrun PROVE Spec => []LeakInv
<1>1. LeakInv /\ [Next]_vars => LeakInv'
  <2> SUFFICES ASSUME LeakInv, [Next]_vars PROVE LeakInv'
    OBVIOUS
  <2>1. SessionInv'  BY SessionStep DEF LeakInv
  <2>2. TakenInv'  BY TakenStep DEF LeakInv
  <2> QED  BY <2>1, <2>2, ReleaseInvStep, LeakStep DEF LeakInv
<1> QED  BY <1>1, LeakInitially, PTL DEF Spec

\* No session is left behind: whatever is live belongs to the ref the id resolves
\* to, or to a revival that will attach or dispose it, at every step of every
\* overlap of runs, parks, revivals, kills, releases and respawns, provided no
\* disposal outlasts its deadline.
THEOREM NoSessionLeaks == ASSUME ~Overrun PROVE Spec => []NoLeakedSession
BY LeakInvariant, PTL DEF LeakInv

-----------------------------------------------------------------------------
(* What ensureLive hands out                                               *)

\* No timer outlives its adoption.  A factory that answers when another generation
\* was adopted meanwhile replaces that adoption and leaves its timer running.
NoOrphanTimer == armed \subseteq {adopted.tok}

\* A session that a park took out of service is on its way out, attached to
\* nothing, and no revival is about to return it.
PutAway(s) ==
    /\ sess[s] \in {"disposing", "disposed"}
    /\ reg.session[home[s]] # s
    /\ \A c \in Callers :
          revival[c].pc \in {"attached", "returned", "resolved"} => revival[c].session # s

PutAwayInv == \A s \in parkedOut : PutAway(s)

\* A session that its revival has attached counts as running, without a timer,
\* until the revival hands it over.
StartsUp(c) ==
    LET ref == revival[c].ref IN
    /\ revival[c].pc \in {"attached", "returned"}
    /\ reg.current = ref /\ reg.session[ref] = revival[c].session
    => reg.status[ref] = "running" /\ (adopted.ref = ref => adopted.tok \notin armed)

StartUpInv == \A c \in Callers : StartsUp(c)

\* No revival hands over a session while a park is about to take it.
YieldsTo(p) ==
    park[p].pc = "yielding" =>
        \A c \in Callers :
            /\ revival[c].pc \notin {"returned", "resolved"}
            /\ revival[c].pc = "attached" => revival[c].session # park[p].session

YieldInv == \A p \in Parks : YieldsTo(p)

HandInv == BaseInv /\ JoinInv /\ PutAwayInv /\ StartUpInv /\ YieldInv

LEMMA HandInitially == Init => HandInv
<1> SUFFICES ASSUME Init PROVE HandInv
  OBVIOUS
<1>1. PutAwayInv /\ StartUpInv /\ YieldInv
  BY DEF Init, PutAwayInv, StartUpInv, StartsUp, YieldInv, YieldsTo, NoRevival, NoPark
<1> QED  BY <1>1, BaseInitially, JoinInitially DEF HandInv

\* How a revival comes to have a session to hand over.
Passes(c) ==
    \/ revival'[c] = revival[c]
    \/ revival'[c].pc \notin {"attached", "returned", "resolved"}
    \/ \E s \in Sessions :
          ReviverAttaches(c, s) /\ revival'[c] = [revival[c] EXCEPT !.pc = "attached", !.session = s]
    \/ \E s \in Sessions :
          SimpleReviverReturns(c, s) /\ revival'[c] = [revival[c] EXCEPT !.pc = "returned", !.session = s]
    \/ ReviverFinishes(c) /\ revival'[c] = [revival[c] EXCEPT !.pc = "returned"]
    \/ ReviveReturns(c) /\ revival'[c] = [revival[c] EXCEPT !.pc = "resolved"]

\* ... or to turn out useless.
Turns(c) ==
    \/ revival'[c] = revival[c]
    \/ revival'[c].pc \in {"none", "factory", "opening", "claimed", "rejected"}
    \/ \E s \in Sessions, q \in {"attached", "unwinding"} :
          ReviverAttaches(c, s) /\ revival'[c] = [revival[c] EXCEPT !.pc = q, !.session = s]
    \/ \E s \in Sessions :
          SimpleReviverReturns(c, s) /\ revival'[c] = [revival[c] EXCEPT !.pc = "returned", !.session = s]
    \/ \E q \in {"returned", "unwinding"} :
          ReviverFinishes(c) /\ revival'[c] = [revival[c] EXCEPT !.pc = q]
    \/ \E q \in {"resolved", "discarding"} :
          ReviveReturns(c) /\ revival'[c] = [revival[c] EXCEPT !.pc = q]

LEMMA RevivalTurns ==
  ASSUME TypedInv, [Next]_vars, NEW c \in Callers
  PROVE  Turns(c)
<1> USE DEF registryVars, adoptionVars, parkVars, callVars, otherVars
<1>0. revival \in [Callers -> RevivalRecord] /\ call \in [Callers -> CallRecord]
  BY CallParts DEF TypedInv, CallsGood
<1>1. ASSUME NEW d \in Callers, NEW v, revival' = [revival EXCEPT ![d] = v],
             v.pc \in {"none", "factory", "opening", "claimed", "rejected"}
      PROVE  Turns(c)
  BY <1>0, <1>1 DEF Turns
<1>2. ASSUME NEW d \in Callers, NEW q, Goes(d, q),
             q \in {"none", "factory", "opening", "claimed", "rejected"}
      PROVE  Turns(c)
  <2>1. [revival[d] EXCEPT !.pc = q].pc = q  BY <1>0 DEF RevivalRecord
  <2> QED  BY <1>1, <1>2, <2>1 DEF Goes
<1>3. ASSUME NEW d \in Callers, Lookup(d) PROVE Turns(c)
  <2>1. CASE revival' = revival  BY <2>1 DEF Turns
  <2>2. CASE revival' = [revival EXCEPT ![d] =
                  [NoRevival EXCEPT !.pc = FirstRevivalStep(Current), !.ref = Current]]
    <3>1. FirstRevivalStep(Current) \in {"opening", "factory", "rejected"}
      BY DEF FirstRevivalStep
    <3> QED  BY <1>1, <2>2, <3>1 DEF NoRevival
  <2> QED  BY <1>3, <2>1, <2>2 DEF Lookup
<1>4. ASSUME NEW d \in Callers, EnsureLive(d) \/ KeepResumes(d) \/ WaitResumes(d) PROVE Turns(c)
  <2>1. revival' = revival \/ Lookup(d)  BY <1>4 DEF EnsureLive, KeepResumes, WaitResumes
  <2> QED  BY <1>3, <2>1 DEF Turns
<1>5. ASSUME NEW d \in Callers, RevivedResumes(d) PROVE Turns(c)
  <2>1. call[d].on \in Callers  BY <1>0, <1>5, CallParts DEF RevivedResumes, TypedInv, RevivalFilled
  <2>2. revival' = revival \/ revival' = [revival EXCEPT ![call[d].on] = NoRevival]
    BY <1>5 DEF RevivedResumes
  <2>3. NoRevival.pc = "none"  BY DEF NoRevival
  <2> QED  BY <1>1, <2>1, <2>2, <2>3 DEF Turns
<1>6. ASSUME NEW d \in Callers, FactoryAnswers(d) PROVE Turns(c)
  <2>1. CASE Goes(d, "rejected")  BY <1>2, <2>1
  <2>2. CASE ColdAdopt(d)
    <3>1. PICK a \in Adoptions :
             \/ revival' = [revival EXCEPT ![d] = [@ EXCEPT !.pc = "opening", !.tok = a]]
             \/ revival' = [revival EXCEPT ![d] = [@ EXCEPT !.pc = "rejected"]]
      BY <2>2 DEF ColdAdopt
    <3>2. /\ [revival[d] EXCEPT !.pc = "opening", !.tok = a].pc = "opening"
          /\ [revival[d] EXCEPT !.pc = "rejected"].pc = "rejected"
      BY <1>0 DEF RevivalRecord
    <3> QED  BY <1>1, <3>1, <3>2
  <2> QED  BY <1>6, <2>1, <2>2 DEF FactoryAnswers
<1>7. ASSUME NEW d \in Callers, ReviverFails(d) \/ RevivalRejects(d) \/ ReviverClaims(d)
      PROVE  Turns(c)
  BY <1>2, <1>7 DEF ReviverFails, RevivalRejects, ReviverClaims, Rejects
<1>8. ASSUME NEW d \in Callers, NEW s \in Sessions, ReviverAttaches(d, s) PROVE Turns(c)
  <2>1. PICK q \in {"attached", "unwinding"} :
           revival' = [revival EXCEPT ![d] = [@ EXCEPT !.pc = q, !.session = s]]
    BY <1>8 DEF ReviverAttaches
  <2>2. CASE q = "attached"  BY <1>0, <1>8, <2>1, <2>2 DEF Turns
  <2>3. CASE q = "unwinding"  BY <1>0, <1>8, <2>1, <2>3 DEF Turns
  <2> QED  BY <2>2, <2>3
<1>9. ASSUME NEW d \in Callers, NEW s \in Sessions, SimpleReviverReturns(d, s) PROVE Turns(c)
  <2>1. revival' = [revival EXCEPT ![d] = [@ EXCEPT !.pc = "returned", !.session = s]]
    BY <1>9 DEF SimpleReviverReturns
  <2> QED  BY <1>0, <1>9, <2>1 DEF Turns
<1>10. ASSUME NEW d \in Callers, ReviverFinishes(d) PROVE Turns(c)
  <2>1. PICK q \in {"returned", "unwinding"} : revival' = [revival EXCEPT ![d] = [@ EXCEPT !.pc = q]]
    BY <1>10 DEF ReviverFinishes, Goes
  <2> QED  BY <1>0, <1>10, <2>1 DEF Turns
<1>11. ASSUME NEW d \in Callers, ReviveReturns(d) PROVE Turns(c)
  <2>1. PICK q \in {"resolved", "discarding"} : revival' = [revival EXCEPT ![d] = [@ EXCEPT !.pc = q]]
    BY <1>11 DEF ReviveReturns, Discards, Goes
  <2> QED  BY <1>0, <1>11, <2>1 DEF Turns
<1>12. ASSUME \/ Executor \/ ReclaimStarts \/ ReclaimProbed \/ UNCHANGED vars
              \/ \E s \in Sessions : SessionDisposed(s)
              \/ \E a \in Adoptions : TimerFires(a)
              \/ \E p \in Parks : ParkCommits(p) \/ ParkSettles(p)
              \/ \E d \in Callers : Collect(d)
       PROVE  revival' = revival
  BY <1>12 DEF Executor, SpawnRegisters, RestoreParked, IsolatedDetaches, HelperDrops,
               SpawnAttaches, FinishKeptAlive, FinishIsolated, FinishDisposes, RunStarts, RunEnds,
               SessionDisposed, TimerFires, ParkCommits, ParkSettles, ReclaimStarts, ReclaimProbed,
               Collect, vars
<1>13. ASSUME \/ \E k \in Releasers :
                    \/ Release(k) \/ TombstonePersisted(k) \/ TombstoneFails(k)
                    \/ ReleaseTimesOut(k) \/ ReleaseResumes(k) \/ ReleaseFinishes(k)
              \/ DisposeManager \/ CloseManager
       PROVE  revival' = revival
  BY <1>13 DEF Release, StartRelease, TombstonePersisted, TombstoneFails, ReleaseTimesOut,
               ReleaseResumes, ReleaseFinishes, DisposeManager, CloseManager
<1>14. revival' = revival => Turns(c)  BY DEF Turns
<1> QED
  BY <1>4, <1>5, <1>6, <1>7, <1>8, <1>9, <1>10, <1>11, <1>12, <1>13, <1>14
  DEF Next, Microtask, ReviverStep

LEMMA RevivalPasses ==
  ASSUME TypedInv, [Next]_vars, NEW c \in Callers
  PROVE  Passes(c)
<1>1. revival[c] \in RevivalRecord  BY CallParts DEF TypedInv, CallsGood
<1>2. \A s : /\ [revival[c] EXCEPT !.pc = "unwinding", !.session = s].pc = "unwinding"
             /\ [revival[c] EXCEPT !.pc = "unwinding"].pc = "unwinding"
             /\ [revival[c] EXCEPT !.pc = "discarding"].pc = "discarding"
  BY <1>1 DEF RevivalRecord
<1>3. ASSUME NEW s \in Sessions, NEW q \in {"attached", "unwinding"}, ReviverAttaches(c, s),
             revival'[c] = [revival[c] EXCEPT !.pc = q, !.session = s]
      PROVE  Passes(c)
  BY <1>2, <1>3 DEF Passes
<1>4. ASSUME NEW q \in {"returned", "unwinding"}, ReviverFinishes(c),
             revival'[c] = [revival[c] EXCEPT !.pc = q]
      PROVE  Passes(c)
  BY <1>2, <1>4 DEF Passes
<1>5. ASSUME NEW q \in {"resolved", "discarding"}, ReviveReturns(c),
             revival'[c] = [revival[c] EXCEPT !.pc = q]
      PROVE  Passes(c)
  BY <1>2, <1>5 DEF Passes
<1>6. CASE \/ revival'[c] = revival[c]
           \/ revival'[c].pc \in {"none", "factory", "opening", "claimed", "rejected"}
  BY <1>6 DEF Passes
<1>7. CASE \E s \in Sessions :
             SimpleReviverReturns(c, s) /\ revival'[c] = [revival[c] EXCEPT !.pc = "returned", !.session = s]
  BY <1>7 DEF Passes
<1> QED  BY <1>3, <1>4, <1>5, <1>6, <1>7, RevivalTurns DEF Turns

\* Who changes the status of a holder that stays attached.
LEMMA StatusMoves ==
  ASSUME BaseInv, [Next]_vars, NEW r \in Refs,
         reg.current = r, reg'.status[r] # reg.status[r]
  PROVE  \/ reg'.session[r] = None
         \/ ~SpawnOver(r)
         \/ \E s \in Sessions : reg.session[r] = s /\ ~Reviving(s)
         \/ \E c \in Callers :
               revival[c].ref = r /\ (revival[c].pc = "claimed" \/ ReviveReturns(c))
<1> DEFINE Goal == \/ reg'.session[r] = None
                   \/ ~SpawnOver(r)
                   \/ \E s \in Sessions : reg.session[r] = s /\ ~Reviving(s)
                   \/ \E c \in Callers :
                         revival[c].ref = r /\ (revival[c].pc = "claimed" \/ ReviveReturns(c))
<1>0. TypedInv /\ GoodRegistry(reg)  BY DEF BaseInv, SlotInv, TypedInv
<1>1. CASE RegistryEbbs  BY <1>0, <1>1, EbbLeaves
<1>2. ASSUME NEW q \in Refs, SpawnRegisters(q) \/ RestoreParked(q) PROVE Goal
  BY <1>2 DEF SpawnRegisters, RestoreParked, IsAvailable
<1>3. ASSUME NEW q \in Refs, IsolatedDetaches(q) \/ HelperDrops(q) PROVE Goal
  BY <1>0, <1>3, RefDetached, RefDropped DEF IsolatedDetaches, HelperDrops, UnregisterRef
<1>4. ASSUME NEW q \in Refs, NEW s \in Sessions, SpawnAttaches(q, s) PROVE Goal
  <2>1. reg' = reg \/ Brought(q, s, "running")
    BY <1>0, <1>4, BringerSets DEF SpawnAttaches
  <2>2. q = r  BY <2>1 DEF Brought
  <2> QED  BY <1>4, <2>2 DEF SpawnAttaches, SpawnOver
<1>5. ASSUME NEW q \in Refs, NEW s \in Sessions, FinishKeptAlive(q, s) \/ FinishIsolated(q, s)
      PROVE  Goal
  <2>1. spawn[q] = "working" /\ home[s] = q /\ Owns(s)
    BY <1>5 DEF FinishKeptAlive, FinishIsolated, Finishing
  <2>2. q = r  BY <1>0, <2>1, HoldsOwned DEF BaseInv, SlotInv, HomeInv, Current
  <2> QED  BY <2>1, <2>2 DEF SpawnOver
<1>6. ASSUME NEW s \in Sessions, RunStarts(s) \/ RunEnds(s) PROVE Goal
  BY <1>6 DEF RunStarts, RunEnds, Owns, Current
<1>7. ASSUME NEW p \in Parks, ParkCommits(p) PROVE Goal
  <2>1. CASE reg' = reg  BY <2>1
  <2>2. CASE StillParkable(p) /\ reg' = ParkedRegistry(park[p].ref)
    <3>1. park[p].ref = r  BY <2>2 DEF StillParkable, Current
    <3> QED  BY <1>0, <2>2, <3>1, ParkSets DEF GoodRegistry, Registry
  <2> QED  BY <1>7, <2>1, <2>2 DEF ParkCommits
<1>8. ASSUME NEW c \in Callers, ReviveReturns(c) \/ \E s \in Sessions : ReviverAttaches(c, s)
      PROVE  Goal
  <2>1. revival[c].ref \in Refs
    BY <1>0, <1>8 DEF ReviveReturns, ReviverAttaches, TypedInv, RevivalFilled
  <2>2. CASE revival[c].ref = r  BY <1>8, <2>2 DEF ReviverAttaches
  <2>3. CASE revival[c].ref # r
    <3>1. /\ ~Holds(reg, revival[c].ref) /\ ~IsRevivable(reg, revival[c].ref)
          /\ Current # revival[c].ref
      BY <1>0, <2>1, <2>3, HoldsRef DEF IsRevivable, Current
    <3>2. reg' = reg
      BY <1>8, <3>1 DEF ReviveReturns, ReviverAttaches, WithStatus, WithSession, AcceptsStatus,
                        AcceptsSession
    <3> QED  BY <3>2
  <2> QED  BY <2>2, <2>3
<1>9. ASSUME NEW q \in Refs, NEW s \in Sessions, FinishDisposes(q, s) PROVE Goal
  BY <1>9 DEF FinishDisposes
<1> QED
  BY <1>0, <1>1, <1>2, <1>3, <1>4, <1>5, <1>6, <1>7, <1>8, <1>9, EbbsOrActs DEF Acts

\* Who arms a timer.
Arms ==
    \/ \E r \in Refs, s \in Sessions : FinishKeptAlive(r, s)
    \/ \E s \in Sessions : RunEnds(s) /\ armed' = ArmedOnStatus("idle", s) /\ adopted' = adopted
    \/ \E c \in Callers :
          ReviveReturns(c) /\ armed' = ArmedOnStatus("idle", revival[c].ref) /\ adopted' = adopted
    \/ \E c \in Callers :
          /\ KeepResumes(c) /\ adopted' = adopted
          /\ adopted.ref \in Refs /\ reg.status[adopted.ref] = "idle"

LEMMA ArmsMove ==
  ASSUME TypedInv, [Next]_vars
  PROVE  armed' \subseteq armed \/ Arms
<1> USE DEF registryVars, adoptionVars, parkVars, callVars, otherVars
<1>0. AdoptTyped  BY DEF TypedInv
<1>1. ASSUME NEW e, armed' = ArmedOnStatus("running", e) PROVE armed' \subseteq armed
  BY <1>1 DEF ArmedOnStatus
<1>2. ASSUME NEW s \in Sessions, RunStarts(s) \/ RunEnds(s) PROVE armed' \subseteq armed \/ Arms
  BY <1>1, <1>2 DEF RunStarts, RunEnds, Arms
<1>3. ASSUME NEW c \in Callers, NEW s \in Sessions, ReviverAttaches(c, s)
      PROVE  armed' \subseteq armed
  BY <1>1, <1>3 DEF ReviverAttaches
<1>4. ASSUME NEW c \in Callers, ReviveReturns(c) PROVE armed' \subseteq armed \/ Arms
  BY <1>4 DEF ReviveReturns, Arms
<1>5. ASSUME NEW c \in Callers, KeepResumes(c) PROVE armed' \subseteq armed \/ Arms
  BY <1>0, <1>5 DEF KeepResumes, Rearmed, Arms, AdoptTyped, NotAdopted
<1>6. ASSUME \/ \E k, e, tomb : StartRelease(k, e, tomb)
             \/ \E r : UnregisterRef(r)
      PROVE  armed' \subseteq armed
  BY <1>6 DEF StartRelease, UnregisterRef
<1>7. ASSUME \/ \E k \in Releasers :
                   \/ Release(k) \/ ReleaseResumes(k) \/ ReleaseFinishes(k) \/ ReleaseTimesOut(k)
                   \/ TombstonePersisted(k) \/ TombstoneFails(k)
             \/ \E r \in Refs : HelperDrops(r)
             \/ \E s \in Sessions : SessionDisposed(s)
             \/ ReclaimStarts \/ ReclaimProbed \/ DisposeManager
      PROVE  armed' \subseteq armed
  BY <1>6, <1>7 DEF Release, ReleaseResumes, ReleaseFinishes, ReleaseTimesOut,
     TombstonePersisted, TombstoneFails, HelperDrops, SessionDisposed, ReclaimStarts,
     ReclaimProbed, DisposeManager
<1>8. ASSUME \/ \E r \in Refs : SpawnRegisters(r) \/ RestoreParked(r) \/ IsolatedDetaches(r)
             \/ \E r \in Refs, s \in Sessions :
                   SpawnAttaches(r, s) \/ FinishIsolated(r, s) \/ FinishDisposes(r, s)
             \/ \E p \in Parks : ParkCommits(p) \/ ParkSettles(p)
             \/ \E a \in Adoptions : TimerFires(a)
             \/ CloseManager \/ UNCHANGED vars
      PROVE  armed' \subseteq armed
  BY <1>8 DEF SpawnRegisters, RestoreParked, IsolatedDetaches, SpawnAttaches, FinishIsolated,
              FinishDisposes, ParkCommits, ParkSettles, TimerFires, CloseManager, vars
<1>9. ASSUME NEW c \in Callers,
             \/ WaitResumes(c) \/ RevivedResumes(c) \/ RevivalRejects(c) \/ EnsureLive(c) \/ Collect(c)
             \/ FactoryAnswers(c) \/ ReviverFails(c) \/ ReviverClaims(c) \/ ReviverFinishes(c)
             \/ \E s \in Sessions : SimpleReviverReturns(c, s)
      PROVE  armed' \subseteq armed
  BY <1>9 DEF WaitResumes, RevivedResumes, RevivalRejects, EnsureLive, Collect, FactoryAnswers,
              ReviverFails, ReviverClaims, ReviverFinishes, SimpleReviverReturns
<1> QED
  BY <1>2, <1>3, <1>4, <1>5, <1>7, <1>8, <1>9 DEF Next, Microtask, Executor, ReviverStep, Arms

LEMMA StartUpStep ==
  ASSUME BaseInv, StartUpInv, [Next]_vars
  PROVE  StartUpInv'
<1> SUFFICES ASSUME NEW c \in Callers, revival'[c].pc \in {"attached", "returned"},
                    reg'.current = revival'[c].ref,
                    reg'.session[revival'[c].ref] = revival'[c].session
             PROVE  /\ reg'.status[revival'[c].ref] = "running"
                    /\ adopted'.ref = revival'[c].ref => adopted'.tok \notin armed'
  BY DEF StartUpInv, StartsUp
<1>0. /\ TypedInv /\ GoodRegistry(reg) /\ HomeInv /\ revival \in [Callers -> RevivalRecord]
      /\ \A d \in Callers : GoodFlight(revival[d])
      /\ \A d \in Callers : Underway(d) => revival[d].ref \in Refs
  BY CallParts DEF BaseInv, SlotInv, TypedInv, CallsGood, FlightInv, RevivalFilled, Underway,
                   IsUnderway
<1>1. ASSUME NEW s \in Sessions, ReviverAttaches(c, s), revival'[c].session = s,
             revival'[c].ref = revival[c].ref
      PROVE  /\ reg'.status[revival'[c].ref] = "running"
             /\ adopted'.ref = revival'[c].ref => adopted'.tok \notin armed'
  <2>1. Underway(c) /\ revival[c].session = None
    BY <1>0, <1>1 DEF ReviverAttaches, Underway, IsUnderway, HasSession, GoodFlight
  <2>2. PICK r \in Refs : r = revival[c].ref  BY <1>0, <2>1
  <2>3. Brought(r, s, "running")
    BY <1>0, <1>1, <2>2, BringerSets DEF ReviverAttaches, HomeInv
  <2>4. reg'.status[r] = "running"
    BY <1>0, <2>3 DEF Brought, GoodRegistry, Registry
  <2>5. ASSUME adopted.ref = r PROVE armed' = armed \ {adopted.tok}
    <3>1. ~Disposed  BY <2>3, <2>5 DEF Brought, BaseInv, SlotInv, AdoptInv
    <3>2. reg.session[r] = None  BY <2>1, <2>2, <2>3 DEF Brought, BaseInv, AwaitInv
    <3>3. spawn[r] # "building"  BY <1>0, <2>1, <2>2 DEF GoodFlight, Underway, SpawnOver
    <3>4. reg.status[r] # "running"
      BY <2>3, <3>2, <3>3 DEF Brought, BaseInv, StateInv, StateOf
    <3>5. StatusChanges(reg, "running", r)
      BY <1>0, <2>3, <3>4, HoldsRef DEF Brought, StatusChanges, AcceptsStatus
    <3> QED  BY <1>1, <2>2, <2>3, <2>5, <3>1, <3>5 DEF ReviverAttaches, ArmedOnStatus, Brought, Current
  <2>6. adopted' = adopted  BY <1>1 DEF ReviverAttaches
  <2> QED  BY <1>1, <2>2, <2>4, <2>5, <2>6
<1>2. ASSUME NEW s \in Sessions, SimpleReviverReturns(c, s), revival'[c].session = s,
             revival'[c].ref = revival[c].ref
      PROVE  FALSE
  <2>1. revival[c].ref \in Refs
    BY <1>0, <1>2 DEF SimpleReviverReturns, Underway, IsUnderway
  <2> QED  BY <1>0, <1>2, <2>1 DEF SimpleReviverReturns, HomeInv
<1>3. ASSUME revival[c].pc \in {"attached", "returned"}, ~ReviveReturns(c),
             revival'[c].session = revival[c].session, revival'[c].ref = revival[c].ref
      PROVE  /\ reg'.status[revival'[c].ref] = "running"
             /\ adopted'.ref = revival'[c].ref => adopted'.tok \notin armed'
  <2>1. PICK r \in Refs, s \in Sessions : r = revival[c].ref /\ s = revival[c].session
    BY <1>0, <1>3 DEF TypedInv, RevivalFilled
  <2>2. Underway(c) /\ Born(r) /\ SpawnOver(r) /\ Reviving(s)
    BY <1>0, <1>3, <2>1 DEF GoodFlight, Underway, IsUnderway, Reviving
  <2>3. reg.current = r /\ reg'.session[r] = s  BY <1>0, <1>3, <2>1, <2>2, RefsStay
  <2>4. \A d \in Callers : Underway(d) /\ revival[d].ref = r => d = c
    BY <2>1, <2>2 DEF BaseInv, SlotInv, EntryInv
  <2>5. \A d \in Callers : ReviveReturns(d) => revival[d].ref # r
    BY <1>3, <2>4 DEF ReviveReturns, Underway, IsUnderway
  <2>6. reg.session[r] = s
    <3>1. \A t \in Sessions : ~SpawnAttaches(r, t)  BY <2>2 DEF SpawnAttaches, SpawnOver
    <3>2. ASSUME NEW d \in Callers, NEW t \in Sessions, ReviverAttaches(d, t) PROVE revival[d].ref # r
      BY <1>3, <2>4, <3>2 DEF ReviverAttaches, Underway, IsUnderway
    <3> QED  BY <2>3, <2>5, <3>1, <3>2, FieldMoves DEF Detaches, Brings
  <2>7. reg.status[r] = "running" /\ (adopted.ref = r => adopted.tok \notin armed)
    BY <1>3, <2>1, <2>3, <2>6 DEF StartUpInv, StartsUp
  <2>8. reg'.status[r] = reg.status[r]
    <3>1. \A d \in Callers : revival[d].ref = r => revival[d].pc # "claimed"
      BY <1>3, <2>4 DEF Underway, IsUnderway
    <3> QED  BY <2>2, <2>3, <2>5, <2>6, <3>1, StatusMoves
  <2>9. ASSUME NEW q \in Refs, NEW t \in Sessions, FinishKeptAlive(q, t) PROVE FALSE
    <3>1. spawn[q] = "working" /\ home[t] = q /\ Owns(t)
      BY <2>9 DEF FinishKeptAlive, Finishing
    <3>2. q = r  BY <1>0, <2>3, <3>1, HoldsOwned DEF HomeInv, Current
    <3> QED  BY <2>2, <3>1, <3>2 DEF SpawnOver
  <2>10. ASSUME adopted' = adopted, adopted.ref = r PROVE adopted'.tok \notin armed'
    <3>1. ASSUME NEW t \in Sessions, RunEnds(t) PROVE FALSE
      BY <2>2, <2>3, <2>6, <3>1 DEF RunEnds, Owns, Current
    <3>2. ASSUME NEW d \in Callers, ReviveReturns(d),
                 armed' = ArmedOnStatus("idle", revival[d].ref)
          PROVE  armed' = armed
      <4>1. revival[d].ref \in Refs /\ revival[d].ref # r
        BY <1>0, <2>5, <3>2 DEF ReviveReturns, Underway, IsUnderway
      <4>2. ~Holds(reg, revival[d].ref)  BY <1>0, <2>3, <4>1, HoldsRef
      <4> QED  BY <3>2, <4>2 DEF ArmedOnStatus, StatusChanges, AcceptsStatus
    <3> QED  BY <1>0, <2>7, <2>9, <2>10, <3>1, <3>2, ArmsMove DEF Arms
  <2>11. adopted'.ref = r => adopted' = adopted
    <3>1. ASSUME NEW d \in Callers, ColdAdopt(d), FactoryAnswers(d) PROVE adopted'.ref # r
      <4>1. revival[d].pc = "factory"  BY <3>1 DEF FactoryAnswers
      <4>2. PICK a \in Adoptions :
              adopted' = [tok |-> a, ref |-> revival[d].ref, revive |-> TRUE, ttl |-> TRUE]
        BY <3>1 DEF ColdAdopt
      <4>3. adopted'.ref = revival[d].ref  BY <4>2
      <4> QED  BY <1>3, <2>4, <4>1, <4>3 DEF Underway, IsUnderway
    <3>2. DisposeManager => adopted' \in {adopted, NotAdopted}
      BY DEF DisposeManager, StartRelease, adoptionVars
    <3> QED  BY <1>0, <2>9, <3>1, <3>2, AdoptionMoves DEF NotAdopted
  <2> QED  BY <1>3, <2>1, <2>7, <2>8, <2>10, <2>11
<1>4. ReviveReturns(c) => revival'[c].pc \notin {"attached", "returned"}
  BY <1>0 DEF ReviveReturns, Discards, Goes, RevivalRecord
<1>5. /\ ReviverFinishes(c) => revival[c].pc = "attached"
      /\ \A q : /\ [revival[c] EXCEPT !.pc = q].ref = revival[c].ref
                /\ [revival[c] EXCEPT !.pc = q].session = revival[c].session
                /\ \A s : /\ [revival[c] EXCEPT !.pc = q, !.session = s].ref = revival[c].ref
                          /\ [revival[c] EXCEPT !.pc = q, !.session = s].session = s
  BY <1>0 DEF ReviverFinishes, RevivalRecord
<1>6. CASE revival'[c] = revival[c]  BY <1>3, <1>4, <1>6
<1>7. CASE \E s \in Sessions :
             ReviverAttaches(c, s) /\ revival'[c] = [revival[c] EXCEPT !.pc = "attached", !.session = s]
  BY <1>1, <1>5, <1>7
<1>8. CASE \E s \in Sessions :
             SimpleReviverReturns(c, s) /\ revival'[c] = [revival[c] EXCEPT !.pc = "returned", !.session = s]
  BY <1>2, <1>5, <1>8
<1>9. CASE ReviverFinishes(c) /\ revival'[c] = [revival[c] EXCEPT !.pc = "returned"]
  <2>1. revival[c].pc = "attached" /\ ~ReviveReturns(c)
    BY <1>5, <1>9 DEF ReviveReturns
  <2> QED  BY <1>3, <1>5, <1>9, <2>1
<1> QED  BY <1>0, <1>4, <1>6, <1>7, <1>8, <1>9, RevivalPasses DEF Passes

LEMMA YieldStep ==
  ASSUME HandInv, NoOrphanTimer, [Next]_vars
  PROVE  YieldInv'
<1> SUFFICES ASSUME NEW p \in Parks, park'[p].pc = "yielding", NEW c \in Callers
             PROVE  /\ revival'[c].pc \notin {"returned", "resolved"}
                    /\ revival'[c].pc = "attached" => revival'[c].session # park'[p].session
  BY DEF YieldInv, YieldsTo
<1>0. /\ BaseInv /\ JoinInv /\ TypedInv /\ ParkTyped /\ HomeInv
      /\ park \in [Parks -> ParkRecord \cup {NoPark}]
      /\ revival \in [Callers -> RevivalRecord]
      /\ GoodFlight(revival[c])
  BY CallParts DEF HandInv, BaseInv, SlotInv, TypedInv, CallsGood, ParkTyped, ParkRecord, FlightInv
<1>1. ASSUME park[p].pc = "yielding", park'[p].session = park[p].session
      PROVE  /\ revival'[c].pc \notin {"returned", "resolved"}
             /\ revival'[c].pc = "attached" => revival'[c].session # park'[p].session
  <2>1. ~Quiet  BY <1>1 DEF Quiet, ParkReady
  <2>2. YieldsTo(p)  BY DEF HandInv, YieldInv
  <2>3. ~ReviveReturns(c)  BY <1>1, <2>2 DEF YieldsTo, ReviveReturns
  <2>4. ~ReviverFinishes(c)  BY <2>1 DEF ReviverFinishes
  <2>5. \A s \in Sessions : ~ReviverAttaches(c, s) /\ ~SimpleReviverReturns(c, s)
    BY <2>1 DEF ReviverAttaches, SimpleReviverReturns
  <2> QED  BY <1>0, <1>1, <2>2, <2>3, <2>4, <2>5, RevivalPasses DEF Passes, YieldsTo
<1>2. ASSUME NEW q \in Parks, ParkMarks(q)
      PROVE  park[p].pc = "yielding" /\ park'[p].session = park[p].session
  <2>1. CASE q # p  BY <1>0, <1>2, <2>1 DEF ParkMarks
  <2>2. CASE q = p
    <3>1. park[p] \in ParkRecord  BY <1>0, <1>2, <2>2 DEF ParkMarks
    <3> QED  BY <1>0, <1>2, <2>2, <3>1 DEF ParkMarks, ParkRecord
  <2> QED  BY <2>1, <2>2
<1>3. ASSUME NEW q \in Parks, ParkEnds(q)
      PROVE  park[p].pc = "yielding" /\ park'[p].session = park[p].session
  BY <1>0, <1>3 DEF ParkEnds, SettlePark, NoPark
<1>4. ASSUME NEW q \in Parks, ParkStarts(q)
      PROVE  /\ revival'[c].pc \notin {"returned", "resolved"}
             /\ revival'[c].pc = "attached" => revival'[c].session # park'[p].session
  <2>1. /\ Quiet /\ revival' = revival /\ adopted.tok \in armed
        /\ CanPark
    BY <1>4 DEF ParkStarts, HandInv, NoOrphanTimer
  <2>2. park[p].pc # "yielding"  BY <2>1 DEF Quiet, ParkReady
  <2>3. q = p /\ park'[p].session = Attached
    BY <1>0, <1>4, <2>2 DEF ParkStarts
  <2>4. revival[c].pc # "returned"  BY <2>1 DEF Quiet, RevivalReady
  <2>5. revival[c].pc # "resolved"
    <3>1. SUFFICES ASSUME revival[c].pc = "resolved" PROVE FALSE  OBVIOUS
    <3>2. PICK d \in Callers : call[d].on = c  BY <1>0, <3>1 DEF JoinInv
    <3>3. call[d].pc = "reviving"  BY <1>0, <3>2, LifecycleAssumption DEF JoinInv
    <3> QED  BY <2>1, <3>1, <3>2, <3>3 DEF Quiet, CallReady
  <2>6. ASSUME revival[c].pc = "attached", revival[c].session = Attached PROVE FALSE
    <3>1. PICK r \in Refs : r = Current /\ reg.session[r] = Attached /\ Attached \in Sessions
      BY <1>0, <2>1, CurrentTyped DEF CanPark, Attached
    <3>2. revival[c].ref = r
      BY <1>0, <2>6, <3>1 DEF HomeInv, GoodFlight, HasSession
    <3> QED  BY <2>1, <2>6, <3>1, <3>2 DEF HandInv, StartUpInv, StartsUp, CanPark, Current
  <2> QED  BY <2>1, <2>3, <2>4, <2>5, <2>6
<1>5. CloseManager => park' = park  BY DEF CloseManager
<1> QED  BY <1>0, <1>1, <1>2, <1>3, <1>4, <1>5, ParksMove DEF ParkMoves

\* Only the commit of a park takes a session out of service.
LEMMA ParkedOutMoves ==
  ASSUME [Next]_vars
  PROVE  \/ parkedOut' = parkedOut
         \/ \E p \in Parks : /\ ParkCommits(p) /\ StillParkable(p)
                             /\ reg' = ParkedRegistry(park[p].ref)
                             /\ sess' = Disposing(park[p].session)
                             /\ parkedOut' = parkedOut \cup {park[p].session}
<1> USE DEF registryVars, adoptionVars, parkVars, callVars, otherVars
<1>1. ASSUME NEW p \in Parks, ParkCommits(p)
      PROVE  \/ parkedOut' = parkedOut
             \/ /\ ParkCommits(p) /\ StillParkable(p)
                /\ reg' = ParkedRegistry(park[p].ref)
                /\ sess' = Disposing(park[p].session)
                /\ parkedOut' = parkedOut \cup {park[p].session}
  BY <1>1 DEF ParkCommits
<1>2. ASSUME \/ Executor \/ ReclaimStarts \/ ReclaimProbed \/ CloseManager \/ UNCHANGED vars
             \/ \E s \in Sessions : SessionDisposed(s)
             \/ \E a \in Adoptions : TimerFires(a)
             \/ \E p \in Parks : ParkSettles(p)
      PROVE  parkedOut' = parkedOut
  BY <1>2 DEF Executor, SpawnRegisters, RestoreParked, IsolatedDetaches, HelperDrops,
              SpawnAttaches, FinishKeptAlive, FinishIsolated, FinishDisposes, RunStarts, RunEnds,
              SessionDisposed, TimerFires, ParkSettles, ReclaimStarts, ReclaimProbed,
              CloseManager, vars
<1>3. ASSUME NEW c \in Callers,
             \/ KeepResumes(c) \/ WaitResumes(c) \/ RevivedResumes(c) \/ RevivalRejects(c)
             \/ EnsureLive(c) \/ Collect(c) \/ ReviveReturns(c) \/ ReviverStep(c)
      PROVE  parkedOut' = parkedOut
  BY <1>3 DEF KeepResumes, WaitResumes, RevivedResumes, RevivalRejects, EnsureLive, Collect,
              ReviveReturns, ReviverStep, FactoryAnswers, ReviverFails, ReviverClaims,
              ReviverFinishes, ReviverAttaches, SimpleReviverReturns
<1>4. ASSUME \/ \E k \in Releasers :
                   \/ Release(k) \/ TombstonePersisted(k) \/ TombstoneFails(k)
                   \/ ReleaseTimesOut(k) \/ ReleaseResumes(k) \/ ReleaseFinishes(k)
             \/ DisposeManager
      PROVE  parkedOut' = parkedOut
  BY <1>4 DEF Release, StartRelease, TombstonePersisted, TombstoneFails, ReleaseTimesOut,
              ReleaseResumes, ReleaseFinishes, DisposeManager
<1> QED  BY <1>1, <1>2, <1>3, <1>4 DEF Next, Microtask

LEMMA PutAwayStep ==
  ASSUME HandInv, [Next]_vars
  PROVE  PutAwayInv'
<1> SUFFICES ASSUME NEW s \in parkedOut' PROVE PutAway(s)'
  BY DEF PutAwayInv
<1>0. /\ BaseInv /\ TypedInv /\ SessTyped /\ GoodRegistry(reg) /\ BornInv
      /\ revival \in [Callers -> RevivalRecord]
      /\ park \in [Parks -> ParkRecord \cup {NoPark}]
  BY CallParts DEF HandInv, BaseInv, SlotInv, TypedInv, CallsGood, ParkTyped, ParkRecord
<1>1. CASE s \in parkedOut
  <2>1. s \in Sessions /\ s # None /\ PutAway(s)
    BY <1>0, <1>1, RegistryAssumption DEF SessTyped, HandInv, PutAwayInv
  <2>2. PICK r \in Refs : home[s] = r  BY <1>0, <2>1 DEF PutAway, BornInv, SessTyped
  <2>3. Ages(s)  BY <1>0, <2>1, SessionAges DEF PutAway
  <2>4. sess'[s] \in {"disposing", "disposed"} /\ home'[s] = r
    BY <2>1, <2>2, <2>3 DEF PutAway, Ages
  <2>5. reg'.session[r] # s
    <3>1. \A t \in Sessions, c \in Callers :
             SpawnAttaches(r, t) \/ ReviverAttaches(c, t) => t # s
      BY <2>1 DEF SpawnAttaches, ReviverAttaches, PutAway
    <3>2. \A c \in Callers : ReviveReturns(c) => revival[c].session # s
      BY <2>1 DEF ReviveReturns, PutAway
    <3>3. reg.session[r] # s  BY <2>1, <2>2 DEF PutAway
    <3>4. ~Detaches(r) \/ reg'.session[r] # s  BY <2>1 DEF Detaches
    <3>5. Brings(r) => reg'.session[r] # s
      BY <2>1, <3>1, <3>2 DEF Brings, SpawnAttaches, ReviverAttaches, PutAway
    <3> QED  BY <1>0, <3>3, <3>4, <3>5, FieldMoves
  <2>6. ASSUME NEW c \in Callers, revival'[c].pc \in {"attached", "returned", "resolved"}
        PROVE  revival'[c].session # s
    <3>1. \A t \in Sessions : ReviverAttaches(c, t) \/ SimpleReviverReturns(c, t) => t # s
      BY <2>1 DEF ReviverAttaches, SimpleReviverReturns, PutAway
    <3>2. ReviverFinishes(c) \/ ReviveReturns(c) => revival[c].session # s
      BY <2>1 DEF ReviverFinishes, ReviveReturns, PutAway
    <3>3. /\ \A q : [revival[c] EXCEPT !.pc = q].session = revival[c].session
          /\ \A t : /\ [revival[c] EXCEPT !.pc = "attached", !.session = t].session = t
                   /\ [revival[c] EXCEPT !.pc = "returned", !.session = t].session = t
      BY <1>0 DEF RevivalRecord
    <3>4. CASE revival'[c] = revival[c]  BY <2>1, <2>6, <3>4 DEF PutAway
    <3>5. CASE \E t \in Sessions :
            \/ /\ ReviverAttaches(c, t)
               /\ revival'[c] = [revival[c] EXCEPT !.pc = "attached", !.session = t]
            \/ /\ SimpleReviverReturns(c, t)
               /\ revival'[c] = [revival[c] EXCEPT !.pc = "returned", !.session = t]
      <4>1. PICK t \in Sessions :
              /\ ReviverAttaches(c, t) \/ SimpleReviverReturns(c, t)
              /\ \/ revival'[c] = [revival[c] EXCEPT !.pc = "attached", !.session = t]
                 \/ revival'[c] = [revival[c] EXCEPT !.pc = "returned", !.session = t]
        BY <3>5
      <4>2. revival'[c].session = t  BY <3>3, <4>1
      <4> QED  BY <3>1, <4>1, <4>2
    <3>6. CASE \/ ReviverFinishes(c) /\ revival'[c] = [revival[c] EXCEPT !.pc = "returned"]
               \/ ReviveReturns(c) /\ revival'[c] = [revival[c] EXCEPT !.pc = "resolved"]
      BY <3>2, <3>3, <3>6
    <3> QED  BY <1>0, <2>6, <3>4, <3>5, <3>6, RevivalPasses DEF Passes
  <2> QED  BY <2>4, <2>5, <2>6 DEF PutAway
<1>2. ASSUME NEW p \in Parks, ParkCommits(p), StillParkable(p), reg' = ParkedRegistry(park[p].ref),
             sess' = Disposing(park[p].session), s = park[p].session
      PROVE  PutAway(s)'
  <2>1. park[p] # NoPark /\ park[p].pc = "yielding" /\ revival' = revival /\ home' = home
    BY <1>2 DEF ParkCommits, NoPark, callVars
  <2>2. PICK r \in Refs : r = park[p].ref /\ home[s] = r /\ s \in Sessions
    BY <1>0, <1>2, <2>1 DEF ParkRecord, BaseInv, ParkInv
  <2>3. sess[s] # "unborn"  BY <1>0, <2>2 DEF BornInv
  <2>4. sess'[s] \in {"disposing", "disposed"}
    BY <1>0, <1>2, <2>2, <2>3 DEF Disposing, SessTyped
  <2>5. reg'.session[r] = None
    <3>1. reg.current = r /\ reg \in Registry  BY <1>0, <1>2, <2>2 DEF StillParkable, Current, GoodRegistry
    <3>2. reg' = ParkedRegistry(r)  BY <1>2, <2>2
    <3>3. reg'.session = [reg.session EXCEPT ![r] = None]  BY <1>0, <2>2, <3>1, <3>2, ParkSets
    <3>4. reg.session \in [Refs -> Sessions \cup {None}]  BY <3>1 DEF Registry
    <3> QED  BY <2>2, <3>3, <3>4
  <2>6. \A c \in Callers :
          revival[c].pc \in {"attached", "returned", "resolved"} => revival[c].session # s
    BY <1>2, <2>1 DEF HandInv, YieldInv, YieldsTo
  <2> QED  BY <2>1, <2>2, <2>4, <2>5, <2>6 DEF PutAway
<1> QED  BY <1>1, <1>2, ParkedOutMoves

\* What a call returns: the attached session, or what its revival resolved to.
LEMMA HandsOutWhat ==
  ASSUME TypedInv, [Next]_vars, NEW c \in Callers, NEW s, HandsOut(c, s)
  PROVE  \/ Attached = s /\ Attached # None
         \/ \E d \in Callers : revival[d].pc = "resolved" /\ revival[d].session = s
<1> USE DEF registryVars, adoptionVars, parkVars, callVars, otherVars
<1> DEFINE Goal == \/ Attached = s /\ Attached # None
                   \/ \E d \in Callers : revival[d].pc = "resolved" /\ revival[d].session = s
<1>0. call \in [Callers -> CallRecord] /\ call' # call
  BY CallParts DEF TypedInv, CallsGood, HandsOut
<1>1. ASSUME NEW d \in Callers, NEW v, call' = [call EXCEPT ![d] = v] PROVE v.pc = "done" /\ v.got = s
  BY <1>0, <1>1 DEF HandsOut
<1>2. ASSUME NEW d \in Callers, NEW x, Returns(d, x) PROVE x = s
  <2> DEFINE v == [NoCall EXCEPT !.pc = "done", !.got = x]
  <2>1. v.got = x  BY DEF NoCall
  <2>2. call' = [call EXCEPT ![d] = v]  BY <1>2 DEF Returns
  <2> HIDE DEF v
  <2> QED  BY <1>1, <2>1, <2>2
<1>3. ASSUME NEW d \in Callers, Throws(d) PROVE FALSE
  <2> DEFINE v == [NoCall EXCEPT !.pc = "failed"]
  <2>1. v.pc # "done"  BY DEF NoCall
  <2>2. call' = [call EXCEPT ![d] = v]  BY <1>3 DEF Throws
  <2> HIDE DEF v
  <2> QED  BY <1>1, <2>1, <2>2
<1>4. ASSUME NEW d \in Callers, Lookup(d) PROVE Goal
  <2>1. ASSUME NEW e, call' = [call EXCEPT ![d] = [NoCall EXCEPT !.pc = "reviving", !.on = e]]
        PROVE  FALSE
    <3> DEFINE v == [NoCall EXCEPT !.pc = "reviving", !.on = e]
    <3>1. v.pc # "done"  BY DEF NoCall
    <3>2. call' = [call EXCEPT ![d] = v]  BY <2>1
    <3> HIDE DEF v
    <3> QED  BY <1>1, <3>1, <3>2
  <2> QED  BY <1>2, <1>3, <1>4, <2>1 DEF Lookup
<1>5. ASSUME NEW d \in Callers, KeepResumes(d) \/ WaitResumes(d) PROVE Goal
  BY <1>2, <1>4, <1>5 DEF KeepResumes, WaitResumes
<1>6. ASSUME NEW d \in Callers, RevivedResumes(d) PROVE Goal
  <2>1. call[d].on \in Callers  BY <1>6 DEF RevivedResumes, TypedInv, RevivalFilled
  <2> QED  BY <1>2, <1>3, <1>6, <2>1 DEF RevivedResumes
<1>7. ASSUME NEW d \in Callers, EnsureLive(d) PROVE Goal
  <2>1. ASSUME NEW q, NEW r, q # "done",
               call' = [call EXCEPT ![d] = [NoCall EXCEPT !.pc = q, !.park = parkEntry, !.ref = r]]
        PROVE  FALSE
    <3> DEFINE v == [NoCall EXCEPT !.pc = q, !.park = parkEntry, !.ref = r]
    <3>1. v.pc # "done"  BY <2>1 DEF NoCall
    <3>2. call' = [call EXCEPT ![d] = v]  BY <2>1
    <3> HIDE DEF v
    <3> QED  BY <1>1, <3>1, <3>2
  <2>2. ASSUME call' = [call EXCEPT ![d] = [NoCall EXCEPT !.pc = "waiting", !.park = parkEntry]]
        PROVE  FALSE
    <3> DEFINE v == [NoCall EXCEPT !.pc = "waiting", !.park = parkEntry]
    <3>1. v.pc # "done"  BY DEF NoCall
    <3>2. call' = [call EXCEPT ![d] = v]  BY <2>2
    <3> HIDE DEF v
    <3> QED  BY <1>1, <3>1, <3>2
  <2> QED  BY <1>4, <1>7, <2>1, <2>2 DEF EnsureLive
<1>8. ASSUME NEW d \in Callers, Collect(d) PROVE FALSE
  <2>1. NoCall.pc # "done" /\ call' = [call EXCEPT ![d] = NoCall]  BY <1>8 DEF Collect, NoCall
  <2> QED  BY <1>1, <2>1
<1>9. ASSUME NEW d \in Callers, ReviverStep(d) \/ ReviveReturns(d) \/ RevivalRejects(d)
      PROVE  call' = call
  BY <1>9 DEF ReviverStep, FactoryAnswers, ReviverFails, ReviverClaims, ReviverFinishes,
              ReviverAttaches, SimpleReviverReturns, ReviveReturns, RevivalRejects
<1>10. ASSUME \/ Executor \/ ReclaimStarts \/ ReclaimProbed \/ UNCHANGED vars
              \/ \E q \in Sessions : SessionDisposed(q)
              \/ \E a \in Adoptions : TimerFires(a)
              \/ \E p \in Parks : ParkCommits(p) \/ ParkSettles(p)
       PROVE  call' = call
  BY <1>10 DEF Executor, SpawnRegisters, RestoreParked, IsolatedDetaches, HelperDrops,
               SpawnAttaches, FinishKeptAlive, FinishIsolated, FinishDisposes, RunStarts, RunEnds,
               SessionDisposed, TimerFires, ParkCommits, ParkSettles, ReclaimStarts, ReclaimProbed,
               vars
<1>11. ASSUME \/ \E k \in Releasers :
                    \/ Release(k) \/ TombstonePersisted(k) \/ TombstoneFails(k)
                    \/ ReleaseTimesOut(k) \/ ReleaseResumes(k) \/ ReleaseFinishes(k)
              \/ DisposeManager \/ CloseManager
       PROVE  call' = call
  BY <1>11 DEF Release, StartRelease, TombstonePersisted, TombstoneFails, ReleaseTimesOut,
               ReleaseResumes, ReleaseFinishes, DisposeManager, CloseManager
<1> QED  BY <1>0, <1>4, <1>5, <1>6, <1>7, <1>8, <1>9, <1>10, <1>11 DEF Next, Microtask

\* As long as no idle timer outlives the adoption that armed it, ensureLive never
\* returns a session that a park took out of service: it cancels the park while
\* the session is attached, or awaits it and revives.
THEOREM ParkedStaysParked == Spec /\ []NoOrphanTimer => ParkedNeverHandedOut
<1>1. HandInv /\ NoOrphanTimer /\ [Next]_vars => HandInv'
  <2> SUFFICES ASSUME HandInv, NoOrphanTimer, [Next]_vars PROVE HandInv'
    OBVIOUS
  <2>1. BaseInv' /\ JoinInv'  BY BaseStep, JoinStep DEF HandInv, BaseInv, SlotInv
  <2> QED  BY <2>1, StartUpStep, YieldStep, PutAwayStep DEF HandInv
<1>2. HandInv /\ [Next]_vars =>
         [\A c \in Callers, s \in Sessions : HandsOut(c, s) => s \notin parkedOut]_vars
  <2> SUFFICES ASSUME HandInv, [Next]_vars, NEW c \in Callers, NEW s \in Sessions, HandsOut(c, s),
                      s \in parkedOut
               PROVE  FALSE
    OBVIOUS
  <2>1. TypedInv /\ HomeInv /\ PutAway(s)  BY DEF HandInv, BaseInv, SlotInv, PutAwayInv
  <2>2. Attached # s \/ Attached = None
    BY <2>1, CurrentTyped DEF PutAway, HomeInv, Attached
  <2> QED  BY <2>1, <2>2, HandsOutWhat DEF PutAway
<1> QED  BY <1>1, <1>2, HandInitially, PTL DEF Spec, ParkedNeverHandedOut

-----------------------------------------------------------------------------
(* The idle timer, within one generation of the id                         *)

\* With a second generation the park of the first stands in the way of the timer
\* of the second.
OneGeneration == \A q, r \in Refs : q = r

\* Whoever may take over or end a park or a revival finds no timer: a timer is
\* armed only for an agent that is neither parked, being parked nor revived.
TimerInv ==
    /\ NoOrphanTimer
    /\ parkEntry # None => armed = {}
    /\ armed # {} => \A r \in Refs : reg.current = r => reg.status[r] # "parked"
    /\ \A c \in Callers : Underway(c) => armed = {} /\ parkEntry = None
    /\ \A p \in Parks : park[p] # NoPark => SpawnOver(park[p].ref) /\ Born(park[p].ref)

\* A session that its revival takes back, attached or not, is not idle.
BacksOut(c) ==
    LET ref == revival[c].ref IN
    /\ revival[c].pc \in {"discarding", "unwinding"}
    /\ reg.current = ref /\ reg.session[ref] = revival[c].session
    => Disposed \/ (revival[c].pc = "unwinding" /\ reg.status[ref] # "idle")

BackOutInv == \A c \in Callers : BacksOut(c)

\* A park takes the session that is attached.
TakesAttached ==
    parkEntry # None /\ Attached # None =>
        park[parkEntry].pc = "yielding" /\ Attached = park[parkEntry].session

\* The agent has an adoption with a timer and a session ...
Timed ==
    /\ ~Disposed /\ adopted.tok # None /\ adopted.ttl
    /\ adopted.ref = Current /\ Attached # None

\* ... and as long as it is idle the timer is armed, or a park of it is on its
\* way, or the caller that cancelled the park will arm the timer again.
WillPark == parkEntry # None /\ park[parkEntry].pc = "yielding" /\ ~park[parkEntry].cancelled
WillRearm == \E c \in Callers : call[c].pc = "keeping" /\ call[c].ref = Current

TimedInv ==
    Timed /\ (reg.status[Current] = "idle" \/ parkEntry # None)
    => adopted.tok \in armed \/ WillPark \/ WillRearm

IdleInv == HandInv /\ TimerInv /\ BackOutInv /\ TakesAttached /\ TimedInv

LEMMA IdleInitially == Init => IdleInv
<1> SUFFICES ASSUME Init PROVE IdleInv
  OBVIOUS
<1>1. TimerInv
  BY DEF Init, TimerInv, NoOrphanTimer, Underway, IsUnderway, NoRevival
<1>2. BackOutInv /\ TakesAttached /\ TimedInv
  BY DEF Init, BackOutInv, BacksOut, TakesAttached, TimedInv, Timed, NotAdopted, NoRevival
<1> QED  BY <1>1, <1>2, HandInitially DEF IdleInv

LEMMA HandParts ==
  ASSUME HandInv
  PROVE  /\ BaseInv /\ JoinInv /\ StartUpInv /\ SlotInv /\ TypedInv /\ GoodRegistry(reg)
         /\ AdoptTyped /\ ParkTyped /\ HomeInv /\ AdoptInv /\ ParkInv /\ AwaitInv
         /\ park \in [Parks -> ParkRecord \cup {NoPark}]
         /\ revival \in [Callers -> RevivalRecord] /\ call \in [Callers -> CallRecord]
         /\ \A c \in Callers : GoodFlight(revival[c])
         /\ \A c \in Callers : Underway(c) => revival[c].ref \in Refs
BY CallParts DEF HandInv, BaseInv, SlotInv, TypedInv, CallsGood, ParkTyped, ParkRecord, FlightInv,
                 RevivalFilled, Underway, IsUnderway

\* The session attached to an agent that is being revived is the revival's.
LEMMA RevivedSession ==
  ASSUME HandInv, OneGeneration, NEW c \in Callers, Underway(c), Attached # None
  PROVE  /\ Current \in Refs /\ revival[c].ref = Current /\ reg.current = Current
         /\ revival[c].session = Attached /\ Attached \in Sessions
         /\ reg.session[Current] = Attached /\ HasSession(revival[c])
<1>1. /\ TypedInv /\ GoodRegistry(reg) /\ AwaitInv /\ revival[c].ref \in Refs
      /\ GoodFlight(revival[c])
  BY HandParts
<1>2. Current \in Refs /\ Attached \in Sessions /\ Attached = reg.session[Current]
  BY <1>1, CurrentTyped DEF Attached
<1>3. revival[c].ref = Current  BY <1>1, <1>2 DEF OneGeneration
<1>4. revival[c].session = Attached  BY <1>1, <1>2, <1>3 DEF AwaitInv, Current
<1>5. HasSession(revival[c])  BY <1>1, <1>2, <1>4 DEF GoodFlight, Underway
<1> QED  BY <1>2, <1>3, <1>4, <1>5 DEF Current

\* Who makes the holder of the id idle, or parks it.
LEMMA StatusBy ==
  ASSUME HandInv, [Next]_vars, NEW r \in Refs, reg.current = r, SpawnOver(r),
         reg'.status[r] # reg.status[r], reg'.status[r] \in {"idle", "parked"}
  PROVE  \/ /\ reg'.status[r] = "idle"
            /\ (\E s \in Sessions : RunEnds(s)) \/ \E c \in Callers : ReviveReturns(c)
         \/ /\ reg'.status[r] = "parked"
            /\ \E p \in Parks : ParkCommits(p) /\ StillParkable(p)
<1>0. TypedInv /\ GoodRegistry(reg) /\ HomeInv  BY HandParts
<1>1. ~RegistryEbbs  BY <1>0, EbbLeaves
<1>2. ASSUME NEW q \in Refs,
             \/ SpawnRegisters(q) \/ RestoreParked(q) \/ IsolatedDetaches(q) \/ HelperDrops(q)
      PROVE  FALSE
  <2>1. CASE SpawnRegisters(q) \/ RestoreParked(q)
    BY <2>1, RegistryAssumption DEF SpawnRegisters, RestoreParked, IsAvailable
  <2>2. CASE IsolatedDetaches(q) \/ HelperDrops(q)
    BY <1>0, <2>2, RefDetached, RefDropped DEF IsolatedDetaches, HelperDrops, UnregisterRef
  <2> QED  BY <1>2, <2>1, <2>2
<1>3. ASSUME NEW q \in Refs, NEW s \in Sessions,
             \/ SpawnAttaches(q, s) \/ FinishKeptAlive(q, s) \/ FinishIsolated(q, s)
             \/ FinishDisposes(q, s)
      PROVE  FALSE
  <2>1. CASE SpawnAttaches(q, s)
    <3>1. reg' = reg \/ Brought(q, s, "running")
      BY <1>0, <2>1, BringerSets DEF SpawnAttaches
    <3> QED  BY <1>0, <3>1 DEF Brought, GoodRegistry, Registry
  <2>2. CASE FinishKeptAlive(q, s) \/ FinishIsolated(q, s)
    <3>1. spawn[q] = "working" /\ home[s] = q /\ Owns(s)
      BY <2>2 DEF FinishKeptAlive, FinishIsolated, Finishing
    <3>2. q = r  BY <1>0, <3>1, HoldsOwned DEF HomeInv, Current
    <3> QED  BY <3>1, <3>2 DEF SpawnOver
  <2>3. CASE FinishDisposes(q, s)  BY <2>3 DEF FinishDisposes
  <2> QED  BY <1>3, <2>1, <2>2, <2>3
<1>4. ASSUME NEW st, NEW e, reg' = WithStatus(reg, st, e) PROVE reg'.status[r] = st
  BY <1>0, <1>4 DEF WithStatus, GoodRegistry, Registry
<1>5. ASSUME NEW s \in Sessions, RunStarts(s) PROVE FALSE
  BY <1>4, <1>5 DEF RunStarts
<1>6. ASSUME NEW s \in Sessions, RunEnds(s) PROVE reg'.status[r] = "idle"
  BY <1>4, <1>6 DEF RunEnds
<1>7. ASSUME NEW p \in Parks, ParkCommits(p) PROVE StillParkable(p) /\ reg'.status[r] = "parked"
  <2>1. StillParkable(p) /\ reg' = ParkedRegistry(park[p].ref)
    BY <1>7 DEF ParkCommits
  <2>2. park[p].ref = r  BY <2>1 DEF StillParkable, Current
  <2> QED  BY <1>0, <2>1, <2>2, ParkSets DEF GoodRegistry, Registry
<1>8. ASSUME NEW c \in Callers, NEW s \in Sessions, ReviverAttaches(c, s) PROVE FALSE
  <2>1. revival[c].ref \in Refs
    BY <1>0, <1>8 DEF ReviverAttaches, TypedInv, RevivalFilled
  <2>2. reg' = reg \/ Brought(revival[c].ref, s, "running")
    BY <1>0, <1>8, <2>1, BringerSets DEF ReviverAttaches
  <2> QED  BY <1>0, <2>1, <2>2 DEF Brought, GoodRegistry, Registry
<1>9. ASSUME NEW c \in Callers, ReviveReturns(c) PROVE reg'.status[r] = "idle"
  <2>1. revival[c].ref \in Refs /\ revival[c].session \in Sessions
    BY <1>0, <1>9 DEF ReviveReturns, TypedInv, RevivalFilled
  <2>2. CASE reg' = WithStatus(reg, "idle", revival[c].ref)  BY <1>4, <2>2
  <2>3. CASE reg' = WithStatus(WithSession(reg, revival[c].session, revival[c].ref), "idle", revival[c].ref)
    <3>1. reg' = reg \/ Brought(revival[c].ref, revival[c].session, "idle")
      BY <1>0, <2>1, <2>3, BringerSets
    <3> QED  BY <1>0, <2>1, <3>1 DEF Brought, GoodRegistry, Registry
  <2> QED  BY <1>9, <2>2, <2>3 DEF ReviveReturns
<1> QED
  BY <1>0, <1>1, <1>2, <1>3, <1>5, <1>6, <1>7, <1>8, <1>9, EbbsOrActs DEF Acts

\* Who lets go of an adoption takes its timer along, or is a revival that gives up.
LEMMA AdoptionEnds ==
  ASSUME TypedInv, [Next]_vars, adopted' = NotAdopted, adopted # NotAdopted
  PROVE  \/ armed' = armed \ {adopted.tok}
         \/ \E c \in Callers : Underway(c)
<1> USE DEF registryVars, adoptionVars, parkVars, callVars, otherVars
<1> DEFINE Goal == armed' = armed \ {adopted.tok} \/ \E c \in Callers : Underway(c)
<1>1. ASSUME \/ \E k, e, tomb : StartRelease(k, e, tomb)
             \/ \E r : UnregisterRef(r)
      PROVE  armed' = armed \ {adopted.tok}
  BY <1>1 DEF StartRelease, UnregisterRef
<1>2. ASSUME \/ \E k \in Releasers :
                   \/ Release(k) \/ ReleaseResumes(k) \/ ReleaseFinishes(k) \/ ReleaseTimesOut(k)
                   \/ TombstonePersisted(k) \/ TombstoneFails(k)
             \/ \E r \in Refs : HelperDrops(r)
             \/ \E s \in Sessions : SessionDisposed(s)
             \/ ReclaimStarts \/ ReclaimProbed \/ DisposeManager
      PROVE  armed' = armed \ {adopted.tok}
  BY <1>1, <1>2 DEF Release, ReleaseResumes, ReleaseFinishes, ReleaseTimesOut,
     TombstonePersisted, TombstoneFails, HelperDrops, SessionDisposed, ReclaimStarts,
     ReclaimProbed, DisposeManager
<1>3. ASSUME NEW c \in Callers,
             \/ FactoryAnswers(c) \/ ReviverFails(c) \/ RevivalRejects(c)
      PROVE  Underway(c)
  BY <1>3 DEF FactoryAnswers, ReviverFails, RevivalRejects, Underway, IsUnderway
<1>4. ASSUME NEW r \in Refs, NEW s \in Sessions, FinishKeptAlive(r, s) PROVE FALSE
  <2>1. PICK a \in Adoptions : adopted'.tok = a  BY <1>4 DEF FinishKeptAlive
  <2> QED  BY <2>1, LifecycleAssumption DEF NotAdopted
<1>5. ASSUME \/ \E r \in Refs : SpawnRegisters(r) \/ RestoreParked(r) \/ IsolatedDetaches(r)
             \/ \E r \in Refs, s \in Sessions :
                   SpawnAttaches(r, s) \/ FinishIsolated(r, s) \/ FinishDisposes(r, s)
             \/ \E s \in Sessions : RunStarts(s) \/ RunEnds(s)
             \/ \E p \in Parks : ParkCommits(p) \/ ParkSettles(p)
             \/ \E a \in Adoptions : TimerFires(a)
             \/ CloseManager \/ UNCHANGED vars
      PROVE  FALSE
  BY <1>5 DEF SpawnRegisters, RestoreParked, IsolatedDetaches, SpawnAttaches, FinishIsolated,
     FinishDisposes, RunStarts, RunEnds, ParkCommits, ParkSettles, TimerFires, CloseManager, vars
<1>6. ASSUME NEW c \in Callers,
             \/ KeepResumes(c) \/ WaitResumes(c) \/ RevivedResumes(c) \/ EnsureLive(c)
             \/ Collect(c) \/ ReviveReturns(c) \/ ReviverClaims(c) \/ ReviverFinishes(c)
             \/ \E s \in Sessions : SimpleReviverReturns(c, s) \/ ReviverAttaches(c, s)
      PROVE  FALSE
  BY <1>6 DEF KeepResumes, WaitResumes, RevivedResumes, EnsureLive, Collect, ReviveReturns,
              ReviverClaims, ReviverFinishes, SimpleReviverReturns, ReviverAttaches
<1> QED
  BY <1>2, <1>3, <1>4, <1>5, <1>6 DEF Next, Microtask, Executor, ReviverStep

\* Who takes the timer from an adoption that stays.
LEMMA DisarmedBy ==
  ASSUME TypedInv, [Next]_vars, adopted' = adopted, adopted # NotAdopted, ~(armed \subseteq armed'),
         \A c \in Callers : ~Underway(c)
  PROVE  \/ \E s \in Sessions : RunStarts(s)
         \/ \E a \in Adoptions : TimerFires(a)
<1> USE DEF registryVars, adoptionVars, parkVars, callVars, otherVars
<1>1. ASSUME \/ \E k, e, tomb : StartRelease(k, e, tomb)
             \/ \E r : UnregisterRef(r)
      PROVE  armed' = armed
  BY <1>1 DEF StartRelease, UnregisterRef
<1>2. ASSUME \/ \E k \in Releasers :
                   \/ Release(k) \/ ReleaseResumes(k) \/ ReleaseFinishes(k) \/ ReleaseTimesOut(k)
                   \/ TombstonePersisted(k) \/ TombstoneFails(k)
             \/ \E r \in Refs : HelperDrops(r)
             \/ \E s \in Sessions : SessionDisposed(s)
             \/ ReclaimStarts \/ ReclaimProbed \/ DisposeManager
      PROVE  armed' = armed
  BY <1>1, <1>2 DEF Release, ReleaseResumes, ReleaseFinishes, ReleaseTimesOut,
     TombstonePersisted, TombstoneFails, HelperDrops, SessionDisposed, ReclaimStarts,
     ReclaimProbed, DisposeManager
<1>3. ASSUME NEW c \in Callers, NEW s \in Sessions, ReviverAttaches(c, s) PROVE FALSE
  BY <1>3 DEF ReviverAttaches, Underway, IsUnderway
<1>4. ASSUME NEW r \in Refs, NEW s \in Sessions, FinishKeptAlive(r, s) PROVE FALSE
  <2>1. PICK a \in Adoptions : adopted'.tok = a /\ FreeAdoption(a)  BY <1>4 DEF FinishKeptAlive
  <2> QED  BY <2>1 DEF FreeAdoption
<1>5. ASSUME \/ \E r \in Refs : SpawnRegisters(r) \/ RestoreParked(r) \/ IsolatedDetaches(r)
             \/ \E r \in Refs, s \in Sessions :
                   SpawnAttaches(r, s) \/ FinishIsolated(r, s) \/ FinishDisposes(r, s)
             \/ \E s \in Sessions : RunEnds(s)
             \/ \E p \in Parks : ParkCommits(p) \/ ParkSettles(p)
             \/ CloseManager \/ UNCHANGED vars
      PROVE  armed \subseteq armed'
  BY <1>5 DEF SpawnRegisters, RestoreParked, IsolatedDetaches, SpawnAttaches, FinishIsolated,
     FinishDisposes, RunEnds, ArmedOnStatus, ParkCommits, ParkSettles, CloseManager, vars
<1>6. ASSUME NEW c \in Callers,
             \/ KeepResumes(c) \/ WaitResumes(c) \/ RevivedResumes(c) \/ EnsureLive(c)
             \/ Collect(c) \/ ReviveReturns(c) \/ RevivalRejects(c) \/ FactoryAnswers(c)
             \/ ReviverFails(c) \/ ReviverClaims(c) \/ ReviverFinishes(c)
             \/ \E s \in Sessions : SimpleReviverReturns(c, s)
      PROVE  armed \subseteq armed'
  BY <1>6 DEF KeepResumes, Rearmed, WaitResumes, RevivedResumes, EnsureLive, Collect, ReviveReturns,
              ArmedOnStatus, RevivalRejects, FactoryAnswers, ReviverFails, ReviverClaims,
              ReviverFinishes, SimpleReviverReturns
<1> QED
  BY <1>2, <1>3, <1>4, <1>5, <1>6 DEF Next, Microtask, Executor, ReviverStep

\* A caller that keeps a session goes on waiting until the park it cancelled is over.
LEMMA KeepStays ==
  ASSUME TypedInv, [Next]_vars, NEW c \in Callers, call[c].pc = "keeping", ~KeepResumes(c)
  PROVE  call'[c] = call[c]
<1> USE DEF registryVars, adoptionVars, parkVars, callVars, otherVars
<1>0. call \in [Callers -> CallRecord]  BY CallParts DEF TypedInv, CallsGood
<1>1. ASSUME NEW d \in Callers \ {c}, NEW v, call' = [call EXCEPT ![d] = v]
      PROVE  call'[c] = call[c]
  BY <1>0, <1>1
<1>2. ASSUME NEW d \in Callers \ {c}, NEW r, Throws(d) \/ Returns(d, r) PROVE call'[c] = call[c]
  BY <1>1, <1>2 DEF Throws, Returns
<1>3. ASSUME NEW d \in Callers \ {c}, Lookup(d) PROVE call'[c] = call[c]
  BY <1>1, <1>2, <1>3 DEF Lookup
<1>4. ASSUME NEW d \in Callers,
             \/ KeepResumes(d) \/ WaitResumes(d) \/ RevivedResumes(d) \/ Collect(d) \/ EnsureLive(d)
      PROVE  call'[c] = call[c]
  <2>1. d # c
    BY <1>4 DEF WaitResumes, RevivedResumes, Collect, EnsureLive
  <2>2. Collect(d) => call'[c] = call[c]  BY <1>1, <2>1 DEF Collect
  <2>3. KeepResumes(d) \/ WaitResumes(d) => Lookup(d) \/ Returns(d, Attached)
    BY DEF KeepResumes, WaitResumes
  <2>4. RevivedResumes(d) => Throws(d) \/ \E r : Returns(d, r)
    BY DEF RevivedResumes
  <2>5. EnsureLive(d) => Lookup(d) \/ \E v : call' = [call EXCEPT ![d] = v]
    BY DEF EnsureLive
  <2> QED  BY <1>1, <1>2, <1>3, <1>4, <2>1, <2>2, <2>3, <2>4, <2>5
<1>6. ASSUME NEW d \in Callers, ReviverStep(d) \/ ReviveReturns(d) \/ RevivalRejects(d)
      PROVE  call' = call
  BY <1>6 DEF ReviverStep, FactoryAnswers, ReviverFails, ReviverClaims, ReviverFinishes,
              ReviverAttaches, SimpleReviverReturns, ReviveReturns, RevivalRejects
<1>7. ASSUME \/ Executor \/ ReclaimStarts \/ ReclaimProbed \/ UNCHANGED vars
             \/ \E s \in Sessions : SessionDisposed(s)
             \/ \E a \in Adoptions : TimerFires(a)
             \/ \E p \in Parks : ParkCommits(p) \/ ParkSettles(p)
      PROVE  call' = call
  BY <1>7 DEF Executor, SpawnRegisters, RestoreParked, IsolatedDetaches, HelperDrops,
              SpawnAttaches, FinishKeptAlive, FinishIsolated, FinishDisposes, RunStarts, RunEnds,
              SessionDisposed, TimerFires, ParkCommits, ParkSettles, ReclaimStarts, ReclaimProbed,
              vars
<1>8. ASSUME \/ \E k \in Releasers :
                   \/ Release(k) \/ TombstonePersisted(k) \/ TombstoneFails(k)
                   \/ ReleaseTimesOut(k) \/ ReleaseResumes(k) \/ ReleaseFinishes(k)
             \/ DisposeManager \/ CloseManager
      PROVE  call' = call
  BY <1>8 DEF Release, StartRelease, TombstonePersisted, TombstoneFails, ReleaseTimesOut,
              ReleaseResumes, ReleaseFinishes, DisposeManager, CloseManager
<1> QED  BY <1>4, <1>6, <1>7, <1>8 DEF Next, Microtask

\* Who has waited for a park finds none.
LEMMA SettledNone ==
  ASSUME HandInv, NEW c \in Callers, call[c].pc \in {"keeping", "waiting"}, ParkSettled(call[c].park)
  PROVE  parkEntry = None
<1>1. ParkInv /\ park \in [Parks -> ParkRecord \cup {NoPark}]  BY HandParts
<1>2. call[c].park \in Parks  BY <1>1 DEF ParkInv
<1>3. park[call[c].park] = NoPark
  BY <1>1, <1>2, LifecycleAssumption DEF ParkSettled, ParkRecord, ParkPhase
<1> QED  BY <1>1, <1>3 DEF ParkInv

-----------------------------------------------------------------------------
(* When a timer is armed                                                   *)

ArmsFresh ==
    /\ parkEntry = None /\ parkEntry' = None
    /\ \A c \in Callers : ~IsUnderway(revival'[c])
    /\ armed' \subseteq armed \cup {adopted'.tok}
    /\ adopted' = adopted \/ adopted.tok \notin armed'
    /\ \E r \in Refs : reg'.current = r /\ reg'.status[r] = "idle"

LEMMA ArmsIdle ==
  ASSUME OneGeneration, HandInv, TimerInv, BackOutInv, [Next]_vars
  PROVE  armed' \subseteq armed \/ ArmsFresh
<1> USE DEF registryVars, adoptionVars, parkVars, callVars, otherVars
<1>0. /\ TypedInv /\ GoodRegistry(reg) /\ HomeInv /\ AdoptTyped /\ ParkInv
      /\ \A c \in Callers : GoodFlight(revival[c])
      /\ \A c \in Callers : Underway(c) => revival[c].ref \in Refs
      /\ revival \in [Callers -> RevivalRecord]
  BY HandParts
<1>1. ASSUME NEW q \in Refs, NEW s \in Sessions, FinishKeptAlive(q, s) PROVE ArmsFresh
  <2>1. spawn[q] = "working" /\ ~SpawnOver(q) /\ Owns(s) /\ AcceptsStatus(reg, "idle", Current)
    BY <1>1 DEF FinishKeptAlive, Finishing, SpawnOver
  <2>2. \A r \in Refs : ~SpawnOver(r)  BY <2>1 DEF OneGeneration
  <2>3. parkEntry = None
    <3>1. ASSUME parkEntry # None PROVE FALSE
      <4>1. PICK p \in Parks : p = parkEntry  BY <1>0, <3>1 DEF TypedInv, ParkTyped
      <4>2. park[p] # NoPark  BY <1>0, <3>1, <4>1 DEF ParkInv
      <4>3. park[p].ref \in Refs
        BY <1>0, <4>2 DEF TypedInv, ParkTyped
      <4> QED  BY <2>2, <4>2, <4>3 DEF TimerInv
    <3> QED  BY <3>1
  <2>4. \A c \in Callers : ~Underway(c)
    BY <1>0, <2>2 DEF GoodFlight, Underway
  <2>5. UNCHANGED <<revival, parkEntry>>  BY <1>1 DEF FinishKeptAlive
  <2>6. PICK a \in Adoptions, ttl \in BOOLEAN :
          /\ adopted'.tok = a /\ FreeAdoption(a)
          /\ armed' = (ArmedOnStatus("idle", Current) \ {adopted.tok}) \cup (IF ttl THEN {a} ELSE {})
    BY <1>1 DEF FinishKeptAlive
  <2>7. ArmedOnStatus("idle", Current) \ {adopted.tok} \subseteq armed
    BY DEF ArmedOnStatus
  <2>8. adopted.tok \notin armed' /\ armed' \subseteq armed \cup {adopted'.tok}
    BY <2>6, <2>7 DEF FreeAdoption
  <2>9. PICK r \in Refs : r = Current  BY <1>0, <2>1, HoldsOwned
  <2>10. reg'.current = r /\ reg'.status[r] = "idle"
    BY <1>0, <1>1, <2>1, <2>9 DEF FinishKeptAlive, WithStatus, GoodRegistry, Registry, Current
  <2> QED  BY <2>3, <2>4, <2>5, <2>8, <2>10 DEF ArmsFresh, Underway
<1>2. ASSUME NEW s \in Sessions, RunEnds(s), adopted' = adopted, ~(armed' \subseteq armed)
      PROVE  ArmsFresh
  <2>1. /\ Owns(s) /\ ~Reviving(s) /\ reg.status[Current] = "running"
        /\ armed' = ArmedOnStatus("idle", s) /\ UNCHANGED <<parkEntry, revival>>
        /\ reg' = WithStatus(reg, "idle", s)
    BY <1>2 DEF RunEnds
  <2>2. ~Disposed /\ StatusChanges(reg, "idle", s) /\ parkEntry = None
        /\ armed' \subseteq armed \cup {adopted.tok}
    BY <1>2, <2>1 DEF ArmedOnStatus
  <2>3. PICK r \in Refs : r = Current /\ reg.session[r] = s  BY <1>0, <2>1, HoldsOwned
  <2>4. Attached = s  BY <2>1, <2>3 DEF Attached, Owns
  <2>5. ASSUME NEW c \in Callers, Underway(c) PROVE FALSE
    <3>1. Attached # None  BY <2>4, RegistryAssumption
    <3>2. /\ reg.current = revival[c].ref /\ reg.session[revival[c].ref] = revival[c].session
          /\ revival[c].session = s /\ HasSession(revival[c])
      BY <2>4, <2>5, <3>1, RevivedSession
    <3>3. revival[c].pc = "discarding"  BY <2>1, <3>2 DEF Reviving, HasSession
    <3> QED  BY <2>2, <3>2, <3>3 DEF BackOutInv, BacksOut
  <2>6. reg'.current = r /\ reg'.status[r] = "idle"
    BY <1>0, <2>1, <2>2, <2>3 DEF StatusChanges, WithStatus, GoodRegistry, Registry, Current
  <2> QED  BY <1>2, <2>1, <2>2, <2>5, <2>6 DEF ArmsFresh, Underway
<1>3. ASSUME NEW c \in Callers, ReviveReturns(c), adopted' = adopted, ~(armed' \subseteq armed)
      PROVE  ArmsFresh
  <2>1. PICK r \in Refs, s \in Sessions : r = revival[c].ref /\ s = revival[c].session
    BY <1>0, <1>3 DEF ReviveReturns, TypedInv, RevivalFilled
  <2>2. Underway(c) /\ UNCHANGED parkEntry
    BY <1>3 DEF ReviveReturns, Underway, IsUnderway
  <2>3. parkEntry = None  BY <2>2 DEF TimerInv
  <2>4. /\ armed' = ArmedOnStatus("idle", r)
        /\ revival' = [revival EXCEPT ![c].pc = "resolved"]
        /\ \/ IsRevivable(reg, r) /\ reg' = WithStatus(WithSession(reg, s, r), "idle", r)
           \/ Current = r /\ reg.status[r] = "running" /\ reg' = WithStatus(reg, "idle", r)
    BY <1>3, <2>1 DEF ReviveReturns, Goes
  <2>5. \A d \in Callers : ~IsUnderway(revival'[d])
    <3>1. ~IsUnderway(revival'[c])  BY <1>0, <2>4 DEF IsUnderway, RevivalRecord
    <3>2. ASSUME NEW d \in Callers \ {c}, IsUnderway(revival'[d]) PROVE FALSE
      <4>1. Underway(d)  BY <1>0, <2>4, <3>2 DEF Underway
      <4>2. EntryInv  BY HandParts DEF SlotInv
      <4> QED  BY <1>0, <2>2, <4>1, <4>2 DEF EntryInv, OneGeneration
    <3> QED  BY <3>1, <3>2
  <2>6. reg'.current = r /\ reg'.status[r] = "idle"
    <3>1. CASE IsRevivable(reg, r) /\ reg' = WithStatus(WithSession(reg, s, r), "idle", r)
      <4>1. AcceptsSession(reg, r)
        BY <1>0, <3>1, HoldsRef DEF IsRevivable, AcceptsSession
      <4>2. Brought(r, s, "idle")  BY <1>0, <3>1, <4>1, BringerSets
      <4> QED  BY <1>0, <4>2 DEF Brought, GoodRegistry, Registry
    <3>2. CASE Current = r /\ reg.status[r] = "running" /\ reg' = WithStatus(reg, "idle", r)
      <4>1. Holds(reg, r)  BY <1>0, <3>2, HoldsRef DEF Current
      <4> QED  BY <1>0, <3>2, <4>1 DEF WithStatus, AcceptsStatus, GoodRegistry, Registry, Current
    <3> QED  BY <2>4, <3>1, <3>2
  <2>7. armed' \subseteq armed \cup {adopted'.tok}
    BY <1>3, <2>4 DEF ArmedOnStatus
  <2> QED  BY <1>3, <2>2, <2>3, <2>5, <2>6, <2>7 DEF ArmsFresh
<1>4. ASSUME NEW c \in Callers, KeepResumes(c), adopted' = adopted, ~(armed' \subseteq armed)
      PROVE  ArmsFresh
  <2>1. /\ Attached # None /\ armed' = Rearmed(call[c].ref)
        /\ UNCHANGED <<reg, parkEntry, revival>>
        /\ call[c].pc = "keeping" /\ ParkSettled(call[c].park)
    BY <1>4 DEF KeepResumes
  <2>2. parkEntry = None  BY <2>1, SettledNone
  <2>3. /\ adopted.tok # None /\ reg.status[adopted.ref] = "idle"
        /\ armed' = armed \cup {adopted.tok}
    BY <1>4, <2>1 DEF Rearmed
  <2>4. PICK r \in Refs : r = Current /\ reg.current = r
    BY <1>0, <2>1, CurrentTyped DEF Attached, Current
  <2>5. adopted.ref = r
    BY <1>0, <2>3 DEF AdoptTyped, NotAdopted, OneGeneration
  <2>6. ASSUME NEW d \in Callers, Underway(d) PROVE FALSE
    <3>1. /\ reg.current = revival[d].ref /\ reg.session[revival[d].ref] = revival[d].session
          /\ revival[d].ref = r /\ HasSession(revival[d])
      BY <2>1, <2>4, <2>6, RevivedSession
    <3>2. ~Disposed  BY <2>4, <2>5, HandParts DEF AdoptInv
    <3>3. revival[d].pc \notin {"attached", "returned"}
      BY <2>3, <2>5, <3>1, HandParts DEF StartUpInv, StartsUp
    <3> QED  BY <2>3, <2>5, <3>1, <3>2, <3>3 DEF BackOutInv, BacksOut, HasSession
  <2> QED  BY <1>4, <2>1, <2>2, <2>3, <2>4, <2>5, <2>6 DEF ArmsFresh, Underway
<1> QED
  BY <1>0, <1>1, <1>2, <1>3, <1>4, ArmsMove DEF Arms

\* An armed timer is that of the adoption, of an agent whose run is over.
LEMMA ArmedAdopted ==
  ASSUME HandInv, NoOrphanTimer, armed # {}
  PROVE  /\ adopted.tok \in armed /\ adopted.tok # None /\ adopted # NotAdopted
         /\ adopted.ref \in Refs /\ SpawnOver(adopted.ref) /\ Born(adopted.ref)
         /\ Disposed => reg.current # adopted.ref
<1>1. AdoptTyped /\ AdoptInv  BY HandParts
<1>2. adopted.tok \in armed /\ adopted.tok \in Adoptions  BY <1>1 DEF NoOrphanTimer, AdoptTyped
<1>3. adopted # NotAdopted  BY <1>2, LifecycleAssumption DEF NotAdopted
<1> QED  BY <1>1, <1>2, <1>3, LifecycleAssumption DEF AdoptTyped, AdoptInv

LEMMA OrphanStep ==
  ASSUME OneGeneration, HandInv, TimerInv, BackOutInv, [Next]_vars
  PROVE  NoOrphanTimer'
<1>0. TypedInv /\ armed \subseteq {adopted.tok}  BY HandParts DEF TimerInv, NoOrphanTimer
<1>1. CASE ArmsFresh  BY <1>0, <1>1 DEF ArmsFresh, NoOrphanTimer
<1>2. CASE armed' \subseteq armed
  <2>1. ASSUME NEW q \in Refs, NEW s \in Sessions, FinishKeptAlive(q, s) PROVE NoOrphanTimer'
    <3>1. PICK a \in Adoptions, ttl \in BOOLEAN :
            /\ adopted'.tok = a
            /\ armed' = (ArmedOnStatus("idle", Current) \ {adopted.tok}) \cup (IF ttl THEN {a} ELSE {})
      BY <2>1 DEF FinishKeptAlive
    <3>2. ArmedOnStatus("idle", Current) \subseteq armed \cup {adopted.tok}
      BY DEF ArmedOnStatus
    <3> QED  BY <1>0, <3>1, <3>2 DEF NoOrphanTimer
  <2>2. ASSUME NEW c \in Callers, FactoryAnswers(c) PROVE NoOrphanTimer'
    <3>1. Underway(c)  BY <2>2 DEF FactoryAnswers, Underway, IsUnderway
    <3> QED  BY <1>2, <3>1 DEF TimerInv, NoOrphanTimer
  <2>3. ASSUME adopted' = NotAdopted, adopted # NotAdopted PROVE NoOrphanTimer'
    <3>1. CASE armed' = armed \ {adopted.tok}  BY <1>0, <3>1 DEF NoOrphanTimer
    <3>2. CASE \E c \in Callers : Underway(c)  BY <1>2, <3>2 DEF TimerInv, NoOrphanTimer
    <3> QED  BY <1>0, <2>3, <3>1, <3>2, AdoptionEnds
  <2>4. DisposeManager => adopted' \in {adopted, NotAdopted}
    BY DEF DisposeManager, StartRelease, adoptionVars
  <2>5. adopted' = adopted => NoOrphanTimer'  BY <1>0, <1>2 DEF NoOrphanTimer
  <2> QED  BY <1>0, <2>1, <2>2, <2>3, <2>4, <2>5, AdoptionMoves
<1> QED  BY <1>1, <1>2, ArmsIdle

LEMMA TimerStep ==
  ASSUME OneGeneration, HandInv, TimerInv, BackOutInv, [Next]_vars
  PROVE  TimerInv'
<1> DEFINE Over(p) == \E r \in Refs : r = park'[p].ref /\ SpawnOver(r)' /\ Born(r)'
<1>0. /\ TypedInv /\ ParkInv /\ ParkTyped /\ SlotInv /\ NoOrphanTimer
      /\ park \in [Parks -> ParkRecord \cup {NoPark}] /\ GoodRegistry(reg)
  BY HandParts DEF TimerInv
<1>1. NoOrphanTimer'  BY OrphanStep
<1>2. ASSUME NEW p \in Parks, ParkStarts(p) PROVE armed' = {} /\ \A c \in Callers : ~Underway(c)
  <2>1. PICK a : armed' = armed \ {a, adopted.tok}  BY <1>2 DEF ParkStarts
  <2> QED  BY <1>0, <1>2, <2>1 DEF ParkStarts, TimerInv, NoOrphanTimer
<1>3. \/ parkEntry' \in {parkEntry, None}
      \/ \E p \in Parks : ParkStarts(p)
  BY <1>0, ParksMove DEF ParkMoves, ParkMarks, ParkEnds, SettlePark, CloseManager
<1>4. ASSUME parkEntry' # None PROVE armed' = {}
  <2>1. CASE \E p \in Parks : ParkStarts(p)  BY <1>2, <2>1
  <2>2. CASE parkEntry' = parkEntry
    BY <1>4, <2>2, ArmsIdle DEF ArmsFresh, TimerInv
  <2> QED  BY <1>3, <1>4, <2>1, <2>2
<1>5. ASSUME armed' # {}, NEW r \in Refs, reg'.current = r PROVE reg'.status[r] # "parked"
  <2>1. CASE ArmsFresh  BY <1>5, <2>1 DEF ArmsFresh, OneGeneration
  <2>2. CASE armed' \subseteq armed
    <3>1. armed # {}  BY <1>5, <2>2
    <3>2. SpawnOver(r) /\ Born(r) /\ adopted.ref = r /\ (Disposed => reg.current # r)
      BY <1>0, <3>1, ArmedAdopted DEF OneGeneration
    <3>3. reg.current = r  BY <1>0, <1>5, <3>2, RefsStay
    <3>4. reg.status[r] # "parked"  BY <3>1, <3>3 DEF TimerInv
    <3>5. ASSUME NEW p \in Parks, ParkCommits(p) PROVE FALSE
      <4>1. park[p] # NoPark  BY <3>5 DEF ParkCommits, NoPark
      <4>2. parkEntry = p  BY <1>0, <3>2, <3>3, <4>1 DEF ParkInv, FactoryInstalled, Disposed
      <4> QED  BY <3>1, <4>2, LifecycleAssumption DEF TimerInv
    <3> QED  BY <3>2, <3>3, <3>4, <3>5, StatusBy
  <2> QED  BY <2>1, <2>2, ArmsIdle
<1>6. ASSUME NEW c \in Callers, IsUnderway(revival'[c]) PROVE armed' = {} /\ parkEntry' = None
  <2>1. armed = {} /\ parkEntry = None
    <3>1. CASE Starts(c)
      <4>1. revival'[c].pc = FirstRevivalStep(Current)
        BY <1>0, <3>1, HandParts DEF Starts, NoRevival
      <4>2. reg.status[Current] = "parked" /\ Current \in Refs
        BY <1>6, <3>1, <4>1 DEF FirstRevivalStep, IsUnderway, Starts
      <4>3. armed = {}  BY <4>2 DEF TimerInv, Current
      <4>4. parkEntry = None  BY <3>1, SettledNone DEF Starts, LooksPast
      <4> QED  BY <4>3, <4>4
    <3>2. CASE ~Starts(c)
      <4>1. Underway(c)  BY <1>0, <1>6, <3>2, GoesOn
      <4> QED  BY <4>1 DEF TimerInv
    <3> QED  BY <3>1, <3>2
  <2>2. armed' = {}  BY <1>6, <2>1, ArmsIdle DEF ArmsFresh
  <2>3. \A p \in Parks : ~ParkStarts(p)  BY <2>1 DEF ParkStarts
  <2> QED  BY <1>3, <2>1, <2>2, <2>3
<1>7. ASSUME NEW p \in Parks, park'[p] # NoPark
      PROVE  Over(p)
  <2>1. ASSUME NEW r \in Refs, SpawnOver(r), Born(r) PROVE SpawnOver(r)' /\ Born(r)'
    BY <1>0, <2>1, RefsStay
  <2>2. ASSUME park[p] # NoPark, park'[p].ref = park[p].ref
        PROVE  Over(p)
    <3>1. PICK r \in Refs : r = park[p].ref  BY <1>0, <2>2 DEF ParkRecord
    <3>2. SpawnOver(r) /\ Born(r)  BY <2>2, <3>1 DEF TimerInv
    <3> QED  BY <2>1, <2>2, <3>1, <3>2
  <2>3. ASSUME NEW q \in Parks, ParkStarts(q), q = p
        PROVE  Over(p)
    <3>1. park'[p].ref = Current /\ armed # {} /\ adopted.ref = Current
      BY <1>0, <2>3 DEF ParkStarts, CanPark
    <3>2. PICK r \in Refs : r = Current /\ SpawnOver(r) /\ Born(r)  BY <1>0, <3>1, ArmedAdopted
    <3> QED  BY <2>1, <3>1, <3>2
  <2>4. ASSUME NEW q \in Parks, ParkMarks(q), q = p
        PROVE  park[p] # NoPark /\ park'[p].ref = park[p].ref
    <3>1. park[p] \in ParkRecord  BY <1>0, <2>4 DEF ParkMarks
    <3> QED  BY <1>0, <2>4, <3>1 DEF ParkMarks, ParkRecord
  <2>5. \/ park'[p] = park[p]
        \/ ParkStarts(p) \/ ParkMarks(p)
    <3>1. ASSUME NEW q \in Parks, ParkStarts(q) \/ ParkMarks(q), q # p PROVE park'[p] = park[p]
      BY <1>0, <3>1 DEF ParkStarts, ParkMarks
    <3>2. ASSUME NEW q \in Parks, ParkEnds(q) PROVE park'[p] = park[p]
      BY <1>0, <1>7, <3>2 DEF ParkEnds, SettlePark
    <3>3. CloseManager => park' = park  BY DEF CloseManager
    <3> QED  BY <1>0, <3>1, <3>2, <3>3, ParksMove DEF ParkMoves
  <2> QED  BY <1>7, <2>2, <2>3, <2>4, <2>5
<1>8. \A p \in Parks : park'[p] # NoPark => SpawnOver(park[p].ref)' /\ Born(park[p].ref)'
  BY <1>7
<1> QED  BY <1>1, <1>4, <1>5, <1>6, <1>8 DEF TimerInv, Underway

-----------------------------------------------------------------------------
(* Revivals that back out, and what a park takes                           *)

\* A revival turns useless when its ref was killed or its own session is running.
LEMMA BackOutStep ==
  ASSUME OneGeneration, HandInv, BackOutInv, [Next]_vars
  PROVE  BackOutInv'
<1> SUFFICES ASSUME NEW c \in Callers, revival'[c].pc \in {"discarding", "unwinding"},
                    reg'.current = revival'[c].ref,
                    reg'.session[revival'[c].ref] = revival'[c].session
             PROVE  \/ Disposed'
                    \/ revival'[c].pc = "unwinding" /\ reg'.status[revival'[c].ref] # "idle"
  BY DEF BackOutInv, BacksOut
<1>0. /\ TypedInv /\ GoodRegistry(reg) /\ HomeInv /\ BaseInv /\ StartUpInv /\ EntryInv /\ SlotInv
      /\ revival \in [Callers -> RevivalRecord] /\ GoodFlight(revival[c])
      /\ \A d \in Callers : Underway(d) => revival[d].ref \in Refs
  BY HandParts DEF SlotInv
<1>1. Disposed => Disposed'
  BY <1>0, AdoptionMoves DEF Disposed, DisposeManager, FinishKeptAlive, ColdAdopt
<1>2. CASE revival'[c] = revival[c]
  <2>1. PICK r \in Refs, s \in Sessions : r = revival[c].ref /\ s = revival[c].session
    BY <1>0, <1>2 DEF TypedInv, RevivalFilled
  <2>2. Underway(c) /\ SpawnOver(r) /\ Born(r)
    BY <1>0, <1>2, <2>1 DEF GoodFlight, Underway, IsUnderway
  <2>3. \A d \in Callers : Underway(d) => d = c
    BY <1>0, <2>2 DEF EntryInv, OneGeneration
  <2>4. \A d \in Callers : ~ReviveReturns(d) /\ revival[d].pc # "claimed"
    BY <1>2, <2>3 DEF ReviveReturns, Underway, IsUnderway
  <2>5. reg.current = r  BY <1>0, <1>2, <2>1, <2>2, RefsStay
  <2>6. reg.session[r] = s
    <3>1. \A t \in Sessions : ~SpawnAttaches(r, t)  BY <2>2 DEF SpawnAttaches, SpawnOver
    <3>2. \A d \in Callers, t \in Sessions : ~ReviverAttaches(d, t)  BY <2>4 DEF ReviverAttaches
    <3> QED
      BY <1>0, <1>2, <2>1, <2>4, <3>1, <3>2, RegistryAssumption, FieldMoves DEF Detaches, Brings
  <2>7. Disposed \/ (revival[c].pc = "unwinding" /\ reg.status[r] # "idle")
    BY <1>2, <2>1, <2>5, <2>6 DEF BackOutInv, BacksOut
  <2>8. CASE Disposed  BY <1>1, <2>8
  <2>9. CASE revival[c].pc = "unwinding" /\ reg.status[r] # "idle"
    <3>1. ASSUME reg'.status[r] = "idle" PROVE FALSE
      <4>1. PICK t \in Sessions : RunEnds(t)  BY <2>2, <2>4, <2>5, <2>9, <3>1, StatusBy
      <4>2. t = s  BY <2>5, <2>6, <4>1 DEF RunEnds, Owns, Current
      <4> QED  BY <2>1, <2>9, <4>1, <4>2 DEF RunEnds, Reviving
    <3> QED  BY <1>2, <2>1, <2>9, <3>1
  <2> QED  BY <2>7, <2>8, <2>9
<1>3. ASSUME NEW s \in Sessions, NEW q \in {"attached", "unwinding"}, ReviverAttaches(c, s),
             revival'[c] = [revival[c] EXCEPT !.pc = q, !.session = s]
      PROVE  FALSE
  <2>1. PICK r \in Refs : r = revival[c].ref
    BY <1>0, <1>3 DEF ReviverAttaches, Underway, IsUnderway
  <2>2. revival'[c].ref = r /\ revival'[c].session = s /\ revival'[c].pc = q
    BY <1>0, <1>3, <2>1 DEF RevivalRecord
  <2>3. q = "unwinding"  BY <2>2
  <2>4. ~AcceptsSession(reg, r)
    <3>1. \A x : [revival[c] EXCEPT !.pc = x, !.session = s].pc = x
      BY <1>0 DEF RevivalRecord
    <3>2. revival'[c].pc = IF AcceptsSession(reg, r) THEN "attached" ELSE "unwinding"
      BY <1>0, <1>3, <2>1, <3>1 DEF ReviverAttaches
    <3> QED  BY <2>2, <2>3, <3>2
  <2>5. reg' = reg  BY <1>0, <1>3, <2>1, <2>4, BringerSets DEF ReviverAttaches
  <2> QED  BY <1>0, <1>3, <2>1, <2>2, <2>5 DEF HomeInv, ReviverAttaches
<1>4. ASSUME ReviverFinishes(c) \/ ReviveReturns(c), NEW q \in {"unwinding", "discarding"},
             revival'[c] = [revival[c] EXCEPT !.pc = q]
      PROVE  \/ Disposed
             \/ reg' = reg /\ q = "unwinding" /\ reg.status[revival[c].ref] = "running"
  <2>1. PICK r \in Refs, s \in Sessions : r = revival[c].ref /\ s = revival[c].session
    BY <1>0, <1>4 DEF ReviverFinishes, ReviveReturns, TypedInv, RevivalFilled
  <2>2. revival'[c].ref = r /\ revival'[c].session = s /\ revival'[c].pc = q
    BY <1>0, <1>4, <2>1 DEF RevivalRecord
  <2>3. CASE ReviverFinishes(c)
    <3>1. reg' = reg /\ revival[c].pc = "attached"  BY <2>3 DEF ReviverFinishes
    <3>2. q = "unwinding"
      <4>1. revival'[c].pc \in {"returned", "unwinding"}
        BY <1>0, <2>3 DEF ReviverFinishes, Goes, RevivalRecord
      <4> QED  BY <2>2, <4>1
    <3> QED  BY <1>0, <2>1, <2>2, <3>1, <3>2 DEF StartUpInv, StartsUp
  <2>4. CASE ReviveReturns(c)
    <3>1. revival'[c].pc # "resolved"  BY <2>2
    <3>2. ~Goes(c, "resolved")  BY <1>0, <3>1 DEF Goes, RevivalRecord
    <3>3. /\ reg' = reg /\ revival[c].pc = "returned"
          /\ Disposed \/ ~(Current = r /\ reg.status[r] = "running" /\ reg.session[r] = s)
      BY <2>1, <2>4, <3>2 DEF ReviveReturns
    <3> QED  BY <1>0, <2>1, <2>2, <3>3 DEF StartUpInv, StartsUp, Current
  <2> QED  BY <1>4, <2>3, <2>4
<1>5. ASSUME ReviverFinishes(c) \/ ReviveReturns(c), NEW q \in {"unwinding", "discarding"},
             revival'[c] = [revival[c] EXCEPT !.pc = q]
      PROVE  \/ Disposed'
             \/ revival'[c].pc = "unwinding" /\ reg'.status[revival'[c].ref] # "idle"
  <2>1. revival'[c].ref = revival[c].ref /\ revival'[c].pc = q
    BY <1>0, <1>5 DEF RevivalRecord
  <2> QED  BY <1>1, <1>4, <1>5, <2>1
<1>6. \A s : /\ [revival[c] EXCEPT !.pc = "returned", !.session = s].pc = "returned"
             /\ [revival[c] EXCEPT !.pc = "returned"].pc = "returned"
             /\ [revival[c] EXCEPT !.pc = "resolved"].pc = "resolved"
  BY <1>0 DEF RevivalRecord
<1>7. ASSUME NEW q \in {"returned", "unwinding"}, ReviverFinishes(c),
             revival'[c] = [revival[c] EXCEPT !.pc = q]
      PROVE  q = "unwinding"
  BY <1>6, <1>7
<1>8. ASSUME NEW q \in {"resolved", "discarding"}, ReviveReturns(c),
             revival'[c] = [revival[c] EXCEPT !.pc = q]
      PROVE  q = "discarding"
  BY <1>6, <1>8
<1>9. CASE \E s \in Sessions :
             SimpleReviverReturns(c, s) /\ revival'[c] = [revival[c] EXCEPT !.pc = "returned", !.session = s]
  BY <1>6, <1>9
<1> QED  BY <1>0, <1>2, <1>3, <1>5, <1>7, <1>8, <1>9, RevivalTurns DEF Turns

LEMMA TakesStep ==
  ASSUME OneGeneration, HandInv, TimerInv, TakesAttached, [Next]_vars
  PROVE  TakesAttached'
<1> SUFFICES ASSUME parkEntry' # None, Attached' # None
             PROVE  park'[parkEntry'].pc = "yielding" /\ Attached' = park'[parkEntry'].session
  BY DEF TakesAttached
<1>0. /\ TypedInv /\ BaseInv /\ ParkInv /\ ParkTyped /\ GoodRegistry(reg) /\ GoodRegistry(reg')
      /\ park \in [Parks -> ParkRecord \cup {NoPark}]
  BY HandParts, TypedStep DEF TypedInv
<1>1. PICK r \in Refs : r = reg'.current /\ Attached' = reg'.session[r]
  BY <1>0 DEF Attached, Current, GoodRegistry, Registry
<1>2. ASSUME parkEntry # None
      PROVE  /\ Attached = Attached' /\ park[parkEntry].pc = "yielding"
             /\ Attached = park[parkEntry].session /\ parkEntry \in Parks
             /\ park[parkEntry].ref = r
             /\ ~\E p \in Parks : ParkCommits(p) /\ StillParkable(p)
  <2>1. PICK p \in Parks : p = parkEntry  BY <1>0, <1>2 DEF ParkTyped
  <2>2. park[p] # NoPark  BY <1>0, <1>2, <2>1 DEF ParkInv
  <2>3. park[p].ref = r /\ SpawnOver(r) /\ Born(r)
    BY <1>0, <2>2 DEF ParkRecord, TimerInv, OneGeneration
  <2>4. reg.current = r  BY <1>0, <1>1, <2>3, RefsStay
  <2>5. \A c \in Callers : ~Underway(c)  BY <1>2 DEF TimerInv
  <2>6. ~Brings(r)
    BY <2>3, <2>5 DEF Brings, SpawnAttaches, SpawnOver, ReviverAttaches, ReviveReturns, Underway,
                      IsUnderway
  <2>7. reg'.session[r] = reg.session[r]
    BY <1>0, <1>1, <2>6, FieldMoves DEF Detaches
  <2>8. Attached = reg.session[r]  BY <2>4, RegistryAssumption DEF Attached, Current
  <2>9. ASSUME NEW q \in Parks, ParkCommits(q), StillParkable(q) PROVE FALSE
    <3>1. park[q].ref = r /\ reg' = ParkedRegistry(r)
      BY <2>4, <2>9 DEF ParkCommits, StillParkable, Current
    <3>2. reg'.session = [reg.session EXCEPT ![r] = None]
      BY <1>0, <2>4, <3>1, ParkSets
    <3>3. reg.session \in [Refs -> Sessions \cup {None}]
      BY <1>0 DEF GoodRegistry, Registry
    <3>4. Attached' = None  BY <1>1, <3>2, <3>3
    <3> QED  BY <3>4
  <2> QED  BY <1>1, <1>2, <2>1, <2>3, <2>7, <2>8, <2>9 DEF TakesAttached
<1>3. ASSUME NEW p \in Parks, ParkStarts(p)
      PROVE  park'[parkEntry'].pc = "yielding" /\ Attached' = park'[parkEntry'].session
  BY <1>0, <1>3 DEF ParkStarts, Attached, Current
<1>4. ASSUME NEW p \in Parks, ParkMarks(p)
      PROVE  park'[parkEntry'].pc = "yielding" /\ Attached' = park'[parkEntry'].session
  <2>1. parkEntry' = parkEntry  BY <1>4 DEF ParkMarks
  <2>2. CASE parkEntry = p
    <3>1. PICK b : park' = [park EXCEPT ![p] = [@ EXCEPT !.cancelled = b]]
      BY <1>2, <1>4, <2>1 DEF ParkMarks
    <3>2. park[p] \in ParkRecord  BY <1>0, <1>4 DEF ParkMarks
    <3> QED  BY <1>0, <1>2, <2>1, <2>2, <3>1, <3>2 DEF ParkRecord
  <2>3. CASE parkEntry # p  BY <1>0, <1>2, <1>4, <2>1, <2>3 DEF ParkMarks
  <2> QED  BY <2>2, <2>3
<1>5. ASSUME NEW p \in Parks, ParkEnds(p) PROVE FALSE
  <2>1. parkEntry # None /\ parkEntry # p /\ parkEntry' = parkEntry
    BY <1>5 DEF ParkEnds, SettlePark
  <2>2. park[p] # NoPark  BY <1>5 DEF ParkEnds, NoPark
  <2> QED  BY <1>0, <2>1, <2>2 DEF ParkInv
<1>6. ~CloseManager  BY DEF CloseManager
<1>7. CASE UNCHANGED <<park, parkEntry>>  BY <1>2, <1>7
<1> QED  BY <1>0, <1>3, <1>4, <1>5, <1>6, <1>7, ParksMove DEF ParkMoves

-----------------------------------------------------------------------------
(* An idle agent has its timer                                             *)

LEMMA TimedStep ==
  ASSUME OneGeneration, IdleInv, [Next]_vars
  PROVE  TimedInv'
<1> DEFINE Goal == (adopted.tok \in armed \/ WillPark \/ WillRearm)'
<1> SUFFICES ASSUME Timed', reg'.status[Current'] = "idle" \/ parkEntry' # None
             PROVE  Goal
  BY DEF TimedInv
<1>0. /\ HandInv /\ TimerInv /\ BackOutInv /\ TakesAttached /\ TimedInv
      /\ TypedInv /\ BaseInv /\ HomeInv /\ AdoptInv /\ ParkInv /\ ParkTyped
      /\ GoodRegistry(reg) /\ GoodRegistry(reg') /\ AdoptTyped
      /\ park \in [Parks -> ParkRecord \cup {NoPark}]
      /\ call \in [Callers -> CallRecord]
  BY HandParts, TypedStep DEF IdleInv, TypedInv
<1>1. /\ adopted'.tok # None /\ adopted'.ttl /\ ~Disposed'
      /\ adopted'.ref = reg'.current /\ Attached' # None
  BY DEF Timed, Current
<1>2. PICK r \in Refs : r = reg'.current /\ Attached' = reg'.session[r]
  BY <1>0, <1>1 DEF Attached, Current, GoodRegistry, Registry
<1>3. ASSUME NEW q \in Refs, NEW s \in Sessions, FinishKeptAlive(q, s) PROVE Goal
  <2>1. PICK a \in Adoptions, ttl \in BOOLEAN :
          /\ adopted'.tok = a /\ adopted'.ttl = ttl
          /\ armed' = (ArmedOnStatus("idle", Current) \ {adopted.tok}) \cup (IF ttl THEN {a} ELSE {})
    BY <1>3 DEF FinishKeptAlive
  <2> QED  BY <1>1, <2>1
<1>4. ASSUME NEW c \in Callers, FactoryAnswers(c) PROVE adopted' \in {adopted, NotAdopted}
  <2>1. Underway(c) /\ reg' = reg /\ ~HasSession(revival[c])
    BY <1>4 DEF FactoryAnswers, Underway, IsUnderway, HasSession, registryVars
  <2>2. Attached # None  BY <1>1, <2>1 DEF Attached, Current
  <2> QED  BY <1>0, <2>1, <2>2, RevivedSession
<1>5. ASSUME adopted' \in {adopted, NotAdopted} PROVE adopted' = adopted /\ ~Disposed
  <2>1. adopted' = adopted  BY <1>1, <1>5 DEF NotAdopted
  <2>2. Disposed => Disposed'
    BY <1>0, AdoptionMoves DEF Disposed, DisposeManager, FinishKeptAlive, ColdAdopt
  <2> QED  BY <1>1, <2>1, <2>2
<1>6. DisposeManager => FALSE  BY <1>1 DEF DisposeManager, Disposed
<1>7. ASSUME adopted' = adopted, ~Disposed PROVE Goal
  <2>1. /\ adopted.ref = r /\ SpawnOver(r) /\ Born(r) /\ adopted.tok # None /\ adopted.ttl
    BY <1>0, <1>1, <1>2, <1>7 DEF AdoptInv
  <2>2. reg.current = r  BY <1>0, <1>2, <2>1, RefsStay
  <2>3. reg'.status[r] = "idle" \/ parkEntry' # None  BY <1>2 DEF Current
  <2>4. ASSUME NEW e, armed' = ArmedOnStatus("idle", e), StatusChanges(reg, "idle", e),
               parkEntry = None
        PROVE  Goal
    BY <1>7, <2>1, <2>2, <2>4 DEF ArmedOnStatus, Current
  <2>5. ASSUME NEW c \in Callers, ReviveReturns(c), reg' # reg PROVE Goal
    <3>1. revival[c].ref = r /\ Underway(c) /\ r # None
      BY <1>0, <2>5, RegistryAssumption
         DEF ReviveReturns, TypedInv, RevivalFilled, OneGeneration, Underway, IsUnderway
    <3>2. parkEntry = None  BY <1>0, <3>1 DEF TimerInv
    <3>3. armed' = ArmedOnStatus("idle", r) /\ reg.status[r] \in {"parked", "running"}
      BY <2>5, <3>1 DEF ReviveReturns, IsRevivable
    <3>4. StatusChanges(reg, "idle", r)
      BY <2>2, <3>1, <3>3 DEF StatusChanges, AcceptsStatus, Holds, MatchesExpected
    <3> QED  BY <2>4, <3>2, <3>3, <3>4
  <2>6. CASE reg'.session[r] # reg.session[r]
    <3>1. Brings(r)  BY <1>0, <1>1, <1>2, <2>6, FieldMoves DEF Detaches
    <3>2. ASSUME NEW s \in Sessions, SpawnAttaches(r, s) PROVE FALSE
      BY <2>1, <3>2 DEF SpawnAttaches, SpawnOver
    <3>3. ASSUME NEW c \in Callers, NEW s \in Sessions, ReviverAttaches(c, s), revival[c].ref = r
          PROVE  FALSE
      <4>1. Underway(c) /\ parkEntry' = parkEntry
        BY <3>3 DEF ReviverAttaches, Underway, IsUnderway, parkVars
      <4>2. parkEntry' = None  BY <1>0, <4>1 DEF TimerInv
      <4>3. Brought(r, s, "running")
        BY <1>0, <2>6, <3>3, BringerSets DEF ReviverAttaches
      <4>4. reg'.status[r] = "running"  BY <1>0, <4>3 DEF Brought, GoodRegistry, Registry
      <4> QED  BY <2>3, <4>2, <4>4
    <3>4. PICK c \in Callers : ReviveReturns(c)  BY <3>1, <3>2, <3>3 DEF Brings
    <3> QED  BY <2>5, <2>6, <3>4
  <2>7. CASE reg'.session[r] = reg.session[r]
    <3>1. Current = r /\ Current' = r /\ Attached # None /\ Attached = reg.session[r]
      BY <1>1, <1>2, <2>2, <2>7, RegistryAssumption DEF Attached, Current
    <3>2. Timed  BY <1>7, <2>1, <3>1 DEF Timed
    <3>3. CASE adopted.tok \in armed
      <4>1. parkEntry = None /\ \A c \in Callers : ~Underway(c)
        BY <1>0, <3>3 DEF TimerInv
      <4>2. ASSUME NEW s \in Sessions, RunStarts(s) PROVE FALSE
        <5>1. /\ parkEntry' = parkEntry /\ reg.status[r] = "idle" /\ reg.session[r] = s
              /\ reg' = WithStatus(reg, "running", s)
          BY <3>1, <4>2 DEF RunStarts, Owns, parkVars
        <5>2. reg'.status[r] = "running"
          BY <1>0, <2>2, <5>1, RegistryAssumption
             DEF WithStatus, AcceptsStatus, Holds, MatchesExpected, GoodRegistry, Registry
        <5> QED  BY <2>3, <4>1, <5>1, <5>2
      <4>3. ASSUME NEW a \in Adoptions, TimerFires(a) PROVE Goal
        <5>1. CanPark  BY <2>1, <3>1, <4>1 DEF CanPark
        <5>2. PICK p \in Parks :
                /\ parkEntry' = p
                /\ park' = [park EXCEPT ![p] = [pc |-> "yielding", ref |-> Current,
                                                session |-> Attached, cancelled |-> FALSE]]
          BY <4>3, <5>1 DEF TimerFires
        <5>3. WillPark'  BY <1>0, <5>2, LifecycleAssumption DEF WillPark
        <5> QED  BY <5>3
      <4>4. CASE armed \subseteq armed'  BY <1>7, <3>3, <4>4
      <4>5. adopted # NotAdopted  BY <2>1 DEF NotAdopted
      <4> QED  BY <1>0, <1>7, <4>1, <4>2, <4>3, <4>4, <4>5, DisarmedBy
    <3>4. CASE WillPark
      <4>1. PICK p \in Parks : /\ p = parkEntry /\ park[p].pc = "yielding"
                               /\ ~park[p].cancelled /\ park[p] # NoPark
        BY <1>0, <3>4 DEF WillPark, ParkTyped, ParkInv
      <4>2. park[p].ref = r /\ park[p].session = Attached
        BY <1>0, <3>1, <4>1, LifecycleAssumption
           DEF ParkRecord, OneGeneration, TakesAttached
      <4>3. StillParkable(p)  BY <2>1, <3>1, <4>1, <4>2 DEF StillParkable
      <4>4. ASSUME parkEntry' = p, park'[p] = park[p] PROVE Goal
        BY <4>1, <4>4, LifecycleAssumption DEF WillPark
      <4>5. ASSUME NEW q \in Parks, ParkMarks(q) PROVE Goal
        <5>1. CASE Cancels
          <6>1. ASSUME NEW c \in Callers,
                       call' = [call EXCEPT ![c] =
                          [NoCall EXCEPT !.pc = "keeping", !.park = parkEntry, !.ref = Current]]
                PROVE  WillRearm'
            <7>1. call'[c].pc = "keeping" /\ call'[c].ref = r
              BY <1>0, <3>1, <6>1 DEF NoCall
            <7> QED  BY <3>1, <7>1 DEF WillRearm
          <6>2. ASSUME NEW k, NEW e, NEW tomb, StartRelease(k, e, tomb) PROVE FALSE
            <7>1. ReleaseTarget(e) = r
              BY <2>1, <3>1, <6>2 DEF StartRelease, ReleaseTarget
            <7> QED  BY <1>1, <2>1, <6>2, <7>1 DEF StartRelease, NotAdopted
          <6> QED  BY <5>1, <6>1, <6>2 DEF Cancels
        <5>2. CASE ParkCommits(q) /\ StillParkable(q)
          <6>1. park[q].ref = r /\ reg' = ParkedRegistry(r)
            BY <3>1, <5>2 DEF ParkCommits, StillParkable
          <6>2. reg'.session = [reg.session EXCEPT ![r] = None]
            BY <1>0, <2>2, <6>1, ParkSets
          <6>3. reg.session \in [Refs -> Sessions \cup {None}]
            BY <1>0 DEF GoodRegistry, Registry
          <6>4. Attached' = None  BY <1>2, <6>2, <6>3
          <6> QED  BY <1>1, <6>4
        <5> QED  BY <4>5, <5>1, <5>2 DEF ParkMarks
      <4>6. ASSUME NEW q \in Parks, ParkEnds(q) PROVE Goal
        <5>1. q # p  BY <4>1, <4>3, <4>6 DEF ParkEnds
        <5> QED  BY <1>0, <4>1, <4>4, <4>6, <5>1 DEF ParkEnds, SettlePark
      <4>7. ASSUME NEW q \in Parks, ParkStarts(q) PROVE FALSE
        BY <4>1, <4>7, LifecycleAssumption DEF ParkStarts, CanPark
      <4>8. ~CloseManager  BY <1>7 DEF CloseManager, Disposed
      <4> QED  BY <1>0, <4>1, <4>4, <4>5, <4>6, <4>7, <4>8, ParksMove DEF ParkMoves
    <3>5. ASSUME WillRearm, reg.status[r] = "idle" \/ parkEntry # None PROVE Goal
      <4>1. PICK c \in Callers : call[c].pc = "keeping" /\ call[c].ref = r
        BY <3>1, <3>5 DEF WillRearm
      <4>2. CASE KeepResumes(c)
        <5>1. parkEntry = None  BY <1>0, <4>1, <4>2, SettledNone DEF KeepResumes
        <5>2. armed' = Rearmed(r)  BY <3>1, <4>1, <4>2 DEF KeepResumes
        <5>3. adopted.tok \in armed'  BY <2>1, <3>5, <5>1, <5>2 DEF Rearmed
        <5> QED  BY <1>7, <5>3
      <4>3. CASE ~KeepResumes(c)
        <5>1. call'[c] = call[c]  BY <1>0, <4>1, <4>3, KeepStays
        <5>2. WillRearm'  BY <3>1, <4>1, <5>1 DEF WillRearm
        <5> QED  BY <5>2
      <4> QED  BY <4>2, <4>3
    <3>6. CASE reg.status[r] # "idle" /\ parkEntry = None
      <4>1. ASSUME NEW p \in Parks, ParkStarts(p) PROVE Goal
        <5>1. parkEntry' = p /\ park'[p].pc = "yielding" /\ ~park'[p].cancelled
          BY <1>0, <4>1 DEF ParkStarts
        <5>2. WillPark'  BY <5>1, LifecycleAssumption DEF WillPark
        <5> QED  BY <5>2
      <4>2. ASSUME NEW s \in Sessions, RunEnds(s) PROVE Goal
        <5>1. /\ armed' = ArmedOnStatus("idle", s) /\ reg.session[r] = s
              /\ reg.status[r] = "running"
          BY <3>1, <4>2 DEF RunEnds, Owns
        <5>2. StatusChanges(reg, "idle", s)
          BY <2>2, <5>1, RegistryAssumption DEF StatusChanges, AcceptsStatus, Holds, MatchesExpected
        <5> QED  BY <2>4, <3>6, <5>1, <5>2
      <4>3. CASE parkEntry' # None
        <5>1. \E p \in Parks : ParkStarts(p)
          BY <1>0, <3>6, <4>3, ParksMove DEF ParkMoves, ParkMarks, ParkEnds, SettlePark, CloseManager
        <5> QED  BY <4>1, <5>1
      <4>4. CASE reg'.status[r] = "idle"
        <5>1. reg' # reg /\ reg'.status[r] # reg.status[r]  BY <3>6, <4>4
        <5> QED  BY <1>0, <2>1, <2>2, <2>5, <4>2, <4>4, <5>1, StatusBy
      <4> QED  BY <2>3, <4>3, <4>4
    <3>7. CASE reg.status[r] = "idle" \/ parkEntry # None
      <4>1. adopted.tok \in armed \/ WillPark \/ WillRearm
        BY <1>0, <3>1, <3>2, <3>7 DEF TimedInv
      <4> QED  BY <3>3, <3>4, <3>5, <3>7, <4>1
    <3> QED  BY <3>6, <3>7
  <2> QED  BY <2>6, <2>7
<1> HIDE DEF Goal
<1>8. adopted' \in {adopted, NotAdopted} => Goal  BY <1>5, <1>7
<1> QED  BY <1>0, <1>3, <1>4, <1>6, <1>8, AdoptionMoves

LEMMA IdleStep ==
  ASSUME OneGeneration, IdleInv, [Next]_vars
  PROVE  IdleInv'
<1>1. HandInv /\ TimerInv /\ BackOutInv /\ TakesAttached /\ NoOrphanTimer
  BY DEF IdleInv, TimerInv
<1>2. BaseInv' /\ JoinInv'  BY <1>1, BaseStep, JoinStep DEF HandInv, BaseInv, SlotInv
<1>3. HandInv'  BY <1>1, <1>2, StartUpStep, YieldStep, PutAwayStep DEF HandInv
<1> QED  BY <1>1, <1>3, TimerStep, BackOutStep, TakesStep, TimedStep DEF IdleInv

LEMMA IdleInvariant == ASSUME OneGeneration PROVE Spec => []IdleInv
<1>1. IdleInv /\ [Next]_vars => IdleInv'  BY IdleStep
<1> QED  BY <1>1, IdleInitially, PTL DEF Spec

\* Within one generation of the id an adopted agent that sits idle with a live
\* session has its timer pending or a park of it under way, however the park, the
\* callers that cancel it, the turns and the revivals interleave.
THEOREM IdleAgentIsTimed == ASSUME OneGeneration PROVE Spec => []IdleIsTimed
<1>1. IdleInv => IdleIsTimed
  <2> SUFFICES ASSUME IdleInv, ~Disposed, Quiet, Timed, reg.status[Current] = "idle"
               PROVE  adopted.tok \in armed \/ (parkEntry # None /\ park[parkEntry].ref = Current)
    BY DEF IdleIsTimed, Timed, Disposed
  <2>0. /\ HandInv /\ TypedInv /\ GoodRegistry(reg) /\ ParkInv /\ ParkTyped
        /\ park \in [Parks -> ParkRecord \cup {NoPark}]
    BY HandParts DEF IdleInv
  <2>1. Current \in Refs  BY <2>0, CurrentTyped DEF Timed, Attached
  <2>2. ASSUME parkEntry # None PROVE park[parkEntry].ref = Current
    <3>1. PICK p \in Parks : p = parkEntry /\ park[p] # NoPark
      BY <2>0, <2>2 DEF ParkTyped, ParkInv
    <3> QED  BY <2>0, <2>1, <3>1 DEF ParkRecord, OneGeneration
  <2>3. ASSUME NEW c \in Callers, call[c].pc = "keeping" PROVE parkEntry # None
    <3>1. call[c].park \in Parks /\ ~ParkSettled(call[c].park)
      BY <2>0, <2>3 DEF Quiet, CallReady, ParkInv
    <3>2. park[call[c].park] # NoPark  BY <3>1 DEF ParkSettled, NoPark
    <3> QED  BY <2>0, <3>1, <3>2, LifecycleAssumption DEF ParkInv, FactoryInstalled, Disposed
  <2> QED  BY <2>2, <2>3 DEF IdleInv, TimedInv, WillPark, WillRearm
<1> QED  BY <1>1, IdleInvariant, PTL

\* Within one generation no idle timer outlives the adoption that armed it.
THEOREM TimerIsOfTheAdoption == ASSUME OneGeneration PROVE Spec => []NoOrphanTimer
<1>1. IdleInv => NoOrphanTimer  BY DEF IdleInv, TimerInv
<1> QED  BY <1>1, IdleInvariant, PTL

\* ... so that ensureLive returns no session that a park took out of service.
THEOREM OneGenerationStaysParked == ASSUME OneGeneration PROVE Spec => ParkedNeverHandedOut
BY TimerIsOfTheAdoption, ParkedStaysParked, PTL
=============================================================================
