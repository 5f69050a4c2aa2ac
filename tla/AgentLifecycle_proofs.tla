------------------------ MODULE AgentLifecycle_proofs ------------------------
(***************************************************************************)
(* Proofs about the lifecycle manager of AgentLifecycle.tla, for any       *)
(* number of generations, sessions, parks, callers and releasers.          *)
(***************************************************************************)
EXTENDS AgentLifecycle, TLAPS

-----------------------------------------------------------------------------
(* The registry, one operation after the other                             *)

GoodRegistry(g) ==
    g \in Registry /\ (g.current # None => g.status[g.current] # "unborn")

\* What no operation and no sequence of operations may do between g and h.
Follows(g, h) ==
    \A r \in Refs :
        /\ g.status[r] = "aborted" =>
              h.status[r] = "aborted" /\ h.session[r] \in {g.session[r], None}
        /\ g.status[r] # "unborn" /\ g.current # r =>
              h.current # r /\ h.status[r] = g.status[r] /\ h.session[r] = g.session[r]
        /\ g.status[r] # "unborn" => h.status[r] # "unborn"

USE RegistryAssumption

LEMMA FollowsSelf == ASSUME NEW g PROVE Follows(g, g)
BY DEF Follows

LEMMA FollowsTwice ==
  ASSUME NEW g, NEW h, NEW k, Follows(g, h), Follows(h, k)
  PROVE  Follows(g, k)
BY DEF Follows

LEMMA RegisteredFollows ==
  ASSUME NEW g, GoodRegistry(g), NEW r \in Refs, g.status[r] = "unborn",
         NEW st \in AgentStatus, NEW s \in Sessions \cup {None}
  PROVE  GoodRegistry(Registered(g, r, st, s)) /\ Follows(g, Registered(g, r, st, s))
BY DEF GoodRegistry, Registry, Registered, AgentStatus, Follows

LEMMA StatusFollows ==
  ASSUME NEW g, GoodRegistry(g), NEW st \in AgentStatus, NEW e
  PROVE  GoodRegistry(WithStatus(g, st, e)) /\ Follows(g, WithStatus(g, st, e))
BY DEF GoodRegistry, Registry, WithStatus, AcceptsStatus, Holds, AgentStatus, Follows

LEMMA SessionFollows ==
  ASSUME NEW g, GoodRegistry(g), NEW s \in Sessions, NEW e
  PROVE  GoodRegistry(WithSession(g, s, e)) /\ Follows(g, WithSession(g, s, e))
BY DEF GoodRegistry, Registry, WithSession, AcceptsSession, Holds, AgentStatus, Follows

LEMMA DetachedFollows ==
  ASSUME NEW g, GoodRegistry(g), NEW e
  PROVE  GoodRegistry(Detached(g, e)) /\ Follows(g, Detached(g, e))
BY DEF GoodRegistry, Registry, Detached, Holds, AgentStatus, Follows

LEMMA UnregisteredFollows ==
  ASSUME NEW g, GoodRegistry(g), NEW e
  PROVE  GoodRegistry(Unregistered(g, e)) /\ Follows(g, Unregistered(g, e))
BY DEF GoodRegistry, Registry, Unregistered, Holds, AgentStatus, Follows

-----------------------------------------------------------------------------
(* Types                                                                   *)

SessTyped ==
    /\ sess \in [Sessions -> {"unborn", "live", "disposing", "disposed"}]
    /\ home \in [Sessions -> Refs \cup {None}]
    /\ spawn \in [Refs -> {"none", "building", "working", "isolating", "dropping", "done"}]
    /\ mgr \in {"open", "closing", "closed"}
    /\ parkedOut \subseteq Sessions

AdoptTyped ==
    /\ adopted \in [tok : Adoptions, ref : Refs, revive : BOOLEAN, ttl : BOOLEAN]
                      \cup {NotAdopted}
    /\ armed \subseteq Adoptions

ParkTyped ==
    /\ parkEntry \in Parks \cup {None}
    /\ park \in [Parks -> [pc : ParkPhase \ {"settled"}, ref : Refs, session : Sessions,
                           cancelled : BOOLEAN] \cup {NoPark}]

CallTyped ==
    /\ revivalEntry \in Callers \cup {None}
    /\ call \in [Callers -> [pc : CallPhase, park : Parks \cup {None}, ref : Refs \cup {None},
                             on : Callers \cup {None}, got : Sessions \cup {None}]]
    /\ revival \in [Callers -> [pc : RevivalPhase, ref : Refs \cup {None},
                                session : Sessions \cup {None}, tok : Adoptions \cup {None}]]

\* A revival under way is one of a ref, one that has come so far has its
\* session, and who waits for a revival waits for one.
RevivalFilled ==
    \A c \in Callers :
        /\ revival[c].pc # "none" => revival[c].ref \in Refs
        /\ revival[c].pc \in {"attached", "returned", "discarding", "unwinding", "resolved"}
              => revival[c].session \in Sessions
        /\ call[c].pc = "reviving" => call[c].on \in Callers

\* A release under way is one of a ref.
ReleaseTyped ==
    /\ release \in [Releasers -> [pc : ReleasePhase, ref : Refs \cup {None},
                                  session : Sessions \cup {None}, tomb : BOOLEAN,
                                  park : Parks \cup {None}]]
    /\ \A k \in Releasers : release[k].pc # "idle" => release[k].ref \in Refs
    /\ reclaim \in Refs \cup {None}

TypedInv ==
    /\ GoodRegistry(reg)
    /\ SessTyped /\ AdoptTyped /\ ParkTyped /\ CallTyped /\ ReleaseTyped
    /\ RevivalFilled

LEMMA TypeParts == TypedInv => LifecycleTypeOK
BY DEF TypedInv, LifecycleTypeOK, GoodRegistry, RegistryTypeOK, Born, SessTyped, AdoptTyped,
       ParkTyped, CallTyped, ReleaseTyped

LEMMA TypedInit == Init => TypedInv
<1> USE DEF Init
<1>1. Init => GoodRegistry(reg)
  BY DEF EmptyRegistry, GoodRegistry, Registry
<1>2. Init => SessTyped /\ AdoptTyped  BY DEF SessTyped, AdoptTyped
<1>3. Init => ParkTyped  BY DEF ParkTyped
<1>4. Init => CallTyped /\ RevivalFilled
  BY DEF CallTyped, RevivalFilled, NoCall, NoRevival, CallPhase, RevivalPhase
<1>5. Init => ReleaseTyped  BY DEF ReleaseTyped, NoRelease, ReleasePhase
<1> QED  BY <1>1, <1>2, <1>3, <1>4, <1>5 DEF TypedInv

\* The ways a step may leave the registry.
RegistryGoes ==
    \/ reg' = reg
    \/ \E r \in Refs, st \in AgentStatus :
          reg.status[r] = "unborn" /\ reg.current = None /\ reg' = Registered(reg, r, st, None)
    \/ \E st \in AgentStatus : \E e : reg' = WithStatus(reg, st, e)
    \/ \E s \in Sessions, st \in AgentStatus : \E e : reg' = WithStatus(WithSession(reg, s, e), st, e)
    \/ \E e : reg' = WithStatus(Detached(reg, e), "parked", e)
    \/ \E e : reg' = Detached(WithStatus(reg, "aborted", e), e)
    \/ \E e : reg' = Detached(reg, e)
    \/ \E e : reg' = Unregistered(reg, e)

LEMMA GoesFollows ==
  ASSUME GoodRegistry(reg), RegistryGoes
  PROVE  GoodRegistry(reg') /\ Follows(reg, reg')
<1> USE DEF AgentStatus
<1>1. CASE reg' = reg  BY <1>1, FollowsSelf
<1>2. ASSUME NEW r \in Refs, NEW st \in AgentStatus, reg.status[r] = "unborn",
             reg' = Registered(reg, r, st, None)
      PROVE  GoodRegistry(reg') /\ Follows(reg, reg')
  BY <1>2, RegisteredFollows
<1>3. ASSUME NEW st \in AgentStatus, NEW e, reg' = WithStatus(reg, st, e)
      PROVE  GoodRegistry(reg') /\ Follows(reg, reg')
  BY <1>3, StatusFollows
<1>4. ASSUME NEW s \in Sessions, NEW st \in AgentStatus, NEW e,
             reg' = WithStatus(WithSession(reg, s, e), st, e)
      PROVE  GoodRegistry(reg') /\ Follows(reg, reg')
  <2>1. GoodRegistry(WithSession(reg, s, e)) /\ Follows(reg, WithSession(reg, s, e))
    BY SessionFollows
  <2>2. GoodRegistry(reg') /\ Follows(WithSession(reg, s, e), reg')
    BY <1>4, <2>1, StatusFollows
  <2> QED  BY <2>1, <2>2, FollowsTwice
<1>5. ASSUME NEW e, reg' = WithStatus(Detached(reg, e), "parked", e)
      PROVE  GoodRegistry(reg') /\ Follows(reg, reg')
  <2>1. GoodRegistry(Detached(reg, e)) /\ Follows(reg, Detached(reg, e))
    BY DetachedFollows
  <2>2. GoodRegistry(reg') /\ Follows(Detached(reg, e), reg')
    BY <1>5, <2>1, StatusFollows
  <2> QED  BY <2>1, <2>2, FollowsTwice
<1>6. ASSUME NEW e, reg' = Detached(WithStatus(reg, "aborted", e), e)
      PROVE  GoodRegistry(reg') /\ Follows(reg, reg')
  <2>1. GoodRegistry(WithStatus(reg, "aborted", e)) /\ Follows(reg, WithStatus(reg, "aborted", e))
    BY StatusFollows
  <2>2. GoodRegistry(reg') /\ Follows(WithStatus(reg, "aborted", e), reg')
    BY <1>6, <2>1, DetachedFollows
  <2> QED  BY <2>1, <2>2, FollowsTwice
<1>7. ASSUME NEW e, reg' = Detached(reg, e) \/ reg' = Unregistered(reg, e)
      PROVE  GoodRegistry(reg') /\ Follows(reg, reg')
  BY <1>7, DetachedFollows, UnregisteredFollows
<1> QED  BY <1>1, <1>2, <1>3, <1>4, <1>5, <1>6, <1>7 DEF RegistryGoes

\* The operators of release.
LEMMA ReleaseTailGoes ==
  ASSUME NEW k, NEW ref, NEW tomb, ReleaseTail(k, ref, tomb)
  PROVE  reg' = reg \/ reg' = Unregistered(reg, ref)
BY DEF ReleaseTail

LEMMA StartReleaseGoes ==
  ASSUME NEW k, NEW e, NEW tomb, StartRelease(k, e, tomb)
  PROVE  RegistryGoes
<1>1. \/ reg' = reg
      \/ ReleaseTail(k, ReleaseTarget(e), tomb)
  BY DEF StartRelease
<1> QED  BY <1>1, ReleaseTailGoes DEF RegistryGoes

LEMMA RegistryMoves ==
  ASSUME TypedInv, [Next]_vars
  PROVE  RegistryGoes
<1> USE DEF AgentStatus
<1>1. ASSUME NEW r \in Refs, SpawnRegisters(r) \/ RestoreParked(r) PROVE RegistryGoes
  BY <1>1 DEF SpawnRegisters, RestoreParked, Born, IsAvailable, RegistryGoes
<1>2. ASSUME NEW r \in Refs, NEW s \in Sessions, SpawnAttaches(r, s) PROVE RegistryGoes
  BY <1>2 DEF SpawnAttaches, RegistryGoes
<1>3. ASSUME NEW r \in Refs, NEW s \in Sessions,
             FinishKeptAlive(r, s) \/ FinishIsolated(r, s) \/ FinishDisposes(r, s)
      PROVE  RegistryGoes
  BY <1>3 DEF FinishKeptAlive, FinishIsolated, FinishDisposes, RegistryGoes
<1>4. ASSUME NEW r \in Refs, IsolatedDetaches(r) \/ HelperDrops(r) PROVE RegistryGoes
  BY <1>4 DEF IsolatedDetaches, HelperDrops, UnregisterRef, RegistryGoes
<1>5. ASSUME NEW s \in Sessions, RunStarts(s) \/ RunEnds(s) \/ SessionDisposed(s)
      PROVE  RegistryGoes
  BY <1>5 DEF RunStarts, RunEnds, SessionDisposed, UnregisterRef, RegistryGoes
<1>6. ASSUME NEW p \in Parks, ParkCommits(p) PROVE RegistryGoes
  BY <1>6 DEF ParkCommits, ParkedRegistry, RegistryGoes
<1>7. ASSUME NEW c \in Callers, NEW s \in Sessions, ReviverAttaches(c, s) PROVE RegistryGoes
  BY <1>7 DEF ReviverAttaches, RegistryGoes
<1>8. ASSUME NEW c \in Callers, ReviveReturns(c) PROVE RegistryGoes
  <2>1. revival[c].session \in Sessions  BY <1>8 DEF ReviveReturns, TypedInv, RevivalFilled
  <2> QED  BY <1>8, <2>1 DEF ReviveReturns, RegistryGoes
<1>9. ASSUME NEW k \in Releasers, Release(k) PROVE RegistryGoes
  BY <1>9, StartReleaseGoes DEF Release
<1>10. ASSUME NEW k \in Releasers, ReleaseResumes(k) PROVE RegistryGoes
  BY <1>10, ReleaseTailGoes DEF ReleaseResumes, RegistryGoes
<1>11. ASSUME NEW k \in Releasers, TombstonePersisted(k) \/ TombstoneFails(k) PROVE RegistryGoes
  BY <1>11 DEF TombstonePersisted, TombstoneFails, RegistryGoes
<1>12. ASSUME NEW k \in Releasers, ReleaseFinishes(k) \/ ReleaseTimesOut(k) PROVE RegistryGoes
  BY <1>12 DEF ReleaseFinishes, ReleaseTimesOut, UnregisterRef, RegistryGoes
<1>13. CASE ReclaimStarts \/ ReclaimProbed
  BY <1>13 DEF ReclaimStarts, ReclaimProbed, UnregisterRef, RegistryGoes
<1>14. CASE DisposeManager
  BY <1>14, StartReleaseGoes DEF DisposeManager, RegistryGoes, registryVars
<1>15. ASSUME NEW p \in Parks, ParkSettles(p) PROVE reg' = reg
  BY <1>15 DEF ParkSettles, registryVars
<1>16. ASSUME NEW c \in Callers,
              \/ KeepResumes(c) \/ WaitResumes(c) \/ RevivedResumes(c) \/ RevivalRejects(c)
              \/ EnsureLive(c) \/ Collect(c)
       PROVE  reg' = reg
  BY <1>16 DEF KeepResumes, WaitResumes, RevivedResumes, RevivalRejects, EnsureLive, Collect,
               registryVars
<1>17. ASSUME NEW c \in Callers,
              \/ FactoryAnswers(c) \/ ReviverFails(c) \/ ReviverClaims(c) \/ ReviverFinishes(c)
              \/ \E s \in Sessions : SimpleReviverReturns(c, s)
       PROVE  reg' = reg
  BY <1>17 DEF FactoryAnswers, ReviverFails, ReviverClaims, ReviverFinishes,
               SimpleReviverReturns, registryVars
<1>18. ASSUME (\E a \in Adoptions : TimerFires(a)) \/ CloseManager \/ UNCHANGED vars
       PROVE  reg' = reg
  BY <1>18 DEF TimerFires, CloseManager, vars, registryVars
<1>19. reg' = reg => RegistryGoes  BY DEF RegistryGoes
<1> QED
  BY <1>1, <1>2, <1>3, <1>4, <1>5, <1>6, <1>7, <1>8, <1>9, <1>10, <1>11, <1>12, <1>13, <1>14,
     <1>15, <1>16, <1>17, <1>18, <1>19
  DEF Next, Microtask, Executor, ReviverStep

-----------------------------------------------------------------------------
(* Types are kept, one part of the state after the other                   *)

LEMMA CurrentTyped ==
  ASSUME TypedInv
  PROVE  /\ Current \in Refs \cup {None} /\ Attached \in Sessions \cup {None}
         /\ \A s \in Sessions : Owns(s) => Current \in Refs
BY DEF TypedInv, GoodRegistry, Registry, Current, Attached, Owns

LEMMA TargetTyped ==
  ASSUME TypedInv, NEW e
  PROVE  ReleaseTarget(e) \in Refs \cup {None}
BY CurrentTyped DEF ReleaseTarget, Holds, TypedInv, AdoptTyped, NotAdopted, Current

LEMMA DisposingTyped ==
  ASSUME SessTyped, NEW s
  PROVE  Disposing(s) \in [Sessions -> {"unborn", "live", "disposing", "disposed"}]
BY DEF SessTyped, Disposing

LEMMA ReleaseSess ==
  ASSUME SessTyped, NEW k, NEW e, NEW tomb,
         StartRelease(k, e, tomb) \/ ReleaseTail(k, e, tomb)
  PROVE  sess' \in [Sessions -> {"unborn", "live", "disposing", "disposed"}]
<1>1. ASSUME NEW r, ReleaseTail(k, r, tomb)
      PROVE  \/ sess' = sess
             \/ \E s : sess' = Disposing(s)
  BY <1>1 DEF ReleaseTail
<1>2. ASSUME StartRelease(k, e, tomb)
      PROVE  sess' = sess \/ ReleaseTail(k, ReleaseTarget(e), tomb)
  BY <1>2 DEF StartRelease
<1> QED  BY <1>1, <1>2, DisposingTyped DEF SessTyped

LEMMA SessStep ==
  ASSUME TypedInv, [Next]_vars
  PROVE  SessTyped'
<1> USE DEF registryVars, adoptionVars, parkVars, callVars, otherVars
<1>0. SessTyped  BY DEF TypedInv
<1>17. ASSUME SessTyped, sess' \in [Sessions -> {"unborn", "live", "disposing", "disposed"}],
             UNCHANGED <<home, spawn, mgr, parkedOut>>
      PROVE  SessTyped'
  BY <1>17 DEF SessTyped
<1>1. ASSUME NEW r \in Refs, SpawnRegisters(r) \/ RestoreParked(r) \/ IsolatedDetaches(r) \/ HelperDrops(r)
      PROVE  SessTyped'
  BY <1>0, <1>1 DEF SpawnRegisters, RestoreParked, IsolatedDetaches, HelperDrops, SessTyped
<1>2. ASSUME NEW r \in Refs, NEW s \in Sessions, SpawnAttaches(r, s) PROVE SessTyped'
  BY <1>0, <1>2 DEF SpawnAttaches, SessTyped
<1>3. ASSUME NEW r \in Refs, NEW s \in Sessions,
             FinishKeptAlive(r, s) \/ FinishIsolated(r, s) \/ FinishDisposes(r, s)
      PROVE  SessTyped'
  <2>1. /\ sess' = sess \/ sess' = Disposing(s)
        /\ UNCHANGED <<home, mgr, parkedOut>>
        /\ \E q \in {"done", "isolating", "dropping"} : spawn' = [spawn EXCEPT ![r] = q]
    BY <1>3 DEF FinishKeptAlive, FinishIsolated, FinishDisposes
  <2>2. sess' \in [Sessions -> {"unborn", "live", "disposing", "disposed"}]
    BY <1>0, <2>1, DisposingTyped DEF SessTyped
  <2> QED  BY <1>0, <2>1, <2>2 DEF SessTyped
<1>4. ASSUME NEW s \in Sessions, RunStarts(s) \/ RunEnds(s) \/ SessionDisposed(s) PROVE SessTyped'
  BY <1>0, <1>4 DEF RunStarts, RunEnds, SessionDisposed, SessTyped
<1>5. ASSUME NEW p \in Parks, ParkCommits(p) PROVE SessTyped'
  <2>1. /\ UNCHANGED <<home, spawn, mgr>>
        /\ \/ UNCHANGED <<sess, parkedOut>>
           \/ /\ sess' = Disposing(park[p].session) /\ park[p].pc = "yielding"
              /\ parkedOut' = parkedOut \cup {park[p].session}
    BY <1>5 DEF ParkCommits
  <2>2. park[p].pc = "yielding" => park[p].session \in Sessions
    BY DEF TypedInv, ParkTyped, NoPark
  <2>3. sess' \in [Sessions -> {"unborn", "live", "disposing", "disposed"}]
    BY <1>0, <2>1, DisposingTyped DEF SessTyped
  <2> QED  BY <1>0, <2>1, <2>2, <2>3 DEF SessTyped
<1>6. ASSUME NEW c \in Callers, NEW s \in Sessions, ReviverAttaches(c, s) \/ SimpleReviverReturns(c, s)
      PROVE  SessTyped'
  <2>1. revival[c].ref \in Refs \cup {None}  BY DEF TypedInv, CallTyped
  <2> QED  BY <1>0, <1>6, <2>1 DEF ReviverAttaches, SimpleReviverReturns, SessTyped
<1>7. ASSUME NEW c \in Callers, ReviverFinishes(c) \/ ReviveReturns(c) PROVE SessTyped'
  <2>1. /\ UNCHANGED <<home, spawn, mgr, parkedOut>>
        /\ sess' = sess \/ sess' = Disposing(revival[c].session)
    BY <1>7 DEF ReviverFinishes, ReviveReturns, Discards
  <2>2. sess' \in [Sessions -> {"unborn", "live", "disposing", "disposed"}]
    BY <1>0, <2>1, DisposingTyped DEF SessTyped
  <2> QED  BY <1>0, <1>17, <2>1, <2>2
<1>8. ASSUME NEW k \in Releasers, Release(k) PROVE SessTyped'
  <2>1. PICK e, tomb : StartRelease(k, e, tomb) /\ mgr' = mgr
    BY <1>8 DEF Release
  <2>2. UNCHANGED <<home, spawn, mgr, parkedOut>>  BY <2>1 DEF StartRelease
  <2> QED  BY <1>0, <1>17, <2>1, <2>2, ReleaseSess
<1>9. ASSUME NEW k \in Releasers, ReleaseResumes(k) PROVE SessTyped'
  <2>1. UNCHANGED <<home, spawn, mgr, parkedOut>>  BY <1>9 DEF ReleaseResumes
  <2>2. ReleaseTail(k, release[k].ref, release[k].tomb)  BY <1>9 DEF ReleaseResumes
  <2> QED  BY <1>0, <1>17, <2>1, <2>2, ReleaseSess
<1>10. ASSUME NEW k \in Releasers,
              TombstonePersisted(k) \/ TombstoneFails(k) \/ ReleaseFinishes(k) \/ ReleaseTimesOut(k)
       PROVE  SessTyped'
  <2>1. /\ UNCHANGED <<home, spawn, mgr, parkedOut>>
        /\ sess' = sess \/ \E s : sess' = Disposing(s)
    BY <1>10 DEF TombstonePersisted, TombstoneFails, ReleaseFinishes, ReleaseTimesOut
  <2>2. sess' \in [Sessions -> {"unborn", "live", "disposing", "disposed"}]
    BY <1>0, <2>1, DisposingTyped DEF SessTyped
  <2> QED  BY <1>0, <1>17, <2>1, <2>2
<1>11. CASE DisposeManager
  <2>1. /\ UNCHANGED <<home, spawn, parkedOut>> /\ mgr' = "closing"
        /\ sess' = sess \/ \E k \in Releasers : StartRelease(k, Anyone, FALSE)
    BY <1>11 DEF DisposeManager, StartRelease
  <2>2. sess' \in [Sessions -> {"unborn", "live", "disposing", "disposed"}]
    BY <1>0, <2>1, ReleaseSess DEF SessTyped
  <2> QED  BY <1>0, <2>1, <2>2 DEF SessTyped
<1>12. CASE CloseManager  BY <1>0, <1>12 DEF CloseManager, SessTyped
<1>13. ASSUME NEW c \in Callers,
              \/ KeepResumes(c) \/ WaitResumes(c) \/ RevivedResumes(c) \/ RevivalRejects(c)
              \/ EnsureLive(c) \/ Collect(c)
              \/ FactoryAnswers(c) \/ ReviverFails(c) \/ ReviverClaims(c)
       PROVE  UNCHANGED <<sess, home, spawn, mgr, parkedOut>>
  BY <1>13 DEF KeepResumes, WaitResumes, RevivedResumes, RevivalRejects, EnsureLive, Collect,
               FactoryAnswers, ReviverFails, ReviverClaims
<1>14. ASSUME \/ \E p \in Parks : ParkSettles(p)
              \/ \E a \in Adoptions : TimerFires(a)
              \/ ReclaimStarts \/ ReclaimProbed \/ UNCHANGED vars
       PROVE  UNCHANGED <<sess, home, spawn, mgr, parkedOut>>
  BY <1>14 DEF ParkSettles, TimerFires, ReclaimStarts, ReclaimProbed, vars
<1>15. UNCHANGED <<sess, home, spawn, mgr, parkedOut>> => SessTyped'
  BY <1>0 DEF SessTyped
<1> QED
  BY <1>1, <1>2, <1>3, <1>4, <1>5, <1>6, <1>7, <1>8, <1>9, <1>10, <1>11, <1>12, <1>13, <1>14, <1>15
  DEF Next, Microtask, Executor, ReviverStep

LEMMA ArmedTyped ==
  ASSUME TypedInv, NEW st, NEW e
  PROVE  ArmedOnStatus(st, e) \subseteq Adoptions
<1>1. StatusChanges(reg, st, e) /\ adopted.ref = Current => adopted.tok \in Adoptions
  BY CurrentTyped DEF StatusChanges, AcceptsStatus, Holds, Current, TypedInv, AdoptTyped, NotAdopted
<1> QED  BY <1>1 DEF ArmedOnStatus, TypedInv, AdoptTyped

LEMMA UnregisterTyped ==
  ASSUME TypedInv, NEW r, UnregisterRef(r)
  PROVE  AdoptTyped'
BY DEF UnregisterRef, TypedInv, AdoptTyped

LEMMA ReleaseAdopt ==
  ASSUME TypedInv, NEW k, NEW e, NEW tomb, StartRelease(k, e, tomb)
  PROVE  AdoptTyped'
BY DEF StartRelease, TypedInv, AdoptTyped

LEMMA AdoptionTyped ==
  ASSUME NEW a \in Adoptions, NEW r \in Refs, NEW v \in BOOLEAN, NEW t \in BOOLEAN
  PROVE  [tok |-> a, ref |-> r, revive |-> v, ttl |-> t]
            \in [tok : Adoptions, ref : Refs, revive : BOOLEAN, ttl : BOOLEAN]
OBVIOUS

LEMMA AdoptStep ==
  ASSUME TypedInv, [Next]_vars
  PROVE  AdoptTyped'
<1> USE DEF registryVars, adoptionVars, parkVars, callVars, otherVars
<1>0. AdoptTyped  BY DEF TypedInv
<1>1. ASSUME NEW r \in Refs, NEW s \in Sessions, FinishKeptAlive(r, s) PROVE AdoptTyped'
  <2>1. PICK a \in Adoptions, v \in BOOLEAN, t \in BOOLEAN :
           /\ adopted' = [tok |-> a, ref |-> Current, revive |-> v, ttl |-> t]
           /\ armed' = (ArmedOnStatus("idle", Current) \ {adopted.tok}) \cup (IF t THEN {a} ELSE {})
    BY <1>1 DEF FinishKeptAlive
  <2>2. Current \in Refs  BY <1>1, CurrentTyped DEF FinishKeptAlive
  <2>3. armed' \subseteq Adoptions  BY <2>1, ArmedTyped
  <2> QED  BY <2>1, <2>2, <2>3, AdoptionTyped DEF AdoptTyped
<1>2. ASSUME NEW r, UnregisterRef(r) PROVE AdoptTyped'  BY <1>2, UnregisterTyped
<1>3. ASSUME NEW c \in Callers, FactoryAnswers(c) PROVE AdoptTyped'
  <2>1. armed' = armed  BY <1>3 DEF FactoryAnswers
  <2>2. CASE adopted' = adopted  BY <1>0, <2>1, <2>2 DEF AdoptTyped
  <2>3. CASE ColdAdopt(c)
    <3>1. PICK a \in Adoptions :
             adopted' = [tok |-> a, ref |-> revival[c].ref, revive |-> TRUE, ttl |-> TRUE]
      BY <2>3 DEF ColdAdopt
    <3>2. revival[c].ref \in Refs  BY <1>3 DEF FactoryAnswers, TypedInv, RevivalFilled
    <3> QED  BY <2>1, <3>1, <3>2, <1>0, AdoptionTyped DEF AdoptTyped
  <2> QED  BY <1>3, <2>2, <2>3 DEF FactoryAnswers
<1>4. ASSUME NEW c \in Callers, ReviverFails(c) \/ RevivalRejects(c) PROVE AdoptTyped'
  BY <1>0, <1>4 DEF ReviverFails, RevivalRejects, Rejects, AdoptTyped
<1>5. ASSUME \/ \E s \in Sessions : RunStarts(s) \/ RunEnds(s)
             \/ \E c \in Callers, s \in Sessions : ReviverAttaches(c, s)
             \/ \E c \in Callers : ReviveReturns(c)
      PROVE  AdoptTyped'
  <2>1. /\ adopted' = adopted
        /\ armed' = armed \/ \E st, e : armed' = ArmedOnStatus(st, e)
    BY <1>5 DEF RunStarts, RunEnds, ReviverAttaches, ReviveReturns
  <2> QED  BY <1>0, <2>1, ArmedTyped DEF AdoptTyped
<1>6. ASSUME NEW a \in Adoptions, TimerFires(a) PROVE AdoptTyped'
  BY <1>0, <1>6 DEF TimerFires, AdoptTyped
<1>7. ASSUME NEW c \in Callers, KeepResumes(c) PROVE AdoptTyped'
  <2>1. adopted.tok # None => adopted.tok \in Adoptions  BY <1>0 DEF AdoptTyped, NotAdopted
  <2> QED  BY <1>0, <1>7, <2>1 DEF KeepResumes, Rearmed, AdoptTyped
<1>8. ASSUME NEW k \in Releasers, Release(k) PROVE AdoptTyped'
  BY <1>8, ReleaseAdopt DEF Release
<1>9. ASSUME NEW k \in Releasers, ReleaseResumes(k) PROVE AdoptTyped'
  BY <1>0, <1>9 DEF ReleaseResumes, AdoptTyped
<1>10. CASE DisposeManager
  <2>1. UNCHANGED <<adopted, armed>> \/ \E k \in Releasers : StartRelease(k, Anyone, FALSE)
    BY <1>10 DEF DisposeManager
  <2> QED  BY <1>0, <2>1, ReleaseAdopt DEF AdoptTyped
<1>11. ASSUME \/ \E r \in Refs : HelperDrops(r)
              \/ \E s \in Sessions : SessionDisposed(s)
              \/ \E k \in Releasers : ReleaseFinishes(k) \/ ReleaseTimesOut(k)
              \/ ReclaimStarts \/ ReclaimProbed
       PROVE  UNCHANGED <<adopted, armed>> \/ \E r : UnregisterRef(r)
  BY <1>11 DEF HelperDrops, SessionDisposed, ReleaseFinishes, ReleaseTimesOut, ReclaimStarts,
               ReclaimProbed
<1>12. ASSUME \/ \E r \in Refs : SpawnRegisters(r) \/ RestoreParked(r) \/ IsolatedDetaches(r)
              \/ \E r \in Refs, s \in Sessions :
                    SpawnAttaches(r, s) \/ FinishIsolated(r, s) \/ FinishDisposes(r, s)
       PROVE  UNCHANGED <<adopted, armed>>
  BY <1>12 DEF SpawnRegisters, RestoreParked, IsolatedDetaches, SpawnAttaches, FinishIsolated,
               FinishDisposes
<1>13. ASSUME NEW c \in Callers,
              \/ WaitResumes(c) \/ RevivedResumes(c) \/ EnsureLive(c) \/ Collect(c)
              \/ ReviverClaims(c) \/ ReviverFinishes(c)
              \/ \E s \in Sessions : SimpleReviverReturns(c, s)
       PROVE  UNCHANGED <<adopted, armed>>
  BY <1>13 DEF WaitResumes, RevivedResumes, EnsureLive, Collect, ReviverClaims, ReviverFinishes,
               SimpleReviverReturns
<1>14. ASSUME \/ \E p \in Parks : ParkCommits(p) \/ ParkSettles(p)
              \/ \E k \in Releasers : TombstonePersisted(k) \/ TombstoneFails(k)
              \/ CloseManager \/ UNCHANGED vars
       PROVE  UNCHANGED <<adopted, armed>>
  BY <1>14 DEF ParkCommits, ParkSettles, TombstonePersisted, TombstoneFails, CloseManager, vars
<1>15. UNCHANGED <<adopted, armed>> => AdoptTyped'
  BY <1>0 DEF AdoptTyped
<1> QED
  BY <1>1, <1>2, <1>3, <1>4, <1>5, <1>6, <1>7, <1>8, <1>9, <1>10, <1>11, <1>12, <1>13, <1>14, <1>15
  DEF Next, Microtask, Executor, ReviverStep

\* Parks.

ParkRecord == [pc : ParkPhase \ {"settled"}, ref : Refs, session : Sessions, cancelled : BOOLEAN]

\* A park stays well-formed when it is cancelled or committed.
LEMMA ParkMoved ==
  ASSUME ParkTyped, NEW p \in Parks, park[p].ref \in Refs \/ park[p].pc # "settled",
         NEW b \in BOOLEAN
  PROVE  /\ [park[p] EXCEPT !.cancelled = b] \in ParkRecord
         /\ [park[p] EXCEPT !.pc = "disposing"] \in ParkRecord
<1>1. park[p] \in ParkRecord  BY DEF ParkTyped, NoPark, ParkRecord
<1> QED  BY <1>1 DEF ParkRecord, ParkPhase

LEMMA ParkRelease ==
  ASSUME TypedInv, NEW k, NEW e, NEW tomb, StartRelease(k, e, tomb)
  PROVE  ParkTyped'
<1>0. ParkTyped  BY DEF TypedInv
<1> DEFINE ref == ReleaseTarget(e)
           b == park[parkEntry].cancelled \/ park[parkEntry].pc = "yielding"
<1>1. parkEntry' = parkEntry /\ ref \in Refs  BY TargetTyped DEF StartRelease
<1>2. CASE park' = park  BY <1>0, <1>1, <1>2 DEF ParkTyped
<1>3. CASE parkEntry # None /\ park[parkEntry].ref = ref
  <2>1. parkEntry \in Parks /\ park[parkEntry].ref \in Refs
    BY <1>0, <1>1, <1>3 DEF ParkTyped
  <2>2. park' = [park EXCEPT ![parkEntry] = [@ EXCEPT !.cancelled = b]]
    BY <1>3 DEF StartRelease
  <2>3. b \in BOOLEAN  OBVIOUS
  <2> HIDE DEF b
  <2>4. [park[parkEntry] EXCEPT !.cancelled = b] \in ParkRecord
    BY <1>0, <2>1, <2>3, ParkMoved
  <2> QED  BY <1>0, <1>1, <2>2, <2>4 DEF ParkTyped, ParkRecord
<1>4. CASE ~(parkEntry # None /\ park[parkEntry].ref = ref)
  BY <1>2, <1>4 DEF StartRelease
<1> QED  BY <1>3, <1>4

LEMMA ParkStep ==
  ASSUME TypedInv, [Next]_vars
  PROVE  ParkTyped'
<1> USE DEF registryVars, adoptionVars, parkVars, callVars, otherVars
<1>0. ParkTyped  BY DEF TypedInv
<1>1. ASSUME NEW a \in Adoptions, TimerFires(a) PROVE ParkTyped'
  <2>1. CASE UNCHANGED <<parkEntry, park>>  BY <1>0, <2>1 DEF ParkTyped
  <2>2. CASE CanPark
    <3>1. Current \in Refs /\ Attached \in Sessions
      BY <2>2, CurrentTyped DEF CanPark, Attached
    <3>2. [pc |-> "yielding", ref |-> Current, session |-> Attached, cancelled |-> FALSE] \in ParkRecord
      BY <3>1 DEF ParkRecord, ParkPhase
    <3>3. PICK p \in Parks :
             /\ park' = [park EXCEPT ![p] =
                   [pc |-> "yielding", ref |-> Current, session |-> Attached, cancelled |-> FALSE]]
             /\ parkEntry' = p
      BY <1>1, <2>2 DEF TimerFires
    <3> QED  BY <1>0, <3>2, <3>3 DEF ParkTyped, ParkRecord
  <2> QED  BY <1>1, <2>1, <2>2 DEF TimerFires
<1>2. ASSUME NEW p \in Parks, SettlePark(p) PROVE ParkTyped'
  BY <1>0, <1>2 DEF SettlePark, ParkTyped
<1>3. ASSUME NEW p \in Parks, ParkCommits(p) PROVE ParkTyped'
  <2>1. CASE park' = [park EXCEPT ![p].pc = "disposing"] /\ parkEntry' = parkEntry
    <3>1. [park[p] EXCEPT !.pc = "disposing"] \in ParkRecord
      BY <1>0, <1>3, ParkMoved DEF ParkCommits
    <3> QED  BY <1>0, <2>1, <3>1 DEF ParkTyped, ParkRecord
  <2> QED  BY <1>2, <1>3, <2>1 DEF ParkCommits
<1>4. ASSUME NEW p \in Parks, ParkSettles(p) PROVE ParkTyped'
  BY <1>2, <1>4 DEF ParkSettles
<1>5. ASSUME NEW c \in Callers, EnsureLive(c) PROVE ParkTyped'
  <2>1. CASE UNCHANGED <<parkEntry, park>>  BY <1>0, <2>1 DEF ParkTyped
  <2>2. CASE park' # park
    <3>1. /\ parkEntry # None /\ park[parkEntry].pc = "yielding" /\ parkEntry' = parkEntry
          /\ park' = [park EXCEPT ![parkEntry] = [@ EXCEPT !.cancelled = TRUE]]
      BY <1>5, <2>2 DEF EnsureLive
    <3>2. parkEntry \in Parks  BY <1>0, <3>1 DEF ParkTyped
    <3>3. [park[parkEntry] EXCEPT !.cancelled = TRUE] \in ParkRecord
      BY <1>0, <3>1, <3>2, ParkMoved
    <3> QED  BY <1>0, <3>1, <3>2, <3>3 DEF ParkTyped, ParkRecord
  <2>3. parkEntry' = parkEntry  BY <1>5 DEF EnsureLive
  <2> QED  BY <2>1, <2>2, <2>3
<1>6. ASSUME NEW k \in Releasers, Release(k) PROVE ParkTyped'
  BY <1>6, ParkRelease DEF Release
<1>7. CASE DisposeManager
  <2>1. UNCHANGED <<parkEntry, park>> \/ \E k \in Releasers : StartRelease(k, Anyone, FALSE)
    BY <1>7 DEF DisposeManager
  <2> QED  BY <1>0, <2>1, ParkRelease DEF ParkTyped
<1>8. CASE CloseManager  BY <1>0, <1>8 DEF CloseManager, ParkTyped
<1>9. ASSUME \/ \E r \in Refs :
                   SpawnRegisters(r) \/ RestoreParked(r) \/ IsolatedDetaches(r) \/ HelperDrops(r)
             \/ \E r \in Refs, s \in Sessions :
                   \/ SpawnAttaches(r, s) \/ FinishKeptAlive(r, s) \/ FinishIsolated(r, s)
                   \/ FinishDisposes(r, s)
             \/ \E s \in Sessions : RunStarts(s) \/ RunEnds(s) \/ SessionDisposed(s)
      PROVE  UNCHANGED <<parkEntry, park>>
  BY <1>9 DEF SpawnRegisters, RestoreParked, IsolatedDetaches, HelperDrops, SpawnAttaches,
              FinishKeptAlive, FinishIsolated, FinishDisposes, RunStarts, RunEnds, SessionDisposed
<1>10. ASSUME NEW c \in Callers,
              \/ KeepResumes(c) \/ WaitResumes(c) \/ RevivedResumes(c) \/ RevivalRejects(c)
              \/ Collect(c) \/ ReviveReturns(c)
       PROVE  UNCHANGED <<parkEntry, park>>
  BY <1>10 DEF KeepResumes, WaitResumes, RevivedResumes, RevivalRejects, Collect, ReviveReturns
<1>11. ASSUME NEW c \in Callers, ReviverStep(c) PROVE UNCHANGED <<parkEntry, park>>
  BY <1>11 DEF ReviverStep, FactoryAnswers, ReviverFails, ReviverClaims, ReviverFinishes,
               ReviverAttaches, SimpleReviverReturns
<1>12. ASSUME \/ \E k \in Releasers : ReleaseResumes(k) \/ ReleaseFinishes(k) \/ ReleaseTimesOut(k)
                                      \/ TombstonePersisted(k) \/ TombstoneFails(k)
              \/ ReclaimStarts \/ ReclaimProbed \/ UNCHANGED vars
       PROVE  UNCHANGED <<parkEntry, park>>
  BY <1>12 DEF ReleaseResumes, ReleaseFinishes, ReleaseTimesOut, TombstonePersisted,
               TombstoneFails, ReclaimStarts, ReclaimProbed, vars
<1>13. UNCHANGED <<parkEntry, park>> => ParkTyped'  BY <1>0 DEF ParkTyped
<1> QED
  BY <1>1, <1>3, <1>4, <1>5, <1>6, <1>7, <1>8, <1>9, <1>10, <1>11, <1>12, <1>13
  DEF Next, Microtask, Executor

\* Calls and the revivals they start.

RevivalRecord == [pc : RevivalPhase, ref : Refs \cup {None},
                  session : Sessions \cup {None}, tok : Adoptions \cup {None}]
CallRecord == [pc : CallPhase, park : Parks \cup {None}, ref : Refs \cup {None},
               on : Callers \cup {None}, got : Sessions \cup {None}]

GoodRevival(v) ==
    /\ v \in RevivalRecord
    /\ v.pc # "none" => v.ref \in Refs
    /\ v.pc \in {"attached", "returned", "discarding", "unwinding", "resolved"}
          => v.session \in Sessions
GoodCall(v) == v \in CallRecord /\ (v.pc = "reviving" => v.on \in Callers)

CallsGood ==
    /\ revivalEntry \in Callers \cup {None}
    /\ call \in [Callers -> CallRecord] /\ \A c \in Callers : GoodCall(call[c])
    /\ revival \in [Callers -> RevivalRecord] /\ \A c \in Callers : GoodRevival(revival[c])

LEMMA CallParts == CallsGood <=> CallTyped /\ RevivalFilled
BY DEF CallsGood, CallTyped, RevivalFilled, GoodCall, GoodRevival, CallRecord, RevivalRecord

LEMMA CallPartsNext == CallsGood' <=> CallTyped' /\ RevivalFilled'
BY DEF CallsGood, CallTyped, RevivalFilled, GoodCall, GoodRevival, CallRecord, RevivalRecord

\* A step writes at most one call and one revival, each with a good value.
CallGoes == \/ call' = call
            \/ \E c \in Callers : \E v : GoodCall(v) /\ call' = [call EXCEPT ![c] = v]
RevivalGoes == \/ revival' = revival
               \/ \E c \in Callers : \E v : GoodRevival(v) /\ revival' = [revival EXCEPT ![c] = v]
EntryGoes == revivalEntry' \in {revivalEntry, None} \cup Callers

LEMMA GoesGood ==
  ASSUME CallsGood, CallGoes, RevivalGoes, EntryGoes
  PROVE  CallsGood'
<1>1. call' \in [Callers -> CallRecord] /\ \A c \in Callers : GoodCall(call'[c])
  BY DEF CallsGood, CallGoes, GoodCall
<1>2. revival' \in [Callers -> RevivalRecord] /\ \A c \in Callers : GoodRevival(revival'[c])
  BY DEF CallsGood, RevivalGoes, GoodRevival
<1> QED  BY <1>1, <1>2 DEF CallsGood, EntryGoes, GoodCall, GoodRevival, CallRecord, RevivalRecord

\* The values written.
LEMMA CallEmptied ==
  /\ GoodCall(NoCall) /\ GoodCall([NoCall EXCEPT !.pc = "failed"]) /\ GoodRevival(NoRevival)
BY DEF GoodCall, CallRecord, NoCall, CallPhase, GoodRevival, RevivalRecord, NoRevival, RevivalPhase

LEMMA RevivalRejected ==
  ASSUME NEW v, GoodRevival(v), v.pc # "none"
  PROVE  GoodRevival([v EXCEPT !.pc = "rejected"]) /\ GoodRevival([v EXCEPT !.pc = "claimed"])
BY DEF GoodRevival, RevivalRecord, RevivalPhase

LEMMA RevivalWithSession ==
  ASSUME NEW v, GoodRevival(v), v.session \in Sessions, v.pc # "none", NEW q \in RevivalPhase
  PROVE  GoodRevival([v EXCEPT !.pc = q])
BY DEF GoodRevival, RevivalRecord, RevivalPhase

LEMMA LookupGoes ==
  ASSUME TypedInv, CallsGood, NEW c \in Callers, Lookup(c)
  PROVE  CallGoes /\ RevivalGoes /\ EntryGoes
<1>1. Current \in Refs \cup {None} /\ Attached \in Sessions \cup {None}  BY CurrentTyped
<1>2. CASE Current = None
  <2>1. Throws(c) /\ UNCHANGED <<revivalEntry, revival>>  BY <1>2 DEF Lookup, Attached
  <2> QED  BY <2>1, CallEmptied DEF Throws, CallGoes, RevivalGoes, EntryGoes
<1>3. CASE Current # None /\ Attached # None
  <2>1. GoodCall([NoCall EXCEPT !.pc = "done", !.got = Attached])
    BY <1>1, <1>3 DEF GoodCall, CallRecord, NoCall, CallPhase
  <2> QED  BY <1>3, <2>1 DEF Lookup, Returns, CallGoes, RevivalGoes, EntryGoes
<1>4. CASE Current # None /\ Attached = None /\ Coalesces
  <2>1. revivalEntry \in Callers  BY <1>4 DEF Coalesces, CallsGood
  <2>2. GoodCall([NoCall EXCEPT !.pc = "reviving", !.on = revivalEntry])
    BY <2>1 DEF GoodCall, CallRecord, NoCall, CallPhase
  <2>3. /\ call' = [call EXCEPT ![c] = [NoCall EXCEPT !.pc = "reviving", !.on = revivalEntry]]
        /\ UNCHANGED <<revivalEntry, revival>>
    BY <1>4 DEF Lookup
  <2> QED  BY <2>2, <2>3 DEF CallGoes, RevivalGoes, EntryGoes
<1>5. CASE Current # None /\ Attached = None /\ ~Coalesces
  <2>1. GoodCall([NoCall EXCEPT !.pc = "reviving", !.on = c])
    BY DEF GoodCall, CallRecord, NoCall, CallPhase
  <2>2. FirstRevivalStep(Current) \in {"opening", "factory", "rejected"}  BY DEF FirstRevivalStep
  <2>3. GoodRevival([NoRevival EXCEPT !.pc = FirstRevivalStep(Current), !.ref = Current])
    BY <1>1, <1>5, <2>2 DEF GoodRevival, RevivalRecord, NoRevival, RevivalPhase
  <2>4. /\ call' = [call EXCEPT ![c] = [NoCall EXCEPT !.pc = "reviving", !.on = c]]
        /\ revival' = [revival EXCEPT ![c] =
              [NoRevival EXCEPT !.pc = FirstRevivalStep(Current), !.ref = Current]]
        /\ revivalEntry' = c
    BY <1>5 DEF Lookup
  <2> QED  BY <2>1, <2>3, <2>4 DEF CallGoes, RevivalGoes, EntryGoes
<1> QED  BY <1>2, <1>3, <1>4, <1>5

LEMMA EnsureGoes ==
  ASSUME TypedInv, CallsGood, NEW c \in Callers, EnsureLive(c)
  PROVE  CallGoes /\ RevivalGoes /\ EntryGoes
<1>1. parkEntry # None => parkEntry \in Parks  BY DEF TypedInv, ParkTyped
<1>2. Attached # None => Current \in Refs  BY CurrentTyped DEF Attached
<1>3. CASE /\ parkEntry # None /\ Attached # None
           /\ call' = [call EXCEPT ![c] =
                 [NoCall EXCEPT !.pc = "keeping", !.park = parkEntry, !.ref = Current]]
           /\ UNCHANGED <<revivalEntry, revival>>
  <2>1. GoodCall([NoCall EXCEPT !.pc = "keeping", !.park = parkEntry, !.ref = Current])
    BY <1>1, <1>2, <1>3 DEF GoodCall, CallRecord, NoCall, CallPhase
  <2> QED  BY <1>3, <2>1 DEF CallGoes, RevivalGoes, EntryGoes
<1>4. CASE /\ parkEntry # None
           /\ call' = [call EXCEPT ![c] = [NoCall EXCEPT !.pc = "waiting", !.park = parkEntry]]
           /\ UNCHANGED <<revivalEntry, revival>>
  <2>1. GoodCall([NoCall EXCEPT !.pc = "waiting", !.park = parkEntry])
    BY <1>1, <1>4 DEF GoodCall, CallRecord, NoCall, CallPhase
  <2> QED  BY <1>4, <2>1 DEF CallGoes, RevivalGoes, EntryGoes
<1>5. CASE Lookup(c)  BY <1>5, LookupGoes
<1> QED  BY <1>3, <1>4, <1>5 DEF EnsureLive

LEMMA RevivedGoes ==
  ASSUME TypedInv, CallsGood, NEW c \in Callers, RevivedResumes(c)
  PROVE  CallGoes /\ RevivalGoes /\ EntryGoes
<1> DEFINE on == call[c].on
<1>1. on \in Callers  BY DEF RevivedResumes, CallsGood, GoodCall
<1>2. CallGoes
  <2>1. CASE Returns(c, revival[on].session) /\ revival[on].pc = "resolved"
    <3>1. GoodCall([NoCall EXCEPT !.pc = "done", !.got = revival[on].session])
      BY <1>1, <2>1 DEF CallsGood, GoodRevival, GoodCall, CallRecord, NoCall, CallPhase
    <3> QED  BY <2>1, <3>1 DEF Returns, CallGoes
  <2>2. CASE Throws(c)  BY <2>2, CallEmptied DEF Throws, CallGoes
  <2> QED  BY <2>1, <2>2 DEF RevivedResumes
<1>3. RevivalGoes
  BY <1>1, CallEmptied DEF RevivedResumes, RevivalGoes
<1>4. EntryGoes  BY DEF RevivedResumes, EntryGoes
<1> QED  BY <1>2, <1>3, <1>4

LEMMA KeepGoes ==
  ASSUME TypedInv, CallsGood, NEW c \in Callers, KeepResumes(c)
  PROVE  CallGoes /\ RevivalGoes /\ EntryGoes
<1>1. CASE Attached # None /\ Returns(c, Attached) /\ UNCHANGED <<revivalEntry, revival>>
  <2>1. GoodCall([NoCall EXCEPT !.pc = "done", !.got = Attached])
    BY <1>1, CurrentTyped DEF GoodCall, CallRecord, NoCall, CallPhase
  <2> QED  BY <1>1, <2>1 DEF Returns, CallGoes, RevivalGoes, EntryGoes
<1>2. CASE Lookup(c)  BY <1>2, LookupGoes
<1> QED  BY <1>1, <1>2 DEF KeepResumes

LEMMA ReviverGoes ==
  ASSUME TypedInv, CallsGood, NEW c \in Callers,
         ReviverStep(c) \/ ReviveReturns(c) \/ RevivalRejects(c)
  PROVE  RevivalGoes
<1> USE DEF RevivalGoes
<1>0. GoodRevival(revival[c])  BY DEF CallsGood
<1>1. revival[c].pc # "none"
  BY DEF ReviverStep, FactoryAnswers, ReviverFails, ReviverClaims, ReviverFinishes,
         ReviverAttaches, SimpleReviverReturns, ReviveReturns, RevivalRejects
<1>2. ASSUME NEW q \in {"rejected", "claimed"}, Goes(c, q) PROVE RevivalGoes
  <2>1. revival' = [revival EXCEPT ![c] = [@ EXCEPT !.pc = q]]  BY <1>2 DEF Goes
  <2> QED  BY <1>0, <1>1, <2>1, RevivalRejected
<1>3. ASSUME revival[c].session \in Sessions, NEW q \in RevivalPhase, Goes(c, q) PROVE RevivalGoes
  <2>1. revival' = [revival EXCEPT ![c] = [@ EXCEPT !.pc = q]]  BY <1>3 DEF Goes
  <2>2. GoodRevival([revival[c] EXCEPT !.pc = q])  BY <1>0, <1>1, <1>3, RevivalWithSession
  <2> QED  BY <2>1, <2>2
<1>4. CASE FactoryAnswers(c)
  <2>1. CASE Goes(c, "rejected")  BY <1>2, <2>1
  <2>2. CASE ColdAdopt(c)
    <3>1. PICK a \in Adoptions :
             \/ revival' = [revival EXCEPT ![c] = [@ EXCEPT !.pc = "opening", !.tok = a]]
             \/ revival' = [revival EXCEPT ![c] = [@ EXCEPT !.pc = "rejected"]]
      BY <2>2 DEF ColdAdopt
    <3>2. GoodRevival([revival[c] EXCEPT !.pc = "opening", !.tok = a])
      BY <1>0, <1>1 DEF GoodRevival, RevivalRecord, RevivalPhase
    <3> QED  BY <1>0, <1>1, <3>1, <3>2, RevivalRejected
  <2> QED  BY <1>4, <2>1, <2>2 DEF FactoryAnswers
<1>5. CASE ReviverFails(c) \/ RevivalRejects(c)
  BY <1>2, <1>5 DEF ReviverFails, RevivalRejects, Rejects
<1>6. CASE ReviverClaims(c)  BY <1>2, <1>6 DEF ReviverClaims
<1>7. ASSUME NEW s \in Sessions, ReviverAttaches(c, s) \/ SimpleReviverReturns(c, s)
      PROVE  RevivalGoes
  <2>1. PICK q \in {"attached", "unwinding", "returned"} :
           revival' = [revival EXCEPT ![c] = [@ EXCEPT !.pc = q, !.session = s]]
    BY <1>7 DEF ReviverAttaches, SimpleReviverReturns
  <2>2. GoodRevival([revival[c] EXCEPT !.pc = q, !.session = s])
    BY <1>0, <1>1 DEF GoodRevival, RevivalRecord, RevivalPhase
  <2> QED  BY <2>1, <2>2
<1>8. CASE ReviverFinishes(c) \/ ReviveReturns(c)
  <2>1. revival[c].session \in Sessions
    BY <1>0, <1>8 DEF GoodRevival, ReviverFinishes, ReviveReturns
  <2>2. \E q \in {"returned", "unwinding", "resolved", "discarding"} : Goes(c, q)
    BY <1>8 DEF ReviverFinishes, ReviveReturns, Discards
  <2> QED  BY <1>3, <2>1, <2>2 DEF RevivalPhase
<1> QED  BY <1>4, <1>5, <1>6, <1>7, <1>8 DEF ReviverStep

LEMMA CallStep ==
  ASSUME TypedInv, [Next]_vars
  PROVE  CallTyped' /\ RevivalFilled'
<1> USE DEF registryVars, adoptionVars, parkVars, callVars, otherVars
<1> SUFFICES CallGoes /\ RevivalGoes /\ EntryGoes
  BY CallParts, CallPartsNext, GoesGood DEF TypedInv
<1>0. CallsGood  BY CallParts DEF TypedInv
<1>1. ASSUME NEW c \in Callers,
             EnsureLive(c) \/ KeepResumes(c) \/ RevivedResumes(c) \/ WaitResumes(c)
      PROVE  CallGoes /\ RevivalGoes /\ EntryGoes
  BY <1>0, <1>1, EnsureGoes, KeepGoes, RevivedGoes, LookupGoes DEF WaitResumes
<1>2. ASSUME NEW c \in Callers, Collect(c) PROVE CallGoes /\ RevivalGoes /\ EntryGoes
  BY <1>2, CallEmptied DEF Collect, CallGoes, RevivalGoes, EntryGoes
<1>3. ASSUME NEW c \in Callers, ReviverStep(c) \/ ReviveReturns(c) \/ RevivalRejects(c)
      PROVE  CallGoes /\ RevivalGoes /\ EntryGoes
  <2>1. UNCHANGED <<call, revivalEntry>>
    BY <1>3 DEF ReviverStep, FactoryAnswers, ReviverFails, ReviverClaims, ReviverFinishes,
                ReviverAttaches, SimpleReviverReturns, ReviveReturns, RevivalRejects
  <2> QED  BY <1>0, <1>3, <2>1, ReviverGoes DEF CallGoes, EntryGoes
<1>4. ASSUME Executor PROVE UNCHANGED callVars
  BY <1>4 DEF Executor, SpawnRegisters, RestoreParked, IsolatedDetaches, HelperDrops,
              SpawnAttaches, FinishKeptAlive, FinishIsolated, FinishDisposes, RunStarts, RunEnds
<1>5. ASSUME \/ \E s \in Sessions : SessionDisposed(s)
             \/ \E a \in Adoptions : TimerFires(a)
             \/ \E p \in Parks : ParkCommits(p) \/ ParkSettles(p)
      PROVE  UNCHANGED callVars
  BY <1>5 DEF SessionDisposed, TimerFires, ParkCommits, ParkSettles
<1>6. ASSUME \E k \in Releasers :
                \/ Release(k) \/ TombstonePersisted(k) \/ TombstoneFails(k)
                \/ ReleaseTimesOut(k) \/ ReleaseResumes(k) \/ ReleaseFinishes(k)
      PROVE  UNCHANGED callVars
  BY <1>6 DEF Release, StartRelease, TombstonePersisted, TombstoneFails, ReleaseTimesOut,
              ReleaseResumes, ReleaseFinishes
<1>7. ASSUME ReclaimStarts \/ ReclaimProbed \/ DisposeManager \/ UNCHANGED vars
      PROVE  UNCHANGED callVars
  BY <1>7 DEF ReclaimStarts, ReclaimProbed, DisposeManager, StartRelease, vars
<1>8. CASE CloseManager  BY <1>8 DEF CloseManager, CallGoes, RevivalGoes, EntryGoes
<1>9. UNCHANGED callVars => CallGoes /\ RevivalGoes /\ EntryGoes
  BY DEF CallGoes, RevivalGoes, EntryGoes
<1> QED
  BY <1>1, <1>2, <1>3, <1>4, <1>5, <1>6, <1>7, <1>8, <1>9 DEF Next, Microtask

\* Releases.

ReleaseRecord == [pc : ReleasePhase, ref : Refs \cup {None}, session : Sessions \cup {None},
                  tomb : BOOLEAN, park : Parks \cup {None}]

GoodRelease(v) == v \in ReleaseRecord /\ (v.pc # "idle" => v.ref \in Refs)

ReleaseGoes == \/ release' = release
               \/ \E k \in Releasers : \E v : GoodRelease(v) /\ release' = [release EXCEPT ![k] = v]

LEMMA ReleaseEmptied == GoodRelease(NoRelease)
BY DEF GoodRelease, NoRelease, ReleaseRecord, ReleasePhase

LEMMA TailRelease ==
  ASSUME TypedInv, NEW k \in Releasers, NEW ref \in Refs, NEW tomb,
         ReleaseTail(k, ref, tomb)
  PROVE  ReleaseGoes
<1> USE DEF ReleaseGoes, ReleaseTail
<1> DEFINE live == IF Current = ref THEN reg.session[ref] ELSE None
<1>1. live \in Sessions \cup {None}
  BY DEF Current, TypedInv, GoodRegistry, Registry
<1>2. GoodRelease([NoRelease EXCEPT !.pc = "persist", !.ref = ref, !.tomb = TRUE])
  BY DEF GoodRelease, NoRelease, ReleaseRecord, ReleasePhase
<1>3. GoodRelease([NoRelease EXCEPT !.pc = "disposing", !.ref = ref, !.session = live])
  BY <1>1 DEF GoodRelease, NoRelease, ReleaseRecord, ReleasePhase
<1>4. \/ release' = [release EXCEPT ![k] =
                        [NoRelease EXCEPT !.pc = "persist", !.ref = ref, !.tomb = TRUE]]
      \/ release' = [release EXCEPT ![k] =
                        [NoRelease EXCEPT !.pc = "disposing", !.ref = ref, !.session = live]]
      \/ release' = [release EXCEPT ![k] = NoRelease]
  OBVIOUS
<1> HIDE DEF live, ReleaseTail
<1> QED  BY <1>2, <1>3, <1>4, ReleaseEmptied

LEMMA StartReleased ==
  ASSUME TypedInv, NEW k \in Releasers, NEW e, NEW tomb \in BOOLEAN, StartRelease(k, e, tomb)
  PROVE  ReleaseGoes
<1> DEFINE ref == ReleaseTarget(e)
<1>1. ref \in Refs  BY TargetTyped DEF StartRelease
<1>2. CASE ReleaseTail(k, ref, tomb)  BY <1>1, <1>2, TailRelease
<1>3. CASE /\ parkEntry # None
           /\ release' = [release EXCEPT ![k] =
                 [NoRelease EXCEPT !.pc = "awaitPark", !.ref = ref, !.tomb = tomb,
                                   !.park = parkEntry]]
  <2>1. parkEntry \in Parks  BY <1>3 DEF TypedInv, ParkTyped
  <2> HIDE DEF ref
  <2>2. GoodRelease([NoRelease EXCEPT !.pc = "awaitPark", !.ref = ref, !.tomb = tomb, !.park = parkEntry])
    BY <1>1, <2>1 DEF GoodRelease, NoRelease, ReleaseRecord, ReleasePhase
  <2> QED  BY <1>3, <2>2 DEF ReleaseGoes
<1> QED  BY <1>2, <1>3 DEF StartRelease

LEMMA ReleaseStep ==
  ASSUME TypedInv, [Next]_vars
  PROVE  ReleaseTyped'
<1> USE DEF registryVars, adoptionVars, parkVars, callVars, otherVars
<1> SUFFICES ReleaseGoes /\ reclaim' \in Refs \cup {None}
  BY DEF ReleaseGoes, GoodRelease, ReleaseRecord, TypedInv, ReleaseTyped
<1>0. reclaim \in Refs \cup {None} /\ \A k \in Releasers : GoodRelease(release[k])
  BY DEF TypedInv, ReleaseTyped, GoodRelease, ReleaseRecord
<1>1. ASSUME NEW k \in Releasers, Release(k) PROVE ReleaseGoes /\ reclaim' = reclaim
  BY <1>1, StartReleased DEF Release, StartRelease
<1>2. ASSUME NEW k \in Releasers, ReleaseResumes(k) PROVE ReleaseGoes /\ reclaim' = reclaim
  <2>1. release[k].ref \in Refs  BY <1>0, <1>2 DEF GoodRelease, ReleaseResumes
  <2> QED  BY <1>2, <2>1, TailRelease DEF ReleaseResumes
<1>3. ASSUME NEW k \in Releasers, TombstonePersisted(k) PROVE ReleaseGoes /\ reclaim' = reclaim
  <2> DEFINE ref == release[k].ref
             live == IF Current = ref THEN reg.session[ref] ELSE None
  <2>1. live \in Sessions \cup {None}
    BY <1>0, <1>3 DEF TombstonePersisted, GoodRelease, Current, TypedInv, GoodRegistry, Registry
  <2>2. \/ release' = [release EXCEPT ![k] = [@ EXCEPT !.pc = "disposing", !.session = live]]
        \/ release' = [release EXCEPT ![k] = NoRelease]
    BY <1>3 DEF TombstonePersisted
  <2>3. reclaim' = reclaim  BY <1>3 DEF TombstonePersisted
  <2> HIDE DEF live
  <2>4. GoodRelease([release[k] EXCEPT !.pc = "disposing", !.session = live])
    BY <1>0, <1>3, <2>1 DEF TombstonePersisted, GoodRelease, ReleaseRecord, ReleasePhase
  <2> QED  BY <2>2, <2>3, <2>4, ReleaseEmptied DEF ReleaseGoes
<1>4. ASSUME NEW k \in Releasers, TombstoneFails(k) \/ ReleaseFinishes(k)
      PROVE  ReleaseGoes /\ reclaim' = reclaim
  BY <1>4, ReleaseEmptied DEF TombstoneFails, ReleaseFinishes, ReleaseGoes
<1>5. CASE DisposeManager
  <2>1. /\ reclaim' = reclaim
        /\ release' = release \/ \E k \in Releasers : StartRelease(k, Anyone, FALSE)
    BY <1>5 DEF DisposeManager, StartRelease
  <2> QED  BY <1>0, <2>1, StartReleased DEF ReleaseGoes
<1>6. CASE ReclaimStarts \/ ReclaimProbed
  BY <1>0, <1>6, CurrentTyped DEF ReclaimStarts, ReclaimProbed, ReleaseGoes
<1>7. ASSUME Executor PROVE UNCHANGED <<release, reclaim>>
  BY <1>7 DEF Executor, SpawnRegisters, RestoreParked, IsolatedDetaches, HelperDrops,
              SpawnAttaches, FinishKeptAlive, FinishIsolated, FinishDisposes, RunStarts, RunEnds
<1>8. ASSUME \/ \E s \in Sessions : SessionDisposed(s)
             \/ \E a \in Adoptions : TimerFires(a)
             \/ \E p \in Parks : ParkCommits(p) \/ ParkSettles(p)
             \/ \E k \in Releasers : ReleaseTimesOut(k)
             \/ CloseManager \/ UNCHANGED vars
      PROVE  UNCHANGED <<release, reclaim>>
  BY <1>8 DEF SessionDisposed, TimerFires, ParkCommits, ParkSettles, ReleaseTimesOut,
              CloseManager, vars
<1>9. ASSUME NEW c \in Callers,
             \/ KeepResumes(c) \/ WaitResumes(c) \/ RevivedResumes(c) \/ RevivalRejects(c)
             \/ EnsureLive(c) \/ Collect(c) \/ ReviveReturns(c)
      PROVE  UNCHANGED <<release, reclaim>>
  BY <1>9 DEF KeepResumes, WaitResumes, RevivedResumes, RevivalRejects, EnsureLive, Collect,
              ReviveReturns
<1>10. ASSUME NEW c \in Callers, ReviverStep(c) PROVE UNCHANGED <<release, reclaim>>
  BY <1>10 DEF ReviverStep, FactoryAnswers, ReviverFails, ReviverClaims, ReviverFinishes,
               ReviverAttaches, SimpleReviverReturns
<1>11. UNCHANGED <<release, reclaim>> => ReleaseGoes /\ reclaim' \in Refs \cup {None}
  BY <1>0 DEF ReleaseGoes
<1> QED
  BY <1>0, <1>1, <1>2, <1>3, <1>4, <1>5, <1>6, <1>7, <1>8, <1>9, <1>10, <1>11
  DEF Next, Microtask

-----------------------------------------------------------------------------
(* The theorems                                                            *)

LEMMA TypedStep == TypedInv /\ [Next]_vars => TypedInv'
<1> SUFFICES ASSUME TypedInv, [Next]_vars PROVE TypedInv'
  OBVIOUS
<1>1. GoodRegistry(reg')  BY RegistryMoves, GoesFollows DEF TypedInv
<1>2. SessTyped' /\ AdoptTyped' /\ ParkTyped'  BY SessStep, AdoptStep, ParkStep
<1>3. CallTyped' /\ RevivalFilled' /\ ReleaseTyped'  BY CallStep, ReleaseStep
<1> QED  BY <1>1, <1>2, <1>3 DEF TypedInv, GoodRegistry

LEMMA LifecycleTypedInv == Spec => []TypedInv
BY TypedInit, TypedStep, PTL DEF Spec

\* Every action of the manager, the executor and the revivers keeps the types,
\* and an entry in use is filled in: a park has its ref and its session.
THEOREM LifecycleTyped == Spec => []LifecycleTypeOK
BY LifecycleTypedInv, TypeParts, PTL

LEMMA FollowsKeeps ==
  ASSUME TypedInv, [Next]_vars
  PROVE  \A r \in Refs : AbortedStaysDown(r) /\ RetiredIsFrozen(r)
<1>1. Follows(reg, reg')  BY RegistryMoves, GoesFollows DEF TypedInv
<1> QED  BY <1>1 DEF Follows, AbortedStaysDown, RetiredIsFrozen, Born

\* Through every overlap of park, revival, kill, release and respawn, a killed
\* generation never becomes live again and never receives a session.
THEOREM KilledStaysDown == Spec => AbortedIsTerminal
<1>1. TypedInv /\ [Next]_vars => [\A r \in Refs : AbortedStaysDown(r)]_reg
  BY FollowsKeeps
<1> QED  BY <1>1, LifecycleTypedInv, PTL DEF Spec, AbortedIsTerminal

\* Whatever a late callback of an old generation does to the id, it changes
\* nothing of that generation and never gives it the id back.
THEOREM OldGenerationIsFrozen == Spec => RetiredNeverReturns
<1>1. TypedInv /\ [Next]_vars => [\A r \in Refs : RetiredIsFrozen(r)]_reg
  BY FollowsKeeps
<1> QED  BY <1>1, LifecycleTypedInv, PTL DEF Spec, RetiredNeverReturns
=============================================================================
