--------------------------- MODULE AsyncJobs_proofs ---------------------------
(***************************************************************************)
(* Proofs about the background jobs of AsyncJobs.tla, for any number of    *)
(* jobs, ids, sessions and agents and any bound on running jobs.           *)
(*                                                                         *)
(* The manager keys everything by id and never asks whether the row it     *)
(* finds is the row it means.  FilingInv is why that is enough as long as  *)
(* a cancelled job settles within its retention: an unsettled job is the   *)
(* row of its id, and a timer is only ever pending for a row that does not *)
(* run.  RouteInv carries that on to the results: a delivery in a sink or  *)
(* on a yield queue is with a session of the agent that started the job,   *)
(* because a sink is only registered under the agent's own id (SinkInv).   *)
(*                                                                         *)
(* The rest is about one result: what was shown stays suppressed as long   *)
(* as its row is there (ShownInv); a delivery's epoch says whether its     *)
(* transcript is still the one of its job (CrossInv); and a finished job   *)
(* is delivered, or accounted for, or a call that is about to show it      *)
(* holds it (LostInv).  These proofs share the lemmas on how an action     *)
(* moves a job, a row, a suppression or a delivery.                        *)
(***************************************************************************)
EXTENDS AsyncJobs, TLAPS

-----------------------------------------------------------------------------
(* Types                                                                   *)

JobRecord == [st : JobStatus, id : Ids \cup {None}, by : Sessions \cup {None},
              born : Nat, front : BOOLEAN]

AtManager == [at : {"none", "queued"}, to : Agents \cup {None}, via : {None}, epoch : Nat]
AtSession == [at : {"sink", "yield"}, to : Agents \cup {None}, via : Sessions, epoch : Nat]

Born(j) == job[j].st # "unborn"

\* A job that was registered has an id and a session; only such a job has a caller.
BornIsNamed ==
    \A j \in Jobs : /\ Born(j) => job[j].id \in Ids /\ job[j].by \in Sessions
                    /\ job[j].front => Born(j)

\* A row holds a job that was registered under its id.
RowsAreNamed == \A i \in Ids : row[i] # None => Born(row[i]) /\ job[row[i]].id = i

\* The hub waits for jobs that were registered.
WaitedAreBorn == \A x \in Sessions : \A j \in hubWait[x].jobs : Born(j)

TypedInv == JobsTypeOK /\ BornIsNamed /\ RowsAreNamed /\ WaitedAreBorn

USE DEF JobStatus, JobRecord, AtManager, AtSession

LEMMA TypedInit == Init => TypedInv
<1> SUFFICES ASSUME Init PROVE TypedInv  OBVIOUS
<1>1. NoJob \in JobRecord /\ ~NoJob.front  BY DEF NoJob
<1>2. NoDelivery \in AtManager  BY DEF NoDelivery
<1>3. \A j \in Jobs : ~Born(j) /\ ~job[j].front  BY <1>1 DEF Init, NoJob, Born
<1>4. JobsTypeOK  BY <1>1, <1>2 DEF Init, JobsTypeOK, NoWait
<1>5. WaitedAreBorn  BY DEF Init, NoWait, WaitedAreBorn
<1> QED  BY <1>3, <1>4, <1>5 DEF TypedInv, BornIsNamed, RowsAreNamed, Init

\* The jobs and the rows change, but no job gets another name.
LEMMA NamesKept ==
  ASSUME TypedInv,
         \A j \in Jobs : /\ job'[j].id = job[j].id /\ job'[j].by = job[j].by
                         /\ Born(j)' <=> Born(j)
                         /\ job'[j].front => job[j].front,
         \A i \in Ids : row'[i] \in {row[i], None},
         hubWait' = hubWait
  PROVE  BornIsNamed' /\ RowsAreNamed' /\ WaitedAreBorn'
<1>1. BornIsNamed'  BY DEF TypedInv, BornIsNamed
<1>2. RowsAreNamed'  BY DEF TypedInv, JobsTypeOK, RowsAreNamed
<1>3. WaitedAreBorn'  BY DEF TypedInv, JobsTypeOK, WaitedAreBorn
<1> QED  BY <1>1, <1>2, <1>3

\* What cancelling a set of jobs does to their records.
LEMMA StoppedFacts ==
  ASSUME job \in [Jobs -> JobRecord], NEW S
  PROVE  /\ Stopped(S) \in [Jobs -> JobRecord]
         /\ \A j \in Jobs :
               /\ Stopped(S)[j].id = job[j].id /\ Stopped(S)[j].by = job[j].by
               /\ Stopped(S)[j].front = job[j].front /\ Stopped(S)[j].born = job[j].born
               /\ Stopped(S)[j].st = IF j \in S /\ Running(j) THEN "stopping" ELSE job[j].st
<1>1. ASSUME NEW j \in Jobs
      PROVE  /\ [job[j] EXCEPT !.st = "stopping"] \in JobRecord
             /\ [job[j] EXCEPT !.st = "stopping"].id = job[j].id
             /\ [job[j] EXCEPT !.st = "stopping"].by = job[j].by
             /\ [job[j] EXCEPT !.st = "stopping"].front = job[j].front
             /\ [job[j] EXCEPT !.st = "stopping"].born = job[j].born
             /\ [job[j] EXCEPT !.st = "stopping"].st = "stopping"
  OBVIOUS
<1> QED  BY <1>1 DEF Stopped

\* The same, for the status of one job and for its caller.
LEMMA StatusFacts ==
  ASSUME job \in [Jobs -> JobRecord], NEW j \in Jobs, NEW st \in JobStatus,
         job' = [job EXCEPT ![j].st = st]
  PROVE  /\ job' \in [Jobs -> JobRecord]
         /\ \A k \in Jobs :
               /\ job'[k].id = job[k].id /\ job'[k].by = job[k].by
               /\ job'[k].front = job[k].front /\ job'[k].born = job[k].born
               /\ job'[k].st = IF k = j THEN st ELSE job[k].st
  OBVIOUS

LEMMA FrontFacts ==
  ASSUME job \in [Jobs -> JobRecord], NEW j \in Jobs,
         job' = [job EXCEPT ![j].front = FALSE]
  PROVE  /\ job' \in [Jobs -> JobRecord]
         /\ \A k \in Jobs :
               /\ job'[k].id = job[k].id /\ job'[k].by = job[k].by
               /\ job'[k].st = job[k].st /\ job'[k].born = job[k].born
               /\ job'[k].front <=> (job[k].front /\ k # j)
  OBVIOUS

\* Every delivery this module writes.
LEMMA DeliveryFacts ==
  ASSUME TypedInv
  PROVE  /\ NoDelivery \in AtManager
         /\ \A ids : WithoutQueued(ids) \in [Jobs -> AtManager \cup AtSession]
         /\ \A muted : \A j \in Jobs : Born(j) => Enqueued(j, muted) \in [Jobs -> AtManager \cup AtSession]
         /\ \A j \in Jobs : HandedOver(j) \in [Jobs -> AtManager \cup AtSession]
<1>1. NoDelivery \in AtManager  BY DEF NoDelivery
<1>2. delivery \in [Jobs -> AtManager \cup AtSession]  BY DEF TypedInv, JobsTypeOK
<1>3. ASSUME NEW ids PROVE WithoutQueued(ids) \in [Jobs -> AtManager \cup AtSession]
  BY <1>1, <1>2 DEF WithoutQueued
<1>4. ASSUME NEW j \in Jobs, NEW muted, Born(j)
      PROVE  Enqueued(j, muted) \in [Jobs -> AtManager \cup AtSession]
  <2>1. RowOwner(job[j].id) \in Agents \cup {None}
    BY <1>4 DEF TypedInv, BornIsNamed, RowsAreNamed, JobsTypeOK, RowOwner, Owner, Agents
  <2>2. [NoDelivery EXCEPT !.at = "queued", !.to = RowOwner(job[j].id)] \in AtManager
    BY <2>1 DEF NoDelivery
  <2> QED  BY <1>2, <2>2 DEF Enqueued
<1>5. ASSUME NEW j \in Jobs PROVE HandedOver(j) \in [Jobs -> AtManager \cup AtSession]
  <2> DEFINE x == IF delivery[j].to = None THEN None ELSE sink[delivery[j].to]
  <2>1. x \in Sessions \cup {None}  BY <1>2 DEF TypedInv, JobsTypeOK
  <2>2. CASE x # None /\ Open(x)
    <3>1. session[x].epoch \in Nat /\ x \in Sessions  BY <2>1, <2>2 DEF TypedInv, JobsTypeOK
    <3>2. [delivery[j] EXCEPT !.at = "sink", !.via = x, !.epoch = session[x].epoch] \in AtSession
      BY <1>2, <3>1
    <3>3. HandedOver(j) = [delivery EXCEPT ![j].at = "sink", ![j].via = x, ![j].epoch = session[x].epoch]
      BY <2>2 DEF HandedOver
    <3> QED  BY <1>2, <3>2, <3>3
  <2>3. CASE ~(x # None /\ Open(x))
    BY <1>1, <1>2, <2>3 DEF HandedOver
  <2> QED  BY <2>2, <2>3
<1> QED  BY <1>1, <1>3, <1>4, <1>5

(***************************************************************************)
(* Types and names are preserved by every step.  Steps that touch neither  *)
(* jobs nor rows cannot disturb the names.                                 *)
(***************************************************************************)
LEMMA TypedKept ==
  ASSUME TypedInv, JobsTypeOK', UNCHANGED <<job, row>>,
         WaitedAreBorn' \/ UNCHANGED hubWait
  PROVE  TypedInv'
  BY DEF TypedInv, BornIsNamed, RowsAreNamed, WaitedAreBorn, Born

LEMMA TypedRegister ==
  ASSUME TypedInv, NEW x \in Sessions, NEW j \in Jobs, NEW i \in Ids, Register(x, j, i)
  PROVE  TypedInv'
<1>1. PICK st \in {"queued", "running"}, front \in BOOLEAN :
         /\ job' = [job EXCEPT ![j] = [st |-> st, id |-> i, by |-> x,
                                       born |-> session[x].transcript, front |-> front]]
         /\ suppressed' = IF front THEN suppressed \cup {i} ELSE suppressed \ {i}
         /\ delivery' = IF front THEN WithoutQueued(suppressed' \cup watched) ELSE delivery
  BY DEF Register
<1> DEFINE new == [st |-> st, id |-> i, by |-> x, born |-> session[x].transcript, front |-> front]
<1>2. new \in JobRecord /\ new.id = i /\ new.by = x /\ new.st # "unborn"
  BY DEF TypedInv, JobsTypeOK
<1>3. job' \in [Jobs -> JobRecord] /\ job'[j] = new /\ \A k \in Jobs \ {j} : job'[k] = job[k]
  BY <1>1, <1>2 DEF TypedInv, JobsTypeOK
<1>4. delivery' \in [Jobs -> AtManager \cup AtSession]
  BY <1>1, DeliveryFacts DEF TypedInv, JobsTypeOK
<1>5. row' \in [Ids -> Jobs \cup {None}] /\ row'[i] = j /\ \A k \in Ids \ {i} : row'[k] = row[k]
  BY DEF Register, TypedInv, JobsTypeOK
<1>6. suppressed' \subseteq Ids  BY <1>1 DEF TypedInv, JobsTypeOK
<1>7. JobsTypeOK'
  BY <1>3, <1>4, <1>5, <1>6
     DEF Register, TypedInv, JobsTypeOK, sessionVars, historyVars
<1>8. BornIsNamed'
  BY <1>2, <1>3 DEF TypedInv, BornIsNamed, Born
<1>9. RowsAreNamed'
  BY <1>2, <1>3, <1>5 DEF Register, TypedInv, RowsAreNamed, Born, JobsTypeOK
<1>10. WaitedAreBorn'
  BY <1>2, <1>3 DEF Register, TypedInv, JobsTypeOK, WaitedAreBorn, Born, sessionVars
<1> QED  BY <1>7, <1>8, <1>9, <1>10 DEF TypedInv

\* Steps of one job's run and of the tool call that waits for it.
LEMMA TypedJobSteps ==
  ASSUME TypedInv, NEW j \in Jobs,
         MarkRunning(j) \/ Settles(j) \/ ForegroundReturns(j)
            \/ ForegroundAborts(j) \/ ForegroundBackgrounds(j)
  PROVE  TypedInv'
<1> USE DEF rowVars, mutingVars, deliveryVars, sessionVars, historyVars
<1>0. job \in [Jobs -> JobRecord] /\ row \in [Ids -> Jobs \cup {None}]
  BY DEF TypedInv, JobsTypeOK
<1>1. CASE MarkRunning(j)
  <2>1. job' = [job EXCEPT ![j].st = "running"] /\ job[j].st = "queued"
    BY <1>1 DEF MarkRunning
  <2>2. JobsTypeOK'  BY <1>0, <1>1, <2>1, StatusFacts DEF MarkRunning, TypedInv, JobsTypeOK
  <2>3. \A k \in Jobs : Born(k)' <=> Born(k)  BY <1>0, <2>1, StatusFacts DEF Born
  <2> QED  BY <1>0, <1>1, <2>1, <2>2, <2>3, StatusFacts, NamesKept DEF MarkRunning, TypedInv
<1>2. CASE Settles(j)
  <2>1. Born(j) /\ job[j].id \in Ids
    BY <1>2 DEF Settles, Running, Born, TypedInv, BornIsNamed
  <2>2. PICK st \in {"stopped", "finished"} : job' = [job EXCEPT ![j].st = st]
    BY <1>2 DEF Settles
  <2>3. delivery' \in [Jobs -> AtManager \cup AtSession]
    BY <1>2, <2>1, DeliveryFacts DEF Settles, TypedInv, JobsTypeOK
  <2>4. timers' \subseteq Ids
    BY <1>2, <2>1 DEF Settles, ScheduledEviction, TypedInv, JobsTypeOK
  <2>5. JobsTypeOK'
    BY <1>0, <1>2, <2>2, <2>3, <2>4, StatusFacts DEF Settles, TypedInv, JobsTypeOK
  <2>6. \A k \in Jobs : Born(k)' <=> Born(k)  BY <1>0, <2>1, <2>2, StatusFacts DEF Born
  <2> QED  BY <1>0, <1>2, <2>2, <2>5, <2>6, StatusFacts, NamesKept DEF Settles, TypedInv
<1>3. CASE ForegroundReturns(j)
  <2>1. job' = [job EXCEPT ![j].front = FALSE]  BY <1>3 DEF ForegroundReturns
  <2>2. JobsTypeOK'  BY <1>0, <1>3, <2>1, FrontFacts DEF ForegroundReturns, TypedInv, JobsTypeOK
  <2> QED  BY <1>0, <1>3, <2>1, <2>2, FrontFacts, NamesKept DEF ForegroundReturns, TypedInv, Born
<1>4. CASE ForegroundAborts(j)
  <2> DEFINE stop == Stopped({row[job[j].id]} \ {None})
  <2>1. job[j].id \in Ids  BY <1>4 DEF ForegroundAborts, TypedInv, BornIsNamed
  <2>2. /\ stop \in [Jobs -> JobRecord]
        /\ \A k \in Jobs : /\ stop[k].id = job[k].id /\ stop[k].by = job[k].by
                           /\ stop[k].front = job[k].front
                           /\ stop[k].st = "unborn" <=> job[k].st = "unborn"
    BY <1>0, StoppedFacts DEF Running
  <2>3. job' = [stop EXCEPT ![j].front = FALSE]  BY <1>4 DEF ForegroundAborts
  <2> HIDE DEF stop
  <2>4. /\ job' \in [Jobs -> JobRecord]
        /\ \A k \in Jobs : /\ job'[k].id = job[k].id /\ job'[k].by = job[k].by
                           /\ job'[k].front => job[k].front
                           /\ job'[k].st = "unborn" <=> job[k].st = "unborn"
    BY <2>2, <2>3
  <2>5. timers' \subseteq Ids
    BY <1>4, <2>1 DEF ForegroundAborts, ScheduledEviction, TypedInv, JobsTypeOK
  <2>6. JobsTypeOK'
    BY <1>4, <2>4, <2>5 DEF ForegroundAborts, TypedInv, JobsTypeOK
  <2> QED  BY <1>0, <1>4, <2>4, <2>6, NamesKept DEF ForegroundAborts, TypedInv, Born
<1>5. CASE ForegroundBackgrounds(j)
  <2>1. Resumed(job[j].id) \in [Jobs -> AtManager \cup AtSession]
    <3>1. job[j].id \in Ids  BY <1>5 DEF ForegroundBackgrounds, TypedInv, BornIsNamed
    <3> QED  BY <1>0, <3>1, DeliveryFacts DEF Resumed, TypedInv, JobsTypeOK, Born
  <2>2. job' = [job EXCEPT ![j].front = FALSE]  BY <1>5 DEF ForegroundBackgrounds
  <2>3. JobsTypeOK'
    BY <1>0, <1>5, <2>1, <2>2, FrontFacts DEF ForegroundBackgrounds, TypedInv, JobsTypeOK
  <2> QED  BY <1>0, <1>5, <2>2, <2>3, FrontFacts, NamesKept
              DEF ForegroundBackgrounds, TypedInv, Born
<1> QED  BY <1>1, <1>2, <1>3, <1>4, <1>5

LEMMA TypedEviction ==
  ASSUME TypedInv, NEW i \in Ids, EvictionFires(i)
  PROVE  TypedInv'
<1>1. row' \in [Ids -> Jobs \cup {None}] /\ \A k \in Ids : row'[k] \in {row[k], None}
  BY DEF EvictionFires, EvictedRows, TypedInv, JobsTypeOK
<1>2. gone' \subseteq Jobs  BY DEF EvictionFires, TypedInv, JobsTypeOK
<1>3. JobsTypeOK'
  BY <1>1, <1>2 DEF EvictionFires, TypedInv, JobsTypeOK, deliveryVars, sessionVars
<1> QED  BY <1>1, <1>3, NamesKept DEF EvictionFires, TypedInv, Born, sessionVars

\* The manager's loop, a drain and the sinks.
LEMMA TypedDelivery ==
  ASSUME TypedInv, NEW j \in Jobs,
         LoopDelivers(j) \/ DrainDelivers(j) \/ LoopDrops(j) \/ SinkAccepts(j) \/ SinkFails(j)
  PROVE  TypedInv'
<1> USE DEF rowVars, mutingVars, sessionVars, historyVars
<1>0. delivery \in [Jobs -> AtManager \cup AtSession] /\ NoDelivery \in AtManager
  BY DeliveryFacts DEF TypedInv, JobsTypeOK
<1>1. delivery' \in [Jobs -> AtManager \cup AtSession]
  <2>1. CASE LoopDelivers(j) \/ DrainDelivers(j)
    BY <2>1, DeliveryFacts DEF LoopDelivers, DrainDelivers, HandsOver
  <2>2. CASE LoopDrops(j)  BY <1>0, <2>2 DEF LoopDrops
  <2>3. CASE SinkAccepts(j)
    <3>1. [delivery[j] EXCEPT !.at = "yield"] \in AtSession
      BY <1>0, <2>3 DEF SinkAccepts
    <3> QED  BY <1>0, <2>3, <3>1 DEF SinkAccepts
  <2>4. CASE SinkFails(j)
    <3>1. [NoDelivery EXCEPT !.at = "queued", !.to = delivery[j].to] \in AtManager
      BY <1>0 DEF NoDelivery
    <3> QED  BY <1>0, <2>4, <3>1 DEF SinkFails
  <2> QED  BY <2>1, <2>2, <2>3, <2>4
<1>2. loop' \in Jobs \cup {None}
  BY DEF LoopDelivers, DrainDelivers, LoopDrops, SinkAccepts, SinkFails, LoopGoesOn,
         TypedInv, JobsTypeOK
<1>3. gone' \subseteq Jobs
  BY DEF LoopDelivers, DrainDelivers, HandsOver, LoopDrops, SinkAccepts, SinkFails,
         TypedInv, JobsTypeOK
<1>4. /\ UNCHANGED <<job, row, timers, suppressed, watched, sink, session, hubWait, mgr>>
      /\ told' = told /\ injected' = injected
  BY DEF LoopDelivers, DrainDelivers, LoopDrops, SinkAccepts, SinkFails
<1>5. JobsTypeOK'
  BY <1>1, <1>2, <1>3, <1>4 DEF TypedInv, JobsTypeOK
<1> QED  BY <1>4, <1>5, TypedKept

\* The hub tool.
LEMMA TypedHub ==
  ASSUME TypedInv, NEW x \in Sessions,
         \/ HubWaitStarts(x) \/ HubWaitEnds(x) \/ HubWaitReports(x)
         \/ HubWaitGetsMessage(x) \/ HubJobs(x) \/ \E j \in Jobs : HubCancels(x, j)
  PROVE  TypedInv'
<1> USE DEF rowVars, mutingVars, deliveryVars, sessionVars, historyVars
<1>0. /\ job \in [Jobs -> JobRecord]
      /\ hubWait \in [Sessions -> [jobs : SUBSET Jobs, on : BOOLEAN]]
      /\ NoWait \in [jobs : SUBSET Jobs, on : BOOLEAN]
  BY DEF TypedInv, JobsTypeOK, NoWait
<1>a. ASSUME NEW S \in SUBSET Jobs, \A j \in S : Born(j) PROVE IdsOf(S) \subseteq Ids
  BY <1>a DEF IdsOf, TypedInv, BornIsNamed
<1>b. ASSUME NEW S \in SUBSET Jobs, \A j \in S : Born(j), Reports(S)
      PROVE  /\ told' \subseteq Jobs /\ suppressed' \subseteq Ids
             /\ delivery' \in [Jobs -> AtManager \cup AtSession]
  <2> DEFINE settled == {j \in S : ~Running(j)}
  <2>1. IdsOf(settled) \subseteq Ids  BY <1>a, <1>b
  <2> QED  BY <1>b, <2>1, DeliveryFacts DEF Reports, TypedInv, JobsTypeOK
<1>1. CASE HubWaitStarts(x)
  <2>1. PICK S \in SUBSET RowsOf(OwnerOf[x]) :
           /\ hubWait' = [hubWait EXCEPT ![x] = [jobs |-> S, on |-> TRUE]]
           /\ watched' = watched \cup IdsOf({j \in S : Running(j)})
    BY <1>1 DEF HubWaitStarts
  <2>2. S \subseteq Jobs /\ \A j \in S : Born(j)  BY DEF RowsOf, Filed, Born
  <2>3. IdsOf({j \in S : Running(j)}) \subseteq Ids  BY <1>a, <2>2
  <2>4. JobsTypeOK'  BY <1>0, <1>1, <2>1, <2>2, <2>3 DEF HubWaitStarts, TypedInv, JobsTypeOK
  <2>5. WaitedAreBorn'
    BY <1>0, <1>1, <2>1, <2>2 DEF HubWaitStarts, TypedInv, WaitedAreBorn, Born
  <2> QED  BY <1>1, <2>4, <2>5, TypedKept DEF HubWaitStarts
<1>2. CASE HubWaitEnds(x)
  <2>1. hubWait' \in [Sessions -> [jobs : SUBSET Jobs, on : BOOLEAN]]
    BY <1>0, <1>2 DEF HubWaitEnds
  <2>2. JobsTypeOK'  BY <1>2, <2>1 DEF HubWaitEnds, TypedInv, JobsTypeOK
  <2>3. WaitedAreBorn'
    BY <1>0, <1>2 DEF HubWaitEnds, TypedInv, WaitedAreBorn, Born
  <2> QED  BY <1>2, <2>2, <2>3, TypedKept DEF HubWaitEnds
<1>3. CASE HubWaitReports(x)
  <2>1. hubWait[x].jobs \subseteq Jobs /\ hubWait[x].on \in BOOLEAN  BY <1>0
  <2>2. \A j \in hubWait[x].jobs : Born(j)  BY DEF TypedInv, WaitedAreBorn
  <2>3. JobsTypeOK'  BY <1>0, <1>b, <1>3, <2>1, <2>2 DEF HubWaitReports, TypedInv, JobsTypeOK
  <2>4. WaitedAreBorn'
    BY <1>0, <1>3 DEF HubWaitReports, NoWait, TypedInv, WaitedAreBorn, Born
  <2> QED  BY <1>3, <2>3, <2>4, TypedKept DEF HubWaitReports
<1>4. CASE HubWaitGetsMessage(x)
  <2>1. JobsTypeOK'  BY <1>0, <1>4 DEF HubWaitGetsMessage, TypedInv, JobsTypeOK
  <2>2. WaitedAreBorn'
    BY <1>0, <1>4 DEF HubWaitGetsMessage, NoWait, TypedInv, WaitedAreBorn, Born
  <2> QED  BY <1>4, <2>1, <2>2, TypedKept DEF HubWaitGetsMessage
<1>5. CASE HubJobs(x)
  <2>1. PICK S \in SUBSET RowsOf(OwnerOf[x]) : Reports(S)  BY <1>5 DEF HubJobs
  <2>2. S \subseteq Jobs /\ \A j \in S : Born(j)  BY DEF RowsOf, Filed, Born
  <2>3. JobsTypeOK'  BY <1>b, <1>5, <2>1, <2>2 DEF HubJobs, TypedInv, JobsTypeOK
  <2> QED  BY <1>5, <2>3, TypedKept DEF HubJobs
<1>6. ASSUME NEW j \in Jobs, HubCancels(x, j) PROVE TypedInv'
  <2>1. job[j].id \in Ids /\ Running(j)
    BY <1>6 DEF HubCancels, RowsOf, Filed, Born, TypedInv, BornIsNamed
  <2>2. /\ job' \in [Jobs -> JobRecord]
        /\ \A k \in Jobs : /\ job'[k].id = job[k].id /\ job'[k].by = job[k].by
                           /\ job'[k].front = job[k].front
                           /\ job'[k].st = "unborn" <=> job[k].st = "unborn"
    BY <1>0, <1>6, StoppedFacts DEF HubCancels, Running
  <2>3. /\ timers' \subseteq Ids /\ suppressed' \subseteq Ids
        /\ delivery' \in [Jobs -> AtManager \cup AtSession]
    BY <1>6, <2>1, DeliveryFacts DEF HubCancels, ScheduledEviction, TypedInv, JobsTypeOK
  <2>4. JobsTypeOK'  BY <1>6, <2>2, <2>3 DEF HubCancels, TypedInv, JobsTypeOK
  <2> QED  BY <1>6, <2>2, <2>4, NamesKept DEF HubCancels, TypedInv, JobsTypeOK, Born
<1> QED  BY <1>1, <1>2, <1>3, <1>4, <1>5, <1>6

\* What cancelling the jobs of an agent does, at a boundary or a disposal.
LEMMA CancelFacts ==
  ASSUME TypedInv, NEW x \in Sessions, CancelsOwnJobs(x)
  PROVE  /\ job' \in [Jobs -> JobRecord]
         /\ \A j \in Jobs :
               /\ job'[j].id = job[j].id /\ job'[j].by = job[j].by
               /\ job'[j].front = job[j].front /\ job'[j].born = job[j].born
               /\ job'[j].st = IF j \in RowsOf(OwnerOf[x]) /\ Running(j) THEN "stopping" ELSE job[j].st
         /\ row' \in [Ids -> Jobs \cup {None}] /\ timers' \subseteq Ids
         /\ suppressed' \subseteq Ids /\ watched' \subseteq Ids /\ gone' \subseteq Jobs
         /\ delivery' \in [Jobs -> AtManager \cup AtSession]
         /\ \A i \in Ids : row'[i] = IF i \in IdsOf(CompletedRows(OwnerOf[x])) THEN None ELSE row[i]
<1>1. job' = Stopped(RowsOf(OwnerOf[x]))  BY DEF CancelsOwnJobs
<1>2. IdsOf({j \in RowsOf(OwnerOf[x]) : Running(j)}) \subseteq Ids
  BY DEF IdsOf, RowsOf, Filed, TypedInv, BornIsNamed, Born
<1>3. timers' \subseteq Ids
  BY <1>2 DEF CancelsOwnJobs, ScheduledEviction, TypedInv, JobsTypeOK
<1>4. row' \in [Ids -> Jobs \cup {None}]
      /\ \A i \in Ids : row'[i] = IF i \in IdsOf(CompletedRows(OwnerOf[x])) THEN None ELSE row[i]
  BY DEF CancelsOwnJobs, EvictedRows, TypedInv, JobsTypeOK
<1>5. delivery' \in [Jobs -> AtManager \cup AtSession]
  BY DeliveryFacts DEF CancelsOwnJobs
<1>6. suppressed' \subseteq Ids /\ watched' \subseteq Ids /\ gone' \subseteq Jobs
  BY DEF CancelsOwnJobs, TypedInv, JobsTypeOK
<1> QED  BY <1>1, <1>3, <1>4, <1>5, <1>6, StoppedFacts DEF TypedInv, JobsTypeOK

LEMMA TypedSessions ==
  ASSUME TypedInv, NEW x \in Sessions,
         \/ Injects(x) \/ Opens(x) \/ NewTranscript(x) \/ SwitchSession(x)
         \/ BeginDispose(x) \/ DisposeJobs(x)
  PROVE  TypedInv'
<1> USE DEF rowVars, mutingVars, deliveryVars, sessionVars, historyVars
<1>0. /\ session \in [Sessions -> [phase : {"unborn", "open", "closing", "closed"},
                                   epoch : Nat, transcript : Nat]]
      /\ sink \in [Agents -> Sessions \cup {None}]
      /\ delivery \in [Jobs -> AtManager \cup AtSession]
      /\ NoDelivery \in AtManager
      /\ OwnerOf[x] \in Agents
  BY DeliveryFacts DEF TypedInv, JobsTypeOK, Agents
<1>1. CASE Injects(x)
  <2>1. delivery' \in [Jobs -> AtManager \cup AtSession]  BY <1>0, <1>1 DEF Injects
  <2>2. injected' \subseteq Jobs /\ gone' \subseteq Jobs
    BY <1>1 DEF Injects, Entries, TypedInv, JobsTypeOK
  <2>3. JobsTypeOK'  BY <1>1, <2>1, <2>2 DEF Injects, TypedInv, JobsTypeOK
  <2> QED  BY <1>1, <2>3, TypedKept DEF Injects
<1>2. CASE Opens(x)
  <2>1. JobsTypeOK'  BY <1>0, <1>2 DEF Opens, TypedInv, JobsTypeOK
  <2> QED  BY <1>2, <2>1, TypedKept DEF Opens
<1>3. CASE NewTranscript(x)
  <2>1. CancelsOwnJobs(x)  BY <1>3 DEF NewTranscript
  <2>2. session' \in [Sessions -> [phase : {"unborn", "open", "closing", "closed"},
                                   epoch : Nat, transcript : Nat]]
    BY <1>0, <1>3 DEF NewTranscript, NextEpoch
  <2>3. JobsTypeOK'
    BY <1>3, <2>1, <2>2, CancelFacts DEF NewTranscript, TypedInv, JobsTypeOK
  <2>4. \A j \in Jobs : Born(j)' <=> Born(j)  BY <2>1, CancelFacts DEF Born, Running
  <2> QED  BY <1>3, <2>1, <2>3, <2>4, CancelFacts, NamesKept DEF NewTranscript, TypedInv
<1>4. CASE SwitchSession(x)
  <2>1. session' \in [Sessions -> [phase : {"unborn", "open", "closing", "closed"},
                                   epoch : Nat, transcript : Nat]]
    BY <1>0, <1>4 DEF SwitchSession
  <2>2. JobsTypeOK'  BY <1>4, <2>1 DEF SwitchSession, TypedInv, JobsTypeOK
  <2> QED  BY <1>4, <2>2, TypedKept DEF SwitchSession
<1>5. CASE BeginDispose(x)
  <2>1. delivery' \in [Jobs -> AtManager \cup AtSession]  BY <1>0, <1>5 DEF BeginDispose
  <2>2. session' \in [Sessions -> [phase : {"unborn", "open", "closing", "closed"},
                                   epoch : Nat, transcript : Nat]]
    BY <1>0, <1>5 DEF BeginDispose
  <2>3. JobsTypeOK'  BY <1>5, <2>1, <2>2 DEF BeginDispose, TypedInv, JobsTypeOK
  <2> QED  BY <1>5, <2>3, TypedKept DEF BeginDispose
<1>6. CASE DisposeJobs(x)
  <2>1. CancelsOwnJobs(x)  BY <1>6 DEF DisposeJobs
  <2>2. session' \in [Sessions -> [phase : {"unborn", "open", "closing", "closed"},
                                   epoch : Nat, transcript : Nat]]
    BY <1>0, <1>6 DEF DisposeJobs
  <2>3. sink' \in [Agents -> Sessions \cup {None}]
    BY <1>0, <1>6 DEF DisposeJobs, SinkReleased
  <2>4. JobsTypeOK'
    BY <1>6, <2>1, <2>2, <2>3, CancelFacts DEF DisposeJobs, TypedInv, JobsTypeOK
  <2>5. \A j \in Jobs : Born(j)' <=> Born(j)  BY <2>1, CancelFacts DEF Born, Running
  <2> QED  BY <1>6, <2>1, <2>4, <2>5, CancelFacts, NamesKept DEF DisposeJobs, TypedInv
<1> QED  BY <1>1, <1>2, <1>3, <1>4, <1>5, <1>6

LEMMA TypedManager ==
  ASSUME TypedInv, DisposeManager \/ ManagerCloses
  PROVE  TypedInv'
<1> USE DEF rowVars, mutingVars, deliveryVars, sessionVars, historyVars
<1>1. CASE DisposeManager
  <2> DEFINE S == {j \in Jobs : Filed(j)}
  <2>a. job \in [Jobs -> JobRecord]  BY DEF TypedInv, JobsTypeOK
  <2>b. job' = Stopped(S)  BY <1>1 DEF DisposeManager
  <2> HIDE DEF S
  <2>1. /\ job' \in [Jobs -> JobRecord]
        /\ \A j \in Jobs : /\ job'[j].id = job[j].id /\ job'[j].by = job[j].by
                           /\ job'[j].front = job[j].front
                           /\ Born(j)' <=> Born(j)
    BY <2>a, <2>b, StoppedFacts DEF Born, Running
  <2>2. JobsTypeOK'  BY <1>1, <2>1 DEF DisposeManager, TypedInv, JobsTypeOK
  <2>3. row' = row /\ hubWait' = hubWait  BY <1>1 DEF DisposeManager
  <2> QED  BY <2>1, <2>2, <2>3, NamesKept DEF TypedInv
<1>2. CASE ManagerCloses
  <2>1. JobsTypeOK'
    BY <1>2, DeliveryFacts DEF ManagerCloses, TypedInv, JobsTypeOK
  <2> QED  BY <1>2, <2>1, NamesKept DEF ManagerCloses, TypedInv, Born
<1> QED  BY <1>1, <1>2

LEMMA TypedNext == TypedInv /\ [Next]_vars => TypedInv'
<1> SUFFICES ASSUME TypedInv, [Next]_vars PROVE TypedInv'  OBVIOUS
<1>1. CASE UNCHANGED vars
  <2>1. JobsTypeOK'
    BY <1>1 DEF vars, rowVars, mutingVars, deliveryVars, sessionVars, historyVars,
                TypedInv, JobsTypeOK
  <2> QED  BY <1>1, <2>1, TypedKept DEF vars, rowVars, sessionVars
<1>2. CASE Next
  BY <1>2, TypedRegister, TypedJobSteps, TypedEviction, TypedDelivery, TypedHub,
     TypedSessions, TypedManager DEF Next
<1> QED  BY <1>1, <1>2

(***************************************************************************)
(* The state of the manager and of the sessions is well typed in every     *)
(* reachable state: a delivery in a sink or on a yield queue always has a  *)
(* session, whatever was suppressed, evicted, disposed or replaced since.  *)
(***************************************************************************)
THEOREM JobsTyped == Spec => []JobsTypeOK
<1>1. TypedInv => JobsTypeOK  BY DEF TypedInv
<1> QED  BY TypedInit, TypedNext, <1>1, PTL DEF Spec

-----------------------------------------------------------------------------
(* A running job stays filed                                               *)

Unsettled(j) == job[j].st \in {"queued", "running", "stopping"}

UnsettledIsFiled == mgr # "closed" => \A j \in Jobs : Unsettled(j) => row[job[j].id] = j

TimedRowsAreOver == \A i \in timers : row[i] # None /\ ~Running(row[i])

ClosedIsQuiet == mgr # "open" => timers = {} /\ \A j \in Jobs : ~Running(j)

FilingInv == UnsettledIsFiled /\ TimedRowsAreOver /\ ClosedIsQuiet

LEMMA FilingInit == Init => FilingInv
<1> SUFFICES ASSUME Init PROVE FilingInv  OBVIOUS
<1>1. \A j \in Jobs : ~Unsettled(j) /\ ~Running(j)
  BY DEF Init, NoJob, Unsettled, Running
<1> QED  BY <1>1 DEF Init, FilingInv, UnsettledIsFiled, TimedRowsAreOver, ClosedIsQuiet

\* Steps that leave the rows and the timers alone: a queued job may begin to run.
LEMMA FilingKept ==
  ASSUME TypedInv, FilingInv, UNCHANGED <<row, timers, mgr>>,
         \A j \in Jobs : /\ job'[j].id = job[j].id
                         /\ job'[j].st = job[j].st \/ (job[j].st = "queued" /\ job'[j].st = "running")
  PROVE  FilingInv'
<1>1. \A j \in Jobs : (Unsettled(j)' <=> Unsettled(j)) /\ (Running(j)' <=> Running(j))
  BY DEF Unsettled, Running
<1>2. TimedRowsAreOver'
  BY <1>1 DEF TypedInv, JobsTypeOK, FilingInv, TimedRowsAreOver
<1>3. UnsettledIsFiled' /\ ClosedIsQuiet'
  BY <1>1 DEF FilingInv, UnsettledIsFiled, ClosedIsQuiet
<1> QED  BY <1>2, <1>3 DEF FilingInv

(***************************************************************************)
(* Cancelling jobs that are filed and arming the timers of those that ran: *)
(* the effect of the hub's cancel and of an aborted call.                  *)
(***************************************************************************)
LEMMA FilingStops ==
  ASSUME TypedInv, FilingInv, NEW S \in SUBSET Jobs, \A j \in S : Filed(j),
         UNCHANGED <<row, mgr>>,
         \A j \in Jobs : /\ job'[j].id = job[j].id
                         /\ job'[j].st = IF j \in S /\ Running(j) THEN "stopping" ELSE job[j].st,
         timers' = ScheduledEviction(IdsOf({j \in S : Running(j)}))
  PROVE  FilingInv'
<1>1. \A j \in Jobs : /\ Unsettled(j)' <=> Unsettled(j)
                      /\ Running(j)' <=> (Running(j) /\ j \notin S)
  BY DEF Unsettled, Running
<1>2. \A j \in S : row[job[j].id] = j  BY DEF Filed
<1>3. TimedRowsAreOver'
  <2> SUFFICES ASSUME NEW i \in timers' PROVE row[i] # None /\ ~Running(row[i])'
    BY DEF TimedRowsAreOver
  <2>1. CASE i \in timers
    BY <1>1, <2>1 DEF FilingInv, TypedInv, JobsTypeOK, TimedRowsAreOver
  <2>2. CASE i \notin timers
    <3>1. PICK j \in S : i = job[j].id  BY <2>2 DEF ScheduledEviction, IdsOf
    <3> QED  BY <1>1, <1>2, <3>1, JobsAssumption
  <2> QED  BY <2>1, <2>2
<1>4. UnsettledIsFiled'  BY <1>1 DEF FilingInv, UnsettledIsFiled
<1>5. ClosedIsQuiet'  BY <1>1 DEF FilingInv, ClosedIsQuiet, ScheduledEviction
<1> QED  BY <1>3, <1>4, <1>5 DEF FilingInv

LEMMA FilingRegister ==
  ASSUME TypedInv, FilingInv, NEW x \in Sessions, NEW j \in Jobs, NEW i \in Ids, Register(x, j, i)
  PROVE  FilingInv'
<1>1. /\ job[j].st = "unborn" /\ row[i] = None /\ mgr = "open"
      /\ row' = [row EXCEPT ![i] = j] /\ timers' = timers /\ mgr' = mgr
  BY DEF Register
<1>2. job'[j].id = i /\ \A k \in Jobs \ {j} : job'[k] = job[k]
  BY DEF Register, TypedInv, JobsTypeOK
<1>3. row'[i] = j /\ \A k \in Ids \ {i} : row'[k] = row[k]
  BY <1>1 DEF TypedInv, JobsTypeOK
<1>4. UnsettledIsFiled'
  <2> SUFFICES ASSUME NEW k \in Jobs, Unsettled(k)' PROVE row'[job'[k].id] = k
    BY DEF UnsettledIsFiled
  <2>1. CASE k = j  BY <1>2, <1>3, <2>1
  <2>2. CASE k # j
    <3>1. Unsettled(k)  BY <1>2, <2>2 DEF Unsettled
    <3>2. row[job[k].id] = k /\ job[k].id \in Ids
      BY <1>1, <3>1 DEF Unsettled, FilingInv, UnsettledIsFiled, TypedInv, BornIsNamed, Born
    <3>3. job[k].id # i  BY <1>1, <3>2, JobsAssumption
    <3> QED  BY <1>2, <1>3, <2>2, <3>2, <3>3
  <2> QED  BY <2>1, <2>2
<1>5. TimedRowsAreOver'
  <2> SUFFICES ASSUME NEW k \in timers' PROVE row'[k] # None /\ job'[row'[k]].st \notin {"queued", "running"}
    BY DEF TimedRowsAreOver, Running
  <2>1. row[k] # None /\ ~Running(row[k]) /\ k \in Ids /\ k # i
    BY <1>1 DEF FilingInv, TimedRowsAreOver, TypedInv, JobsTypeOK
  <2>2. row'[k] = row[k] /\ row[k] \in Jobs
    BY <1>3, <2>1 DEF TypedInv, JobsTypeOK
  <2>3. row[k] # j  BY <1>1, <2>1 DEF TypedInv, RowsAreNamed, Born
  <2> QED  BY <1>2, <2>1, <2>2, <2>3 DEF Running
<1>6. ClosedIsQuiet'  BY <1>1 DEF ClosedIsQuiet
<1> QED  BY <1>4, <1>5, <1>6 DEF FilingInv

LEMMA FilingSettles ==
  ASSUME TypedInv, FilingInv, NEW j \in Jobs, Settles(j)
  PROVE  FilingInv'
<1>1. PICK st \in {"stopped", "finished"} : job' = [job EXCEPT ![j].st = st]
  BY DEF Settles
<1>2. Unsettled(j) /\ timers' = ScheduledEviction({job[j].id}) /\ UNCHANGED <<row, mgr>>
  BY DEF Settles, Unsettled, Running, sessionVars
<1>3. \A k \in Jobs : /\ job'[k].id = job[k].id
                      /\ job'[k].st = IF k = j THEN st ELSE job[k].st
  BY <1>1, StatusFacts DEF TypedInv, JobsTypeOK
<1>4. \A k \in Jobs : /\ Unsettled(k)' <=> (Unsettled(k) /\ k # j)
                      /\ Running(k)' <=> (Running(k) /\ k # j)
  BY <1>3 DEF Unsettled, Running
<1>5. UnsettledIsFiled'  BY <1>2, <1>3, <1>4 DEF FilingInv, UnsettledIsFiled
<1>6. TimedRowsAreOver'
  <2> SUFFICES ASSUME NEW i \in timers' PROVE row[i] # None /\ job'[row[i]].st \notin {"queued", "running"}
    BY <1>2 DEF TimedRowsAreOver, Running
  <2>1. CASE i \in timers
    BY <1>4, <2>1 DEF FilingInv, TypedInv, JobsTypeOK, TimedRowsAreOver, Running
  <2>2. CASE i \notin timers
    <3>1. i = job[j].id /\ mgr = "open"  BY <1>2, <2>2 DEF ScheduledEviction
    <3>2. row[i] = j  BY <1>2, <3>1 DEF FilingInv, UnsettledIsFiled
    <3> QED  BY <1>4, <3>2, JobsAssumption DEF Running
  <2> QED  BY <2>1, <2>2
<1>7. ClosedIsQuiet'  BY <1>2, <1>4 DEF FilingInv, ClosedIsQuiet, ScheduledEviction
<1> QED  BY <1>5, <1>6, <1>7 DEF FilingInv

\* Here it matters that a cancelled job settles before its timer fires.
LEMMA FilingEviction ==
  ASSUME TypedInv, FilingInv, "stuck" \notin Happenings, NEW i \in Ids, EvictionFires(i)
  PROVE  FilingInv'
<1>1. /\ i \in timers /\ timers' = timers \ {i} /\ UNCHANGED <<job, mgr>>
      /\ \A j \in Jobs : job[j].id = i => job[j].st # "stopping"
      /\ \A k \in Ids : row'[k] = IF k = i THEN None ELSE row[k]
  BY DEF EvictionFires, EvictedRows, sessionVars
<1>2. UnsettledIsFiled'
  <2> SUFFICES ASSUME mgr # "closed", NEW j \in Jobs, Unsettled(j)
               PROVE  row'[job[j].id] = j
    BY <1>1 DEF UnsettledIsFiled, Unsettled
  <2>1. row[job[j].id] = j /\ job[j].id \in Ids
    BY DEF Unsettled, FilingInv, UnsettledIsFiled, TypedInv, BornIsNamed, Born
  <2>2. job[j].id # i
    BY <1>1, <2>1 DEF Unsettled, Running, FilingInv, TimedRowsAreOver
  <2> QED  BY <1>1, <2>1, <2>2
<1>3. TimedRowsAreOver'
  BY <1>1 DEF FilingInv, TimedRowsAreOver, TypedInv, JobsTypeOK, Running
<1>4. ClosedIsQuiet'  BY <1>1 DEF FilingInv, ClosedIsQuiet, Running
<1> QED  BY <1>2, <1>3, <1>4 DEF FilingInv

\* A boundary cancels what runs and evicts only rows of jobs that finished.
LEMMA FilingCancel ==
  ASSUME TypedInv, FilingInv, NEW x \in Sessions, CancelsOwnJobs(x), UNCHANGED mgr
  PROVE  FilingInv'
<1> DEFINE own == RowsOf(OwnerOf[x])
           over == IdsOf(CompletedRows(OwnerOf[x]))
<1>1. \A j \in Jobs : /\ job'[j].id = job[j].id
                      /\ job'[j].st = IF j \in own /\ Running(j) THEN "stopping" ELSE job[j].st
  BY CancelFacts
<1>2. \A i \in Ids : row'[i] = IF i \in over THEN None ELSE row[i]
  BY CancelFacts
<1>3. timers' = ScheduledEviction(IdsOf({j \in own : Running(j)})) \ over
  BY DEF CancelsOwnJobs
<1>4. \A i \in over : row[i] \in Jobs /\ job[row[i]].st = "finished"
  BY DEF IdsOf, CompletedRows, RowsOf, Filed
<1>5. \A j \in own : row[job[j].id] = j  BY DEF RowsOf, Filed
<1> HIDE DEF own, over
<1>6. \A j \in Jobs : /\ Unsettled(j)' <=> Unsettled(j)
                      /\ Running(j)' <=> (Running(j) /\ j \notin own)
  BY <1>1 DEF Unsettled, Running
<1>7. UnsettledIsFiled'
  <2> SUFFICES ASSUME mgr # "closed", NEW j \in Jobs, Unsettled(j)
               PROVE  row'[job[j].id] = j
    BY <1>1, <1>6 DEF UnsettledIsFiled
  <2>1. row[job[j].id] = j /\ job[j].id \in Ids
    BY DEF Unsettled, FilingInv, UnsettledIsFiled, TypedInv, BornIsNamed, Born
  <2>2. job[j].id \notin over  BY <1>4, <2>1 DEF Unsettled
  <2> QED  BY <1>2, <2>1, <2>2
<1>8. TimedRowsAreOver'
  <2> SUFFICES ASSUME NEW i \in timers' PROVE row'[i] # None /\ job'[row'[i]].st \notin {"queued", "running"}
    BY DEF TimedRowsAreOver, Running
  <2>1. i \notin over  BY <1>3
  <2>2. CASE i \in timers
    <3>1. i \in Ids /\ row[i] # None /\ ~Running(row[i]) /\ row[i] \in Jobs
      BY <2>2 DEF FilingInv, TypedInv, JobsTypeOK, TimedRowsAreOver
    <3> QED  BY <1>2, <1>6, <2>1, <3>1 DEF Running
  <2>3. CASE i \notin timers
    <3>1. PICK j \in own : i = job[j].id /\ Running(j)
      BY <1>3, <2>3 DEF ScheduledEviction, IdsOf
    <3>2. j \in Jobs /\ i \in Ids
      BY <3>1 DEF own, RowsOf, Filed, TypedInv, BornIsNamed, Born
    <3> QED  BY <1>2, <1>5, <1>6, <2>1, <3>1, <3>2, JobsAssumption DEF Running
  <2> QED  BY <2>2, <2>3
<1>9. ClosedIsQuiet'
  BY <1>3, <1>6 DEF FilingInv, ClosedIsQuiet, ScheduledEviction
<1> QED  BY <1>7, <1>8, <1>9 DEF FilingInv

LEMMA FilingForeground ==
  ASSUME TypedInv, FilingInv, NEW j \in Jobs,
         ForegroundReturns(j) \/ ForegroundAborts(j) \/ ForegroundBackgrounds(j)
  PROVE  FilingInv'
<1>0. job \in [Jobs -> JobRecord]  BY DEF TypedInv, JobsTypeOK
<1>1. CASE ForegroundReturns(j) \/ ForegroundBackgrounds(j)
  <2>1. job' = [job EXCEPT ![j].front = FALSE] /\ UNCHANGED <<row, timers, mgr>>
    BY <1>1 DEF ForegroundReturns, ForegroundBackgrounds
  <2> QED  BY <1>0, <2>1, FrontFacts, FilingKept
<1>2. CASE ForegroundAborts(j)
  <2> DEFINE i == job[j].id
             S == {row[i]} \ {None}
  <2>1. i \in Ids  BY <1>2 DEF ForegroundAborts, TypedInv, BornIsNamed
  <2>2. S \in SUBSET Jobs /\ \A k \in S : Filed(k) /\ job[k].id = i
    BY <2>1 DEF TypedInv, JobsTypeOK, RowsAreNamed, Born, Filed
  <2>3. timers' = ScheduledEviction(IdsOf({k \in S : Running(k)}))
    <3>1. CASE row[i] # None /\ Running(row[i])
      <4>1. IdsOf({k \in S : Running(k)}) = {i}  BY <2>2, <3>1 DEF IdsOf
      <4> QED  BY <1>2, <3>1, <4>1 DEF ForegroundAborts
    <3>2. CASE ~(row[i] # None /\ Running(row[i]))
      <4>1. IdsOf({k \in S : Running(k)}) = {}  BY <3>2 DEF IdsOf
      <4> QED  BY <1>2, <3>2, <4>1 DEF ForegroundAborts, ScheduledEviction
    <3> QED  BY <3>1, <3>2
  <2>4. job' = [Stopped(S) EXCEPT ![j].front = FALSE] /\ UNCHANGED <<row, mgr>>
    BY <1>2 DEF ForegroundAborts
  <2>5. \A k \in Jobs : /\ Stopped(S)[k].id = job[k].id
                        /\ Stopped(S)[k].st = IF k \in S /\ Running(k) THEN "stopping" ELSE job[k].st
    BY <1>0, StoppedFacts
  <2>6. Stopped(S) \in [Jobs -> JobRecord]  BY <1>0, StoppedFacts
  <2> HIDE DEF S
  <2>7. \A k \in Jobs : /\ job'[k].id = job[k].id
                        /\ job'[k].st = IF k \in S /\ Running(k) THEN "stopping" ELSE job[k].st
    BY <2>4, <2>5, <2>6
  <2> QED  BY <2>2, <2>3, <2>4, <2>7, FilingStops
<1> QED  BY <1>1, <1>2

LEMMA FilingHubCancels ==
  ASSUME TypedInv, FilingInv, NEW x \in Sessions, NEW j \in Jobs, HubCancels(x, j)
  PROVE  FilingInv'
<1>1. Filed(j) /\ Running(j)  BY DEF HubCancels, RowsOf
<1>2. IdsOf({k \in {j} : Running(k)}) = {job[j].id}  BY <1>1 DEF IdsOf
<1>3. timers' = ScheduledEviction(IdsOf({k \in {j} : Running(k)})) /\ UNCHANGED <<row, mgr>>
  BY <1>2 DEF HubCancels
<1>4. \A k \in Jobs : /\ job'[k].id = job[k].id
                      /\ job'[k].st = IF k \in {j} /\ Running(k) THEN "stopping" ELSE job[k].st
  BY StoppedFacts DEF HubCancels, TypedInv, JobsTypeOK
<1> QED  BY <1>1, <1>3, <1>4, FilingStops

LEMMA FilingManager ==
  ASSUME TypedInv, FilingInv, DisposeManager \/ ManagerCloses
  PROVE  FilingInv'
<1>1. CASE DisposeManager
  <2> DEFINE S == {j \in Jobs : Filed(j)}
  <2>1. /\ mgr = "open" /\ mgr' = "disposing" /\ timers' = {} /\ row' = row
        /\ job' = Stopped(S)
    BY <1>1 DEF DisposeManager
  <2>2. \A j \in Jobs : Running(j) => j \in S
    BY <2>1 DEF FilingInv, UnsettledIsFiled, Unsettled, Running, Filed
  <2> HIDE DEF S
  <2>3. \A j \in Jobs : /\ job'[j].id = job[j].id
                        /\ job'[j].st = IF j \in S /\ Running(j) THEN "stopping" ELSE job[j].st
    BY <2>1, StoppedFacts DEF TypedInv, JobsTypeOK
  <2>4. \A j \in Jobs : (Unsettled(j)' <=> Unsettled(j)) /\ ~Running(j)'
    BY <2>2, <2>3 DEF Unsettled, Running
  <2>5. UnsettledIsFiled'  BY <2>1, <2>3, <2>4 DEF FilingInv, UnsettledIsFiled
  <2> QED  BY <2>1, <2>4, <2>5 DEF FilingInv, TimedRowsAreOver, ClosedIsQuiet
<1>2. CASE ManagerCloses
  <2>1. mgr = "disposing" /\ mgr' = "closed" /\ UNCHANGED <<job, timers>>
    BY <1>2 DEF ManagerCloses
  <2>2. ClosedIsQuiet' /\ timers' = {}  BY <2>1 DEF FilingInv, ClosedIsQuiet, Running
  <2> QED  BY <2>1, <2>2 DEF FilingInv, UnsettledIsFiled, TimedRowsAreOver
<1> QED  BY <1>1, <1>2

\* The steps that touch neither a job nor a row nor a timer.
LEMMA FilingElsewhere ==
  ASSUME TypedInv, FilingInv, UNCHANGED <<job, row, timers, mgr>>
  PROVE  FilingInv'
  BY FilingKept

LEMMA FilingNext ==
  ASSUME "stuck" \notin Happenings, TypedInv, FilingInv, [Next]_vars
  PROVE  FilingInv'
<1> USE DEF rowVars
<1>1. CASE UNCHANGED vars  BY <1>1, FilingElsewhere DEF vars
<1>2. CASE Next
  <2>1. ASSUME NEW j \in Jobs, MarkRunning(j) PROVE FilingInv'
    BY <2>1, FilingKept, StatusFacts DEF MarkRunning, TypedInv, JobsTypeOK
  <2>2. ASSUME NEW j \in Jobs,
               LoopDelivers(j) \/ DrainDelivers(j) \/ LoopDrops(j) \/ SinkAccepts(j) \/ SinkFails(j)
        PROVE  FilingInv'
    BY <2>2, FilingElsewhere DEF LoopDelivers, DrainDelivers, LoopDrops, SinkAccepts, SinkFails
  <2>3. ASSUME NEW x \in Sessions,
               \/ HubWaitStarts(x) \/ HubWaitEnds(x) \/ HubWaitReports(x)
               \/ HubWaitGetsMessage(x) \/ HubJobs(x)
        PROVE  FilingInv'
    BY <2>3, FilingElsewhere
       DEF HubWaitStarts, HubWaitEnds, HubWaitReports, HubWaitGetsMessage, HubJobs
  <2>4. ASSUME NEW x \in Sessions,
               Injects(x) \/ Opens(x) \/ SwitchSession(x) \/ BeginDispose(x)
        PROVE  FilingInv'
    BY <2>4, FilingElsewhere DEF Injects, Opens, SwitchSession, BeginDispose
  <2>5. ASSUME NEW x \in Sessions, NewTranscript(x) \/ DisposeJobs(x) PROVE FilingInv'
    BY <2>5, FilingCancel DEF NewTranscript, DisposeJobs
  <2> QED
    BY <1>2, <2>1, <2>2, <2>3, <2>4, <2>5, FilingRegister, FilingSettles, FilingEviction,
       FilingForeground, FilingHubCancels, FilingManager DEF Next
<1> QED  BY <1>1, <1>2

(***************************************************************************)
(* A job that runs is filed under its id until it settles, in every        *)
(* reachable state, provided a cancelled job settles within the retention  *)
(* of its row: then no late settlement arms a timer for a successor's row. *)
(***************************************************************************)
THEOREM RunningFiled ==
  ASSUME "stuck" \notin Happenings
  PROVE  Spec => []RunningIsFiled
<1>1. FilingInv => RunningIsFiled
  BY DEF FilingInv, UnsettledIsFiled, Unsettled, RunningIsFiled, Running, Filed
<1>2. Init => TypedInv /\ FilingInv  BY TypedInit, FilingInit
<1>3. TypedInv /\ FilingInv /\ [Next]_vars => (TypedInv /\ FilingInv)'
  BY TypedNext, FilingNext
<1> QED  BY <1>1, <1>2, <1>3, PTL DEF Spec

-----------------------------------------------------------------------------
(* Sinks                                                                   *)

SinkInv == TypedInv /\ OpenSessionHasSink

LEMMA SinkNext == SinkInv /\ [Next]_vars => OpenSessionHasSink'
<1> SUFFICES ASSUME SinkInv, [Next]_vars PROVE OpenSessionHasSink'  OBVIOUS
<1> USE DEF sessionVars
<1>0. /\ session \in [Sessions -> [phase : {"unborn", "open", "closing", "closed"},
                                   epoch : Nat, transcript : Nat]]
      /\ sink \in [Agents -> Sessions \cup {None}]
      /\ \A x \in Sessions : OwnerOf[x] \in Agents
  BY DEF SinkInv, TypedInv, JobsTypeOK, Agents
<1>a. ASSUME UNCHANGED <<sink, mgr>>,
             \A x \in Sessions : session'[x].phase = "open" => session[x].phase = "open"
      PROVE  OpenSessionHasSink'
  BY <1>a DEF SinkInv, OpenSessionHasSink, Open
<1>1. CASE UNCHANGED <<sink, session, mgr>>  BY <1>1, <1>a
<1>2. ASSUME NEW x \in Sessions, Opens(x) PROVE OpenSessionHasSink'
  <2>1. /\ mgr' = mgr /\ \A y \in Sessions : OwnerOf[y] = OwnerOf[x] => ~Open(y)
        /\ sink'[OwnerOf[x]] = x /\ \A a \in Agents \ {OwnerOf[x]} : sink'[a] = sink[a]
        /\ \A y \in Sessions \ {x} : session'[y] = session[y]
    BY <1>0, <1>2 DEF Opens
  <2> QED  BY <1>0, <2>1 DEF SinkInv, OpenSessionHasSink, Open
<1>3. ASSUME NEW x \in Sessions,
             NewTranscript(x) \/ SwitchSession(x) \/ BeginDispose(x)
      PROVE  OpenSessionHasSink'
  BY <1>0, <1>3, <1>a DEF NewTranscript, NextEpoch, SwitchSession, BeginDispose
<1>4. ASSUME NEW x \in Sessions, DisposeJobs(x) PROVE OpenSessionHasSink'
  <2>1. /\ mgr' = mgr /\ session'[x].phase = "closed"
        /\ \A y \in Sessions \ {x} : session'[y] = session[y]
        /\ \A a \in Agents : sink[a] # x => sink'[a] = sink[a]
    BY <1>0, <1>4 DEF DisposeJobs, SinkReleased
  <2> QED  BY <1>0, <2>1 DEF SinkInv, OpenSessionHasSink, Open
<1>5. CASE ManagerCloses  BY <1>5 DEF ManagerCloses, OpenSessionHasSink
<1>6. CASE UNCHANGED vars  BY <1>1, <1>6 DEF vars
<1>7. ASSUME NEW j \in Jobs,
             \/ MarkRunning(j) \/ Settles(j)
             \/ ForegroundReturns(j) \/ ForegroundAborts(j) \/ ForegroundBackgrounds(j)
             \/ LoopDelivers(j) \/ DrainDelivers(j) \/ LoopDrops(j)
             \/ SinkAccepts(j) \/ SinkFails(j)
      PROVE  OpenSessionHasSink'
  BY <1>1, <1>7 DEF MarkRunning, Settles, ForegroundReturns, ForegroundAborts,
     ForegroundBackgrounds, LoopDelivers, DrainDelivers, LoopDrops, SinkAccepts, SinkFails
<1>8. ASSUME NEW x \in Sessions,
             \/ HubWaitStarts(x) \/ HubWaitEnds(x) \/ HubWaitReports(x)
             \/ HubWaitGetsMessage(x) \/ HubJobs(x) \/ Injects(x)
             \/ \E j \in Jobs : HubCancels(x, j) \/ \E i \in Ids : Register(x, j, i)
      PROVE  OpenSessionHasSink'
  BY <1>1, <1>8 DEF HubWaitStarts, HubWaitEnds, HubWaitReports, HubWaitGetsMessage,
     HubJobs, Injects, HubCancels, Register
<1>9. CASE DisposeManager \/ \E i \in Ids : EvictionFires(i)
  <2>1. CASE DisposeManager
    <3>1. UNCHANGED <<sink, session>> /\ mgr = "open"  BY <2>1 DEF DisposeManager
    <3> QED  BY <3>1 DEF SinkInv, OpenSessionHasSink, Open
  <2>2. CASE \E i \in Ids : EvictionFires(i)  BY <1>1, <2>2 DEF EvictionFires
  <2> QED  BY <1>9, <2>1, <2>2
<1> QED  BY <1>2, <1>3, <1>4, <1>5, <1>6, <1>7, <1>8, <1>9 DEF Next

(***************************************************************************)
(* An open session is the registered sink of its agent in every reachable  *)
(* state, however late the disposal of an earlier session of the same      *)
(* agent gets to its own unregistration.                                   *)
(***************************************************************************)
THEOREM SinkKept == Spec => []OpenSessionHasSink
<1>1. Init => TypedInv /\ OpenSessionHasSink
  BY TypedInit DEF Init, OpenSessionHasSink, Open
<1>2. TypedInv /\ OpenSessionHasSink /\ [Next]_vars => (TypedInv /\ OpenSessionHasSink)'
  BY TypedNext, SinkNext DEF SinkInv
<1> QED  BY <1>1, <1>2, PTL DEF Spec

-----------------------------------------------------------------------------
(* A result goes to the session of its own agent                           *)

DeliveriesAreOwn ==
    \A j \in Jobs : delivery[j].at # "none" =>
        /\ Born(j) /\ delivery[j].to = Owner(j)
        /\ delivery[j].at \in {"sink", "yield"} => OwnerOf[delivery[j].via] = Owner(j)

SinksAreOwn == \A a \in Agents : sink[a] # None => OwnerOf[sink[a]] = a

RouteInv == DeliveriesAreOwn /\ SinksAreOwn

LEMMA RouteInit == Init => RouteInv
  BY DEF Init, NoDelivery, RouteInv, DeliveriesAreOwn, SinksAreOwn

\* A registered job keeps its session, whatever happens to it.
LEMMA OwnersKept ==
  ASSUME TypedInv, [Next]_vars
  PROVE  \A j \in Jobs : Born(j) => Born(j)' /\ Owner(j)' = Owner(j)
<1> USE DEF Born, Owner, rowVars
<1>0. job \in [Jobs -> JobRecord]  BY DEF TypedInv, JobsTypeOK
<1>1. CASE UNCHANGED job  BY <1>1
<1>2. ASSUME NEW S, job' = Stopped(S) PROVE \A j \in Jobs : Born(j) => Born(j)' /\ Owner(j)' = Owner(j)
  BY <1>0, <1>2, StoppedFacts
<1>3. ASSUME NEW j \in Jobs, NEW st \in JobStatus \ {"unborn"}, job' = [job EXCEPT ![j].st = st]
      PROVE  \A k \in Jobs : Born(k) => Born(k)' /\ Owner(k)' = Owner(k)
  BY <1>0, <1>3, StatusFacts
<1>4. ASSUME NEW j \in Jobs, job' = [job EXCEPT ![j].front = FALSE]
      PROVE  \A k \in Jobs : Born(k) => Born(k)' /\ Owner(k)' = Owner(k)
  BY <1>0, <1>4, FrontFacts
<1>5. ASSUME NEW x \in Sessions, NEW j \in Jobs, NEW i \in Ids, Register(x, j, i)
      PROVE  \A k \in Jobs : Born(k) => Born(k)' /\ Owner(k)' = Owner(k)
  BY <1>0, <1>5 DEF Register
<1>6. ASSUME NEW j \in Jobs, MarkRunning(j) \/ Settles(j)
      PROVE  \A k \in Jobs : Born(k) => Born(k)' /\ Owner(k)' = Owner(k)
  <2>1. \E st \in JobStatus \ {"unborn"} : job' = [job EXCEPT ![j].st = st]
    BY <1>6 DEF MarkRunning, Settles
  <2> QED  BY <1>3, <2>1
<1>7. ASSUME NEW j \in Jobs, ForegroundAborts(j)
      PROVE  \A k \in Jobs : Born(k) => Born(k)' /\ Owner(k)' = Owner(k)
  <2> DEFINE stop == Stopped({row[job[j].id]} \ {None})
  <2>1. /\ stop \in [Jobs -> JobRecord]
        /\ \A k \in Jobs : /\ stop[k].by = job[k].by
                           /\ stop[k].st = "unborn" <=> job[k].st = "unborn"
    BY <1>0, StoppedFacts DEF Running
  <2>2. job' = [stop EXCEPT ![j].front = FALSE]  BY <1>7 DEF ForegroundAborts
  <2> HIDE DEF stop
  <2> QED  BY <2>1, <2>2
<1>8. ASSUME NEW j \in Jobs, ForegroundReturns(j) \/ ForegroundBackgrounds(j)
      PROVE  \A k \in Jobs : Born(k) => Born(k)' /\ Owner(k)' = Owner(k)
  BY <1>4, <1>8 DEF ForegroundReturns, ForegroundBackgrounds
<1>9. ASSUME NEW j \in Jobs,
             LoopDelivers(j) \/ DrainDelivers(j) \/ LoopDrops(j) \/ SinkAccepts(j) \/ SinkFails(j)
      PROVE  UNCHANGED job
  BY <1>9 DEF LoopDelivers, DrainDelivers, LoopDrops, SinkAccepts, SinkFails
<1>10. ASSUME NEW x \in Sessions,
              \/ HubWaitStarts(x) \/ HubWaitEnds(x) \/ HubWaitReports(x)
              \/ HubWaitGetsMessage(x) \/ HubJobs(x) \/ Injects(x)
              \/ Opens(x) \/ SwitchSession(x) \/ BeginDispose(x)
       PROVE  UNCHANGED job
  BY <1>10 DEF HubWaitStarts, HubWaitEnds, HubWaitReports, HubWaitGetsMessage, HubJobs,
     Injects, Opens, SwitchSession, BeginDispose
<1>11. ASSUME NEW x \in Sessions,
              NewTranscript(x) \/ DisposeJobs(x) \/ \E j \in Jobs : HubCancels(x, j)
       PROVE  \E S : job' = Stopped(S)
  BY <1>11 DEF NewTranscript, DisposeJobs, CancelsOwnJobs, HubCancels
<1>12. CASE DisposeManager  BY <1>2, <1>12 DEF DisposeManager
<1>13. CASE ManagerCloses \/ \E i \in Ids : EvictionFires(i)
  BY <1>1, <1>13 DEF ManagerCloses, EvictionFires
<1>14. CASE UNCHANGED vars  BY <1>1, <1>14 DEF vars
<1> QED  BY <1>1, <1>2, <1>5, <1>6, <1>7, <1>8, <1>9, <1>10, <1>11, <1>12, <1>13, <1>14 DEF Next

\* Deliveries only disappear: nothing is misrouted.
LEMMA RouteKept ==
  ASSUME TypedInv, RouteInv, [Next]_vars,
         \A j \in Jobs : delivery'[j].at = "none" \/ delivery'[j] = delivery[j],
         \A a \in Agents : sink'[a] = sink[a] \/ sink'[a] = None
  PROVE  RouteInv'
<1>1. DeliveriesAreOwn'
  BY OwnersKept DEF RouteInv, DeliveriesAreOwn
<1>2. SinksAreOwn'  BY DEF RouteInv, SinksAreOwn
<1> QED  BY <1>1, <1>2 DEF RouteInv

(***************************************************************************)
(* An enqueued result is routed by the row of its id, so it matters that   *)
(* the row is the job's own.                                               *)
(***************************************************************************)
LEMMA RouteEnqueued ==
  ASSUME TypedInv, RouteInv, [Next]_vars, UNCHANGED sink,
         NEW j \in Jobs, Filed(j), NEW muted, delivery' = Enqueued(j, muted)
  PROVE  RouteInv'
<1>1. CASE job[j].id \in muted
  BY <1>1, RouteKept DEF Enqueued
<1>2. CASE job[j].id \notin muted
  <2>0. delivery \in [Jobs -> AtManager \cup AtSession]  BY DEF TypedInv, JobsTypeOK
  <2>1. RowOwner(job[j].id) = Owner(j) /\ Born(j)
    BY JobsAssumption DEF RowOwner, Filed, Born
  <2>2. /\ delivery'[j].at = "queued" /\ delivery'[j].to = Owner(j)
        /\ \A k \in Jobs \ {j} : delivery'[k] = delivery[k]
    BY <1>2, <2>0, <2>1 DEF Enqueued, NoDelivery
  <2>3. DeliveriesAreOwn'
    BY <2>1, <2>2, OwnersKept DEF RouteInv, DeliveriesAreOwn
  <2> QED  BY <2>3 DEF RouteInv, SinksAreOwn
<1> QED  BY <1>1, <1>2

LEMMA RouteHandedOver ==
  ASSUME TypedInv, RouteInv, [Next]_vars, UNCHANGED sink,
         NEW j \in Jobs, HandsOver(j)
  PROVE  RouteInv'
<1> DEFINE x == IF delivery[j].to = None THEN None ELSE sink[delivery[j].to]
<1>0. delivery \in [Jobs -> AtManager \cup AtSession]  BY DEF TypedInv, JobsTypeOK
<1>1. delivery[j].at = "queued" /\ delivery' = HandedOver(j)  BY DEF HandsOver
<1>2. CASE x # None /\ Open(x)
  <2>1. delivery' = [delivery EXCEPT ![j].at = "sink", ![j].via = x, ![j].epoch = session[x].epoch]
    BY <1>1, <1>2 DEF HandedOver
  <2> HIDE DEF x
  <2>2. /\ delivery'[j].at = "sink" /\ delivery'[j].via = x /\ delivery'[j].to = delivery[j].to
        /\ \A k \in Jobs \ {j} : delivery'[k] = delivery[k]
    BY <1>0, <2>1
  <2>3. OwnerOf[x] = delivery[j].to
    BY <1>0, <1>2 DEF x, RouteInv, SinksAreOwn
  <2>4. Born(j) /\ delivery[j].to = Owner(j)
    BY <1>1 DEF RouteInv, DeliveriesAreOwn
  <2>5. DeliveriesAreOwn'
    BY <2>2, <2>3, <2>4, OwnersKept DEF RouteInv, DeliveriesAreOwn
  <2> QED  BY <2>5 DEF RouteInv, SinksAreOwn
<1>3. CASE ~(x # None /\ Open(x))
  <2>1. delivery' = [delivery EXCEPT ![j] = NoDelivery]  BY <1>1, <1>3 DEF HandedOver
  <2>2. \A k \in Jobs : delivery'[k].at = "none" \/ delivery'[k] = delivery[k]
    BY <1>0, <2>1 DEF NoDelivery
  <2> QED  BY <2>2, RouteKept
<1> QED  BY <1>2, <1>3

LEMMA RouteSink ==
  ASSUME TypedInv, RouteInv, [Next]_vars, NEW j \in Jobs, SinkAccepts(j) \/ SinkFails(j)
  PROVE  RouteInv'
<1> USE DEF sessionVars
<1>0. /\ delivery \in [Jobs -> AtManager \cup AtSession]
      /\ delivery[j].at = "sink" /\ sink' = sink
  BY DEF TypedInv, JobsTypeOK, SinkAccepts, SinkFails
<1>1. \A k \in Jobs \ {j} : delivery'[k] = delivery[k]
  BY <1>0 DEF SinkAccepts, SinkFails
<1>2. \/ delivery'[j] = NoDelivery
      \/ delivery'[j] = [delivery[j] EXCEPT !.at = "yield"]
      \/ delivery'[j] = [NoDelivery EXCEPT !.at = "queued", !.to = delivery[j].to]
  BY <1>0 DEF SinkAccepts, SinkFails
<1>3. delivery[j].to = Owner(j) /\ OwnerOf[delivery[j].via] = Owner(j) /\ Born(j)
  BY <1>0 DEF RouteInv, DeliveriesAreOwn
<1>4. \/ delivery'[j].at = "none"
      \/ delivery'[j].at = "queued" /\ delivery'[j].to = Owner(j)
      \/ delivery'[j].to = Owner(j) /\ OwnerOf[delivery'[j].via] = Owner(j)
  <2>1. delivery[j] \in AtSession  BY <1>0
  <2>2. CASE delivery'[j] = NoDelivery  BY <2>2 DEF NoDelivery
  <2>3. CASE delivery'[j] = [delivery[j] EXCEPT !.at = "yield"]
    <3>1. delivery'[j].to = delivery[j].to /\ delivery'[j].via = delivery[j].via
      BY <2>1, <2>3
    <3> QED  BY <1>3, <3>1
  <2>4. CASE delivery'[j] = [NoDelivery EXCEPT !.at = "queued", !.to = delivery[j].to]
    BY <1>3, <2>4 DEF NoDelivery
  <2> QED  BY <1>2, <2>2, <2>3, <2>4
<1>5. DeliveriesAreOwn'
  BY <1>1, <1>3, <1>4, OwnersKept DEF RouteInv, DeliveriesAreOwn
<1> QED  BY <1>0, <1>5 DEF RouteInv, SinksAreOwn

\* The queue is thinned out, or left alone.
Thinned == \A j \in Jobs : delivery'[j].at = "none" \/ delivery'[j] = delivery[j]

LEMMA WithoutQueuedThins ==
  ASSUME NEW ids, delivery' = WithoutQueued(ids)
  PROVE  Thinned
  BY DEF WithoutQueued, NoDelivery, Thinned

LEMMA RouteNext ==
  ASSUME TypedInv, FilingInv, RouteInv, [Next]_vars
  PROVE  RouteInv'
<1> USE DEF deliveryVars, sessionVars
<1>0. delivery \in [Jobs -> AtManager \cup AtSession] /\ sink \in [Agents -> Sessions \cup {None}]
  BY DEF TypedInv, JobsTypeOK
<1>a. ASSUME Thinned, UNCHANGED sink PROVE RouteInv'
  BY <1>a, RouteKept DEF Thinned
<1>b. CASE UNCHANGED <<delivery, sink>>
  BY <1>a, <1>b DEF Thinned
<1>1. ASSUME NEW x \in Sessions, NEW j \in Jobs, NEW i \in Ids, Register(x, j, i) PROVE RouteInv'
  <2>1. Thinned /\ sink' = sink
    BY <1>1, WithoutQueuedThins DEF Register, Thinned
  <2> QED  BY <1>a, <2>1
<1>2. ASSUME NEW j \in Jobs, Settles(j) PROVE RouteInv'
  <2>1. CASE job[j].st = "stopping"
    BY <1>2, <1>b, <2>1 DEF Settles, Running
  <2>2. CASE job[j].st # "stopping"
    <3>1. Running(j) /\ delivery' = Enqueued(j, suppressed \cup watched) /\ sink' = sink
      BY <1>2, <2>2 DEF Settles
    <3>2. Filed(j)
      BY <3>1 DEF FilingInv, ClosedIsQuiet, UnsettledIsFiled, Unsettled, Running, Filed
    <3> QED  BY <3>1, <3>2, RouteEnqueued
  <2> QED  BY <2>1, <2>2
<1>3. ASSUME NEW j \in Jobs, ForegroundBackgrounds(j) PROVE RouteInv'
  <2> DEFINE i == job[j].id
  <2>1. delivery' = Resumed(i) /\ sink' = sink /\ i \in Ids
    BY <1>3 DEF ForegroundBackgrounds, TypedInv, BornIsNamed
  <2>2. CASE delivery' = delivery  BY <1>b, <2>1, <2>2
  <2>3. CASE delivery' # delivery
    <3>1. row[i] # None /\ delivery' = Enqueued(row[i], watched)
      BY <2>1, <2>3 DEF Resumed
    <3>2. row[i] \in Jobs /\ Filed(row[i])
      BY <2>1, <3>1 DEF TypedInv, JobsTypeOK, RowsAreNamed, Born, Filed
    <3> QED  BY <2>1, <3>1, <3>2, RouteEnqueued
  <2> QED  BY <2>2, <2>3
<1>4. ASSUME NEW j \in Jobs, LoopDelivers(j) \/ DrainDelivers(j) PROVE RouteInv'
  BY <1>4, RouteHandedOver DEF LoopDelivers, DrainDelivers
<1>5. ASSUME NEW j \in Jobs, LoopDrops(j) PROVE RouteInv'
  <2>1. Thinned /\ sink' = sink  BY <1>0, <1>5 DEF LoopDrops, NoDelivery, Thinned
  <2> QED  BY <1>a, <2>1
<1>6. ASSUME NEW x \in Sessions, Injects(x) \/ BeginDispose(x) PROVE RouteInv'
  <2>1. Thinned /\ sink' = sink  BY <1>6 DEF Injects, BeginDispose, NoDelivery, Thinned
  <2> QED  BY <1>a, <2>1
<1>7. ASSUME NEW x \in Sessions, HubWaitReports(x) \/ HubJobs(x) PROVE RouteInv'
  <2>1. sink' = sink /\ \E S : Reports(S)  BY <1>7 DEF HubWaitReports, HubJobs
  <2>2. Thinned  BY <2>1, WithoutQueuedThins DEF Reports, Thinned
  <2> QED  BY <1>a, <2>1, <2>2
<1>8. ASSUME NEW x \in Sessions, NEW j \in Jobs, HubCancels(x, j) PROVE RouteInv'
  <2>1. Thinned /\ sink' = sink  BY <1>8, WithoutQueuedThins DEF HubCancels
  <2> QED  BY <1>a, <2>1
<1>9. ASSUME NEW x \in Sessions, Opens(x) PROVE RouteInv'
  <2>1. SinksAreOwn'
    BY <1>0, <1>9 DEF Opens, RouteInv, SinksAreOwn
  <2>2. DeliveriesAreOwn'
    BY <1>9, OwnersKept DEF Opens, RouteInv, DeliveriesAreOwn
  <2> QED  BY <2>1, <2>2 DEF RouteInv
<1>10. ASSUME NEW x \in Sessions, NewTranscript(x) \/ DisposeJobs(x) PROVE RouteInv'
  <2>1. CancelsOwnJobs(x)  BY <1>10 DEF NewTranscript, DisposeJobs
  <2>2. Thinned  BY <2>1 DEF CancelsOwnJobs, WithoutQueued, NoDelivery, Thinned
  <2>3. \A a \in Agents : sink'[a] = sink[a] \/ sink'[a] = None
    BY <1>0, <1>10 DEF NewTranscript, DisposeJobs, SinkReleased
  <2> QED  BY <2>2, <2>3, RouteKept DEF Thinned
<1>11. CASE ManagerCloses
  <2>1. Thinned  BY <1>11, WithoutQueuedThins DEF ManagerCloses
  <2>2. \A a \in Agents : sink'[a] = None  BY <1>11 DEF ManagerCloses
  <2> QED  BY <2>1, <2>2, RouteKept DEF Thinned
<1>12. ASSUME NEW j \in Jobs, MarkRunning(j) \/ ForegroundReturns(j) \/ ForegroundAborts(j)
       PROVE  RouteInv'
  BY <1>12, <1>b DEF MarkRunning, ForegroundReturns, ForegroundAborts
<1>13. ASSUME NEW x \in Sessions,
              HubWaitStarts(x) \/ HubWaitEnds(x) \/ HubWaitGetsMessage(x) \/ SwitchSession(x)
       PROVE  RouteInv'
  BY <1>13, <1>b DEF HubWaitStarts, HubWaitEnds, HubWaitGetsMessage, SwitchSession
<1>14. CASE DisposeManager \/ \E i \in Ids : EvictionFires(i)
  BY <1>14, <1>b DEF DisposeManager, EvictionFires
<1>15. CASE UNCHANGED vars  BY <1>15, <1>b DEF vars
<1>16. ASSUME NEW j \in Jobs, SinkAccepts(j) \/ SinkFails(j) PROVE RouteInv'
  BY <1>16, RouteSink
<1> QED
  BY <1>1, <1>2, <1>3, <1>4, <1>5, <1>6, <1>7, <1>8, <1>9, <1>10, <1>11, <1>12, <1>13,
     <1>14, <1>15, <1>16 DEF Next

\* What enters a transcript was on the yield queue of that session.
LEMMA InjectsOwn ==
  ASSUME TypedInv, RouteInv, [Next]_vars,
         NEW j \in Jobs, NEW x \in Sessions, InjectedInto(j, x)
  PROVE  Owner(j) = OwnerOf[x]
<1>1. ASSUME NEW y \in Sessions, Injects(y) PROVE Owner(j) = OwnerOf[x]
  <2>1. delivery[j].at = "yield" /\ delivery[j].via = x
    BY <1>1 DEF Injects, Entries, InjectedInto
  <2> QED  BY <2>1 DEF RouteInv, DeliveriesAreOwn
<1>2. CASE ~\E y \in Sessions : Injects(y)
  <2>1. injected' = injected
    BY <1>2 DEF Next, vars, historyVars, Register, MarkRunning, Settles, EvictionFires,
       ForegroundReturns, ForegroundAborts, ForegroundBackgrounds, LoopDelivers, DrainDelivers,
       LoopDrops, SinkAccepts, SinkFails, HubWaitStarts, HubWaitEnds, HubWaitReports,
       HubWaitGetsMessage, HubJobs, HubCancels, Opens, NewTranscript, SwitchSession,
       BeginDispose, DisposeJobs, DisposeManager, ManagerCloses
  <2> QED  BY <2>1 DEF InjectedInto
<1> QED  BY <1>1, <1>2

(***************************************************************************)
(* One agent's result never enters another agent's transcript, in whatever *)
(* order jobs settle, ids are reused and sessions open and close, provided *)
(* a cancelled job settles within the retention of its row.                *)
(***************************************************************************)
THEOREM ResultsStayHome ==
  ASSUME "stuck" \notin Happenings
  PROVE  Spec => OwnerRouting
<1> DEFINE Inv == TypedInv /\ FilingInv /\ RouteInv
           Own == \A j \in Jobs, x \in Sessions : InjectedInto(j, x) => Owner(j) = OwnerOf[x]
<1>1. Init => Inv  BY TypedInit, FilingInit, RouteInit
<1>2. Inv /\ [Next]_vars => Inv'  BY TypedNext, FilingNext, RouteNext
<1>3. Inv /\ [Next]_vars => [Own]_vars  BY InjectsOwn
<1> QED  BY <1>1, <1>2, <1>3, PTL DEF Spec, OwnerRouting

-----------------------------------------------------------------------------
(* How jobs, rows and suppressions move                                    *)

\* A job that was there before keeps its names and goes on in its life ...
GoesOn(j) ==
    /\ job'[j].id = job[j].id /\ job'[j].by = job[j].by /\ job'[j].born = job[j].born
    /\ job'[j].front => job[j].front
    /\ \/ job'[j].st = job[j].st
       \/ job[j].st = "queued" /\ job'[j].st = "running"
       \/ Running(j) /\ job'[j].st = "stopping"
       \/ Settles(j) /\ job[j].st = "stopping" /\ job'[j].st = "stopped"
       \/ Settles(j) /\ Running(j) /\ job'[j].st = "finished"

\* ... or it is registered by this step.
IsRegistered(j) ==
    \E x \in Sessions, i \in Ids :
       /\ Register(x, j, i)
       /\ job'[j].id = i /\ job'[j].by = x /\ job'[j].born = session[x].transcript
       /\ job'[j].st \in {"queued", "running"}
       /\ IF job'[j].front THEN i \in suppressed' ELSE i \notin suppressed'

LEMMA JobMoves ==
  ASSUME TypedInv, [Next]_vars, NEW j \in Jobs
  PROVE  GoesOn(j) \/ IsRegistered(j)
<1> USE DEF rowVars
<1>0. job \in [Jobs -> JobRecord]  BY DEF TypedInv, JobsTypeOK
<1>a. ASSUME job' = job PROVE GoesOn(j)  BY <1>a DEF GoesOn
<1>b. ASSUME NEW S, job' = Stopped(S) PROVE GoesOn(j)
  BY <1>0, <1>b, StoppedFacts DEF GoesOn
<1>c. ASSUME NEW k \in Jobs, job' = [job EXCEPT ![k].front = FALSE] PROVE GoesOn(j)
  BY <1>0, <1>c, FrontFacts DEF GoesOn
<1>1. ASSUME NEW x \in Sessions, NEW k \in Jobs, NEW i \in Ids, Register(x, k, i)
      PROVE  GoesOn(j) \/ IsRegistered(j)
  <2>1. PICK st \in {"queued", "running"}, front \in BOOLEAN :
           /\ job' = [job EXCEPT ![k] = [st |-> st, id |-> i, by |-> x,
                                         born |-> session[x].transcript, front |-> front]]
           /\ suppressed' = IF front THEN suppressed \cup {i} ELSE suppressed \ {i}
    BY <1>1 DEF Register
  <2>2. CASE j = k  BY <1>0, <1>1, <2>1, <2>2 DEF IsRegistered
  <2>3. CASE j # k
    <3>1. job'[j] = job[j]  BY <1>0, <2>1, <2>3
    <3> QED  BY <3>1 DEF GoesOn
  <2> QED  BY <2>2, <2>3
<1>2. ASSUME NEW k \in Jobs, MarkRunning(k) PROVE GoesOn(j)
  <2>1. job[k].st = "queued" /\ job' = [job EXCEPT ![k].st = "running"]
    BY <1>2 DEF MarkRunning
  <2> QED  BY <1>0, <2>1, StatusFacts DEF GoesOn
<1>3. ASSUME NEW k \in Jobs, Settles(k) PROVE GoesOn(j)
  <2>1. CASE job[k].st = "stopping" /\ job' = [job EXCEPT ![k].st = "stopped"]
    BY <1>0, <1>3, <2>1, StatusFacts DEF GoesOn
  <2>2. CASE Running(k) /\ job' = [job EXCEPT ![k].st = "finished"]
    BY <1>0, <1>3, <2>2, StatusFacts DEF GoesOn
  <2> QED  BY <1>3, <2>1, <2>2 DEF Settles
<1>4. ASSUME NEW k \in Jobs, ForegroundAborts(k) PROVE GoesOn(j)
  <2> DEFINE stop == Stopped({row[job[k].id]} \ {None})
  <2>1. stop \in [Jobs -> JobRecord]  BY <1>0, StoppedFacts
  <2>2. /\ stop[j].id = job[j].id /\ stop[j].by = job[j].by /\ stop[j].born = job[j].born
        /\ stop[j].front = job[j].front
        /\ stop[j].st = IF j \in {row[job[k].id]} \ {None} /\ Running(j) THEN "stopping" ELSE job[j].st
    BY <1>0, StoppedFacts
  <2>3. job' = [stop EXCEPT ![k].front = FALSE]  BY <1>4 DEF ForegroundAborts
  <2> HIDE DEF stop
  <2>4. /\ job'[j].id = stop[j].id /\ job'[j].by = stop[j].by /\ job'[j].born = stop[j].born
        /\ job'[j].front => stop[j].front
        /\ job'[j].st = stop[j].st
    BY <2>1, <2>3
  <2> QED  BY <2>2, <2>4 DEF GoesOn
<1>5. ASSUME NEW k \in Jobs, ForegroundReturns(k) \/ ForegroundBackgrounds(k) PROVE GoesOn(j)
  BY <1>5, <1>c DEF ForegroundReturns, ForegroundBackgrounds
<1>6. ASSUME NEW x \in Sessions,
             NewTranscript(x) \/ DisposeJobs(x) \/ \E k \in Jobs : HubCancels(x, k)
      PROVE  GoesOn(j)
  BY <1>6, <1>b DEF NewTranscript, DisposeJobs, CancelsOwnJobs, HubCancels
<1>7. CASE DisposeManager  BY <1>7, <1>b DEF DisposeManager
<1>8. ASSUME NEW k \in Jobs,
             LoopDelivers(k) \/ DrainDelivers(k) \/ LoopDrops(k) \/ SinkAccepts(k) \/ SinkFails(k)
      PROVE  GoesOn(j)
  BY <1>8, <1>a DEF LoopDelivers, DrainDelivers, LoopDrops, SinkAccepts, SinkFails
<1>9. ASSUME NEW x \in Sessions,
             \/ HubWaitStarts(x) \/ HubWaitEnds(x) \/ HubWaitReports(x)
             \/ HubWaitGetsMessage(x) \/ HubJobs(x) \/ Injects(x)
             \/ Opens(x) \/ SwitchSession(x) \/ BeginDispose(x)
      PROVE  GoesOn(j)
  BY <1>9, <1>a DEF HubWaitStarts, HubWaitEnds, HubWaitReports, HubWaitGetsMessage, HubJobs,
     Injects, Opens, SwitchSession, BeginDispose
<1>10. CASE ManagerCloses \/ \E i \in Ids : EvictionFires(i)
  BY <1>10, <1>a DEF ManagerCloses, EvictionFires
<1>11. CASE UNCHANGED vars  BY <1>11, <1>a DEF vars
<1> QED  BY <1>1, <1>2, <1>3, <1>4, <1>5, <1>6, <1>7, <1>8, <1>9, <1>10, <1>11 DEF Next

\* The three ways a row comes to an end.
Empties(i) ==
    \/ EvictionFires(i)
    \/ \E x \in Sessions : CancelsOwnJobs(x) /\ i \in IdsOf(CompletedRows(OwnerOf[x]))
    \/ ManagerCloses

LEMMA RowMoves ==
  ASSUME TypedInv, [Next]_vars, NEW i \in Ids
  PROVE  \/ row'[i] = row[i]
         \/ row'[i] = None /\ Empties(i)
         \/ \E x \in Sessions, j \in Jobs : Register(x, j, i) /\ row'[i] = j
<1> DEFINE Goal == \/ row'[i] = row[i]
                   \/ row'[i] = None /\ Empties(i)
                   \/ \E x \in Sessions, j \in Jobs : Register(x, j, i) /\ row'[i] = j
<1> USE DEF rowVars
<1>0. row \in [Ids -> Jobs \cup {None}]  BY DEF TypedInv, JobsTypeOK
<1>1. ASSUME NEW x \in Sessions, NEW j \in Jobs, NEW k \in Ids, Register(x, j, k) PROVE Goal
  <2>1. row' = [row EXCEPT ![k] = j]  BY <1>1 DEF Register
  <2> QED  BY <1>0, <1>1, <2>1
<1>2. ASSUME NEW k \in Ids, EvictionFires(k) PROVE Goal
  BY <1>0, <1>2 DEF EvictionFires, EvictedRows, Empties
<1>3. ASSUME NEW x \in Sessions, NewTranscript(x) \/ DisposeJobs(x) PROVE Goal
  <2>1. CancelsOwnJobs(x)  BY <1>3 DEF NewTranscript, DisposeJobs
  <2> QED  BY <1>0, <2>1, CancelFacts DEF Empties
<1>4. CASE ManagerCloses  BY <1>4 DEF ManagerCloses, Empties
<1>5. ASSUME NEW j \in Jobs,
             \/ MarkRunning(j) \/ Settles(j)
             \/ ForegroundReturns(j) \/ ForegroundAborts(j) \/ ForegroundBackgrounds(j)
             \/ LoopDelivers(j) \/ DrainDelivers(j) \/ LoopDrops(j)
             \/ SinkAccepts(j) \/ SinkFails(j)
      PROVE  row' = row
  BY <1>5 DEF MarkRunning, Settles, ForegroundReturns, ForegroundAborts,
     ForegroundBackgrounds, LoopDelivers, DrainDelivers, LoopDrops, SinkAccepts, SinkFails
<1>6. ASSUME NEW x \in Sessions,
             \/ HubWaitStarts(x) \/ HubWaitEnds(x) \/ HubWaitReports(x)
             \/ HubWaitGetsMessage(x) \/ HubJobs(x) \/ Injects(x)
             \/ Opens(x) \/ SwitchSession(x) \/ BeginDispose(x)
             \/ \E j \in Jobs : HubCancels(x, j)
      PROVE  row' = row
  BY <1>6 DEF HubWaitStarts, HubWaitEnds, HubWaitReports, HubWaitGetsMessage, HubJobs,
     Injects, Opens, SwitchSession, BeginDispose, HubCancels
<1>7. CASE DisposeManager \/ UNCHANGED vars  BY <1>7 DEF DisposeManager, vars
<1> QED  BY <1>1, <1>2, <1>3, <1>4, <1>5, <1>6, <1>7 DEF Next

\* A suppression ends with its row, with a new job of the id, or when a foreground
\* call lets its job go on alone.
LEMMA SuppressedMoves ==
  ASSUME TypedInv, [Next]_vars, NEW i \in suppressed
  PROVE  \/ i \in suppressed' \/ Empties(i)
         \/ \E x \in Sessions, j \in Jobs : Register(x, j, i)
         \/ \E j \in Jobs : ForegroundBackgrounds(j) /\ job[j].id = i
<1> DEFINE Goal == \/ i \in suppressed' \/ Empties(i)
                   \/ \E x \in Sessions, j \in Jobs : Register(x, j, i)
                   \/ \E j \in Jobs : ForegroundBackgrounds(j) /\ job[j].id = i
<1> USE DEF mutingVars
<1>1. ASSUME NEW x \in Sessions, NEW j \in Jobs, NEW k \in Ids, Register(x, j, k) PROVE Goal
  BY <1>1 DEF Register
<1>2. ASSUME NEW k \in Ids, EvictionFires(k) PROVE Goal  BY <1>2 DEF EvictionFires, Empties
<1>3. ASSUME NEW x \in Sessions, NewTranscript(x) \/ DisposeJobs(x) PROVE Goal
  <2>1. CancelsOwnJobs(x)  BY <1>3 DEF NewTranscript, DisposeJobs
  <2> QED  BY <2>1 DEF CancelsOwnJobs, Empties
<1>4. CASE ManagerCloses  BY <1>4 DEF Empties
<1>5. ASSUME NEW j \in Jobs,
             \/ MarkRunning(j) \/ Settles(j)
             \/ ForegroundReturns(j) \/ ForegroundAborts(j) \/ ForegroundBackgrounds(j)
             \/ LoopDelivers(j) \/ DrainDelivers(j) \/ LoopDrops(j)
             \/ SinkAccepts(j) \/ SinkFails(j)
      PROVE  Goal
  BY <1>5 DEF MarkRunning, Settles, ForegroundReturns, ForegroundAborts,
     ForegroundBackgrounds, LoopDelivers, DrainDelivers, LoopDrops, SinkAccepts, SinkFails
<1>6. ASSUME NEW x \in Sessions,
             \/ HubWaitStarts(x) \/ HubWaitEnds(x)
             \/ HubWaitGetsMessage(x) \/ Injects(x)
             \/ Opens(x) \/ SwitchSession(x) \/ BeginDispose(x)
             \/ \E j \in Jobs : HubCancels(x, j)
      PROVE  Goal
  BY <1>6 DEF HubWaitStarts, HubWaitEnds, HubWaitGetsMessage,
     Injects, Opens, SwitchSession, BeginDispose, HubCancels
<1>7. ASSUME NEW x \in Sessions, HubWaitReports(x) \/ HubJobs(x) PROVE Goal
  <2>1. \E S : Reports(S)  BY <1>7 DEF HubWaitReports, HubJobs
  <2> QED  BY <2>1 DEF Reports
<1>8. CASE DisposeManager \/ UNCHANGED vars  BY <1>8 DEF DisposeManager, vars
<1> QED  BY <1>1, <1>2, <1>3, <1>4, <1>5, <1>6, <1>7, <1>8 DEF Next

\* A result is shown by the foreground call of its job, or by the hub, which
\* suppresses the delivery with it.
LEMMA ToldMoves ==
  ASSUME TypedInv, [Next]_vars, NEW j \in told', j \notin told
  PROVE  \/ ForegroundReturns(j) /\ suppressed' = suppressed /\ ~job'[j].front
         \/ job' = job /\ job[j].st = "finished" /\ ~job[j].front /\ job[j].id \in suppressed'
<1> USE DEF historyVars, rowVars
<1>1. ASSUME NEW k \in Jobs, ForegroundReturns(k)
      PROVE  ForegroundReturns(j) /\ suppressed' = suppressed /\ ~job'[j].front
  <2>1. k = j /\ job' = [job EXCEPT ![k].front = FALSE]  BY <1>1 DEF ForegroundReturns
  <2>2. ~job'[j].front  BY <2>1, FrontFacts DEF TypedInv, JobsTypeOK
  <2> QED  BY <1>1, <2>1, <2>2 DEF ForegroundReturns, mutingVars
<1>2. ASSUME NEW S, Reports(S), ForegroundWentOn(S)
      PROVE  job[j].st = "finished" /\ ~job[j].front /\ job[j].id \in suppressed'
  <2>1. j \in S /\ job[j].st = "finished"  BY <1>2 DEF Reports
  <2> QED  BY <1>2, <2>1 DEF Reports, ForegroundWentOn, IdsOf, Running
<1>3. ASSUME NEW x \in Sessions, HubWaitReports(x) \/ HubJobs(x)
      PROVE  job' = job /\ job[j].st = "finished" /\ ~job[j].front /\ job[j].id \in suppressed'
  <2>1. \E S : Reports(S) /\ ForegroundWentOn(S)  BY <1>3 DEF HubWaitReports, HubJobs
  <2> QED  BY <1>2, <1>3, <2>1 DEF HubWaitReports, HubJobs
<1>4. ASSUME NEW k \in Jobs,
             \/ MarkRunning(k) \/ Settles(k)
             \/ ForegroundAborts(k) \/ ForegroundBackgrounds(k)
             \/ LoopDelivers(k) \/ DrainDelivers(k) \/ LoopDrops(k)
             \/ SinkAccepts(k) \/ SinkFails(k)
      PROVE  told' = told
  BY <1>4 DEF MarkRunning, Settles, ForegroundAborts,
     ForegroundBackgrounds, LoopDelivers, DrainDelivers, LoopDrops, SinkAccepts, SinkFails
<1>5. ASSUME NEW x \in Sessions,
             \/ HubWaitStarts(x) \/ HubWaitEnds(x)
             \/ HubWaitGetsMessage(x) \/ Injects(x)
             \/ Opens(x) \/ SwitchSession(x) \/ BeginDispose(x)
             \/ NewTranscript(x) \/ DisposeJobs(x)
             \/ \E k \in Jobs : HubCancels(x, k) \/ \E i \in Ids : Register(x, k, i)
      PROVE  told' = told
  BY <1>5 DEF HubWaitStarts, HubWaitEnds, HubWaitGetsMessage, Register,
     Injects, Opens, SwitchSession, BeginDispose, NewTranscript, DisposeJobs, HubCancels
<1>6. CASE DisposeManager \/ ManagerCloses \/ UNCHANGED vars \/ \E i \in Ids : EvictionFires(i)
  BY <1>6 DEF DisposeManager, ManagerCloses, EvictionFires, vars
<1> QED  BY <1>1, <1>3, <1>4, <1>5, <1>6 DEF Next

-----------------------------------------------------------------------------
(* A result is not shown twice                                             *)

\* A job that a foreground call waits for is filed and suppressed: the call ends
\* before its row does, and nobody else lifts the suppression.
FrontIsMuted ==
    mgr # "closed" => \A j \in Jobs : job[j].front => Filed(j) /\ job[j].id \in suppressed

\* A result that was shown stays suppressed as long as its row is there.
ToldIsMuted ==
    \A j \in told : Born(j) /\ ~job[j].front /\ (Filed(j) => job[j].id \in suppressed)

ClosedIsEmpty == mgr = "closed" => \A i \in Ids : row[i] = None

ShownInv == FrontIsMuted /\ ToldIsMuted /\ ClosedIsEmpty

LEMMA ShownInit == Init => ShownInv
  BY DEF Init, NoJob, ShownInv, FrontIsMuted, ToldIsMuted, ClosedIsEmpty

LEMMA ClosedNext ==
  ASSUME TypedInv, ClosedIsEmpty, [Next]_vars
  PROVE  ClosedIsEmpty'
<1>1. CASE ManagerCloses  BY <1>1 DEF ManagerCloses, ClosedIsEmpty
<1>2. CASE ~ManagerCloses
  <2> SUFFICES ASSUME mgr' = "closed", NEW i \in Ids PROVE row'[i] = None
    BY DEF ClosedIsEmpty
  <2>1. mgr = "closed"
    BY <1>2 DEF Next, vars, Register, MarkRunning, Settles, EvictionFires,
       ForegroundReturns, ForegroundAborts, ForegroundBackgrounds, LoopDelivers, DrainDelivers,
       LoopDrops, SinkAccepts, SinkFails, HubWaitStarts, HubWaitEnds, HubWaitReports,
       HubWaitGetsMessage, HubJobs, HubCancels, Injects, Opens, NewTranscript, SwitchSession,
       BeginDispose, DisposeJobs, DisposeManager
  <2>2. ~\E x \in Sessions, j \in Jobs : Register(x, j, i)  BY <2>1 DEF Register
  <2> QED  BY <2>1, <2>2, RowMoves DEF ClosedIsEmpty
<1> QED  BY <1>1, <1>2

LEMMA FrontStaysFiled ==
  ASSUME "stuck" \notin Happenings, TypedInv, FilingInv, FrontIsMuted, [Next]_vars,
         NEW j \in Jobs, GoesOn(j), job[j].front, job'[j].front, mgr' # "closed"
  PROVE  Filed(j)' /\ job[j].id \in suppressed'
<1>0. mgr # "closed" /\ ~ManagerCloses
  BY DEF ManagerCloses, Next, vars, Register, MarkRunning, Settles, EvictionFires,
     ForegroundReturns, ForegroundAborts, ForegroundBackgrounds, LoopDelivers, DrainDelivers,
     LoopDrops, SinkAccepts, SinkFails, HubWaitStarts, HubWaitEnds, HubWaitReports,
     HubWaitGetsMessage, HubJobs, HubCancels, Injects, Opens, NewTranscript, SwitchSession,
     BeginDispose, DisposeJobs, DisposeManager
<1> DEFINE i == job[j].id
<1>1. Filed(j) /\ i \in suppressed /\ i \in Ids /\ row[i] = j
  BY <1>0 DEF FrontIsMuted, TypedInv, BornIsNamed, Filed
<1>2. ~EvictionFires(i)
  <2> SUFFICES ASSUME EvictionFires(i) PROVE FALSE  OBVIOUS
  <2>1. ~Running(j) /\ job[j].st # "stopping"
    BY <1>1 DEF EvictionFires, FilingInv, TimedRowsAreOver
  <2>2. job[j].st \in {"finished", "stopped"}
    BY <1>1, <2>1 DEF Filed, Running, TypedInv, JobsTypeOK
  <2> QED  BY <2>2 DEF EvictionFires, WaitDue
<1>3. ASSUME NEW x \in Sessions, CancelsOwnJobs(x), i \in IdsOf(CompletedRows(OwnerOf[x]))
      PROVE  FALSE
  <2>1. PICK k \in CompletedRows(OwnerOf[x]) : job[k].id = i  BY <1>3 DEF IdsOf
  <2>2. k = j  BY <1>1, <2>1 DEF CompletedRows, RowsOf, Filed
  <2> QED  BY <1>3, <2>2 DEF CancelsOwnJobs, ForegroundWentOn, CompletedRows
<1>4. ~Empties(i)  BY <1>0, <1>2, <1>3 DEF Empties
<1>5. ASSUME NEW x \in Sessions, NEW k \in Jobs, Register(x, k, i) PROVE FALSE
  BY <1>1, <1>5, JobsAssumption DEF Register
<1>6. row'[i] = j  BY <1>1, <1>4, <1>5, RowMoves
<1>7. ASSUME NEW k \in Jobs, ForegroundBackgrounds(k), job[k].id = i PROVE FALSE
  <2>1. k = j  BY <1>0, <1>1, <1>7 DEF ForegroundBackgrounds, FrontIsMuted, Filed
  <2>2. ~job'[j].front
    BY <1>7, <2>1, FrontFacts DEF ForegroundBackgrounds, TypedInv, JobsTypeOK
  <2> QED  BY <2>2
<1>8. i \in suppressed'  BY <1>1, <1>4, <1>5, <1>7, SuppressedMoves
<1>9. job'[j].st # "unborn"  BY <1>1 DEF GoesOn, Filed
<1> QED  BY <1>6, <1>8, <1>9 DEF GoesOn, Filed

LEMMA ShownNext ==
  ASSUME "stuck" \notin Happenings, TypedInv, FilingInv, ShownInv, [Next]_vars
  PROVE  ShownInv'
<1>1. FrontIsMuted'
  <2> SUFFICES ASSUME mgr' # "closed", NEW j \in Jobs, job'[j].front
               PROVE  Filed(j)' /\ job'[j].id \in suppressed'
    BY DEF FrontIsMuted
  <2>1. CASE GoesOn(j)
    BY <2>1, FrontStaysFiled DEF GoesOn, ShownInv
  <2>2. CASE IsRegistered(j)
    <3>1. PICK x \in Sessions, i \in Ids :
             Register(x, j, i) /\ job'[j].id = i /\ job'[j].st # "unborn" /\ i \in suppressed'
      BY <2>2 DEF IsRegistered
    <3>2. row'[i] = j  BY <3>1 DEF Register, TypedInv, JobsTypeOK
    <3> QED  BY <3>1, <3>2 DEF Filed
  <2> QED  BY <2>1, <2>2, JobMoves
<1>2. ToldIsMuted'
  <2> SUFFICES ASSUME NEW j \in told'
               PROVE  Born(j)' /\ ~job'[j].front /\ (Filed(j)' => job'[j].id \in suppressed')
    BY DEF ToldIsMuted
  <2>0. j \in Jobs  BY TypedNext DEF TypedInv, JobsTypeOK
  <2>1. CASE j \in told
    <3>1. Born(j) /\ ~job[j].front /\ (Filed(j) => job[j].id \in suppressed)
      BY <2>1 DEF ShownInv, ToldIsMuted
    <3>2. GoesOn(j)  BY <2>0, <3>1, JobMoves DEF IsRegistered, Register, Born
    <3>3. Born(j)' /\ ~job'[j].front /\ job'[j].id = job[j].id /\ job[j].id \in Ids
      BY <2>0, <3>1, <3>2 DEF GoesOn, Born, TypedInv, BornIsNamed
    <3>4. ASSUME Filed(j)' PROVE job[j].id \in suppressed'
      <4> DEFINE i == job[j].id
      <4>1. row'[i] = j  BY <3>3, <3>4 DEF Filed
      <4>2. ASSUME NEW x \in Sessions, NEW k \in Jobs, Register(x, k, i) PROVE FALSE
        <5>1. row'[i] = k  BY <3>3, <4>2 DEF Register, TypedInv, JobsTypeOK
        <5> QED  BY <3>1, <4>1, <4>2, <5>1 DEF Register, Born
      <4>3. ~Empties(i)
        <5>1. Empties(i) => row'[i] = None
          BY <3>3, CancelFacts DEF Empties, EvictionFires, EvictedRows, ManagerCloses
        <5> QED  BY <2>0, <4>1, <5>1, JobsAssumption
      <4>4. row[i] = j /\ Filed(j)
        BY <2>0, <3>1, <3>3, <4>1, <4>2, <4>3, RowMoves, JobsAssumption DEF Filed, Born
      <4>5. ASSUME NEW k \in Jobs, ForegroundBackgrounds(k), job[k].id = i PROVE FALSE
        <5>1. mgr # "closed"
          BY <2>0, <3>3, <4>4, JobsAssumption DEF ShownInv, ClosedIsEmpty
        <5>2. k = j  BY <4>4, <4>5, <5>1 DEF ForegroundBackgrounds, ShownInv, FrontIsMuted, Filed
        <5> QED  BY <3>1, <4>5, <5>2 DEF ForegroundBackgrounds
      <4> QED  BY <3>1, <4>2, <4>3, <4>4, <4>5, SuppressedMoves
    <3> QED  BY <3>3, <3>4
  <2>2. CASE j \notin told
    <3>1. CASE ForegroundReturns(j) /\ suppressed' = suppressed /\ ~job'[j].front
      <4>1. job[j].front /\ row' = row /\ mgr' = mgr
        BY <3>1 DEF ForegroundReturns
      <4>2. Born(j)  BY <2>0, <4>1 DEF TypedInv, BornIsNamed
      <4>3. GoesOn(j)  BY <2>0, <4>2, JobMoves DEF IsRegistered, Register, Born
      <4>4. mgr # "closed" => job[j].id \in suppressed
        BY <2>0, <4>1 DEF ShownInv, FrontIsMuted
      <4>5. mgr = "closed" => ~Filed(j)
        BY <2>0, <4>2, JobsAssumption DEF ShownInv, ClosedIsEmpty, Filed, TypedInv, BornIsNamed
      <4>6. Born(j)' /\ job'[j].id = job[j].id  BY <4>2, <4>3 DEF GoesOn, Born
      <4>7. Filed(j)' => Filed(j) /\ mgr # "closed"
        BY <4>1, <4>2, <4>5, <4>6 DEF Filed, Born
      <4> QED  BY <3>1, <4>4, <4>6, <4>7
    <3>2. CASE job' = job /\ job[j].st = "finished" /\ ~job[j].front /\ job[j].id \in suppressed'
      BY <3>2 DEF Born
    <3> QED  BY <2>2, <3>1, <3>2, ToldMoves
  <2> QED  BY <2>1, <2>2
<1>3. ClosedIsEmpty'  BY ClosedNext DEF ShownInv
<1> QED  BY <1>1, <1>2, <1>3 DEF ShownInv

\* What enters a transcript is fresh and was not shown.
LEMMA InjectsFresh ==
  ASSUME TypedInv, [Next]_vars, NEW j \in injected' \ injected
  PROVE  \E x \in Sessions : Injects(x) /\ j \in Entries(x, "yield") /\ Fresh(j)
<1>1. ASSUME NEW y \in Sessions, Injects(y)
      PROVE  \E x \in Sessions : Injects(x) /\ j \in Entries(x, "yield") /\ Fresh(j)
  BY <1>1 DEF Injects
<1>2. CASE ~\E y \in Sessions : Injects(y)
  <2>1. injected' = injected
    BY <1>2 DEF Next, vars, historyVars, Register, MarkRunning, Settles, EvictionFires,
       ForegroundReturns, ForegroundAborts, ForegroundBackgrounds, LoopDelivers, DrainDelivers,
       LoopDrops, SinkAccepts, SinkFails, HubWaitStarts, HubWaitEnds, HubWaitReports,
       HubWaitGetsMessage, HubJobs, HubCancels, Opens, NewTranscript, SwitchSession,
       BeginDispose, DisposeJobs, DisposeManager, ManagerCloses
  <2> QED  BY <2>1
<1> QED  BY <1>1, <1>2

(***************************************************************************)
(* A result that a tool call showed is not injected again while its row is *)
(* there, in whatever order calls, hub waits, boundaries and disposals     *)
(* end, provided a cancelled job settles within the retention of its row.  *)
(***************************************************************************)
THEOREM ShownOnce ==
  ASSUME "stuck" \notin Happenings
  PROVE  Spec => NeverShownTwice
<1> DEFINE Inv == TypedInv /\ FilingInv /\ ShownInv
           Once == \A j \in injected' \ injected : Filed(j) => j \notin told
<1>1. Init => Inv  BY TypedInit, FilingInit, ShownInit
<1>2. Inv /\ [Next]_vars => Inv'  BY TypedNext, FilingNext, ShownNext
<1>3. Inv /\ [Next]_vars => [Once]_vars
  BY InjectsFresh DEF Fresh, Muted, ShownInv, ToldIsMuted
<1> QED  BY <1>1, <1>2, <1>3, PTL DEF Spec, NeverShownTwice

-----------------------------------------------------------------------------
(* How deliveries and sessions move                                        *)

Sent(j) == delivery[j].at \in {"sink", "yield"}

\* A result is put on the manager's queue: its job settles, or the call that
\* waited for it lets it go on alone and finds it finished.
IsEnqueued(j) ==
    /\ Filed(j) /\ row' = row /\ session' = session
    /\ job[j].id \notin watched
    /\ delivery'[j].at = "queued" /\ delivery'[j].to = Owner(j)
    /\ \/ Settles(j) /\ Running(j) /\ ~Muted(job[j].id)
       \/ /\ job[j].st = "finished"
          /\ \E k \in Jobs : ForegroundBackgrounds(k) /\ job[k].id = job[j].id

\* It is handed to the open session that is registered for its agent.
IsHandedOver(j) ==
    /\ delivery[j].at = "queued" /\ ~Muted(job[j].id)
    /\ UNCHANGED <<job, row, suppressed, watched, session>>
    /\ delivery'[j].at = "sink" /\ delivery'[j].via \in Sessions
    /\ Open(delivery'[j].via) /\ delivery'[j].epoch = session[delivery'[j].via].epoch

\* The session takes it up on its yield queue.
IsAccepted(j) ==
    /\ delivery[j].at = "sink" /\ Fresh(j) /\ Open(delivery[j].via)
    /\ UNCHANGED <<job, row, suppressed, watched, session, gone>>
    /\ delivery'[j].at = "yield"
    /\ delivery'[j].via = delivery[j].via /\ delivery'[j].epoch = delivery[j].epoch

\* The sink threw, so it is queued once more.
IsRetried(j) ==
    /\ SinkFails(j) /\ ~Muted(job[j].id)
    /\ delivery'[j].at = "queued" /\ delivery'[j].to = delivery[j].to

\* It is over: muted, a dead letter, refused, thrown, injected, or discarded at
\* a boundary or a disposal.
IsOver(j) ==
    /\ delivery'[j].at = "none"
    /\ \/ /\ delivery[j].at = "queued" /\ job[j].id \in suppressed' \cup watched'
          /\ gone' = gone
       \/ HandsOver(j)
       \/ SinkAccepts(j) /\ ~(Open(delivery[j].via) /\ Fresh(j))
       \/ SinkFails(j) /\ Muted(job[j].id)
       \/ \E x \in Sessions : Injects(x) /\ j \in Entries(x, "yield")
       \/ \E x \in Sessions : BeginDispose(x) /\ j \in Entries(x, "yield")
       \/ /\ \E x \in Sessions : CancelsOwnJobs(x) /\ j \in Entries(x, "yield")
          /\ mgr' = mgr
       \/ \E x \in Sessions :
             /\ CancelsOwnJobs(x) /\ delivery[j].at = "queued"
             /\ job[j].id \in IdsOf(CompletedRows(OwnerOf[x])) \cup suppressed \cup watched
       \/ ManagerCloses /\ delivery[j].at = "queued"

DeliveryStays(j) == delivery'[j] = delivery[j]

Moves(j) == \/ DeliveryStays(j) \/ IsEnqueued(j) \/ IsHandedOver(j)
            \/ IsAccepted(j) \/ IsRetried(j) \/ IsOver(j)

\* A result that is enqueued is routed by the row of its job.
LEMMA EnqueuedFacts ==
  ASSUME TypedInv, NEW k \in Jobs, Filed(k), NEW muted, NEW j \in Jobs,
         delivery' = Enqueued(k, muted), delivery'[j] # delivery[j]
  PROVE  /\ j = k /\ job[j].id \notin muted
         /\ delivery'[j].at = "queued" /\ delivery'[j].to = Owner(j)
<1>0. delivery \in [Jobs -> AtManager \cup AtSession]  BY DEF TypedInv, JobsTypeOK
<1>1. job[k].id \notin muted  BY DEF Enqueued
<1>2. RowOwner(job[k].id) = Owner(k)
  BY JobsAssumption DEF RowOwner, Filed
<1> DEFINE new == [NoDelivery EXCEPT !.at = "queued", !.to = RowOwner(job[k].id)]
<1>3. new.at = "queued" /\ new.to = Owner(k)  BY <1>2 DEF NoDelivery
<1>4. delivery' = [delivery EXCEPT ![k] = new]  BY <1>1 DEF Enqueued
<1> HIDE DEF new
<1> QED  BY <1>0, <1>1, <1>3, <1>4

LEMMA HandsOverMoves ==
  ASSUME TypedInv, NEW k \in Jobs, NEW j \in Jobs, HandsOver(k),
         UNCHANGED <<job, row, suppressed, watched, session>>
  PROVE  DeliveryStays(j) \/ IsHandedOver(j) \/ IsOver(j)
<1> DEFINE x == IF delivery[k].to = None THEN None ELSE sink[delivery[k].to]
<1>0. delivery \in [Jobs -> AtManager \cup AtSession]  BY DEF TypedInv, JobsTypeOK
<1>1. delivery[k].at = "queued" /\ delivery' = HandedOver(k) /\ ~Muted(job[k].id)
  BY DEF HandsOver
<1>2. CASE x # None /\ Open(x)
  <2>1. delivery' = [delivery EXCEPT ![k].at = "sink", ![k].via = x, ![k].epoch = session[x].epoch]
    BY <1>1, <1>2 DEF HandedOver
  <2>2. x \in Sessions  BY <1>0, <1>2 DEF TypedInv, JobsTypeOK
  <2> HIDE DEF x
  <2>3. /\ delivery'[k].at = "sink" /\ delivery'[k].via = x
        /\ delivery'[k].epoch = session[x].epoch
        /\ \A m \in Jobs \ {k} : delivery'[m] = delivery[m]
    BY <1>0, <2>1
  <2> QED  BY <1>1, <1>2, <2>2, <2>3 DEF DeliveryStays, IsHandedOver
<1>3. CASE ~(x # None /\ Open(x))
  <2>1. delivery' = [delivery EXCEPT ![k] = NoDelivery]  BY <1>1, <1>3 DEF HandedOver
  <2>2. delivery'[k].at = "none" /\ \A m \in Jobs \ {k} : delivery'[m] = delivery[m]
    BY <1>0, <2>1 DEF NoDelivery
  <2> QED  BY <2>2 DEF DeliveryStays, IsOver
<1> QED  BY <1>2, <1>3

LEMMA SinkMoves ==
  ASSUME TypedInv, NEW k \in Jobs, NEW j \in Jobs, SinkAccepts(k) \/ SinkFails(k)
  PROVE  DeliveryStays(j) \/ IsAccepted(j) \/ IsRetried(j) \/ IsOver(j)
<1> USE DEF rowVars, mutingVars, sessionVars
<1>0. delivery \in [Jobs -> AtManager \cup AtSession]  BY DEF TypedInv, JobsTypeOK
<1>1. CASE SinkAccepts(k) /\ Open(delivery[k].via) /\ Fresh(k)
  <2> DEFINE new == [delivery[k] EXCEPT !.at = "yield"]
  <2>1. delivery[k] \in AtSession  BY <1>0, <1>1 DEF SinkAccepts
  <2>2. new.at = "yield" /\ new.via = delivery[k].via /\ new.epoch = delivery[k].epoch
    BY <2>1
  <2>3. delivery' = [delivery EXCEPT ![k] = new]  BY <1>0, <1>1 DEF SinkAccepts
  <2> HIDE DEF new
  <2>4. delivery'[k] = new /\ \A m \in Jobs \ {k} : delivery'[m] = delivery[m]
    BY <1>0, <2>3
  <2>5. gone' = gone  BY <1>1 DEF SinkAccepts, Expired
  <2>6. UNCHANGED <<job, row, suppressed, watched, session>> /\ delivery[k].at = "sink"
    BY <1>1 DEF SinkAccepts
  <2> QED  BY <1>1, <2>2, <2>4, <2>5, <2>6 DEF DeliveryStays, IsAccepted
<1>2. CASE SinkAccepts(k) /\ ~(Open(delivery[k].via) /\ Fresh(k))
  <2>1. delivery'[k].at = "none" /\ \A m \in Jobs \ {k} : delivery'[m] = delivery[m]
    BY <1>0, <1>2 DEF SinkAccepts, NoDelivery
  <2> QED  BY <1>2, <2>1 DEF DeliveryStays, IsOver
<1>3. CASE SinkFails(k) /\ Muted(job[k].id)
  <2>1. delivery'[k].at = "none" /\ \A m \in Jobs \ {k} : delivery'[m] = delivery[m]
    BY <1>0, <1>3 DEF SinkFails, NoDelivery
  <2> QED  BY <1>3, <2>1 DEF DeliveryStays, IsOver
<1>4. CASE SinkFails(k) /\ ~Muted(job[k].id)
  <2> DEFINE new == [NoDelivery EXCEPT !.at = "queued", !.to = delivery[k].to]
  <2>1. new.at = "queued" /\ new.to = delivery[k].to  BY DEF NoDelivery
  <2>2. delivery' = [delivery EXCEPT ![k] = new]  BY <1>0, <1>4 DEF SinkFails
  <2> HIDE DEF new
  <2>3. delivery'[k] = new /\ \A m \in Jobs \ {k} : delivery'[m] = delivery[m]
    BY <1>0, <2>2
  <2> QED  BY <1>4, <2>1, <2>3 DEF DeliveryStays, IsRetried
<1> QED  BY <1>1, <1>2, <1>3, <1>4

\* Queued deliveries that are muted now.
LEMMA WithoutQueuedMoves ==
  ASSUME NEW ids, ids \subseteq suppressed' \cup watched', gone' = gone,
         delivery' = WithoutQueued(ids), NEW j \in Jobs
  PROVE  DeliveryStays(j) \/ IsOver(j)
<1>1. CASE delivery[j].at = "queued" /\ job[j].id \in ids
  <2>1. delivery'[j].at = "none"  BY <1>1 DEF WithoutQueued, NoDelivery
  <2> QED  BY <1>1, <2>1 DEF IsOver
<1>2. CASE ~(delivery[j].at = "queued" /\ job[j].id \in ids)
  BY <1>2 DEF WithoutQueued, DeliveryStays
<1> QED  BY <1>1, <1>2

LEMMA DeliveryMoves ==
  ASSUME TypedInv, FilingInv, [Next]_vars, NEW j \in Jobs
  PROVE  Moves(j)
<1> USE DEF rowVars, mutingVars, deliveryVars, sessionVars, historyVars, Moves
<1>0. delivery \in [Jobs -> AtManager \cup AtSession]  BY DEF TypedInv, JobsTypeOK
<1>a. CASE delivery' = delivery  BY <1>a DEF DeliveryStays
<1>1. ASSUME NEW x \in Sessions, NEW k \in Jobs, NEW i \in Ids, Register(x, k, i) PROVE Moves(j)
  <2>1. CASE delivery' = WithoutQueued(suppressed' \cup watched)
    <3>1. watched' = watched /\ gone' = gone  BY <1>1 DEF Register
    <3>2. CASE delivery[j].at = "queued" /\ job[j].id \in suppressed' \cup watched
      <4> QED  BY <2>1, <3>1, <3>2 DEF WithoutQueued, NoDelivery, IsOver
    <3>3. CASE ~(delivery[j].at = "queued" /\ job[j].id \in suppressed' \cup watched)
      BY <2>1, <3>3 DEF WithoutQueued, DeliveryStays
    <3> QED  BY <3>2, <3>3
  <2> QED  BY <1>1, <1>a, <2>1 DEF Register
<1>2. ASSUME NEW k \in Jobs, Settles(k) PROVE Moves(j)
  <2>1. CASE job[k].st = "stopping"
    BY <1>2, <1>a, <2>1 DEF Settles, Running
  <2>2. CASE job[k].st # "stopping"
    <3>1. Running(k) /\ delivery' = Enqueued(k, suppressed \cup watched)
          /\ UNCHANGED <<row, session>>
      BY <1>2, <2>2 DEF Settles
    <3>2. Filed(k)
      BY <3>1 DEF FilingInv, ClosedIsQuiet, UnsettledIsFiled, Unsettled, Running, Filed
    <3>3. CASE delivery'[j] = delivery[j]  BY <3>3 DEF DeliveryStays
    <3>4. CASE delivery'[j] # delivery[j]
      BY <1>2, <3>1, <3>2, <3>4, EnqueuedFacts DEF IsEnqueued, Muted
    <3> QED  BY <3>3, <3>4
  <2> QED  BY <2>1, <2>2
<1>3. ASSUME NEW k \in Jobs, ForegroundBackgrounds(k) PROVE Moves(j)
  <2> DEFINE i == job[k].id
  <2>1. delivery' = Resumed(i) /\ UNCHANGED <<row, session>> /\ i \in Ids
    BY <1>3 DEF ForegroundBackgrounds, TypedInv, BornIsNamed
  <2>2. CASE delivery' # delivery /\ delivery'[j] # delivery[j]
    <3>1. row[i] # None /\ delivery' = Enqueued(row[i], watched) /\ job[row[i]].st = "finished"
      BY <2>1, <2>2 DEF Resumed
    <3>2. row[i] \in Jobs /\ Filed(row[i]) /\ job[row[i]].id = i
      BY <2>1, <3>1 DEF TypedInv, JobsTypeOK, RowsAreNamed, Born, Filed
    <3>3. /\ j = row[i] /\ job[j].id \notin watched
          /\ delivery'[j].at = "queued" /\ delivery'[j].to = Owner(j)
      BY <2>2, <3>1, <3>2, EnqueuedFacts
    <3> QED  BY <1>3, <2>1, <3>1, <3>2, <3>3 DEF IsEnqueued
  <2> QED  BY <1>a, <2>2 DEF DeliveryStays
<1>4. ASSUME NEW k \in Jobs, LoopDelivers(k) \/ DrainDelivers(k) PROVE Moves(j)
  BY <1>4, HandsOverMoves DEF LoopDelivers, DrainDelivers
<1>5. ASSUME NEW k \in Jobs, LoopDrops(k) PROVE Moves(j)
  <2>1. CASE j = k
    BY <1>0, <1>5, <2>1 DEF LoopDrops, NoDelivery, Muted, IsOver
  <2>2. CASE j # k  BY <1>0, <1>5, <2>2 DEF LoopDrops, DeliveryStays
  <2> QED  BY <2>1, <2>2
<1>6. ASSUME NEW x \in Sessions, Injects(x) \/ BeginDispose(x) PROVE Moves(j)
  <2>1. CASE j \in Entries(x, "yield")
    <3>1. delivery'[j].at = "none"  BY <1>6, <2>1 DEF Injects, BeginDispose, NoDelivery
    <3> QED  BY <1>6, <2>1, <3>1 DEF IsOver
  <2>2. CASE j \notin Entries(x, "yield")
    BY <1>6, <2>2 DEF Injects, BeginDispose, DeliveryStays
  <2> QED  BY <2>1, <2>2
<1>7. ASSUME NEW x \in Sessions, HubWaitReports(x) \/ HubJobs(x) PROVE Moves(j)
  <2>1. watched' = watched /\ row' = row /\ gone' = gone /\ \E S : Reports(S)
    BY <1>7 DEF HubWaitReports, HubJobs
  <2>2. CASE delivery' = WithoutQueued(suppressed' \cup watched)
    BY <2>1, <2>2, WithoutQueuedMoves
  <2> QED  BY <1>a, <2>1, <2>2 DEF Reports
<1>8. ASSUME NEW x \in Sessions, NEW k \in Jobs, HubCancels(x, k) PROVE Moves(j)
  BY <1>8, WithoutQueuedMoves DEF HubCancels
<1>9. ASSUME NEW x \in Sessions, NewTranscript(x) \/ DisposeJobs(x) PROVE Moves(j)
  <2>1. CancelsOwnJobs(x) /\ mgr' = mgr  BY <1>9 DEF NewTranscript, DisposeJobs
  <2> DEFINE over == IdsOf(CompletedRows(OwnerOf[x]))
             muted == IF over = {} THEN {} ELSE over \cup suppressed \cup watched
  <2>2. delivery' = [k \in Jobs |-> IF k \in Entries(x, "yield") THEN NoDelivery
                                    ELSE WithoutQueued(muted)[k]]
    BY <2>1 DEF CancelsOwnJobs
  <2>3. CASE j \in Entries(x, "yield")
    <3>1. delivery'[j].at = "none"  BY <2>2, <2>3 DEF NoDelivery
    <3> QED  BY <2>1, <2>3, <3>1 DEF IsOver
  <2>4. CASE j \notin Entries(x, "yield") /\ delivery[j].at = "queued" /\ job[j].id \in muted
    <3>1. delivery'[j].at = "none"  BY <2>2, <2>4 DEF WithoutQueued, NoDelivery
    <3> QED  BY <2>1, <2>4, <3>1 DEF IsOver
  <2>5. CASE j \notin Entries(x, "yield") /\ ~(delivery[j].at = "queued" /\ job[j].id \in muted)
    BY <2>2, <2>5 DEF WithoutQueued, DeliveryStays
  <2> QED  BY <2>3, <2>4, <2>5
<1>10. CASE ManagerCloses
  <2>1. delivery' = WithoutQueued(Ids)  BY <1>10 DEF ManagerCloses
  <2>2. CASE delivery[j].at = "queued"
    <3>1. delivery'[j].at = "none" \/ delivery'[j] = delivery[j]
      BY <2>1 DEF WithoutQueued, NoDelivery
    <3> QED  BY <1>10, <2>2, <3>1 DEF IsOver, DeliveryStays
  <2>3. CASE delivery[j].at # "queued"
    BY <2>1, <2>3 DEF WithoutQueued, DeliveryStays
  <2> QED  BY <2>2, <2>3
<1>11. ASSUME NEW k \in Jobs, MarkRunning(k) \/ ForegroundReturns(k) \/ ForegroundAborts(k)
       PROVE  Moves(j)
  BY <1>11, <1>a DEF MarkRunning, ForegroundReturns, ForegroundAborts
<1>12. ASSUME NEW x \in Sessions,
              \/ HubWaitStarts(x) \/ HubWaitEnds(x) \/ HubWaitGetsMessage(x)
              \/ Opens(x) \/ SwitchSession(x)
       PROVE  Moves(j)
  BY <1>12, <1>a DEF HubWaitStarts, HubWaitEnds, HubWaitGetsMessage, Opens, SwitchSession
<1>13. CASE DisposeManager \/ UNCHANGED vars \/ \E i \in Ids : EvictionFires(i)
  BY <1>13, <1>a DEF DisposeManager, vars, EvictionFires
<1>14. ASSUME NEW k \in Jobs, SinkAccepts(k) \/ SinkFails(k) PROVE Moves(j)
  BY <1>14, SinkMoves
<1> QED
  BY <1>1, <1>2, <1>3, <1>4, <1>5, <1>6, <1>7, <1>8, <1>9, <1>10, <1>11, <1>12, <1>13, <1>14
     DEF Next

\* A session's transcript and delivery epoch move together, but for a switch of the
\* session file; an open session ends with its disposal.
LEMMA SessionMoves ==
  ASSUME TypedInv, [Next]_vars, NEW x \in Sessions
  PROVE  /\ \/ /\ session'[x].transcript = session[x].transcript
               /\ session'[x].epoch >= session[x].epoch
            \/ NewTranscript(x) /\ session'[x].epoch > session[x].epoch
            \/ SwitchSession(x)
         /\ Open(x) => Open(x)' \/ BeginDispose(x)
<1> DEFINE Goal == /\ \/ /\ session'[x].transcript = session[x].transcript
                         /\ session'[x].epoch >= session[x].epoch
                      \/ NewTranscript(x) /\ session'[x].epoch > session[x].epoch
                      \/ SwitchSession(x)
                   /\ Open(x) => Open(x)' \/ BeginDispose(x)
<1> USE DEF sessionVars
<1>0. /\ session \in [Sessions -> [phase : {"unborn", "open", "closing", "closed"},
                                   epoch : Nat, transcript : Nat]]
      /\ session[x].epoch \in Nat
  BY DEF TypedInv, JobsTypeOK
<1>a. CASE session' = session  BY <1>0, <1>a DEF Open
<1>1. ASSUME NEW y \in Sessions, Opens(y) PROVE Goal
  <2>1. session' = [session EXCEPT ![y].phase = "open"]  BY <1>1 DEF Opens
  <2> QED  BY <1>0, <2>1 DEF Open
<1>2. ASSUME NEW y \in Sessions, NewTranscript(y) PROVE Goal
  <2>1. session' = [session EXCEPT ![y].transcript = @ + 1, ![y].epoch = @ + 1]
    BY <1>2 DEF NewTranscript, NextEpoch
  <2>2. CASE x = y
    <3>1. session'[x].epoch = session[x].epoch + 1 /\ session'[x].phase = session[x].phase
      BY <1>0, <2>1, <2>2
    <3> QED  BY <1>0, <1>2, <2>2, <3>1 DEF Open
  <2>3. CASE x # y
    <3>1. session'[x] = session[x]  BY <1>0, <2>1, <2>3
    <3> QED  BY <1>0, <3>1 DEF Open
  <2> QED  BY <2>2, <2>3
<1>3. ASSUME NEW y \in Sessions, SwitchSession(y) PROVE Goal
  <2>1. session' = [session EXCEPT ![y].transcript = @ + 1]  BY <1>3 DEF SwitchSession
  <2>2. session'[x].phase = session[x].phase /\ (x # y => session'[x] = session[x])
    BY <1>0, <2>1
  <2> QED  BY <1>0, <1>3, <2>2 DEF Open
<1>4. ASSUME NEW y \in Sessions, BeginDispose(y) PROVE Goal
  <2>1. session' = [session EXCEPT ![y].phase = "closing"]  BY <1>4 DEF BeginDispose
  <2>2. /\ session'[x].transcript = session[x].transcript
        /\ session'[x].epoch = session[x].epoch
        /\ x # y => session'[x] = session[x]
    BY <1>0, <2>1
  <2> QED  BY <1>0, <1>4, <2>2 DEF Open
<1>5. ASSUME NEW y \in Sessions, DisposeJobs(y) PROVE Goal
  <2>1. /\ session' = [session EXCEPT ![y].phase = "closed", ![y].epoch = @ + 1]
        /\ session[y].phase = "closing"
    BY <1>5 DEF DisposeJobs
  <2>2. CASE x = y
    <3>1. /\ session'[x].transcript = session[x].transcript
          /\ session'[x].epoch = session[x].epoch + 1
      BY <1>0, <2>1, <2>2
    <3> QED  BY <1>0, <2>1, <2>2, <3>1 DEF Open
  <2>3. CASE x # y
    <3>1. session'[x] = session[x]  BY <1>0, <2>1, <2>3
    <3> QED  BY <1>0, <3>1 DEF Open
  <2> QED  BY <2>2, <2>3
<1>6. ASSUME NEW j \in Jobs,
             \/ MarkRunning(j) \/ Settles(j)
             \/ ForegroundReturns(j) \/ ForegroundAborts(j) \/ ForegroundBackgrounds(j)
             \/ LoopDelivers(j) \/ DrainDelivers(j) \/ LoopDrops(j)
             \/ SinkAccepts(j) \/ SinkFails(j)
      PROVE  Goal
  BY <1>a, <1>6 DEF MarkRunning, Settles, ForegroundReturns, ForegroundAborts,
     ForegroundBackgrounds, LoopDelivers, DrainDelivers, LoopDrops, SinkAccepts, SinkFails
<1>7. ASSUME NEW y \in Sessions,
             \/ HubWaitStarts(y) \/ HubWaitEnds(y) \/ HubWaitReports(y)
             \/ HubWaitGetsMessage(y) \/ HubJobs(y) \/ Injects(y)
             \/ \E j \in Jobs : HubCancels(y, j)
      PROVE  Goal
  BY <1>a, <1>7 DEF HubWaitStarts, HubWaitEnds, HubWaitReports, HubWaitGetsMessage,
     HubJobs, Injects, HubCancels
<1>8. CASE DisposeManager \/ ManagerCloses \/ UNCHANGED vars \/ \E i \in Ids : EvictionFires(i)
  BY <1>a, <1>8 DEF DisposeManager, ManagerCloses, EvictionFires, vars
<1>9. ASSUME NEW y \in Sessions, NEW j \in Jobs, NEW i \in Ids, Register(y, j, i) PROVE Goal
  BY <1>a, <1>9 DEF Register
<1>10. CASE \E j \in Jobs :
              \/ MarkRunning(j) \/ Settles(j)
              \/ ForegroundReturns(j) \/ ForegroundAborts(j) \/ ForegroundBackgrounds(j)
              \/ LoopDelivers(j) \/ DrainDelivers(j) \/ LoopDrops(j)
              \/ SinkAccepts(j) \/ SinkFails(j)
  BY <1>6, <1>10
<1>11. CASE \E y \in Sessions :
              \/ HubWaitStarts(y) \/ HubWaitEnds(y) \/ HubWaitReports(y)
              \/ HubWaitGetsMessage(y) \/ HubJobs(y) \/ Injects(y)
              \/ \E j \in Jobs : HubCancels(y, j)
  BY <1>7, <1>11
<1>12. CASE \E y \in Sessions :
              \/ Opens(y) \/ NewTranscript(y) \/ SwitchSession(y)
              \/ BeginDispose(y) \/ DisposeJobs(y)
  BY <1>1, <1>2, <1>3, <1>4, <1>5, <1>12
<1>13. Goal  BY <1>8, <1>9, <1>10, <1>11, <1>12 DEF Next
<1> QED  BY <1>13

-----------------------------------------------------------------------------
(* A result stays with the transcript its job was started from             *)

\* What has a delivery is over; what is queued has its row.
DeliveredIsOver == \A j \in Jobs : delivery[j].at # "none" => job[j].st = "finished"

QueuedIsFiled == \A j \in Jobs : delivery[j].at = "queued" => Filed(j)

\* A job that runs, or whose row a boundary would still find, was started from the
\* transcript its session has now.
FiledIsCurrent ==
    \A j \in Jobs : Running(j) \/ (job[j].st = "finished" /\ Filed(j)) =>
        job[j].born = session[job[j].by].transcript

\* In a sink or on a yield queue, the epoch a delivery began in says whether the
\* transcript is the one its job was started from.
EpochTells ==
    \A j \in Jobs : Sent(j) =>
        /\ delivery[j].epoch <= session[delivery[j].via].epoch
        /\ delivery[j].epoch = session[delivery[j].via].epoch /\ delivery[j].via = job[j].by
              => job[j].born = session[job[j].by].transcript

CrossInv == DeliveredIsOver /\ QueuedIsFiled /\ FiledIsCurrent /\ EpochTells

LEMMA CrossInit == Init => CrossInv
  BY DEF Init, NoJob, NoDelivery, Running, Sent, CrossInv, DeliveredIsOver, QueuedIsFiled,
         FiledIsCurrent, EpochTells

LEMMA DeliveredNext ==
  ASSUME TypedInv, FilingInv, DeliveredIsOver, [Next]_vars
  PROVE  DeliveredIsOver'
<1> SUFFICES ASSUME NEW j \in Jobs, delivery'[j].at # "none" PROVE job'[j].st = "finished"
  BY DEF DeliveredIsOver
<1>1. ASSUME job[j].st = "finished" PROVE job'[j].st = "finished"
  <2>1. GoesOn(j)  BY <1>1, JobMoves DEF IsRegistered, Register
  <2> QED  BY <1>1, <2>1 DEF GoesOn, Running
<1>2. CASE delivery[j].at # "none"  BY <1>1, <1>2 DEF DeliveredIsOver
<1>3. CASE delivery[j].at = "none"
  <2>1. IsEnqueued(j)
    BY <1>3, DeliveryMoves DEF Moves, DeliveryStays, IsHandedOver, IsAccepted, IsRetried,
       SinkFails, IsOver
  <2>2. CASE job[j].st = "finished"  BY <1>1, <2>2
  <2>3. CASE Settles(j) /\ Running(j)
    <3>1. job' = [job EXCEPT ![j].st = "finished"]  BY <2>3 DEF Settles, Running
    <3> QED  BY <3>1, StatusFacts DEF TypedInv, JobsTypeOK
  <2> QED  BY <2>1, <2>2, <2>3 DEF IsEnqueued
<1> QED  BY <1>2, <1>3

\* The row of a queued result is not taken away: retention outlasts the delivery, and
\* a boundary that evicts the row discards the delivery with it.
LEMMA QueuedKeepsRow ==
  ASSUME TypedInv, FilingInv, [Next]_vars, NEW j \in Jobs, Filed(j),
         delivery[j].at = "queued", delivery'[j].at = "queued"
  PROVE  Filed(j)'
<1> DEFINE i == job[j].id
<1>1. i \in Ids /\ Born(j) /\ row[i] = j  BY DEF Filed, Born, TypedInv, BornIsNamed
<1>2. ~EvictionFires(i)  BY DEF EvictionFires, UnderWay
<1>3. ~ManagerCloses  BY <1>1 DEF ManagerCloses, WithoutQueued, NoDelivery
<1>4. ASSUME NEW x \in Sessions, CancelsOwnJobs(x), i \in IdsOf(CompletedRows(OwnerOf[x]))
      PROVE  FALSE
  <2>1. delivery'[j].at = "none"  BY <1>4 DEF CancelsOwnJobs, WithoutQueued, NoDelivery
  <2> QED  BY <2>1
<1>5. ~\E x \in Sessions, k \in Jobs : Register(x, k, i)
  BY <1>1, JobsAssumption DEF Register
<1>6. row'[i] = j  BY <1>1, <1>2, <1>3, <1>4, <1>5, RowMoves DEF Empties
<1>7. GoesOn(j)  BY <1>1, JobMoves DEF IsRegistered, Register, Born
<1> QED  BY <1>1, <1>6, <1>7 DEF GoesOn, Filed, Born

LEMMA QueuedNext ==
  ASSUME "fails" \notin Happenings, TypedInv, FilingInv, QueuedIsFiled, [Next]_vars
  PROVE  QueuedIsFiled'
<1> SUFFICES ASSUME NEW j \in Jobs, delivery'[j].at = "queued" PROVE Filed(j)'
  BY DEF QueuedIsFiled
<1>1. CASE delivery[j].at = "queued"
  BY <1>1, QueuedKeepsRow DEF QueuedIsFiled
<1>2. CASE delivery[j].at # "queued"
  <2>1. IsEnqueued(j)
    BY <1>2, DeliveryMoves DEF Moves, DeliveryStays, IsHandedOver, IsAccepted, IsRetried,
       SinkFails, IsOver
  <2>2. Filed(j) /\ row' = row  BY <2>1 DEF IsEnqueued
  <2>3. GoesOn(j)  BY <2>2, JobMoves DEF IsRegistered, Register, Filed
  <2> QED  BY <2>2, <2>3 DEF GoesOn, Filed
<1> QED  BY <1>1, <1>2

LEMMA CurrentNext ==
  ASSUME "switch" \notin Happenings, TypedInv, FilingInv, FiledIsCurrent, [Next]_vars
  PROVE  FiledIsCurrent'
<1> SUFFICES ASSUME NEW j \in Jobs,
                    Running(j)' \/ (job'[j].st = "finished" /\ Filed(j)')
             PROVE  job'[j].born = session'[job'[j].by].transcript
  BY DEF FiledIsCurrent
<1>1. CASE IsRegistered(j)
  <2>1. PICK x \in Sessions, i \in Ids :
           Register(x, j, i) /\ job'[j].by = x /\ job'[j].born = session[x].transcript
    BY <1>1 DEF IsRegistered
  <2>2. session' = session  BY <2>1 DEF Register, sessionVars
  <2> QED  BY <2>1, <2>2
<1>2. CASE GoesOn(j) /\ ~IsRegistered(j)
  <2>1. /\ job'[j].id = job[j].id /\ job'[j].by = job[j].by /\ job'[j].born = job[j].born
        /\ Born(j) /\ job[j].id \in Ids /\ job[j].by \in Sessions
    BY <1>2 DEF GoesOn, Born, Running, TypedInv, BornIsNamed
  <2> DEFINE x == job[j].by
             i == job[j].id
  <2>2. Running(j) \/ (job[j].st = "finished" /\ Filed(j))
    <3>1. CASE Running(j)'  BY <1>2, <3>1 DEF GoesOn, Running
    <3>2. CASE job'[j].st = "finished" /\ Filed(j)'
      <4>1. row'[i] = j  BY <2>1, <3>2 DEF Filed
      <4>2. ~\E y \in Sessions, k \in Jobs : Register(y, k, i) /\ row'[i] = k
        BY <2>1, <4>1 DEF Register, Born
      <4>3. row[i] = j  BY <2>1, <4>1, <4>2, RowMoves, JobsAssumption
      <4> QED  BY <1>2, <2>1, <3>2, <4>3 DEF GoesOn, Filed, Born, Running
    <3> QED  BY <3>1, <3>2
  <2>3. job[j].born = session[x].transcript  BY <2>2 DEF FiledIsCurrent
  <2>4. CASE NewTranscript(x)
    <3>1. CancelsOwnJobs(x)  BY <2>4 DEF NewTranscript
    <3>2. CASE Running(j)
      <4>1. j \in RowsOf(OwnerOf[x])
        BY <2>1, <3>2 DEF FilingInv, UnsettledIsFiled, ClosedIsQuiet, Unsettled, Running,
           RowsOf, Filed, Owner
      <4>2. job'[j].st = "stopping"  BY <2>1, <3>1, <3>2, <4>1, CancelFacts
      <4> QED  BY <4>2 DEF Running
    <3>3. CASE job[j].st = "finished" /\ Filed(j)
      <4>1. i \in IdsOf(CompletedRows(OwnerOf[x]))
        BY <2>1, <3>3 DEF IdsOf, CompletedRows, RowsOf, Owner
      <4>2. row'[i] = None  BY <2>1, <3>1, <4>1, CancelFacts
      <4>3. ~Filed(j)'  BY <2>1, <4>2, JobsAssumption DEF Filed
      <4>4. job'[j].st = "finished"  BY <3>3, <1>2 DEF GoesOn, Running
      <4> QED  BY <4>3, <4>4 DEF Running
    <3> QED  BY <2>2, <3>2, <3>3
  <2>5. CASE ~NewTranscript(x)
    <3>1. session'[x].transcript = session[x].transcript
      BY <2>1, <2>5, SessionMoves DEF SwitchSession
    <3> QED  BY <2>1, <2>3, <3>1
  <2> QED  BY <2>4, <2>5
<1> QED  BY <1>1, <1>2, JobMoves

LEMMA EpochNext ==
  ASSUME "switch" \notin Happenings, TypedInv, FilingInv, CrossInv, [Next]_vars
  PROVE  EpochTells'
<1> SUFFICES ASSUME NEW j \in Jobs, Sent(j)'
             PROVE  /\ delivery'[j].epoch <= session'[delivery'[j].via].epoch
                    /\ delivery'[j].epoch = session'[delivery'[j].via].epoch
                         /\ delivery'[j].via = job'[j].by
                       => job'[j].born = session'[job'[j].by].transcript
  BY DEF EpochTells
<1> DEFINE x == delivery'[j].via
<1>0. /\ x \in Sessions /\ session[x].epoch \in Nat /\ session'[x].epoch \in Nat
      /\ delivery'[j].epoch \in Nat
  BY TypedNext DEF TypedInv, JobsTypeOK, Sent
<1>1. CASE Sent(j) /\ delivery'[j].via = delivery[j].via /\ delivery'[j].epoch = delivery[j].epoch
  <2>1. /\ delivery[j].epoch <= session[x].epoch
        /\ delivery[j].epoch = session[x].epoch /\ x = job[j].by
              => job[j].born = session[job[j].by].transcript
    BY <1>1 DEF CrossInv, EpochTells
  <2>2. job[j].st = "finished"  BY <1>1 DEF CrossInv, DeliveredIsOver, Sent
  <2>3. GoesOn(j)  BY <2>2, JobMoves DEF IsRegistered, Register
  <2>4. \/ session'[x].transcript = session[x].transcript /\ session'[x].epoch >= session[x].epoch
        \/ session'[x].epoch > session[x].epoch
    BY <1>0, SessionMoves DEF SwitchSession
  <2>5. job'[j].by = job[j].by /\ job'[j].born = job[j].born  BY <2>3 DEF GoesOn
  <2>6. CASE session'[x].epoch > session[x].epoch
    BY <1>0, <1>1, <2>1, <2>6
  <2>7. CASE session'[x].transcript = session[x].transcript /\ session'[x].epoch >= session[x].epoch
    BY <1>0, <1>1, <2>1, <2>5, <2>7
  <2> QED  BY <2>4, <2>6, <2>7
<1>2. CASE IsHandedOver(j)
  <2>1. /\ delivery[j].at = "queued" /\ session' = session /\ job' = job
        /\ delivery'[j].epoch = session[x].epoch
    BY <1>2 DEF IsHandedOver
  <2>2. job[j].st = "finished" /\ Filed(j)
    BY <2>1 DEF CrossInv, DeliveredIsOver, QueuedIsFiled
  <2>3. job[j].born = session[job[j].by].transcript
    BY <2>2 DEF CrossInv, FiledIsCurrent
  <2> QED  BY <1>0, <2>1, <2>3
<1> QED
  BY <1>1, <1>2, DeliveryMoves DEF Moves, DeliveryStays, IsEnqueued, IsAccepted, IsRetried,
     IsOver, Sent

LEMMA CrossNext ==
  ASSUME "fails" \notin Happenings, "switch" \notin Happenings,
         TypedInv, FilingInv, CrossInv, [Next]_vars
  PROVE  CrossInv'
  BY DeliveredNext, QueuedNext, CurrentNext, EpochNext DEF CrossInv

(***************************************************************************)
(* A result enters no later transcript of the session that started its     *)
(* job, in whatever order a boundary, the formatting and the drain happen. *)
(* Not covered: a switch of the session file, which starts no new delivery *)
(* epoch, and a sink that throws, whose retry outlives the row.            *)
(***************************************************************************)
THEOREM ResultsKeepTheirTranscript ==
  ASSUME "stuck" \notin Happenings, "fails" \notin Happenings, "switch" \notin Happenings
  PROVE  Spec => NoCrossTranscript
<1> DEFINE Inv == TypedInv /\ FilingInv /\ CrossInv
           Kept == \A j \in Jobs, x \in Sessions : InjectedInto(j, x) =>
                      (job[j].by = x => job[j].born = session[x].transcript)
<1>1. Init => Inv  BY TypedInit, FilingInit, CrossInit
<1>2. Inv /\ [Next]_vars => Inv'  BY TypedNext, FilingNext, CrossNext
<1>3. ASSUME Inv, [Next]_vars, NEW j \in Jobs, NEW x \in Sessions, InjectedInto(j, x), job[j].by = x
      PROVE  job[j].born = session[x].transcript
  <2>1. PICK y \in Sessions : j \in Entries(y, "yield") /\ Fresh(j)
    BY <1>3, InjectsFresh DEF InjectedInto
  <2>2. /\ Sent(j) /\ delivery[j].via = x
        /\ delivery[j].epoch = session[delivery[j].via].epoch
    BY <1>3, <2>1 DEF Entries, Fresh, Sent, InjectedInto
  <2> QED  BY <1>3, <2>2 DEF CrossInv, EpochTells
<1>4. Inv /\ [Next]_vars => [Kept]_vars  BY <1>3
<1> QED  BY <1>1, <1>2, <1>4, PTL DEF Spec, NoCrossTranscript

-----------------------------------------------------------------------------
(* How calls, hub waits and the histories move                             *)

\* What was shown, injected or given up stays so.
LEMMA HistoryGrows ==
  ASSUME [Next]_vars
  PROVE  told \subseteq told' /\ injected \subseteq injected' /\ gone \subseteq gone'
<1> USE DEF historyVars
<1>1. ASSUME NEW j \in Jobs,
             \/ MarkRunning(j) \/ Settles(j)
             \/ ForegroundReturns(j) \/ ForegroundAborts(j) \/ ForegroundBackgrounds(j)
             \/ LoopDelivers(j) \/ DrainDelivers(j) \/ LoopDrops(j)
             \/ SinkAccepts(j) \/ SinkFails(j)
      PROVE  told \subseteq told' /\ injected \subseteq injected' /\ gone \subseteq gone'
  BY <1>1 DEF MarkRunning, Settles, ForegroundReturns, ForegroundAborts,
     ForegroundBackgrounds, LoopDelivers, DrainDelivers, HandsOver, LoopDrops, SinkAccepts,
     SinkFails
<1>2. ASSUME NEW x \in Sessions,
             \/ HubWaitStarts(x) \/ HubWaitEnds(x) \/ HubWaitReports(x)
             \/ HubWaitGetsMessage(x) \/ HubJobs(x) \/ Injects(x)
             \/ \E j \in Jobs : HubCancels(x, j)
      PROVE  told \subseteq told' /\ injected \subseteq injected' /\ gone \subseteq gone'
  BY <1>2 DEF HubWaitStarts, HubWaitEnds, HubWaitReports, HubWaitGetsMessage, HubJobs,
     Reports, Injects, HubCancels
<1>3. ASSUME NEW x \in Sessions,
             \/ Opens(x) \/ NewTranscript(x) \/ SwitchSession(x)
             \/ BeginDispose(x) \/ DisposeJobs(x)
      PROVE  told \subseteq told' /\ injected \subseteq injected' /\ gone \subseteq gone'
  BY <1>3 DEF Opens, NewTranscript, SwitchSession, BeginDispose, DisposeJobs, CancelsOwnJobs
<1>4. ASSUME NEW x \in Sessions, NEW j \in Jobs, NEW i \in Ids, Register(x, j, i)
      PROVE  told \subseteq told' /\ injected \subseteq injected' /\ gone \subseteq gone'
  BY <1>4 DEF Register
<1>5. CASE DisposeManager \/ ManagerCloses \/ UNCHANGED vars \/ \E i \in Ids : EvictionFires(i)
  BY <1>5 DEF DisposeManager, ManagerCloses, EvictionFires, vars
<1> QED  BY <1>1, <1>2, <1>3, <1>4, <1>5 DEF Next

\* A foreground call ends in one of three ways.
LEMMA FrontMoves ==
  ASSUME TypedInv, [Next]_vars, NEW j \in Jobs, job[j].front, ~job'[j].front
  PROVE  ForegroundReturns(j) \/ ForegroundAborts(j) \/ ForegroundBackgrounds(j)
<1> DEFINE Goal == ForegroundReturns(j) \/ ForegroundAborts(j) \/ ForegroundBackgrounds(j)
<1> USE DEF rowVars
<1>0. job \in [Jobs -> JobRecord]  BY DEF TypedInv, JobsTypeOK
<1>a. job' # job  OBVIOUS
<1>b. ASSUME NEW S, job' = Stopped(S) PROVE FALSE  BY <1>0, <1>b, StoppedFacts
<1>1. ASSUME NEW k \in Jobs, MarkRunning(k) \/ Settles(k) PROVE FALSE
  <2>1. \E st \in JobStatus : job' = [job EXCEPT ![k].st = st]
    BY <1>1 DEF MarkRunning, Settles
  <2> QED  BY <1>0, <2>1, StatusFacts
<1>2. ASSUME NEW k \in Jobs, ForegroundReturns(k) \/ ForegroundBackgrounds(k) PROVE Goal
  <2>1. job' = [job EXCEPT ![k].front = FALSE]
    BY <1>2 DEF ForegroundReturns, ForegroundBackgrounds
  <2>2. j = k  BY <1>0, <2>1, FrontFacts
  <2> QED  BY <1>2, <2>2
<1>3. ASSUME NEW k \in Jobs, ForegroundAborts(k) PROVE Goal
  <2> DEFINE stop == Stopped({row[job[k].id]} \ {None})
  <2>1. stop \in [Jobs -> JobRecord] /\ stop[j].front = job[j].front  BY <1>0, StoppedFacts
  <2>2. job' = [stop EXCEPT ![k].front = FALSE]  BY <1>3 DEF ForegroundAborts
  <2> HIDE DEF stop
  <2>3. j # k => job'[j] = stop[j]  BY <2>1, <2>2
  <2> QED  BY <1>3, <2>1, <2>3
<1>4. ASSUME NEW k \in Jobs,
             LoopDelivers(k) \/ DrainDelivers(k) \/ LoopDrops(k) \/ SinkAccepts(k) \/ SinkFails(k)
      PROVE  FALSE
  BY <1>4, <1>a DEF LoopDelivers, DrainDelivers, LoopDrops, SinkAccepts, SinkFails
<1>5. ASSUME NEW x \in Sessions,
             \/ HubWaitStarts(x) \/ HubWaitEnds(x) \/ HubWaitReports(x)
             \/ HubWaitGetsMessage(x) \/ HubJobs(x) \/ Injects(x)
             \/ Opens(x) \/ SwitchSession(x) \/ BeginDispose(x)
      PROVE  FALSE
  BY <1>5, <1>a DEF HubWaitStarts, HubWaitEnds, HubWaitReports, HubWaitGetsMessage, HubJobs,
     Injects, Opens, SwitchSession, BeginDispose
<1>6. ASSUME NEW x \in Sessions,
             NewTranscript(x) \/ DisposeJobs(x) \/ \E k \in Jobs : HubCancels(x, k)
      PROVE  FALSE
  BY <1>6, <1>b DEF NewTranscript, DisposeJobs, CancelsOwnJobs, HubCancels
<1>7. ASSUME NEW x \in Sessions, NEW k \in Jobs, NEW i \in Ids, Register(x, k, i) PROVE FALSE
  <2>1. k # j  BY <1>7 DEF Register, TypedInv, BornIsNamed, Born
  <2>2. job'[j] = job[j]  BY <1>0, <1>7, <2>1 DEF Register
  <2> QED  BY <2>2
<1>8. CASE DisposeManager  BY <1>8, <1>b DEF DisposeManager
<1>9. CASE ManagerCloses \/ UNCHANGED vars \/ \E i \in Ids : EvictionFires(i)
  BY <1>9, <1>a DEF ManagerCloses, EvictionFires, vars
<1> QED  BY <1>1, <1>2, <1>3, <1>4, <1>5, <1>6, <1>7, <1>8, <1>9 DEF Next

\* A hub wait begins, stops watching, and ends with its report.
LEMMA HubMoves ==
  ASSUME TypedInv, [Next]_vars, NEW x \in Sessions
  PROVE  \/ hubWait'[x] = hubWait[x]
         \/ HubWaitStarts(x)
         \/ HubWaitEnds(x) /\ hubWait'[x].jobs = hubWait[x].jobs
         \/ HubWaitReports(x)
         \/ HubWaitGetsMessage(x)
<1> DEFINE Goal == \/ hubWait'[x] = hubWait[x]
                   \/ HubWaitStarts(x)
                   \/ HubWaitEnds(x) /\ hubWait'[x].jobs = hubWait[x].jobs
                   \/ HubWaitReports(x)
                   \/ HubWaitGetsMessage(x)
<1> USE DEF sessionVars
<1>0. hubWait \in [Sessions -> [jobs : SUBSET Jobs, on : BOOLEAN]]  BY DEF TypedInv, JobsTypeOK
<1>1. ASSUME NEW y \in Sessions, HubWaitEnds(y) PROVE Goal
  <2>1. hubWait' = [hubWait EXCEPT ![y].on = FALSE]  BY <1>1 DEF HubWaitEnds
  <2>2. x # y => hubWait'[x] = hubWait[x]  BY <1>0, <2>1
  <2>3. hubWait'[x].jobs = hubWait[x].jobs  BY <1>0, <2>1
  <2> QED  BY <1>1, <2>2, <2>3
<1>2. ASSUME NEW y \in Sessions, HubWaitStarts(y) \/ HubWaitReports(y) \/ HubWaitGetsMessage(y)
      PROVE  Goal
  <2>1. x # y => hubWait'[x] = hubWait[x]
    BY <1>0, <1>2 DEF HubWaitStarts, HubWaitReports, HubWaitGetsMessage
  <2> QED  BY <1>2, <2>1
<1>3. ASSUME NEW j \in Jobs,
             \/ MarkRunning(j) \/ Settles(j)
             \/ ForegroundReturns(j) \/ ForegroundAborts(j) \/ ForegroundBackgrounds(j)
             \/ LoopDelivers(j) \/ DrainDelivers(j) \/ LoopDrops(j)
             \/ SinkAccepts(j) \/ SinkFails(j)
      PROVE  hubWait' = hubWait
  BY <1>3 DEF MarkRunning, Settles, ForegroundReturns, ForegroundAborts,
     ForegroundBackgrounds, LoopDelivers, DrainDelivers, LoopDrops, SinkAccepts, SinkFails
<1>4. ASSUME NEW y \in Sessions,
             \/ HubJobs(y) \/ Injects(y) \/ Opens(y) \/ NewTranscript(y) \/ SwitchSession(y)
             \/ BeginDispose(y) \/ DisposeJobs(y) \/ \E j \in Jobs : HubCancels(y, j)
      PROVE  hubWait' = hubWait
  BY <1>4 DEF HubJobs, Injects, Opens, NewTranscript, SwitchSession, BeginDispose, DisposeJobs,
     HubCancels
<1>5. ASSUME NEW y \in Sessions, NEW j \in Jobs, NEW i \in Ids, Register(y, j, i)
      PROVE  hubWait' = hubWait
  BY <1>5 DEF Register
<1>6. CASE DisposeManager \/ ManagerCloses \/ UNCHANGED vars \/ \E i \in Ids : EvictionFires(i)
  BY <1>6 DEF DisposeManager, ManagerCloses, EvictionFires, vars
<1> QED  BY <1>1, <1>2, <1>3, <1>4, <1>5, <1>6 DEF Next

\* The hub shows a set of jobs of the agent, or the ones it waited for.
Shows(x, S) ==
    /\ Reports(S)
    /\ \/ HubJobs(x) /\ S \subseteq RowsOf(OwnerOf[x])
       \/ HubWaitReports(x) /\ S = hubWait[x].jobs

\* What suppresses the delivery of an id ...
LEMMA SuppressedGains ==
  ASSUME [Next]_vars, NEW i, i \in suppressed', i \notin suppressed
  PROVE  \/ \E x \in Sessions, k \in Jobs : Register(x, k, i)
         \/ \E x \in Sessions, k \in Jobs : HubCancels(x, k) /\ job[k].id = i
         \/ \E x \in Sessions : \E S \in SUBSET (RowsOf(OwnerOf[x]) \cup hubWait[x].jobs) :
               Shows(x, S) /\ \E k \in S : ~Running(k) /\ job[k].id = i
<1> DEFINE Goal == \/ \E x \in Sessions, k \in Jobs : Register(x, k, i)
                   \/ \E x \in Sessions, k \in Jobs : HubCancels(x, k) /\ job[k].id = i
                   \/ \E x \in Sessions : \E S \in SUBSET (RowsOf(OwnerOf[x]) \cup hubWait[x].jobs) :
                         Shows(x, S) /\ \E k \in S : ~Running(k) /\ job[k].id = i
<1> USE DEF mutingVars
<1>1. ASSUME NEW x \in Sessions, NEW k \in Jobs, NEW n \in Ids, Register(x, k, n) PROVE Goal
  <2>1. suppressed' \in {suppressed \cup {n}, suppressed \ {n}}  BY <1>1 DEF Register
  <2>2. n = i  BY <2>1
  <2> QED  BY <1>1, <2>2
<1>2. ASSUME NEW x \in Sessions, NEW k \in Jobs, HubCancels(x, k) PROVE Goal
  BY <1>2 DEF HubCancels
<1>3. ASSUME NEW x \in Sessions, HubJobs(x) PROVE Goal
  <2>1. PICK S \in SUBSET RowsOf(OwnerOf[x]) : Reports(S)  BY <1>3 DEF HubJobs
  <2>2. \E k \in S : ~Running(k) /\ job[k].id = i  BY <2>1 DEF Reports, IdsOf
  <2> QED  BY <1>3, <2>1, <2>2 DEF Shows
<1>4. ASSUME NEW x \in Sessions, HubWaitReports(x) PROVE Goal
  <2>1. Reports(hubWait[x].jobs)  BY <1>4 DEF HubWaitReports
  <2>2. \E k \in hubWait[x].jobs : ~Running(k) /\ job[k].id = i  BY <2>1 DEF Reports, IdsOf
  <2> QED  BY <1>4, <2>1, <2>2 DEF Shows
<1>5. ASSUME NEW j \in Jobs,
             \/ MarkRunning(j) \/ Settles(j)
             \/ ForegroundReturns(j) \/ ForegroundAborts(j) \/ ForegroundBackgrounds(j)
             \/ LoopDelivers(j) \/ DrainDelivers(j) \/ LoopDrops(j)
             \/ SinkAccepts(j) \/ SinkFails(j)
      PROVE  suppressed' \subseteq suppressed
  BY <1>5 DEF MarkRunning, Settles, ForegroundReturns, ForegroundAborts,
     ForegroundBackgrounds, LoopDelivers, DrainDelivers, LoopDrops, SinkAccepts, SinkFails
<1>6. ASSUME NEW x \in Sessions,
             \/ HubWaitStarts(x) \/ HubWaitEnds(x) \/ HubWaitGetsMessage(x) \/ Injects(x)
             \/ Opens(x) \/ NewTranscript(x) \/ SwitchSession(x)
             \/ BeginDispose(x) \/ DisposeJobs(x)
      PROVE  suppressed' \subseteq suppressed
  BY <1>6 DEF HubWaitStarts, HubWaitEnds, HubWaitGetsMessage, Injects, Opens, NewTranscript,
     SwitchSession, BeginDispose, DisposeJobs, CancelsOwnJobs
<1>7. CASE DisposeManager \/ ManagerCloses \/ UNCHANGED vars \/ \E n \in Ids : EvictionFires(n)
  BY <1>7 DEF DisposeManager, ManagerCloses, EvictionFires, vars
<1>8. ~(suppressed' \subseteq suppressed)  OBVIOUS
<1> QED  BY <1>1, <1>2, <1>3, <1>4, <1>5, <1>6, <1>7, <1>8 DEF Next

\* ... and what watches it.
LEMMA WatchedGains ==
  ASSUME TypedInv, [Next]_vars, NEW i, i \in watched', i \notin watched
  PROVE  \E x \in Sessions, k \in Jobs :
            /\ HubWaitStarts(x) /\ Filed(k) /\ Running(k) /\ job[k].id = i
            /\ hubWait'[x].on /\ k \in hubWait'[x].jobs
<1> DEFINE Goal == \E x \in Sessions, k \in Jobs :
                      /\ HubWaitStarts(x) /\ Filed(k) /\ Running(k) /\ job[k].id = i
                      /\ hubWait'[x].on /\ k \in hubWait'[x].jobs
<1> USE DEF mutingVars
<1>1. ASSUME NEW x \in Sessions, HubWaitStarts(x) PROVE Goal
  <2>1. PICK S \in SUBSET RowsOf(OwnerOf[x]) :
           /\ hubWait' = [hubWait EXCEPT ![x] = [jobs |-> S, on |-> TRUE]]
           /\ watched' = watched \cup IdsOf({j \in S : Running(j)})
    BY <1>1 DEF HubWaitStarts
  <2>2. PICK k \in S : Running(k) /\ job[k].id = i  BY <2>1 DEF IdsOf
  <2>3. k \in Jobs /\ Filed(k)  BY <2>2 DEF RowsOf
  <2>4. hubWait'[x].on /\ hubWait'[x].jobs = S  BY <2>1 DEF TypedInv, JobsTypeOK
  <2> QED  BY <1>1, <2>2, <2>3, <2>4
<1>2. ASSUME NEW x \in Sessions, NEW k \in Jobs, NEW n \in Ids, Register(x, k, n)
      PROVE  watched' \subseteq watched
  BY <1>2 DEF Register
<1>3. ASSUME NEW j \in Jobs,
             \/ MarkRunning(j) \/ Settles(j)
             \/ ForegroundReturns(j) \/ ForegroundAborts(j) \/ ForegroundBackgrounds(j)
             \/ LoopDelivers(j) \/ DrainDelivers(j) \/ LoopDrops(j)
             \/ SinkAccepts(j) \/ SinkFails(j)
      PROVE  watched' \subseteq watched
  BY <1>3 DEF MarkRunning, Settles, ForegroundReturns, ForegroundAborts,
     ForegroundBackgrounds, LoopDelivers, DrainDelivers, LoopDrops, SinkAccepts, SinkFails
<1>4. ASSUME NEW x \in Sessions,
             \/ HubWaitEnds(x) \/ HubWaitReports(x) \/ HubWaitGetsMessage(x) \/ HubJobs(x)
             \/ Injects(x) \/ \E k \in Jobs : HubCancels(x, k)
      PROVE  watched' \subseteq watched
  BY <1>4 DEF HubWaitEnds, HubWaitReports, HubWaitGetsMessage, HubJobs, Injects, HubCancels
<1>5. ASSUME NEW x \in Sessions,
             \/ Opens(x) \/ NewTranscript(x) \/ SwitchSession(x)
             \/ BeginDispose(x) \/ DisposeJobs(x)
      PROVE  watched' \subseteq watched
  BY <1>5 DEF Opens, NewTranscript, SwitchSession, BeginDispose, DisposeJobs, CancelsOwnJobs
<1>6. CASE DisposeManager \/ ManagerCloses \/ UNCHANGED vars \/ \E n \in Ids : EvictionFires(n)
  BY <1>6 DEF DisposeManager, ManagerCloses, EvictionFires, vars
<1>7. ~(watched' \subseteq watched)  OBVIOUS
<1> QED  BY <1>1, <1>2, <1>3, <1>4, <1>5, <1>6, <1>7 DEF Next

\* The manager only closes.
LEMMA ManagerMoves ==
  ASSUME [Next]_vars
  PROVE  mgr' = mgr \/ DisposeManager \/ (ManagerCloses /\ mgr = "disposing")
  BY DEF ManagerCloses, Next, vars, Register, MarkRunning, Settles, EvictionFires,
     ForegroundReturns, ForegroundAborts, ForegroundBackgrounds, LoopDelivers, DrainDelivers,
     LoopDrops, SinkAccepts, SinkFails, HubWaitStarts, HubWaitEnds, HubWaitReports,
     HubWaitGetsMessage, HubJobs, HubCancels, Injects, Opens, NewTranscript, SwitchSession,
     BeginDispose, DisposeJobs

-----------------------------------------------------------------------------
(* No result is lost                                                       *)

InHub(j) == \E x \in Sessions : j \in hubWait[x].jobs

\* Shown, or given up: what the histories grow by.
Accounted(j) == j \in told \cup gone

\* A finished job that nobody accounts for is about to be shown.
FinishedIsShown ==
    \A j \in Jobs : job[j].st = "finished" /\ Undelivered(j) =>
        \/ job[j].front /\ Filed(j) /\ job[j].id \in suppressed
        \/ InHub(j)

\* Suppression of a job that runs is its foreground call's.
SuppressedHasCaller ==
    \A j \in Jobs : Running(j) /\ job[j].id \in suppressed => job[j].front \/ Accounted(j)

\* An id is watched by a hub wait for the job it is filed for.
WatchedIsWaited ==
    \A i \in watched :
        row[i] # None /\ \E x \in Sessions : hubWait[x].on /\ row[i] \in hubWait[x].jobs

\* A row is only taken from a job whose result is given up.
UnfiledIsGone ==
    /\ \A j \in Jobs : job[j].st = "finished" /\ ~Filed(j) => j \in gone
    /\ mgr # "open" => \A j \in Jobs : Born(j) => j \in gone

\* The id of a result that is under way belongs to nobody else.
UnderWayKeepsId ==
    \A j \in Jobs : delivery[j].at # "none" \/ InHub(j) => row[job[j].id] \in {None, j}

\* A delivery may be dropped if it is muted or its session is not open.
DroppedIsAccounted ==
    \A j \in Jobs :
        /\ delivery[j].at # "none" /\ Muted(job[j].id) => Accounted(j)
        /\ Sent(j) /\ ~Open(delivery[j].via) => j \in gone

LostInv == /\ DeliveredIsOver /\ FinishedIsShown /\ SuppressedHasCaller /\ WatchedIsWaited
           /\ UnfiledIsGone /\ UnderWayKeepsId /\ DroppedIsAccounted

\* All that is known of a state.
AllInv == TypedInv /\ FilingInv /\ RouteInv /\ ShownInv /\ LostInv

LEMMA LostInit == Init => LostInv
<1> SUFFICES ASSUME Init PROVE LostInv  OBVIOUS
<1>1. \A j \in Jobs : /\ job[j].st = "unborn" /\ ~Running(j) /\ ~Born(j) /\ delivery[j].at = "none"
                      /\ ~InHub(j) /\ ~Sent(j)
  BY DEF Init, NoJob, NoDelivery, NoWait, Running, Born, InHub, Sent
<1>2. watched = {} /\ mgr = "open"  BY DEF Init
<1> QED
  BY <1>1, <1>2 DEF LostInv, DeliveredIsOver, FinishedIsShown, SuppressedHasCaller,
     WatchedIsWaited, UnfiledIsGone, UnderWayKeepsId, DroppedIsAccounted

\* Whoever shares the id of a result that is under way and is filed is that job.
LEMMA SameJob ==
  ASSUME AllInv, NEW j \in Jobs, NEW k \in Jobs, delivery[j].at # "none" \/ InHub(j),
         Filed(k), job[k].id = job[j].id
  PROVE  k = j
  BY JobsAssumption DEF AllInv, LostInv, UnderWayKeepsId, Filed

\* A finished job that the hub shows, or one of the same id, is accounted for.
LEMMA ShownIsAccounted ==
  ASSUME AllInv, [Next]_vars, NEW j \in Jobs, delivery[j].at # "none",
         NEW x \in Sessions, NEW S \in SUBSET (RowsOf(OwnerOf[x]) \cup hubWait[x].jobs),
         Shows(x, S), NEW k \in S, ~Running(k), job[k].id = job[j].id
  PROVE  Accounted(j)'
<1>1. job[j].st = "finished"  BY DEF AllInv, LostInv, DeliveredIsOver
<1>2. CASE k = j  BY <1>1, <1>2 DEF Shows, Reports, Accounted
<1>3. CASE k # j
  <2>1. k \in hubWait[x].jobs /\ k \in Jobs
    BY <1>3, SameJob DEF RowsOf, AllInv, TypedInv, JobsTypeOK
  <2>2. row[job[j].id] \in {None, j} /\ row[job[j].id] \in {None, k}
    BY <2>1 DEF AllInv, LostInv, UnderWayKeepsId, InHub
  <2>3. ~Filed(j)  BY <1>3, <2>2, JobsAssumption DEF Filed
  <2> QED  BY <1>1, <2>3, HistoryGrows DEF AllInv, LostInv, UnfiledIsGone, Accounted
<1> QED  BY <1>2, <1>3

\* Muting the id of a delivery accounts for its result.
LEMMA MutedIsAccounted ==
  ASSUME "reuse" \notin Happenings, AllInv, [Next]_vars, NEW j \in Jobs,
         delivery[j].at # "none", job[j].id \in suppressed' \cup watched'
  PROVE  Accounted(j)'
<1> DEFINE i == job[j].id
<1>0. job[j].st = "finished" /\ ~Running(j)
  BY DEF AllInv, LostInv, DeliveredIsOver, Running
<1>1. CASE Muted(i)
  BY <1>1, HistoryGrows DEF AllInv, LostInv, DroppedIsAccounted, Accounted
<1>2. CASE i \in suppressed' /\ i \notin suppressed
  <2>1. ASSUME NEW x \in Sessions, NEW k \in Jobs, Register(x, k, i) PROVE FALSE
    BY <2>1 DEF Register, UnderWay
  <2>2. ASSUME NEW x \in Sessions, NEW k \in Jobs, HubCancels(x, k), job[k].id = i PROVE FALSE
    <3>1. Filed(k) /\ Running(k)  BY <2>2 DEF HubCancels, RowsOf
    <3> QED  BY <1>0, <2>2, <3>1, SameJob
  <2> QED  BY <1>2, <2>1, <2>2, SuppressedGains, ShownIsAccounted
<1>3. CASE i \in watched' /\ i \notin watched
  <2>1. PICK k \in Jobs : Filed(k) /\ Running(k) /\ job[k].id = i
    BY <1>3, WatchedGains DEF AllInv
  <2> QED  BY <1>0, <2>1, SameJob
<1> QED  BY <1>1, <1>2, <1>3 DEF Muted

\* A job that comes into the world or goes on: in either case what was born stays named.
LEMMA BornGoesOn ==
  ASSUME TypedInv, [Next]_vars, NEW j \in Jobs, Born(j)
  PROVE  GoesOn(j) /\ Born(j)' /\ Owner(j)' = Owner(j) /\ job[j].id \in Ids
         /\ job[j].by \in Sessions
  BY JobMoves, OwnersKept DEF IsRegistered, Register, Born, TypedInv, BornIsNamed

\* The jobs of the agent whose session is disposed, or comes to a boundary, are given up.
LEMMA OwnIsGone ==
  ASSUME NEW j \in Jobs, Born(j), NEW x \in Sessions, Owner(j) = OwnerOf[x],
         BeginDispose(x) \/ CancelsOwnJobs(x)
  PROVE  j \in gone'
  BY DEF BeginDispose, CancelsOwnJobs, Born

\* A delivery that is over has put its result somewhere.
LEMMA OverIsAccounted ==
  ASSUME "reuse" \notin Happenings, AllInv, [Next]_vars, NEW j \in Jobs,
         delivery[j].at # "none", IsOver(j)
  PROVE  j \in told' \cup injected' \cup gone'
<1> DEFINE i == job[j].id
           Goal == j \in told' \cup injected' \cup gone'
<1>0. /\ job[j].st = "finished" /\ Born(j) /\ delivery[j].to = Owner(j)
      /\ Sent(j) => OwnerOf[delivery[j].via] = Owner(j)
  BY DEF AllInv, LostInv, DeliveredIsOver, RouteInv, DeliveriesAreOwn, Sent
<1>1. Accounted(j) => Goal  BY HistoryGrows DEF Accounted
<1>2. Muted(i) => Goal  BY <1>1 DEF AllInv, LostInv, DroppedIsAccounted
<1>3. CASE i \in suppressed' \cup watched'
  BY <1>3, MutedIsAccounted DEF Accounted
<1>4. CASE HandsOver(j)
  <2>1. delivery[j].to # None
    BY <1>0, JobsAssumption DEF Born, Owner, AllInv, TypedInv, BornIsNamed
  <2>2. delivery'[j] = NoDelivery
    <3> DEFINE x == IF delivery[j].to = None THEN None ELSE sink[delivery[j].to]
    <3>0. delivery \in [Jobs -> AtManager \cup AtSession]  BY DEF AllInv, TypedInv, JobsTypeOK
    <3>1. CASE x # None /\ Open(x)
      <4>1. delivery' = [delivery EXCEPT ![j].at = "sink", ![j].via = x, ![j].epoch = session[x].epoch]
        BY <1>4, <3>1 DEF HandsOver, HandedOver
      <4> HIDE DEF x
      <4>2. delivery'[j].at = "sink"  BY <3>0, <4>1
      <4> QED  BY <4>2 DEF IsOver
    <3>2. CASE ~(x # None /\ Open(x))
      <4>1. delivery' = [delivery EXCEPT ![j] = NoDelivery]
        BY <1>4, <3>2 DEF HandsOver, HandedOver
      <4> QED  BY <3>0, <4>1
    <3> QED  BY <3>1, <3>2
  <2> QED  BY <1>4, <2>1, <2>2 DEF HandsOver
<1>5. CASE SinkAccepts(j) /\ ~(Open(delivery[j].via) /\ Fresh(j))
  <2>1. CASE Open(delivery[j].via)
    <3>1. Expired(j) \/ Muted(i)  BY <1>5, <2>1 DEF Expired
    <3>2. Expired(j) => j \in gone'  BY <1>5 DEF SinkAccepts
    <3> QED  BY <1>2, <3>1, <3>2
  <2>2. CASE ~Open(delivery[j].via)
    <3>1. Sent(j)  BY <1>5 DEF SinkAccepts, Sent
    <3> QED  BY <1>1, <2>2, <3>1 DEF AllInv, LostInv, DroppedIsAccounted, Accounted
  <2> QED  BY <2>1, <2>2
<1>6. CASE SinkFails(j) /\ Muted(i)  BY <1>2, <1>6
<1>7. ASSUME NEW x \in Sessions, Injects(x), j \in Entries(x, "yield") PROVE Goal
  <2>1. Fresh(j) \/ Expired(j) \/ Muted(i)  BY DEF Expired
  <2>2. Fresh(j) => j \in injected'  BY <1>7 DEF Injects
  <2>3. Expired(j) => j \in gone'  BY <1>7 DEF Injects
  <2> QED  BY <1>2, <2>1, <2>2, <2>3
<1>8. ASSUME NEW x \in Sessions, BeginDispose(x) \/ CancelsOwnJobs(x), j \in Entries(x, "yield")
      PROVE  Goal
  <2>1. Owner(j) = OwnerOf[x]  BY <1>0, <1>8 DEF Entries, Sent
  <2> QED  BY <1>0, <1>8, <2>1, OwnIsGone
<1>9. ASSUME NEW x \in Sessions, CancelsOwnJobs(x),
             i \in IdsOf(CompletedRows(OwnerOf[x])) \cup suppressed \cup watched
      PROVE  Goal
  <2>1. CASE i \in IdsOf(CompletedRows(OwnerOf[x]))
    <3>1. PICK k \in CompletedRows(OwnerOf[x]) : job[k].id = i  BY <2>1 DEF IdsOf
    <3>2. k \in Jobs /\ Filed(k) /\ Owner(k) = OwnerOf[x]
      BY <3>1 DEF CompletedRows, RowsOf
    <3>3. k = j  BY <3>1, <3>2, SameJob
    <3> QED  BY <1>0, <1>9, <3>2, <3>3, OwnIsGone
  <2>2. CASE i \in suppressed \cup watched  BY <1>2, <2>2 DEF Muted
  <2> QED  BY <1>9, <2>1, <2>2
<1>10. CASE ManagerCloses
  <2>1. mgr # "open"  BY <1>10 DEF ManagerCloses
  <2> QED  BY <1>0, <1>1, <2>1 DEF AllInv, LostInv, UnfiledIsGone, Accounted
<1> QED  BY <1>3, <1>4, <1>5, <1>6, <1>7, <1>8, <1>9, <1>10 DEF IsOver

LEMMA UnfiledNext ==
  ASSUME AllInv, [Next]_vars
  PROVE  UnfiledIsGone'
<1>1. ASSUME NEW j \in Jobs, job'[j].st = "finished", ~Filed(j)' PROVE j \in gone'
  <2> DEFINE i == job[j].id
  <2>0. Born(j)
    BY <1>1, JobMoves DEF AllInv, IsRegistered, GoesOn, Running, Born
  <2>1. /\ job'[j].id = i /\ i \in Ids
        /\ job[j].st = "finished" \/ (Settles(j) /\ Running(j))
    BY <1>1, <2>0, BornGoesOn DEF GoesOn, AllInv, Running
  <2>2. row'[i] # j  BY <1>1, <2>1 DEF Filed
  <2>3. CASE row[i] # j
    <3>1. ~Running(j)
      BY <2>1, <2>3 DEF AllInv, FilingInv, UnsettledIsFiled, ClosedIsQuiet, Unsettled, Running
    <3>2. job[j].st = "finished" /\ ~Filed(j)  BY <2>1, <2>3, <3>1 DEF Filed
    <3> QED  BY <3>2, HistoryGrows DEF AllInv, LostInv, UnfiledIsGone
  <2>4. CASE row[i] = j
    <3>1. row'[i] = None /\ Empties(i)
      BY <2>1, <2>2, <2>4, RowMoves, JobsAssumption DEF Register, AllInv
    <3>2. CASE EvictionFires(i)
      <4>1. row[i] # None /\ ~Running(row[i])
        BY <2>4, <3>2, JobsAssumption DEF EvictionFires, AllInv, FilingInv, TimedRowsAreOver
      <4> QED  BY <2>4, <3>2, <4>1 DEF EvictionFires
    <3>3. ASSUME NEW x \in Sessions, CancelsOwnJobs(x), i \in IdsOf(CompletedRows(OwnerOf[x]))
          PROVE  j \in gone'
      <4>1. PICK k \in CompletedRows(OwnerOf[x]) : job[k].id = i  BY <3>3 DEF IdsOf
      <4>2. k = j /\ Owner(j) = OwnerOf[x]
        BY <2>4, <4>1 DEF CompletedRows, RowsOf, Filed
      <4> QED  BY <2>0, <3>3, <4>2, OwnIsGone
    <3>4. CASE ManagerCloses
      <4>1. mgr # "open"  BY <3>4 DEF ManagerCloses
      <4> QED  BY <2>0, <4>1, HistoryGrows DEF AllInv, LostInv, UnfiledIsGone
    <3> QED  BY <3>1, <3>2, <3>3, <3>4 DEF Empties
  <2> QED  BY <2>3, <2>4
<1>2. ASSUME mgr' # "open", NEW j \in Jobs, Born(j)' PROVE j \in gone'
  <2>1. CASE DisposeManager
    <3>1. Born(j)
      BY <1>2, <2>1, JobMoves DEF AllInv, IsRegistered, Register, GoesOn, Running, Born,
         DisposeManager
    <3> QED  BY <2>1, <3>1 DEF DisposeManager, Born
  <2>2. CASE ~DisposeManager
    <3>1. mgr # "open"  BY <1>2, <2>2, ManagerMoves
    <3>2. ~IsRegistered(j)  BY <3>1 DEF IsRegistered, Register
    <3>3. Born(j)  BY <1>2, <3>2, JobMoves DEF AllInv, GoesOn, Running, Born
    <3> QED  BY <3>1, <3>3, HistoryGrows DEF AllInv, LostInv, UnfiledIsGone
  <2> QED  BY <2>1, <2>2
<1> QED  BY <1>1, <1>2 DEF UnfiledIsGone

\* Who joins a hub wait is filed.
LEMMA HubGains ==
  ASSUME TypedInv, [Next]_vars, NEW x \in Sessions, NEW j \in Jobs,
         j \in hubWait'[x].jobs, j \notin hubWait[x].jobs
  PROVE  Filed(j) /\ row' = row
<1>1. HubWaitStarts(x)
  BY HubMoves DEF HubWaitReports, HubWaitGetsMessage, NoWait, TypedInv, JobsTypeOK
<1>2. PICK S \in SUBSET RowsOf(OwnerOf[x]) : hubWait' = [hubWait EXCEPT ![x] = [jobs |-> S, on |-> TRUE]]
  BY <1>1 DEF HubWaitStarts
<1>3. hubWait'[x].jobs = S  BY <1>2 DEF TypedInv, JobsTypeOK
<1> QED  BY <1>1, <1>3 DEF RowsOf, HubWaitStarts, rowVars

LEMMA UnderWayNext ==
  ASSUME "reuse" \notin Happenings, AllInv, [Next]_vars
  PROVE  UnderWayKeepsId'
<1> SUFFICES ASSUME NEW j \in Jobs, delivery'[j].at # "none" \/ InHub(j)'
             PROVE  row'[job'[j].id] \in {None, j}
  BY DEF UnderWayKeepsId
<1>1. CASE delivery[j].at # "none" \/ InHub(j)
  <2>1. Born(j)
    BY <1>1 DEF AllInv, RouteInv, DeliveriesAreOwn, InHub, TypedInv, WaitedAreBorn
  <2> DEFINE i == job[j].id
  <2>2. job'[j].id = i /\ i \in Ids  BY <2>1, BornGoesOn DEF GoesOn, AllInv
  <2>3. row[i] \in {None, j}  BY <1>1 DEF AllInv, LostInv, UnderWayKeepsId
  <2>4. ~\E x \in Sessions, k \in Jobs : Register(x, k, i)
    BY <1>1 DEF Register, UnderWay, InHub
  <2> QED  BY <2>2, <2>3, <2>4, RowMoves DEF AllInv
<1>2. CASE ~(delivery[j].at # "none" \/ InHub(j))
  <2>1. Filed(j) /\ row' = row
    <3>1. CASE delivery'[j].at # "none"
      BY <1>2, <3>1, DeliveryMoves DEF AllInv, Moves, DeliveryStays, IsEnqueued, IsHandedOver,
         IsAccepted, IsRetried, SinkFails, IsOver
    <3>2. CASE InHub(j)'  BY <1>2, <3>2, HubGains DEF InHub, AllInv
    <3> QED  BY <3>1, <3>2
  <2>2. Born(j)  BY <2>1 DEF Filed, Born
  <2>3. job'[j].id = job[j].id  BY <2>2, BornGoesOn DEF GoesOn, AllInv
  <2> QED  BY <2>1, <2>3 DEF Filed
<1> QED  BY <1>1, <1>2

LEMMA WatchedNext ==
  ASSUME AllInv, [Next]_vars
  PROVE  WatchedIsWaited'
<1> SUFFICES ASSUME NEW i \in watched'
             PROVE  row'[i] # None /\ \E x \in Sessions : hubWait'[x].on /\ row'[i] \in hubWait'[x].jobs
  BY DEF WatchedIsWaited
<1>0. i \in Ids  BY TypedNext DEF AllInv, TypedInv, JobsTypeOK
<1>1. CASE i \in watched
  <2>1. PICK x \in Sessions : hubWait[x].on /\ row[i] \in hubWait[x].jobs
    BY <1>1 DEF AllInv, LostInv, WatchedIsWaited
  <2>2. row[i] # None /\ job[row[i]].id = i
    BY <1>0, <1>1 DEF AllInv, LostInv, WatchedIsWaited, TypedInv, RowsAreNamed
  <2>3. ~Empties(i)
    <3>1. ~EvictionFires(i)  BY DEF EvictionFires
    <3>2. ASSUME NEW y \in Sessions, CancelsOwnJobs(y), i \in IdsOf(CompletedRows(OwnerOf[y]))
          PROVE  FALSE
      BY <3>2 DEF CancelsOwnJobs
    <3>3. ~ManagerCloses  BY DEF ManagerCloses
    <3> QED  BY <3>1, <3>2, <3>3 DEF Empties
  <2>4. ~\E y \in Sessions, k \in Jobs : Register(y, k, i)  BY <2>2 DEF Register
  <2>5. row'[i] = row[i]  BY <1>0, <2>3, <2>4, RowMoves DEF AllInv
  <2>6. ~HubWaitEnds(x)  BY <2>1, <2>2 DEF HubWaitEnds, IdsOf
  <2>7. ~HubWaitStarts(x) /\ ~HubWaitReports(x) /\ ~HubWaitGetsMessage(x)
    BY <2>1 DEF HubWaitStarts, HubWaitReports, HubWaitGetsMessage, NoWait
  <2>8. hubWait'[x] = hubWait[x]  BY <2>6, <2>7, HubMoves DEF AllInv
  <2> QED  BY <2>1, <2>2, <2>5, <2>8
<1>2. CASE i \notin watched
  <2>1. PICK x \in Sessions, k \in Jobs :
           /\ HubWaitStarts(x) /\ Filed(k) /\ job[k].id = i
           /\ hubWait'[x].on /\ k \in hubWait'[x].jobs
    BY <1>2, WatchedGains DEF AllInv
  <2>2. row'[i] = k  BY <2>1 DEF HubWaitStarts, rowVars, Filed
  <2> QED  BY <2>1, <2>2, JobsAssumption
<1> QED  BY <1>1, <1>2

LEMMA CallerNext ==
  ASSUME AllInv, [Next]_vars
  PROVE  SuppressedHasCaller'
<1> SUFFICES ASSUME NEW j \in Jobs, Running(j)', job'[j].id \in suppressed'
             PROVE  job'[j].front \/ Accounted(j)'
  BY DEF SuppressedHasCaller
<1>1. CASE IsRegistered(j)  BY <1>1 DEF IsRegistered
<1>2. CASE GoesOn(j) /\ ~IsRegistered(j)
  <2> DEFINE i == job[j].id
  <2>1. Running(j) /\ job'[j].id = i /\ i \in suppressed'  BY <1>2 DEF GoesOn, Running
  <2>2. i \in Ids /\ Filed(j) /\ row[i] = j
    BY <2>1 DEF AllInv, FilingInv, UnsettledIsFiled, ClosedIsQuiet, Unsettled, Running, Filed,
       TypedInv, BornIsNamed, Born
  <2>3. CASE i \in suppressed
    <3>1. job[j].front \/ Accounted(j)  BY <2>1, <2>3 DEF AllInv, LostInv, SuppressedHasCaller
    <3>2. CASE job[j].front /\ ~job'[j].front
      <4>1. ForegroundReturns(j) => j \in told'  BY DEF ForegroundReturns
      <4>2. ForegroundAborts(j) => j \in gone'  BY DEF ForegroundAborts
      <4>3. ~ForegroundBackgrounds(j)  BY <2>1 DEF ForegroundBackgrounds
      <4> QED  BY <3>2, <4>1, <4>2, <4>3, FrontMoves DEF AllInv, Accounted
    <3> QED  BY <3>1, <3>2, HistoryGrows DEF Accounted
  <2>4. CASE i \notin suppressed
    <3>1. ~\E x \in Sessions, k \in Jobs : Register(x, k, i)
      BY <2>2, JobsAssumption DEF Register
    <3>2. ASSUME NEW x \in Sessions, NEW k \in Jobs, HubCancels(x, k), job[k].id = i PROVE FALSE
      <4>1. k = j  BY <2>2, <3>2 DEF HubCancels, RowsOf, Filed
      <4>2. job' = Stopped({j})  BY <3>2, <4>1 DEF HubCancels
      <4>3. job'[j].st = "stopping"
        BY <2>1, <4>2, StoppedFacts DEF AllInv, TypedInv, JobsTypeOK
      <4> QED  BY <4>3 DEF Running
    <3>3. ASSUME NEW x \in Sessions, NEW S \in SUBSET (RowsOf(OwnerOf[x]) \cup hubWait[x].jobs),
                 NEW k \in S, ~Running(k), job[k].id = i
          PROVE  FALSE
      <4>1. CASE k \in RowsOf(OwnerOf[x])
        BY <2>1, <2>2, <3>3, <4>1 DEF RowsOf, Filed
      <4>2. CASE k \in hubWait[x].jobs
        <5>1. k \in Jobs /\ row[i] \in {None, k}
          BY <3>3, <4>2 DEF AllInv, LostInv, UnderWayKeepsId, InHub, TypedInv, JobsTypeOK
        <5> QED  BY <2>1, <2>2, <3>3, <5>1, JobsAssumption
      <4> QED  BY <4>1, <4>2
    <3> QED  BY <2>1, <2>4, <3>1, <3>2, <3>3, SuppressedGains
  <2> QED  BY <2>3, <2>4
<1> QED  BY <1>1, <1>2, JobMoves DEF AllInv

LEMMA DroppedNext ==
  ASSUME "reuse" \notin Happenings, AllInv, [Next]_vars
  PROVE  DroppedIsAccounted'
<1> SUFFICES ASSUME NEW j \in Jobs, delivery'[j].at # "none"
             PROVE  /\ job'[j].id \in suppressed' \cup watched' => Accounted(j)'
                    /\ Sent(j)' /\ session'[delivery'[j].via].phase # "open" => j \in gone'
  BY DEF DroppedIsAccounted, Sent, Muted, Open
<1> DEFINE i == job[j].id
<1>1. Born(j)
  BY DeliveryMoves DEF Moves, DeliveryStays, IsEnqueued, IsHandedOver,
     IsAccepted, IsRetried, SinkFails, IsOver, AllInv, RouteInv, DeliveriesAreOwn, Filed, Born
<1>2. job'[j].id = i /\ i \in Ids  BY <1>1, BornGoesOn DEF GoesOn, AllInv
<1>3. ASSUME i \in suppressed' \cup watched' PROVE Accounted(j)'
  <2>1. CASE delivery[j].at # "none"
    BY <1>3, <2>1, MutedIsAccounted
  <2>2. CASE delivery[j].at = "none"
    <3>1. IsEnqueued(j)
      BY <2>2, DeliveryMoves DEF AllInv, Moves, DeliveryStays, IsHandedOver,
         IsAccepted, IsRetried, SinkFails, IsOver
    <3>2. CASE Settles(j) /\ ~Muted(i)  BY <1>3, <3>2 DEF Settles, mutingVars, Muted
    <3>3. ASSUME NEW k \in Jobs, ForegroundBackgrounds(k), job[k].id = i PROVE Accounted(j)'
      BY <1>3, <3>1, <3>3 DEF ForegroundBackgrounds, IsEnqueued, Muted
    <3> QED  BY <3>1, <3>2, <3>3 DEF IsEnqueued
  <2> QED  BY <2>1, <2>2
<1>4. ASSUME Sent(j)', session'[delivery'[j].via].phase # "open" PROVE j \in gone'
  <2> DEFINE x == delivery'[j].via
  <2>1. CASE IsHandedOver(j) \/ IsAccepted(j)
    <3>1. Open(x) /\ session' = session  BY <2>1 DEF IsHandedOver, IsAccepted
    <3> QED  BY <1>4, <3>1 DEF Open
  <2>2. CASE DeliveryStays(j)
    <3>1. Sent(j) /\ x = delivery[j].via /\ x \in Sessions
      BY <1>4, <2>2 DEF DeliveryStays, Sent, AllInv, TypedInv, JobsTypeOK
    <3>2. OwnerOf[x] = Owner(j)
      BY <3>1 DEF AllInv, RouteInv, DeliveriesAreOwn, Sent
    <3>3. CASE ~Open(x)
      BY <3>1, <3>3, HistoryGrows DEF AllInv, LostInv, DroppedIsAccounted
    <3>4. CASE Open(x)
      <4>1. BeginDispose(x)  BY <1>4, <3>1, <3>4, SessionMoves DEF AllInv, Open
      <4> QED  BY <1>1, <3>1, <3>2, <4>1, OwnIsGone
    <3> QED  BY <3>3, <3>4
  <2> QED
    BY <1>4, <2>1, <2>2, DeliveryMoves DEF AllInv, Moves, IsEnqueued, IsRetried, IsOver, Sent
<1> QED  BY <1>2, <1>3, <1>4

\* A hub wait that is about a finished job goes on, or shows it.
LEMMA HubStays ==
  ASSUME "message" \notin Happenings, AllInv, [Next]_vars, NEW j \in Jobs, InHub(j),
         ~(job[j].st = "finished" /\ j \in told')
  PROVE  InHub(j)' \/ \E x \in Sessions : HubWaitReports(x) /\ j \in hubWait[x].jobs
<1>1. PICK x \in Sessions : j \in hubWait[x].jobs  BY DEF InHub
<1>2. ~HubWaitStarts(x)  BY <1>1 DEF HubWaitStarts, NoWait
<1>3. ~HubWaitGetsMessage(x)  BY DEF HubWaitGetsMessage
<1> QED  BY <1>1, <1>2, <1>3, HubMoves DEF AllInv, InHub

\* A job that is waited for in the foreground stays so, or its result is delivered.
LEMMA FrontStays ==
  ASSUME "stuck" \notin Happenings, "message" \notin Happenings, AllInv, [Next]_vars,
         NEW j \in Jobs, job[j].front, Filed(j), job[j].id \in suppressed,
         job[j].st = "finished", delivery[j].at = "none"
  PROVE  \/ job'[j].front /\ Filed(j)' /\ job'[j].id \in suppressed'
         \/ InHub(j)' \/ Accounted(j)' \/ delivery'[j].at # "none"
<1> DEFINE i == job[j].id
<1>0. Born(j) /\ GoesOn(j) /\ i \in Ids /\ row[i] = j
  BY BornGoesOn DEF AllInv, Filed, Born
<1>1. CASE job'[j].front
  <2>1. CASE mgr' # "closed"
    <3>1. Filed(j)' /\ i \in suppressed'
      BY <1>0, <1>1, <2>1, FrontStaysFiled DEF AllInv, ShownInv
    <3> QED  BY <1>0, <1>1, <3>1 DEF GoesOn
  <2>2. CASE mgr' = "closed"
    <3>1. j \in gone'  BY <1>0, <2>2, BornGoesOn, UnfiledNext DEF AllInv, UnfiledIsGone
    <3> QED  BY <3>1 DEF Accounted
  <2> QED  BY <2>1, <2>2
<1>2. CASE ~job'[j].front
  <2>1. ForegroundReturns(j) => j \in told'  BY DEF ForegroundReturns
  <2>2. ForegroundAborts(j) => j \in gone'  BY DEF ForegroundAborts
  <2>3. ASSUME ForegroundBackgrounds(j) PROVE InHub(j)' \/ delivery'[j].at # "none"
    <3>1. delivery' = Resumed(i) /\ hubWait' = hubWait
      BY <2>3 DEF ForegroundBackgrounds, sessionVars
    <3>2. \A k \in Jobs : delivery[k].at \in {"queued", "sink"} => job[k].id # i
      <4> SUFFICES ASSUME NEW k \in Jobs, delivery[k].at \in {"queued", "sink"}, job[k].id = i
                   PROVE  FALSE
        OBVIOUS
      <4>1. k = j  BY <1>0, JobsAssumption DEF AllInv, LostInv, UnderWayKeepsId
      <4> QED  BY <4>1
    <3>3. delivery' = Enqueued(j, watched)
      BY <1>0, <3>1, <3>2, JobsAssumption DEF Resumed
    <3>4. CASE i \in watched
      <4>1. InHub(j)  BY <1>0, <3>4 DEF AllInv, LostInv, WatchedIsWaited, InHub
      <4> QED  BY <3>1, <4>1 DEF InHub
    <3>5. CASE i \notin watched
      <4> DEFINE new == [NoDelivery EXCEPT !.at = "queued", !.to = RowOwner(job[j].id)]
      <4>1. new.at = "queued"  BY DEF NoDelivery
      <4>2. delivery' = [delivery EXCEPT ![j] = new]  BY <3>3, <3>5 DEF Enqueued
      <4> HIDE DEF new
      <4>3. delivery'[j] = new  BY <4>2 DEF AllInv, TypedInv, JobsTypeOK
      <4> QED  BY <4>1, <4>3
    <3> QED  BY <3>4, <3>5
  <2> QED  BY <1>2, <2>1, <2>2, <2>3, FrontMoves DEF AllInv, Accounted
<1> QED  BY <1>1, <1>2

\* A job that finishes now is delivered, unless a call or a hub wait is about it.
LEMMA SettledIsShown ==
  ASSUME AllInv, [Next]_vars, NEW j \in Jobs, Settles(j), Running(j),
         delivery'[j].at = "none", ~Accounted(j)
  PROVE  \/ job'[j].front /\ Filed(j)' /\ job'[j].id \in suppressed'
         \/ InHub(j)'
<1> DEFINE i == job[j].id
<1>0. /\ Born(j) /\ i \in Ids /\ Filed(j) /\ row[i] = j
      /\ UNCHANGED <<row, suppressed, watched, hubWait>>
      /\ delivery' = Enqueued(j, suppressed \cup watched)
      /\ job' = [job EXCEPT ![j].st = "finished"]
  BY DEF Settles, mutingVars, sessionVars, AllInv, FilingInv, UnsettledIsFiled, ClosedIsQuiet,
     Unsettled, Running, Filed, TypedInv, BornIsNamed, Born
<1>1. job'[j].front = job[j].front /\ job'[j].id = i /\ job'[j].st = "finished"
  BY <1>0, StatusFacts DEF AllInv, TypedInv, JobsTypeOK
<1>2. CASE i \in suppressed
  <2>1. job[j].front  BY <1>2 DEF AllInv, LostInv, SuppressedHasCaller
  <2> QED  BY <1>0, <1>1, <1>2, <2>1 DEF Filed
<1>3. CASE i \in watched
  <2>1. InHub(j)  BY <1>0, <1>3 DEF AllInv, LostInv, WatchedIsWaited, InHub
  <2> QED  BY <1>0, <2>1 DEF InHub
<1>4. CASE i \notin suppressed \cup watched
  <2> DEFINE new == [NoDelivery EXCEPT !.at = "queued", !.to = RowOwner(job[j].id)]
  <2>1. new.at = "queued"  BY DEF NoDelivery
  <2>2. delivery' = [delivery EXCEPT ![j] = new]  BY <1>0, <1>4 DEF Enqueued
  <2> HIDE DEF new
  <2>3. delivery'[j] = new  BY <2>2 DEF AllInv, TypedInv, JobsTypeOK
  <2> QED  BY <2>1, <2>3
<1> QED  BY <1>2, <1>3, <1>4

LEMMA FinishedNext ==
  ASSUME "stuck" \notin Happenings, "reuse" \notin Happenings, "message" \notin Happenings,
         AllInv, [Next]_vars
  PROVE  FinishedIsShown'
<1> SUFFICES ASSUME NEW j \in Jobs, job'[j].st = "finished", delivery'[j].at = "none",
                    j \notin told' \cup injected' \cup gone'
             PROVE  \/ job'[j].front /\ Filed(j)' /\ job'[j].id \in suppressed'
                    \/ InHub(j)'
  BY DEF FinishedIsShown, Undelivered
<1>0. j \notin told \cup injected \cup gone /\ ~Accounted(j) /\ ~Accounted(j)'
  BY HistoryGrows DEF Accounted
<1>1. CASE Settles(j) /\ Running(j)  BY <1>0, <1>1, SettledIsShown
<1>2. CASE job[j].st = "finished"
  <2>1. delivery[j].at = "none"
    <3>1. CASE delivery[j].at # "none"
      <4>1. IsOver(j)
        BY <3>1, DeliveryMoves DEF AllInv, Moves, DeliveryStays, IsEnqueued, IsHandedOver,
           IsAccepted, IsRetried
      <4> QED  BY <3>1, <4>1, OverIsAccounted
    <3> QED  BY <3>1
  <2>2. \/ job[j].front /\ Filed(j) /\ job[j].id \in suppressed
        \/ InHub(j)
    BY <1>0, <1>2, <2>1 DEF AllInv, LostInv, FinishedIsShown, Undelivered
  <2>3. CASE job[j].front /\ Filed(j) /\ job[j].id \in suppressed
    BY <1>0, <1>2, <2>1, <2>3, FrontStays
  <2>4. CASE InHub(j)
    <3>1. ASSUME NEW x \in Sessions, HubWaitReports(x), j \in hubWait[x].jobs PROVE j \in told'
      BY <1>2, <3>1 DEF HubWaitReports, Reports, Running
    <3> QED  BY <2>4, <3>1, HubStays
  <2> QED  BY <2>2, <2>3, <2>4
<1>3. job[j].st = "finished" \/ (Settles(j) /\ Running(j))
  BY JobMoves DEF AllInv, GoesOn, IsRegistered
<1> QED  BY <1>1, <1>2, <1>3

LEMMA AllInit == Init => AllInv
  BY TypedInit, FilingInit, RouteInit, ShownInit, LostInit DEF AllInv

LEMMA AllNext ==
  ASSUME "stuck" \notin Happenings, "reuse" \notin Happenings, "message" \notin Happenings,
         AllInv, [Next]_vars
  PROVE  AllInv'
<1>1. TypedInv' /\ FilingInv' /\ RouteInv' /\ ShownInv'
  BY TypedNext, FilingNext, RouteNext, ShownNext DEF AllInv
<1>2. DeliveredIsOver'  BY DeliveredNext DEF AllInv, LostInv
<1>3. LostInv'
  BY <1>2, FinishedNext, CallerNext, WatchedNext, UnfiledNext, UnderWayNext, DroppedNext
     DEF LostInv
<1> QED  BY <1>1, <1>3 DEF AllInv

(***************************************************************************)
(* No result is lost: a finished job was shown, is on its way, is about to *)
(* be shown by a call or a hub wait that is about it, or was given up on   *)
(* purpose - with sinks that throw and switches of the session file too.   *)
(* A message that ends a hub wait loses results (the run that shows it),   *)
(* as can the id of a result under way given to another job.               *)
(***************************************************************************)
THEOREM NoResultIsLost ==
  ASSUME "stuck" \notin Happenings, "reuse" \notin Happenings, "message" \notin Happenings
  PROVE  Spec => []NoLostResult
<1>1. Init => AllInv  BY AllInit
<1>2. AllInv /\ [Next]_vars => AllInv'  BY AllNext
<1>3. AllInv => NoLostResult
  BY DEF AllInv, LostInv, FinishedIsShown, InHub, NoLostResult
<1> QED  BY <1>1, <1>2, <1>3, PTL DEF Spec

=============================================================================
