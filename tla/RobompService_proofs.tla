------------------------- MODULE RobompService_proofs -------------------------
(***************************************************************************)
(* Proofs about the service of RobompService.tla: that the composition     *)
(* adds no behaviour to either component, so that what is proved of the    *)
(* queue holds of the service, and the safety of the auto-close scheduler. *)
(*                                                                         *)
(* The last rests on OwnedInv: a tick holds exactly the claimed rows that  *)
(* are not lost, each once, and in the right stage; and an issue whose row *)
(* says closed is not open.                                                *)
(***************************************************************************)
EXTENDS RobompService, RobompQueue_proofs

-----------------------------------------------------------------------------
(* Both components do what they do alone                                   *)

LEMMA QueueAlone == [ServiceNext]_serviceVars => [QueueNext]_queueVars
<1> SUFFICES ASSUME [ServiceNext]_serviceVars PROVE [QueueNext]_queueVars  OBVIOUS
<1>1. CASE UNCHANGED serviceVars  BY <1>1 DEF serviceVars
<1>2. ASSUME NEW e \in Events, Deliver(e) PROVE QueueNext
  BY <1>2 DEF Deliver, QueueNext, Request
<1>3. ASSUME NEW e \in Events, Redeliver(e) \/ AgentAnswers(e) PROVE UNCHANGED queueVars
  BY <1>3 DEF Redeliver, AgentAnswers
<1>4. CASE QueueStep  BY <1>4 DEF QueueStep, QueueNext, Request
<1>5. CASE ClosureStep  BY <1>5 DEF ClosureStep
<1>6. CASE ServiceStart \/ ServiceStop \/ ServiceDies
  BY <1>6 DEF ServiceStart, ServiceStop, ServiceDies, QueueNext
<1> QED  BY <1>1, <1>2, <1>3, <1>4, <1>5, <1>6 DEF ServiceNext

LEMMA ClosuresAlone == [ServiceNext]_serviceVars => [ClosureNext]_closureVars
<1> SUFFICES ASSUME [ServiceNext]_serviceVars PROVE [ClosureNext]_closureVars  OBVIOUS
<1> USE DEF tableVars, closureVars
<1>0. \A e \in Events : IssueOf[e] \in Issues  BY QueueAssumption
<1>1. CASE UNCHANGED serviceVars  BY <1>1 DEF serviceVars
<1>2. ASSUME NEW e \in Events, Deliver(e) PROVE [ClosureNext]_closureVars
  BY <1>0, <1>2 DEF Deliver, ClosureNext, World
<1>3. ASSUME NEW e \in Events, Redeliver(e) \/ AgentAnswers(e) PROVE ClosureNext
  BY <1>0, <1>3 DEF Redeliver, AgentAnswers, ClosureNext, World
<1>4. CASE QueueStep  BY <1>4 DEF QueueStep
<1>5. CASE ClosureStep  BY <1>5 DEF ClosureStep, ClosureNext, World
<1>6. CASE ServiceStart \/ ServiceStop \/ ServiceDies
  BY <1>6 DEF ServiceStart, ServiceStop, ServiceDies, ClosureNext
<1> QED  BY <1>1, <1>2, <1>3, <1>4, <1>5, <1>6 DEF ServiceNext

(***************************************************************************)
(* Each behaviour of the service is one of the queue: deliveries, answers  *)
(* and the shared start, stop and death (server.py) give it no new step.   *)
(***************************************************************************)
THEOREM ServiceRunsQueue == ServiceSpec => QueueSpec
<1> QED  BY QueueAlone, PTL DEF ServiceSpec, ServiceInit, QueueSpec

(***************************************************************************)
(* Each behaviour of the service is one of the scheduler, whose webhook,   *)
(* agents and process are here those of the queue.                         *)
(***************************************************************************)
THEOREM ServiceRunsScheduler == ServiceSpec => ClosureInit /\ [][ClosureNext]_closureVars
<1> QED  BY ClosuresAlone, PTL DEF ServiceSpec, ServiceInit

(***************************************************************************)
(* The guarantees of the queue hold in the service as a whole.             *)
(***************************************************************************)
THEOREM ServiceKeepsQueue ==
  ServiceSpec => [](WorkspaceExclusive /\ OneAgentPerIssue /\ SlotsExclusive /\ NoStaleCancel)
<1> QED  BY ServiceRunsQueue, OneUserOfWorkspace, OneLiveAgent, SlotsAreShared, MarksAreFresh, PTL

-----------------------------------------------------------------------------
(* Types                                                                   *)

Closure == [state : ClosureStates, due : BOOLEAN]
TableTyped == closure \in [Issues -> Closure]

LEMMA SetFacts ==
  ASSUME TableTyped, NEW i \in Issues, NEW s \in ClosureStates, closure' = SetState(i, s)
  PROVE  /\ TableTyped'
         /\ closure'[i].state = s
         /\ \A j \in Issues \ {i} : closure'[j] = closure[j]
BY DEF TableTyped, Closure, SetState

\* What a step does to the table: it schedules a row, moves one on, claims
\* the due ones, or leaves all as they are.
LEMMA TableMoves ==
  ASSUME TableTyped, [ClosureNext]_closureVars
  PROVE  \/ closure' = closure
         \/ \E i \in Issues : Answer(i) \/ WindowEnds(i)
         \/ Tick
         \/ \E i \in Issues, s \in {"closed", "cancelled", "pending"} :
               /\ closure' = SetState(i, s)
               /\ \/ closure[i].state = "pending" /\ s = "cancelled" /\ UNCHANGED <<batch, cur, sched>>
                  \/ i \in cur /\ (s = "pending" => closure[i].state = "claimed")
<1>1. ASSUME NEW i \in Issues, HumanReply(i) \/ ExternallyClosed(i)
      PROVE  \/ closure' = closure
             \/ /\ closure' = SetState(i, "cancelled") /\ closure[i].state = "pending"
                /\ UNCHANGED <<batch, cur, sched>>
  BY <1>1 DEF HumanReply, ExternallyClosed, CancelPending
<1>2. ASSUME NEW i \in Issues, RowStep(i)
      PROVE  \/ closure' = closure
             \/ /\ i \in cur
                /\ \/ \E s \in {"closed", "cancelled"} : closure' = SetState(i, s)
                   \/ closure' = SetState(i, "pending") /\ closure[i].state = "claimed"
  BY <1>2 DEF RowStep, TakeRow, ReadReactions, CloseIssue, AlreadyGone, GitHubFails, Finalize, Requeue
<1>3. ASSUME \/ \E i \in Issues : Downvote(i)
             \/ EndTick \/ TickFails \/ SchedulerOff \/ SchedulerOn \/ UNCHANGED closureVars
      PROVE  closure' = closure
  BY <1>3 DEF Downvote, EndTick, TickFails, SchedulerOff, SchedulerOn, Abandon, closureVars
<1> QED  BY <1>1, <1>2, <1>3 DEF ClosureNext, World

LEMMA TableStep == TableTyped /\ [ClosureNext]_closureVars => TableTyped'
<1> SUFFICES ASSUME TableTyped, [ClosureNext]_closureVars PROVE TableTyped'  OBVIOUS
<1> USE DEF ClosureStates
<1>1. ASSUME NEW i \in Issues, Answer(i) PROVE TableTyped'
  BY <1>1 DEF Answer, Scheduled, TableTyped, Closure
<1>2. ASSUME NEW i \in Issues, WindowEnds(i) PROVE TableTyped'
  BY <1>2 DEF WindowEnds, TableTyped, Closure
<1>3. CASE Tick
  <2>1. \A i \in Issues : [closure[i] EXCEPT !.state = "claimed"] \in Closure
    BY DEF TableTyped, Closure
  <2> QED  BY <1>3, <2>1 DEF Tick, TableTyped
<1>4. ASSUME NEW i \in Issues, NEW s \in ClosureStates, closure' = SetState(i, s) PROVE TableTyped'
  BY <1>4, SetFacts
<1>5. CASE closure' = closure  BY <1>5 DEF TableTyped
<1> QED  BY <1>1, <1>2, <1>3, <1>4, <1>5, TableMoves

SchedTyped ==
    /\ batch \subseteq Issues /\ cur \subseteq Issues
    /\ sched \in Sched
    /\ open \subseteq Issues /\ voted \subseteq Issues /\ lost \subseteq Issues

LEMMA SchedStep == SchedTyped /\ [ClosureNext]_closureVars => SchedTyped'
<1> SUFFICES ASSUME SchedTyped, [ClosureNext]_closureVars PROVE SchedTyped'  OBVIOUS
<1> USE DEF SchedTyped, Sched, Abandon, RowDone
<1>1. ASSUME NEW i \in Issues, World(i) \/ WindowEnds(i) PROVE SchedTyped'
  BY <1>1 DEF World, Answer, HumanReply, ExternallyClosed, Downvote, WindowEnds
<1>2. ASSUME NEW i \in Issues, RowStep(i) PROVE SchedTyped'
  BY <1>2 DEF RowStep, TakeRow, ReadReactions, CloseIssue, AlreadyGone, GitHubFails
<1>3. CASE Tick  BY <1>3 DEF Tick, Due
<1>4. CASE EndTick \/ TickFails \/ SchedulerOff \/ SchedulerOn \/ UNCHANGED closureVars
  BY <1>4 DEF EndTick, TickFails, SchedulerOff, SchedulerOn, closureVars
<1> QED  BY <1>1, <1>2, <1>3, <1>4 DEF ClosureNext

(***************************************************************************)
(* Type correctness of the scheduler in the service, for any constants.    *)
(***************************************************************************)
THEOREM ClosuresTyped == ServiceSpec => []ClosureTypeOK
<1>1. ClosureTypeOK <=> TableTyped /\ SchedTyped
  BY DEF ClosureTypeOK, TableTyped, SchedTyped, Closure
<1>2. ClosureInit => TableTyped /\ SchedTyped
  BY DEF ClosureInit, TableTyped, SchedTyped, Closure, ClosureStates, Sched
<1>3. ClosureTypeOK /\ [ClosureNext]_closureVars => ClosureTypeOK'
  BY TableStep, SchedStep DEF ClosureTypeOK, TableTyped, SchedTyped, Closure
<1> QED  BY <1>1, <1>2, <1>3, ServiceRunsScheduler, PTL

-----------------------------------------------------------------------------
(* Claims                                                                  *)

\* The tick has the rows it claimed, each once, and one in hand exactly while
\* it waits for GitHub.
Stages ==
    /\ sched \in {"off", "idle"} => batch = {}
    /\ sched \notin {"reading", "closing"} => cur = {}
    /\ \A i, j \in cur : i = j
    /\ \A i \in Issues : ~(i \in cur /\ i \in batch) /\ ~(i \in lost /\ i \in batch \cup cur)

\* An issue is not open once its row says closed.
Shut == \A i \in Issues : closure[i].state = "closed" => i \notin open

OwnedInv == Stages /\ TickOwnsClaims /\ Shut

LEMMA OwnedStep ==
  ASSUME "reschedules" \notin Happenings, TableTyped, SchedTyped, OwnedInv,
         [ClosureNext]_closureVars
  PROVE  OwnedInv'
<1> USE DEF OwnedInv, Stages, TickOwnsClaims, Shut, SchedTyped
<1>1. ASSUME NEW i \in Issues, Answer(i) PROVE OwnedInv'
  <2>1. i \notin batch \cup cur /\ UNCHANGED <<batch, cur, sched, open>> /\ lost' = lost \ {i}
    BY <1>1 DEF Answer
  <2>2. closure'[i].state = "pending" /\ \A j \in Issues \ {i} : closure'[j] = closure[j]
    BY <1>1 DEF Answer, Scheduled, TableTyped
  <2> QED  BY <2>1, <2>2
<1>2. ASSUME NEW i \in Issues, HumanReply(i) \/ ExternallyClosed(i) PROVE OwnedInv'
  <2>1. UNCHANGED <<batch, cur, sched, lost>> /\ open' \subseteq open
    BY <1>2 DEF HumanReply, ExternallyClosed
  <2>2. \/ closure' = closure
        \/ closure' = SetState(i, "cancelled") /\ closure[i].state = "pending"
    BY <1>2 DEF HumanReply, ExternallyClosed, CancelPending
  <2>3. \A j \in Issues : (closure'[j].state = "claimed") <=> (closure[j].state = "claimed")
    BY <2>2, SetFacts DEF ClosureStates
  <2>4. \A j \in Issues : closure'[j].state = "closed" => closure[j].state = "closed"
    BY <2>2, SetFacts DEF ClosureStates
  <2>5. Stages' /\ TickOwnsClaims'
    BY <2>1, <2>3
  <2>6. Shut'
    BY <2>1, <2>4
  <2> QED  BY <2>5, <2>6
<1>3. ASSUME NEW i \in Issues, Downvote(i) PROVE OwnedInv'
  BY <1>3 DEF Downvote
<1>4. ASSUME NEW i \in Issues, WindowEnds(i) PROVE OwnedInv'
  <2>1. UNCHANGED <<batch, cur, sched, open, lost>>  BY <1>4 DEF WindowEnds
  <2>2. \A j \in Issues : closure'[j].state = closure[j].state
    BY <1>4 DEF WindowEnds, TableTyped, Closure
  <2> QED  BY <2>1, <2>2
<1>5. CASE Tick
  <2>1. /\ sched = "idle" /\ sched' = "ticking" /\ batch' = Due /\ UNCHANGED <<cur, open, lost>>
        /\ closure' = [i \in Issues |-> IF i \in Due THEN [closure[i] EXCEPT !.state = "claimed"]
                                        ELSE closure[i]]
    BY <1>5 DEF Tick
  <2>2. \A i \in Issues : closure'[i].state = IF i \in Due THEN "claimed" ELSE closure[i].state
    BY <2>1 DEF TableTyped, Closure
  <2>3. \A i \in Issues : i \in Due => closure[i].state = "pending"  BY DEF Due
  <2> QED  BY <2>1, <2>2, <2>3
<1>6. ASSUME NEW i \in Issues, TakeRow(i) PROVE OwnedInv'
  BY <1>6 DEF TakeRow
<1>7. ASSUME NEW i \in Issues, NEW s \in ClosureStates \ {"claimed"}, i \in cur,
             closure' = SetState(i, s), cur' = {}, sched' = "ticking", UNCHANGED <<batch, lost>>,
             open' \subseteq open, s = "closed" => i \notin open'
      PROVE  OwnedInv'
  <2>1. closure'[i].state = s /\ \A j \in Issues \ {i} : closure'[j] = closure[j]
    BY <1>7, SetFacts
  <2> QED  BY <1>7, <2>1
<1>8. ASSUME NEW i \in Issues, ReadReactions(i) PROVE OwnedInv'
  <2>1. CASE i \in voted
    BY <1>7, <1>8, <2>1 DEF ReadReactions, Finalize, RowDone, ClosureStates
  <2>2. CASE i \notin voted
    BY <1>8, <2>2 DEF ReadReactions
  <2> QED  BY <2>1, <2>2
<1>9. ASSUME NEW i \in Issues, CloseIssue(i) \/ AlreadyGone(i) PROVE OwnedInv'
  BY <1>7, <1>9 DEF CloseIssue, AlreadyGone, Finalize, RowDone, ClosureStates
<1>10. ASSUME NEW i \in Issues, GitHubFails(i) PROVE OwnedInv'
  <2>1. closure[i].state = "claimed"  BY <1>10 DEF GitHubFails
  <2> QED  BY <1>7, <1>10, <2>1 DEF GitHubFails, Requeue, RowDone, ClosureStates
<1>11. CASE EndTick  BY <1>11 DEF EndTick
<1>12. CASE TickFails \/ SchedulerOff  BY <1>12 DEF TickFails, SchedulerOff, Abandon
<1>13. CASE SchedulerOn \/ UNCHANGED closureVars  BY <1>13 DEF SchedulerOn, closureVars
<1> QED
  BY <1>1, <1>2, <1>3, <1>4, <1>5, <1>6, <1>8, <1>9, <1>10, <1>11, <1>12, <1>13
  DEF ClosureNext, World, RowStep

LEMMA OwnedAlways ==
  ASSUME "reschedules" \notin Happenings
  PROVE  ServiceSpec => [](TableTyped /\ SchedTyped /\ OwnedInv)
<1>1. ClosureInit => TableTyped /\ SchedTyped /\ OwnedInv
  BY DEF ClosureInit, TableTyped, SchedTyped, Closure, ClosureStates, Sched, OwnedInv, Stages,
         TickOwnsClaims, Shut
<1>2. /\ TableTyped /\ SchedTyped /\ OwnedInv /\ [ClosureNext]_closureVars
      => TableTyped' /\ SchedTyped' /\ OwnedInv'
  BY TableStep, SchedStep, OwnedStep
<1> QED  BY <1>1, <1>2, ServiceRunsScheduler, PTL

(***************************************************************************)
(* A claimed row belongs to the tick or is lost, as long as no agent       *)
(* answers an issue the tick holds (claim_due_closures of db.py).          *)
(***************************************************************************)
THEOREM ClaimsAreOwned ==
  ASSUME "reschedules" \notin Happenings
  PROVE  ServiceSpec => []TickOwnsClaims
<1> QED  BY OwnedAlways, PTL DEF OwnedInv

(***************************************************************************)
(* Under the same condition the scheduler closes only what it has claimed, *)
(* so no issue whose closure was cancelled (_process_row of autoclose.py). *)
(***************************************************************************)
THEOREM ClosesOnlyClaims ==
  ASSUME "reschedules" \notin Happenings
  PROVE  ServiceSpec => NeverClosesCancelled
<1>1. TableTyped /\ SchedTyped /\ OwnedInv /\ [ClosureNext]_closureVars
      => [\A i \in Issues : i \in open /\ i \notin open' /\ closure'[i].state = "closed"
                            => closure[i].state = "claimed"]_closureVars
  <2> SUFFICES ASSUME TableTyped, SchedTyped, OwnedInv, [ClosureNext]_closureVars,
                      NEW i \in Issues, i \in open, i \notin open', closure'[i].state = "closed"
               PROVE  closure[i].state = "claimed"
    OBVIOUS
  <2>1. PICK j \in Issues : ExternallyClosed(j) \/ CloseIssue(j)
    BY DEF ClosureNext, closureVars, World, RowStep, Answer, HumanReply, Downvote, WindowEnds,
           TakeRow, ReadReactions, AlreadyGone, GitHubFails, Tick, EndTick, TickFails,
           SchedulerOff, SchedulerOn, Abandon
  <2>2. j = i  BY <2>1 DEF ExternallyClosed, CloseIssue
  <2>3. CASE CloseIssue(i)  BY <2>3 DEF CloseIssue, OwnedInv, TickOwnsClaims
  <2>4. CASE ExternallyClosed(i)
    <3>1. \/ closure' = closure \/ closure' = SetState(i, "cancelled")
      BY <2>4 DEF ExternallyClosed, CancelPending
    <3>2. closure' # SetState(i, "cancelled")  BY SetFacts DEF ClosureStates
    <3>3. closure' = closure  BY <3>1, <3>2
    <3> QED  BY <3>3 DEF OwnedInv, Shut
  <2> QED  BY <2>1, <2>2, <2>3, <2>4
<1> QED  BY <1>1, OwnedAlways, ServiceRunsScheduler, PTL DEF NeverClosesCancelled

(***************************************************************************)
(* Under the same condition a settled row keeps its verdict until the next *)
(* answer schedules it anew (finalize_closure of db.py).                   *)
(***************************************************************************)
THEOREM VerdictsStand ==
  ASSUME "reschedules" \notin Happenings
  PROVE  ServiceSpec => VerdictIsFinal
<1>1. TableTyped /\ SchedTyped /\ OwnedInv /\ [ClosureNext]_closureVars
      => [\A i \in Issues : closure[i].state \in Settled /\ closure'[i] # closure[i]
                            => closure'[i].state = "pending"]_closureVars
  <2> SUFFICES ASSUME TableTyped, SchedTyped, OwnedInv, [ClosureNext]_closureVars,
                      NEW i \in Issues, closure[i].state \in Settled, closure'[i] # closure[i]
               PROVE  closure'[i].state = "pending"
    OBVIOUS
  <2>0. closure[i].state \notin {"pending", "claimed"}  BY DEF Settled
  <2>1. ASSUME NEW j \in Issues, Answer(j) PROVE closure'[i].state = "pending"
    <3>1. closure' = [closure EXCEPT ![j] = Scheduled] /\ Scheduled.state = "pending"
      BY <2>1 DEF Answer, Scheduled
    <3> QED  BY <3>1 DEF TableTyped
  <2>2. ASSUME NEW j \in Issues PROVE ~WindowEnds(j)
    BY <2>0 DEF WindowEnds, TableTyped
  <2>3. ~Tick
    <3>1. i \notin Due  BY <2>0 DEF Due
    <3> QED  BY <3>1 DEF Tick
  <2>4. ASSUME NEW j \in Issues, NEW s \in ClosureStates, closure' = SetState(j, s)
        PROVE  j = i
    BY <2>4, SetFacts
  <2>5. i \notin cur  BY <2>0 DEF OwnedInv, TickOwnsClaims
  <2> QED  BY <2>0, <2>1, <2>2, <2>3, <2>4, <2>5, TableMoves DEF ClosureStates
<1> QED  BY <1>1, OwnedAlways, ServiceRunsScheduler, PTL DEF VerdictIsFinal
=============================================================================
