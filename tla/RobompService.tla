---------------------------- MODULE RobompService ----------------------------
(***************************************************************************)
(* The robomp service: the event queue and the auto-close scheduler in one *)
(* process (server.py).  A webhook delivery writes both tables, an agent   *)
(* the queue runs schedules closures, and start, shutdown and death reach  *)
(* both components.                                                        *)
(***************************************************************************)
EXTENDS RobompQueue

CONSTANTS
    Happenings,  \* of Autoclose
    KindOf       \* [Events -> {"comment", "closed", "other"}]

VARIABLES closure, batch, cur, sched, open, voted, lost

INSTANCE Autoclose

tableVars == <<closure, batch, cur, sched, open, voted, lost>>
serviceVars == <<queueVars, tableVars>>

ServiceInit == QueueInit /\ ClosureInit

\* The delivery handler: the closure is cancelled before the event is stored.
Deliver(e) ==
    /\ Webhook(e)
    /\ CASE KindOf[e] = "comment" -> HumanReply(IssueOf[e])
         [] KindOf[e] = "closed" -> ExternallyClosed(IssueOf[e])
         [] OTHER -> UNCHANGED tableVars

\* GitHub delivers a comment again: the event is a duplicate, the closure is
\* cancelled once more.
Redeliver(e) ==
    /\ server = "up"
    /\ row[e].state # "none"
    /\ KindOf[e] = "comment"
    /\ HumanReply(IssueOf[e])
    /\ UNCHANGED queueVars

AgentAnswers(e) ==
    /\ thread[e] = "driving"
    /\ Answer(IssueOf[e])
    /\ UNCHANGED queueVars

ServiceStart == Start /\ SchedulerOn
ServiceStop == BeginStop /\ SchedulerOff
ServiceDies == Die /\ IF sched = "off" THEN UNCHANGED tableVars ELSE SchedulerOff

QueueStep ==
    /\ \/ \E e \in Events : Replay(e) \/ Retrigger(e) \/ Cancel(e) \/ Dispatch(e) \/ RunStep(e)
       \/ Rest \/ StopStep
    /\ UNCHANGED tableVars

ClosureStep ==
    /\ \/ \E i \in Issues : Downvote(i) \/ WindowEnds(i) \/ RowStep(i)
       \/ Tick \/ EndTick \/ TickFails
    /\ UNCHANGED queueVars

ServiceNext ==
    \/ \E e \in Events : Deliver(e) \/ Redeliver(e) \/ AgentAnswers(e)
    \/ QueueStep \/ ClosureStep
    \/ ServiceStart \/ ServiceStop \/ ServiceDies

(***************************************************************************)
(* The fairness of the two components, over the steps of the whole.        *)
(***************************************************************************)
QueueStays == UNCHANGED queueVars
TablesStay == UNCHANGED tableVars

ServiceFairness ==
    /\ WF_serviceVars(Rest /\ TablesStay) /\ WF_serviceVars(StopStep /\ TablesStay)
    /\ WF_serviceVars(ServiceStart) /\ WF_serviceVars(server = "stopped" /\ ServiceDies)
    /\ \A e \in Events :
          /\ WF_serviceVars(Dispatch(e) /\ TablesStay)
          /\ WF_serviceVars((StartThread(e) \/ EndSetup(e) \/ EndRun(e)) /\ TablesStay)
          /\ WF_serviceVars(Arm(e) /\ TablesStay)
          /\ SF_serviceVars((AcquireSlot(e) \/ Release(e)) /\ TablesStay)
    /\ WF_serviceVars((Tick \/ EndTick) /\ QueueStays)
    /\ \A i \in Issues :
          /\ WF_serviceVars(WindowEnds(i) /\ QueueStays)
          /\ WF_serviceVars(TickStep(i) /\ QueueStays)
          /\ SF_serviceVars(ReadReactions(i) /\ QueueStays)
          /\ SF_serviceVars(CloseIssue(i) /\ QueueStays)

ServiceSpec == ServiceInit /\ [][ServiceNext]_serviceVars /\ ServiceFairness
=============================================================================
