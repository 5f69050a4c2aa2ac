----------------------------- MODULE RobompQueue -----------------------------
(***************************************************************************)
(* The durable event queue of the robomp service and the worker pool that  *)
(* drains it (python/robomp/src/queue.py, slot_pool.py, cancellation.py    *)
(* and the events part of db.py), in the slot mode of a root deployment.   *)
(*                                                                         *)
(* row is the SQLite table: it outlives the process.  Everything else dies *)
(* with the process, except the omp agents it spawned: a crash leaves them *)
(* running, as orphans, until the next start reaps every slot.             *)
(*                                                                         *)
(* An event runs as one asyncio task (phase) that, once its workspace is   *)
(* set up, hands over to a worker thread (thread) that spawns and drives   *)
(* the agent.  Cancelling the task does not stop the thread.               *)
(***************************************************************************)
EXTENDS Naturals, FiniteSets

CONSTANTS
    Events,      \* deliveries
    Issues,      \* issue keys; an event without one has a key of its own
    IssueOf,     \* [Events -> Issues]
    Slots,       \* uids of the slot pool
    NoSlot,
    MaxRetries,  \* settings.event_max_retries
    MaxStarts,   \* bound: process starts
    MaxReplays   \* bound: requests by an operator to run an event again

ASSUME QueueAssumption ==
    /\ IssueOf \in [Events -> Issues]
    /\ NoSlot \notin Slots
    /\ MaxRetries \in Nat /\ MaxStarts \in Nat /\ MaxReplays \in Nat

VARIABLES
    row,        \* [Events -> Row], the events table
    older,      \* pairs of deliveries of the table in the order of received_at
    server,     \* where the process is between start and exit
    starts, replays,
    disp,       \* the dispatch loop: [at, ev]
    inflight,   \* _inflight, issue keys
    phase,      \* [Events -> Phase], the _run_event task of the event
    slotOf,     \* [Events -> Slots \cup {NoSlot}]
    available,  \* the slots in the pool
    thread,     \* [Events -> Thread], the worker thread of the event
    hooks,      \* _cancel_hooks
    cancelled,  \* _cancelled
    shutCancelled, \* _shutdown_cancelled
    toStop,     \* still_running, what stop() has yet to interrupt
    orphans     \* events whose agent outlived its process

dbVars == <<row, older>>
poolVars == <<disp, inflight, phase, slotOf, available>>
cancelVars == <<hooks, cancelled, shutCancelled>>
lifeVars == <<server, starts, toStop, orphans>>
queueVars == <<row, older, replays, disp, inflight, phase, slotOf,
               available, thread, hooks, cancelled, shutCancelled, server,
               starts, toStop, orphans>>

RowStates == {"none", "queued", "running", "done", "failed", "skipped"}
Inactive == {"done", "failed", "skipped"}
Phase == {"none", "slot", "setup", "run", "reclaim"}
Thread == {"none", "entering", "driving", "stopping"}
Server == {"down", "up", "draining", "interrupting", "stopped"}

\* attempts is only ever compared with 0 and MaxRetries, so it saturates
\* above MaxRetries.
Saturated(n) == IF n > MaxRetries THEN MaxRetries + 1 ELSE n

Idle == [at |-> "idle", ev |-> {}]
Off == [at |-> "off", ev |-> {}]
Asleep == [at |-> "asleep", ev |-> {}]
Claimed(e) == [at |-> "claimed", ev |-> {e}]

NoRow == [state |-> "none", attempts |-> 0, later |-> FALSE]

QueueInit ==
    /\ row = [e \in Events |-> NoRow]
    /\ older = {}
    /\ server = "up" /\ starts = 1 /\ replays = 0
    /\ disp = Idle
    /\ inflight = {}
    /\ phase = [e \in Events |-> "none"]
    /\ slotOf = [e \in Events |-> NoSlot]
    /\ available = Slots
    /\ thread = [e \in Events |-> "none"]
    /\ hooks = {} /\ cancelled = {} /\ shutCancelled = {}
    /\ toStop = {} /\ orphans = {}

-----------------------------------------------------------------------------
(* Requests: the webhook, the operator's replay, trigger and cancel.       *)

\* A new row is the youngest; a row that is replaced was in the order before.
Arrive(e) ==
    LET others == {f \in Events \ {e} : row[f].state # "none"}
    IN older' = {p \in older : e \notin {p[1], p[2]}} \cup (others \X {e})

\* A delivery is recorded once; what routing rejects is recorded as skipped.
Webhook(e) ==
    /\ server = "up"
    /\ row[e].state = "none"
    /\ \E s \in {"queued", "skipped"} : row' = [row EXCEPT ![e].state = s]
    /\ Arrive(e)
    /\ UNCHANGED <<replays, poolVars, thread, cancelVars, lifeVars>>

\* requeue_event from an inactive state: by HTTP, or by the command line at
\* any time.  attempts keeps its value.
Replay(e) ==
    /\ row[e].state \in Inactive
    /\ replays < MaxReplays
    /\ replays' = replays + 1
    /\ row' = [row EXCEPT ![e].state = "queued", ![e].later = FALSE]
    /\ UNCHANGED <<older, poolVars, thread, cancelVars, lifeVars>>

\* Manual triage: the row is deleted and inserted again.  The checks and the
\* replacement are one transaction after the GitHub reads.
Retrigger(e) ==
    /\ row[e].state \in Inactive \cup {"none"}
    /\ replays < MaxReplays
    /\ replays' = replays + 1
    /\ row' = [row EXCEPT ![e] = [NoRow EXCEPT !.state = "queued"]]
    /\ Arrive(e)
    /\ UNCHANGED <<poolVars, thread, cancelVars, lifeVars>>

\* The backoff of a scheduled retry elapses.
RetryDue(e) ==
    /\ row[e].later
    /\ row' = [row EXCEPT ![e].later = FALSE]
    /\ UNCHANGED <<older, replays, poolVars, thread, cancelVars, lifeVars>>

\* Firing a hook kills the agent; the thread then sees its turn fail, or has
\* already seen it end.
Fired(e) == IF e \in hooks /\ thread[e] = "driving"
            THEN [thread EXCEPT ![e] = "stopping"] ELSE thread

Cancel(e) ==
    /\ server = "up"
    /\ row[e].state = "running"
    /\ cancelled' = cancelled \cup {e}
    /\ hooks' = hooks \ {e}
    /\ thread' = Fired(e)
    /\ UNCHANGED <<dbVars, replays, poolVars, shutCancelled, lifeVars>>

-----------------------------------------------------------------------------
(* The dispatch loop.  It holds _inflight_lock from the claim to the end   *)
(* of the put-back's sleep.                                                *)

Unblocked(e) ==
    /\ row[e].state = "queued" /\ ~row[e].later
    /\ \A f \in Events : row[f].state = "running" => IssueOf[f] # IssueOf[e]

\* claim_next_event, on a thread while the loop holds the lock.
Claim(e) ==
    /\ disp = Idle
    /\ Unblocked(e)
    /\ \A f \in Events : Unblocked(f) => <<f, e>> \notin older
    /\ row' = [row EXCEPT ![e].state = "running",
                          ![e].attempts = Saturated(@ + 1)]
    /\ disp' = Claimed(e)
    /\ UNCHANGED <<older, replays, inflight, phase, slotOf, available,
                   thread, cancelVars, lifeVars>>

KeyAssumedFree(e) == TRUE
KeyIsFree(e) == IssueOf[e] \notin inflight

\* The key is free: the row becomes a task.
Admit(e) ==
    /\ disp = Claimed(e)
    /\ KeyIsFree(e)
    /\ inflight' = inflight \cup {IssueOf[e]}
    /\ phase' = [phase EXCEPT ![e] = "slot"]
    /\ disp' = Idle
    /\ UNCHANGED <<dbVars, replays, slotOf, available, thread, cancelVars, lifeVars>>

\* Another task still holds the key: the row goes back, its attempt counted.
PutBack(e) ==
    /\ disp = Claimed(e)
    /\ ~KeyIsFree(e)
    /\ row' = [row EXCEPT ![e].state = "queued", ![e].later = FALSE]
    /\ disp' = Asleep
    /\ UNCHANGED <<older, replays, inflight, phase, slotOf, available,
                   thread, cancelVars, lifeVars>>

Rest ==
    /\ disp = Asleep
    /\ disp' = Idle
    /\ UNCHANGED <<dbVars, replays, inflight, phase, slotOf, available, thread,
                   cancelVars, lifeVars>>

-----------------------------------------------------------------------------
(* One event: _run_event, _dispatch_and_mark and the worker thread.        *)

AcquireSlot(e) ==
    /\ phase[e] = "slot"
    /\ \E s \in available :
          /\ slotOf' = [slotOf EXCEPT ![e] = s]
          /\ available' = available \ {s}
    /\ phase' = [phase EXCEPT ![e] = "setup"]
    /\ UNCHANGED <<dbVars, replays, disp, inflight, thread, cancelVars, lifeVars>>

\* The workspace is ready and the RPC driver goes to a thread.
StartThread(e) ==
    /\ phase[e] = "setup"
    /\ phase' = [phase EXCEPT ![e] = "run"]
    /\ thread' = [thread EXCEPT ![e] = "entering"]
    /\ UNCHANGED <<dbVars, replays, disp, inflight, slotOf, available, cancelVars,
                   lifeVars>>

\* RpcClient.__enter__ has spawned the agent; the thread arms the hook, or
\* fires it at once when the cancel came first.
Arm(e) ==
    /\ thread[e] = "entering"
    /\ IF e \in cancelled
         THEN /\ thread' = [thread EXCEPT ![e] = "stopping"]
              /\ hooks' = hooks
         ELSE /\ thread' = [thread EXCEPT ![e] = "driving"]
              /\ hooks' = hooks \cup {e}
    /\ UNCHANGED <<dbVars, replays, poolVars, cancelled, shutCancelled, lifeVars>>

\* SlotPool.release gives back what acquire took.
ReturnedUnchecked(e) == {slotOf[e]}
ReturnedNever(e) == {}
Returned(e) == {slotOf[e]} \ {NoSlot}

ForgottenNever(e) == {}
Forgotten(e) == {e}

\* The finally of _run_event: forget the marks, reap and return the slot,
\* then reclaim caches with the key still in flight.
Cleanup(e, next) ==
    /\ cancelled' = cancelled \ Forgotten(e)
    /\ shutCancelled' = shutCancelled \ {e}
    /\ hooks' = hooks \ {e}
    /\ available' = available \cup Returned(e)
    /\ slotOf' = [slotOf EXCEPT ![e] = NoSlot]
    /\ phase' = [phase EXCEPT ![e] = next]

Marked(e, s) == [row EXCEPT ![e].state = s, ![e].later = FALSE]

SucceedRegardless(e) == row' = Marked(e, "done")

\* _dispatch returned: done, unless the operator cancelled it meanwhile.
Succeed(e) == row' = Marked(e, IF e \in cancelled THEN "failed" ELSE "done")

\* _dispatch raised.
Fail(e) ==
    /\ row' = CASE e \in shutCancelled -> row
                [] e \notin shutCancelled /\ e \in cancelled -> Marked(e, "failed")
                [] OTHER -> IF row[e].attempts \in 1..MaxRetries
                              THEN [row EXCEPT ![e].state = "queued", ![e].later = TRUE]
                              ELSE Marked(e, "failed")

Outcome(e) == Succeed(e) \/ Fail(e)

\* An event that needs no agent, or whose setup fails.
EndSetup(e) ==
    /\ phase[e] = "setup"
    /\ Outcome(e)
    /\ Cleanup(e, "reclaim")
    /\ UNCHANGED <<older, replays, disp, inflight, thread, lifeVars>>

\* The thread ends, with the turn's result or an error: RpcClient failed to
\* start, the turn failed, the hard timeout or a hook killed the agent.
EndRun(e) ==
    /\ phase[e] = "run"
    /\ thread[e] # "none"
    /\ \/ thread[e] # "entering" /\ Succeed(e)
       \/ Fail(e)
    /\ thread' = [thread EXCEPT ![e] = "none"]
    /\ Cleanup(e, "reclaim")
    /\ UNCHANGED <<older, replays, disp, inflight, lifeVars>>

\* A thread whose task was cancelled ends with nobody to hear of it.
EndDetached(e) ==
    /\ thread[e] # "none"
    /\ phase[e] # "run"
    /\ thread' = [thread EXCEPT ![e] = "none"]
    /\ hooks' = hooks \ {e}
    /\ UNCHANGED <<dbVars, replays, poolVars, cancelled, shutCancelled, lifeVars>>

\* Caches are gone and _release gets _inflight_lock.
Release(e) ==
    /\ phase[e] = "reclaim"
    /\ disp.at \notin {"claimed", "asleep"}
    /\ inflight' = inflight \ {IssueOf[e]}
    /\ phase' = [phase EXCEPT ![e] = "none"]
    /\ UNCHANGED <<dbVars, replays, disp, slotOf, available, thread, cancelVars,
                   lifeVars>>

-----------------------------------------------------------------------------
(* Shutdown, crash and start.                                              *)

Tasks == {e \in Events : phase[e] # "none"}

\* stop(): the dispatcher is cancelled wherever it is; a row it had claimed
\* stays running.
BeginStop ==
    /\ server = "up"
    /\ starts < MaxStarts
    /\ server' = "draining"
    /\ disp' = Off
    /\ UNCHANGED <<dbVars, replays, inflight, phase, slotOf, available, thread,
                   cancelVars, starts, toStop, orphans>>

DrainTimeout ==
    /\ server = "draining"
    /\ Tasks # {}
    /\ server' = "interrupting"
    /\ toStop' = Tasks
    /\ UNCHANGED <<dbVars, replays, poolVars, thread, cancelVars, starts, orphans>>

\* One round of the loop over still_running: fire the hook if there is one,
\* cancel the task otherwise.  A cancelled task cleans up and leaves its row
\* and its thread as they are.
Interrupt(e) ==
    /\ server = "interrupting"
    /\ e \in toStop
    /\ toStop' = toStop \ {e}
    /\ CASE phase[e] = "none" ->
              UNCHANGED <<inflight, phase, slotOf, available, thread, cancelVars>>
         [] phase[e] # "none" /\ e \in hooks ->
              /\ shutCancelled' = shutCancelled \cup {e}
              /\ hooks' = hooks \ {e}
              /\ thread' = Fired(e)
              /\ UNCHANGED <<inflight, phase, slotOf, available, cancelled>>
         [] phase[e] # "none" /\ e \notin hooks ->
              /\ Cleanup(e, "none")
              /\ inflight' = IF phase[e] = "reclaim" THEN inflight
                             ELSE inflight \ {IssueOf[e]}
              /\ UNCHANGED thread
    /\ UNCHANGED <<dbVars, replays, disp, server, starts, orphans>>

StopReturns ==
    /\ \/ server = "draining" /\ Tasks = {}
       \/ server = "interrupting" /\ toStop = {}
    /\ server' = "stopped"
    /\ UNCHANGED <<dbVars, replays, poolVars, thread, cancelVars, starts, toStop,
                   orphans>>

\* The process dies: killed, crashed, or exited after stop().
Die ==
    /\ server # "down"
    /\ server = "up" => starts < MaxStarts
    /\ server' = "down"
    /\ disp' = Off
    /\ inflight' = {} /\ toStop' = {}
    /\ phase' = [e \in Events |-> "none"]
    /\ slotOf' = [e \in Events |-> NoSlot]
    /\ available' = Slots
    /\ thread' = [e \in Events |-> "none"]
    /\ hooks' = {} /\ cancelled' = {} /\ shutCancelled' = {}
    /\ orphans' = orphans \cup {e \in Events : thread[e] = "driving"}
    /\ UNCHANGED <<dbVars, replays, starts>>

StuckStay == row
ResetStuckRunning ==
    [e \in Events |-> IF row[e].state = "running"
                      THEN [row[e] EXCEPT !.state = "queued", !.later = FALSE]
                      ELSE row[e]]

NobodyReaped == orphans
ReapAllSlots == {}

\* start(): every slot is reaped, then rows left running are queued again,
\* then the dispatcher starts.
Start ==
    /\ server = "down"
    /\ starts' = starts + 1
    /\ server' = "up"
    /\ orphans' = ReapAllSlots
    /\ row' = ResetStuckRunning
    /\ disp' = Idle
    /\ UNCHANGED <<older, replays, inflight, phase, slotOf, available,
                   thread, cancelVars, toStop>>

-----------------------------------------------------------------------------

Request(e) == Webhook(e) \/ Replay(e) \/ Retrigger(e) \/ Cancel(e)
Dispatch(e) == RetryDue(e) \/ Claim(e) \/ Admit(e) \/ PutBack(e)
RunStep(e) == AcquireSlot(e) \/ StartThread(e) \/ Arm(e) \/ EndSetup(e)
              \/ EndRun(e) \/ EndDetached(e) \/ Release(e)
StopStep == DrainTimeout \/ StopReturns \/ \E e \in Events : Interrupt(e)

QueueNext ==
    \/ \E e \in Events : Request(e) \/ Dispatch(e) \/ RunStep(e)
    \/ Rest \/ BeginStop \/ StopStep \/ Die \/ Start

QueueSpec == QueueInit /\ [][QueueNext]_queueVars

(***************************************************************************)
(* Fairness.  The event loop runs every task that is ready, threads end    *)
(* (the RPC driver by its hard timeout, git by its own), timers fire and   *)
(* the supervisor starts a dead process again.  Release and AcquireSlot    *)
(* need the strong form: asyncio.Lock and asyncio.Queue serve their        *)
(* waiters first come, first served.  Nothing is assumed of a thread that  *)
(* no task waits for, of requests, of stop() and of death.                 *)
(***************************************************************************)
QueueFairness ==
    /\ WF_queueVars(Rest) /\ WF_queueVars(Start)
    /\ WF_queueVars(StopStep)
    /\ WF_queueVars(server = "stopped" /\ Die)
    /\ \A e \in Events :
          /\ WF_queueVars(Dispatch(e))
          /\ WF_queueVars(StartThread(e) \/ EndSetup(e) \/ EndRun(e))
          /\ WF_queueVars(Arm(e))
          /\ SF_queueVars(AcquireSlot(e) \/ Release(e))

QueueFairSpec == QueueSpec /\ QueueFairness

-----------------------------------------------------------------------------

QueueTypeOK ==
    /\ row \in [Events -> [state : RowStates, attempts : 0..(MaxRetries + 1),
                           later : BOOLEAN]]
    /\ older \subseteq Events \X Events
    /\ server \in Server /\ starts \in Nat /\ replays \in Nat
    /\ disp \in {Idle, Off, Asleep} \cup {Claimed(e) : e \in Events}
    /\ inflight \subseteq Issues
    /\ phase \in [Events -> Phase]
    /\ slotOf \in [Events -> Slots \cup {NoSlot}]
    /\ available \subseteq Slots
    /\ thread \in [Events -> Thread]
    /\ hooks \subseteq Events /\ cancelled \subseteq Events
    /\ shutCancelled \subseteq Events /\ toStop \subseteq Events
    /\ orphans \subseteq Events

\* The workspace of an issue has one user: while an event of the issue sets
\* it up, drives an agent in it or strips its caches, no other event of the
\* issue does ("nothing can re-enter ensure_workspace for this issue
\* mid-reclaim", queue.py).
WorkspaceExclusive ==
    \A e, f \in Events :
        e # f /\ IssueOf[e] = IssueOf[f]
        => phase[e] \notin {"setup", "run", "reclaim"} \/ phase[f] \notin {"setup", "run", "reclaim"}

\* An issue has at most one live agent, over crashes and restarts too: the
\* orphans of a dead process are gone before an event of theirs runs again.
LiveAgents == {e \in Events : thread[e] = "driving"} \cup orphans
OneAgentPerIssue ==
    /\ \A e, f \in LiveAgents : IssueOf[e] = IssueOf[f] => e = f
    /\ \A e \in orphans, f \in Events : IssueOf[e] = IssueOf[f] => thread[f] = "none"

\* Until stop() interrupts, a slot is in the pool or with one event, and a
\* worker thread runs only under a slot its event holds.
SlotsExclusive ==
    server \in {"up", "draining"} =>
        /\ \A e \in Events : thread[e] # "none" => slotOf[e] \in Slots
        /\ \A e, f \in Events : slotOf[e] = slotOf[f] /\ e # f => slotOf[e] = NoSlot
        /\ available = Slots \ {slotOf[e] : e \in Events}

\* A cancel mark never outlives the run it was meant for: an event that has
\* come to rest carries none, so a later replay is not killed by it.
NoStaleCancel ==
    \A e \in Events : row[e].state \in Inactive \cup {"none"} => e \notin cancelled

\* Until stop() interrupts, the mark of a cancelled event goes only when its
\* row is failed: no path lets it end done or be retried.
CancelFailsTheRow ==
    [][\A e \in Events :
          e \in cancelled /\ e \notin cancelled' /\ server' \in {"up", "draining"}
          => row'[e].state = "failed"]_queueVars

\* An accepted event comes to rest, through failures, restarts and
\* put-backs: the queue loses none and starves none.
EveryEventSettles ==
    \A e \in Events : row[e].state \in {"queued", "running"} ~> row[e].state \in Inactive
=============================================================================
