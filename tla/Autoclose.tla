------------------------------ MODULE Autoclose ------------------------------
(***************************************************************************)
(* The scheduler that closes answered question issues after a quiet window *)
(* (python/robomp/src/autoclose.py, the pending_closures part of db.py and *)
(* the webhook's cancellation hook in server.py).                          *)
(*                                                                         *)
(* closure is a durable table.  A tick claims every due row in one         *)
(* transaction and then settles the rows one after the other over two      *)
(* GitHub calls each; the webhook and the agents write the same table      *)
(* between any two of those calls.  What the tick still has to do (batch,  *)
(* cur) is in memory only.                                                 *)
(***************************************************************************)
EXTENDS Naturals, FiniteSets

CONSTANTS
    Issues,
    Happenings   \* which of "reschedules" (an agent answers an issue whose row
                 \* the tick holds), "outages" (the transport fails for good)
                 \* and "interrupts" (the scheduler ends in mid-tick) may happen

VARIABLES
    closure,  \* [Issues -> Closure], pending_closures
    batch,    \* rows of the running tick still to be processed
    cur,      \* the row being processed, at most one
    sched,    \* where the scheduler is
    open,     \* issues open on GitHub
    voted,    \* issues whose author voted the watched comment down
    lost      \* history: rows a tick claimed and gave up without a word

closureVars == <<closure, batch, cur, sched, open, voted, lost>>

ClosureStates == {"none", "pending", "claimed", "closed", "cancelled"}
Settled == {"closed", "cancelled"}
Sched == {"off", "idle", "ticking", "reading", "closing"}

ClosureInit ==
    /\ closure = [i \in Issues |-> [state |-> "none", due |-> FALSE]]
    /\ batch = {} /\ cur = {}
    /\ sched = "idle"
    /\ open = Issues
    /\ voted = {} /\ lost = {}

SetState(i, s) == [closure EXCEPT ![i].state = s]

-----------------------------------------------------------------------------
(* The other writers of the table.                                         *)

ScheduledBare == [state |-> "pending"]
Scheduled == [state |-> "pending", due |-> FALSE]

\* gh_post_comment answered a question issue: upsert_pending_closure.
Answer(i) ==
    /\ i \in open
    /\ i \in batch \cup cur => "reschedules" \in Happenings
    /\ closure' = [closure EXCEPT ![i] = Scheduled]
    /\ voted' = voted \ {i}
    /\ lost' = lost \ {i}
    /\ UNCHANGED <<batch, cur, sched, open>>

CancelLive(i) ==
    IF closure[i].state \in {"pending", "claimed"} THEN SetState(i, "cancelled") ELSE closure

\* cancel_pending_closure: a no-op unless the row is pending.
CancelPending(i) ==
    IF closure[i].state = "pending" THEN SetState(i, "cancelled") ELSE closure

HumanReply(i) ==
    /\ closure' = CancelPending(i)
    /\ UNCHANGED <<batch, cur, sched, open, voted, lost>>

ExternallyClosed(i) ==
    /\ i \in open
    /\ open' = open \ {i}
    /\ closure' = CancelPending(i)
    /\ UNCHANGED <<batch, cur, sched, voted, lost>>

Downvote(i) ==
    /\ closure[i].state # "none"
    /\ voted' = voted \cup {i}
    /\ UNCHANGED <<closure, batch, cur, sched, open, lost>>

WindowEnds(i) ==
    /\ closure[i].state = "pending" /\ ~closure[i].due
    /\ closure' = [closure EXCEPT ![i].due = TRUE]
    /\ UNCHANGED <<batch, cur, sched, open, voted, lost>>

-----------------------------------------------------------------------------
(* The tick.                                                               *)

DueAtAll == {i \in Issues : closure[i].due}
Due == {i \in Issues : closure[i].state = "pending" /\ closure[i].due}

\* claim_due_closures.
Tick ==
    /\ sched = "idle"
    /\ Due # {}
    /\ closure' = [i \in Issues |-> IF i \in Due
                                    THEN [closure[i] EXCEPT !.state = "claimed"]
                                    ELSE closure[i]]
    /\ batch' = Due
    /\ sched' = "ticking"
    /\ UNCHANGED <<cur, open, voted, lost>>

TakeRow(i) ==
    /\ sched = "ticking"
    /\ i \in batch
    /\ batch' = batch \ {i}
    /\ cur' = {i}
    /\ sched' = "reading"
    /\ UNCHANGED <<closure, open, voted, lost>>

EndTick ==
    /\ sched = "ticking"
    /\ batch = {}
    /\ sched' = "idle"
    /\ UNCHANGED <<closure, batch, cur, open, voted, lost>>

RequeueNever(i) == closure

\* requeue_claimed_closure.
Requeue(i) ==
    IF closure[i].state = "claimed" THEN SetState(i, "pending") ELSE closure

\* finalize_closure, whatever the row has become.
Finalize(i, s) == SetState(i, s)

RowDone == cur' = {} /\ sched' = "ticking"

\* list_comment_reactions answers: the author's vote decides.
ReadReactions(i) ==
    /\ sched = "reading" /\ i \in cur
    /\ IF i \in voted
         THEN closure' = Finalize(i, "cancelled") /\ RowDone
         ELSE closure' = closure /\ cur' = cur /\ sched' = "closing"
    /\ UNCHANGED <<batch, open, voted, lost>>

\* close_issue succeeds.
CloseIssue(i) ==
    /\ sched = "closing" /\ i \in cur
    /\ open' = open \ {i}
    /\ closure' = Finalize(i, "closed")
    /\ RowDone
    /\ UNCHANGED <<batch, voted, lost>>

\* close_issue answers 404.
AlreadyGone(i) ==
    /\ sched = "closing" /\ i \in cur
    /\ i \notin open
    /\ closure' = Finalize(i, "cancelled")
    /\ RowDone
    /\ UNCHANGED <<batch, open, voted, lost>>

\* Either call answers with another GitHub error.
GitHubFails(i) ==
    /\ sched \in {"reading", "closing"} /\ i \in cur
    /\ closure' = Requeue(i)
    /\ RowDone
    /\ UNCHANGED <<batch, open, voted, lost>>

\* The scheduler forgets its rows: their claims stay in the table.
Abandon(next) ==
    /\ lost' = lost \cup batch \cup cur
    /\ batch' = {} /\ cur' = {}
    /\ sched' = next
    /\ UNCHANGED <<closure, open, voted>>

\* The transport is down for longer than the client retries: httpx's own
\* exception passes _process_row and ends the tick.
TickFails ==
    /\ "outages" \in Happenings
    /\ sched \in {"reading", "closing"}
    /\ Abandon("idle")

\* stop() outlasts its five seconds and cancels the tick, or the process dies.
SchedulerOff ==
    /\ sched # "off"
    /\ sched # "idle" => "interrupts" \in Happenings
    /\ Abandon("off")

SchedulerOn ==
    /\ sched = "off"
    /\ sched' = "idle"
    /\ UNCHANGED <<closure, batch, cur, open, voted, lost>>

-----------------------------------------------------------------------------

World(i) == Answer(i) \/ HumanReply(i) \/ ExternallyClosed(i) \/ Downvote(i)
RowStep(i) == TakeRow(i) \/ ReadReactions(i) \/ CloseIssue(i) \/ AlreadyGone(i)
              \/ GitHubFails(i)

TickStep(i) == TakeRow(i) \/ ReadReactions(i) \/ CloseIssue(i) \/ GitHubFails(i)

ClosureNext ==
    \/ \E i \in Issues : World(i) \/ WindowEnds(i) \/ RowStep(i)
    \/ Tick \/ EndTick \/ TickFails \/ SchedulerOff \/ SchedulerOn

\* Windows end, the loop ticks, calls are answered, and answered well if they
\* are made often enough; the process is started again.
ClosureFairness ==
    /\ WF_closureVars(Tick \/ EndTick) /\ WF_closureVars(SchedulerOn)
    /\ \A i \in Issues :
          /\ WF_closureVars(WindowEnds(i)) /\ WF_closureVars(TickStep(i))
          /\ SF_closureVars(ReadReactions(i)) /\ SF_closureVars(CloseIssue(i))

ClosureSpec == ClosureInit /\ [][ClosureNext]_closureVars /\ ClosureFairness

-----------------------------------------------------------------------------

ClosureTypeOK ==
    /\ closure \in [Issues -> [state : ClosureStates, due : BOOLEAN]]
    /\ batch \subseteq Issues /\ cur \subseteq Issues
    /\ sched \in Sched
    /\ open \subseteq Issues /\ voted \subseteq Issues /\ lost \subseteq Issues

\* A claimed row is in the hands of the tick, or of nobody ever again, and
\* the tick holds claimed rows only: a reply, a downvote or an external close
\* that comes during the tick leaves the row to it.
TickOwnsClaims ==
    \A i \in Issues : closure[i].state = "claimed" <=> i \in batch \cup cur \cup lost

\* "The loop is the only writer of terminal closed/cancelled states for rows
\* it has claimed": an issue is closed by the scheduler only while its row is
\* claimed, never after the row was cancelled.
NeverClosesCancelled ==
    [][\A i \in Issues : i \in open /\ i \notin open' /\ closure'[i].state = "closed"
                         => closure[i].state = "claimed"]_closureVars

\* A settled row keeps its verdict until the next answer schedules it anew.
VerdictIsFinal ==
    [][\A i \in Issues : closure[i].state \in Settled /\ closure'[i] # closure[i]
                         => closure'[i].state = "pending"]_closureVars

\* "A failed close requeues the row to pending so the next tick retries": a
\* claimed row does not stay claimed.
ClaimsAreResolved ==
    \A i \in Issues : closure[i].state = "claimed" ~> closure[i].state # "claimed"

\* Every scheduled closure is settled, unless a tick lost it.
ClosuresSettle ==
    \A i \in Issues : closure[i].state = "pending" ~> closure[i].state \in Settled \/ i \in lost
=============================================================================
