------------------------------- MODULE AsyncJobs -------------------------------
(***************************************************************************)
(* Background jobs of a process and the way their results come back:       *)
(* AsyncJobManager (packages/coding-agent/src/async/job-manager.ts), the   *)
(* delivery sink and yield queue of every AgentSession (agent-session.ts,  *)
(* yield-queue.ts), the foreground wait of the bash and eval tools and the *)
(* hub tool's wait, jobs and cancel.                                       *)
(*                                                                         *)
(* Jobs are the AsyncJob objects, Ids the strings they are filed under:    *)
(* an id is free again once its row is evicted, and everything the manager *)
(* keeps besides the rows (suppression, watches, eviction timers,          *)
(* deliveries) is keyed by id.  Result texts, labels and progress do not   *)
(* influence control; a job that completed and one that failed take the    *)
(* same path ("finished").  The order of the delivery queue is due time,   *)
(* which is not modelled: any queued delivery may be the next.             *)
(***************************************************************************)
EXTENDS FiniteSets, Naturals

CONSTANTS
    Jobs, Ids,
    Sessions,       \* AgentSession objects that share the manager
    OwnerOf,        \* the agent id of every session
    None,
    MaxRunning,     \* the running-job limit
    MaxTranscript,  \* bound: transcripts a session goes through
    Happenings      \* what the environment may do, see below

(***************************************************************************)
(* "stuck":   a cancelled job may outlive the retention of its row;        *)
(* "reuse":   the id of a row that a session boundary evicted may be given *)
(*            away while a delivery of the old job is still in its sink;   *)
(* "fails":   a sink may throw (the manager retries; the sink of a session  *)
(*            catches the failures of its own formatting);                 *)
(* "message": a peer message may end a hub wait;                           *)
(* "switch":  the user may switch a session to another session file.       *)
(* Otherwise the retention of a row (5 minutes) outlasts the settling of a *)
(* cancelled job, the delivery of a result and a hub wait.                 *)
(***************************************************************************)
ASSUME JobsAssumption ==
    /\ OwnerOf \in [Sessions -> STRING]
    /\ None \notin Jobs \cup Ids \cup Sessions \cup {OwnerOf[x] : x \in Sessions}
    /\ MaxRunning \in Nat \ {0}
    /\ MaxTranscript \in Nat
    /\ Happenings \subseteq {"stuck", "reuse", "fails", "message", "switch"}

VARIABLES
    job,         \* the AsyncJob objects
    row,         \* #jobs: the job filed under an id
    timers,      \* #evictionTimers
    suppressed,  \* #suppressedDeliveries
    watched,     \* #watchedJobs
    delivery,    \* where the result of a job is on its way to a transcript
    loop,        \* the delivery the loop awaits
    sink,        \* #deliverySinks: the session registered for an agent
    session,     \* phase, delivery epoch and transcript of every session
    hubWait,     \* the jobs a session's hub wait is about, and whether it watches
    mgr,         \* "open", "disposing", "closed"
    told,        \* history: jobs whose result a tool call returned
    injected,    \* history: jobs whose result entered a transcript by itself
    gone         \* history: jobs whose result was given up on purpose

rowVars      == <<job, row, timers>>
mutingVars   == <<suppressed, watched>>
deliveryVars == <<delivery, loop>>
sessionVars  == <<sink, session, hubWait>>
historyVars  == <<told, injected, gone>>
vars == <<rowVars, mutingVars, deliveryVars, sessionVars, mgr, historyVars>>

Agents == {OwnerOf[x] : x \in Sessions}

NoJob      == [st |-> "unborn", id |-> None, by |-> None, born |-> 0, front |-> FALSE]
NoWait     == [jobs |-> {}, on |-> FALSE]
NoDelivery == [at |-> "none", to |-> None, via |-> None, epoch |-> 0]

Init ==
    /\ job = [j \in Jobs |-> NoJob]
    /\ row = [i \in Ids |-> None]
    /\ timers = {}
    /\ suppressed = {} /\ watched = {}
    /\ delivery = [j \in Jobs |-> NoDelivery]
    /\ loop = None
    /\ sink = [a \in Agents |-> None]
    /\ session = [x \in Sessions |-> [phase |-> "unborn", epoch |-> 0, transcript |-> 0]]
    /\ hubWait = [x \in Sessions |-> NoWait]
    /\ mgr = "open"
    /\ told = {} /\ injected = {} /\ gone = {}

Owner(j)   == OwnerOf[job[j].by]
Running(j) == job[j].st \in {"queued", "running"}
Filed(j)   == job[j].st # "unborn" /\ row[job[j].id] = j
IdsOf(S)   == {job[j].id : j \in S}

\* isDeliverySuppressed
Muted(i) == i \in suppressed \cup watched

\* The rows an agent owns.
RowsOf(agent) == {j \in Jobs : Filed(j) /\ Owner(j) = agent}

\* Jobs that hold an execution slot: queued ones do not.
Active == {j \in Jobs : Filed(j) /\ job[j].st = "running"}

Open(x) == session[x].phase = "open"

\* Queued deliveries of muted ids are dropped, in flight ones are not.
WithoutQueued(ids) ==
    [j \in Jobs |-> IF delivery[j].at = "queued" /\ job[j].id \in ids THEN NoDelivery
                    ELSE delivery[j]]

\* #scheduleEviction arms (or re-arms) the timer of an id.
ScheduledEviction(ids) == IF mgr = "open" THEN timers \cup ids ELSE timers

\* #evictJob, for several ids.
EvictedRows(ids) == [i \in Ids |-> IF i \in ids THEN None ELSE row[i]]

(***************************************************************************)
(* #enqueueDelivery: routed to whoever owns the row of that id now; with   *)
(* no row to the default sink, which no session installs.                  *)
(***************************************************************************)
RowOwner(i) == IF row[i] = None THEN None ELSE Owner(row[i])

Enqueued(j, mutedIds) ==
    IF job[j].id \in mutedIds THEN delivery
    ELSE [delivery EXCEPT ![j] = [NoDelivery EXCEPT !.at = "queued", !.to = RowOwner(job[j].id)]]

-----------------------------------------------------------------------------
(* Jobs                                                                    *)

\* A delivery of this id, or a hub wait for it, is under way.
UnderWay(i) ==
    \E j \in Jobs : job[j].id = i /\ (\/ delivery[j].at # "none"
                                     \/ \E x \in Sessions : j \in hubWait[x].jobs)

\* register(): under a free id; a foreground tool call suppresses the
\* delivery of the job it is about to wait for.
Register(x, j, i) ==
    /\ Open(x) /\ mgr = "open"
    /\ job[j].st = "unborn"
    /\ row[i] = None /\ ("reuse" \notin Happenings => ~UnderWay(i))
    /\ Cardinality(Active) < MaxRunning
    /\ \E st \in {"queued", "running"}, front \in BOOLEAN :
          /\ front => st = "running"
          /\ job' = [job EXCEPT ![j] = [st |-> st, id |-> i, by |-> x,
                                        born |-> session[x].transcript, front |-> front]]
          /\ suppressed' = IF front THEN suppressed \cup {i} ELSE suppressed \ {i}
          /\ delivery' = IF front THEN WithoutQueued(suppressed' \cup watched) ELSE delivery
    /\ row' = [row EXCEPT ![i] = j]
    /\ UNCHANGED <<timers, watched, loop, sessionVars, mgr, historyVars>>

\* The gate of a queued job opens; the limit is not consulted again.
MarkRunning(j) ==
    /\ job[j].st = "queued"
    /\ job' = [job EXCEPT ![j].st = "running"]
    /\ UNCHANGED <<row, timers, mutingVars, deliveryVars, sessionVars, mgr, historyVars>>

\* The run promise settles: a cancelled job is done, another is delivered.
Settles(j) ==
    /\ \/ /\ job[j].st = "stopping"
          /\ job' = [job EXCEPT ![j].st = "stopped"]
          /\ UNCHANGED delivery
       \/ /\ Running(j)
          /\ job' = [job EXCEPT ![j].st = "finished"]
          /\ delivery' = Enqueued(j, suppressed \cup watched)
    /\ timers' = ScheduledEviction({job[j].id})
    /\ UNCHANGED <<row, mutingVars, loop, sessionVars, mgr, historyVars>>

\* cancel(id), for the job filed under the id.
Stopped(S) == [j \in Jobs |-> IF j \in S /\ Running(j) THEN [job[j] EXCEPT !.st = "stopping"]
                                                       ELSE job[j]]

\* A tool call whose wait is over resumes before any timer fires.
WaitDue ==
    \/ \E j \in Jobs : job[j].front /\ job[j].st \in {"finished", "stopped"}
    \/ \E x \in Sessions : hubWait[x] # NoWait /\ ~hubWait[x].on

\* The retention timer of a row.
EvictionFires(i) ==
    /\ i \in timers /\ ~WaitDue
    /\ "stuck" \notin Happenings => \A j \in Jobs : job[j].id = i => job[j].st # "stopping"
    /\ ~UnderWay(i)
    /\ row' = EvictedRows({i})
    /\ timers' = timers \ {i}
    /\ suppressed' = suppressed \ {i}
    /\ watched' = watched \ {i}
    /\ gone' = IF row[i] # None /\ ~Running(row[i]) THEN gone \cup {row[i]} ELSE gone
    /\ UNCHANGED <<job, deliveryVars, sessionVars, mgr, told, injected>>

-----------------------------------------------------------------------------
(* The foreground wait of bash and eval (raceJobSettlement).               *)

\* The run answered: the tool call returns the result itself.
ForegroundReturns(j) ==
    /\ job[j].front
    /\ job' = [job EXCEPT ![j].front = FALSE]
    /\ told' = told \cup {j}
    /\ UNCHANGED <<row, timers, mutingVars, deliveryVars, sessionVars, mgr, injected, gone>>

\* The tool call is aborted and cancels whatever its id is filed for.
ForegroundAborts(j) ==
    LET i == job[j].id IN
    /\ job[j].front
    /\ job' = [Stopped({row[i]} \ {None}) EXCEPT ![j].front = FALSE]
    /\ timers' = IF row[i] # None /\ Running(row[i]) THEN ScheduledEviction({i}) ELSE timers
    /\ gone' = gone \cup {j}
    /\ UNCHANGED <<row, mutingVars, deliveryVars, sessionVars, mgr, told, injected>>

\* Variant: the suppression is lifted and a finished job is left alone.
ResumedNothing(i) == delivery

\* resumeDeliveries: a job that finished meanwhile is delivered after all.
Resumed(i) ==
    IF /\ i \in suppressed
       /\ row[i] # None /\ job[row[i]].st = "finished"
       /\ \A k \in Jobs : delivery[k].at \in {"queued", "sink"} => job[k].id # i
    THEN Enqueued(row[i], watched) ELSE delivery

\* The wait is over (time, or a steering message): the job goes on alone.
ForegroundBackgrounds(j) ==
    LET i == job[j].id IN
    /\ job[j].front
    /\ job' = [job EXCEPT ![j].front = FALSE]
    /\ delivery' = Resumed(i)
    /\ suppressed' = suppressed \ {i}
    /\ UNCHANGED <<row, timers, watched, loop, sessionVars, mgr, historyVars>>

-----------------------------------------------------------------------------
(* The hub tool                                                            *)

\* A foreground call waits on the run itself, the hub on the promise around it:
\* the foreground call goes on first.
ForegroundWentOn(S) == \A j \in S : ~(job[j].front /\ job[j].st = "finished")

\* Variant: what the caller was shown is not acknowledged.
ReportsOnly(S) ==
    /\ told' = told \cup {j \in S : job[j].st = "finished"}
    /\ UNCHANGED <<suppressed, delivery>>

\* buildJobResult: shows the settled jobs and acknowledges their deliveries.
Reports(S) ==
    LET settled == {j \in S : ~Running(j)} IN
    /\ told' = told \cup {j \in settled : job[j].st = "finished"}
    /\ suppressed' = suppressed \cup IdsOf(settled)
    /\ delivery' = IF settled = {} THEN delivery
                   ELSE WithoutQueued(suppressed' \cup watched)

\* wait: watches the running jobs among those it is about.
HubWaitStarts(x) ==
    /\ Open(x) /\ hubWait[x] = NoWait
    /\ \E S \in SUBSET RowsOf(OwnerOf[x]) :
          LET running == {j \in S : Running(j)} IN
          /\ running # {}
          /\ hubWait' = [hubWait EXCEPT ![x] = [jobs |-> S, on |-> TRUE]]
          /\ watched' = watched \cup IdsOf(running)
    /\ UNCHANGED <<rowVars, suppressed, deliveryVars, sink, session, mgr, historyVars>>

\* A job settled, a message came, the window closed, or the call was aborted.
HubWaitEnds(x) ==
    /\ hubWait[x].on
    /\ hubWait' = [hubWait EXCEPT ![x].on = FALSE]
    /\ watched' = watched \ IdsOf(hubWait[x].jobs)
    /\ UNCHANGED <<rowVars, suppressed, deliveryVars, sink, session, mgr, historyVars>>

\* After the message leg is cancelled: the jobs are the result ...
HubWaitReports(x) ==
    /\ hubWait[x] # NoWait /\ ~hubWait[x].on
    /\ ForegroundWentOn(hubWait[x].jobs)
    /\ hubWait' = [hubWait EXCEPT ![x] = NoWait]
    /\ Reports(hubWait[x].jobs)
    /\ UNCHANGED <<rowVars, watched, loop, sink, session, mgr, injected, gone>>

\* ... unless a message was consumed: then it is the result.
HubWaitGetsMessage(x) ==
    /\ "message" \in Happenings
    /\ hubWait[x] # NoWait /\ ~hubWait[x].on
    /\ hubWait' = [hubWait EXCEPT ![x] = NoWait]
    /\ UNCHANGED <<rowVars, mutingVars, deliveryVars, sink, session, mgr, historyVars>>

\* jobs: everything the agent owns; or a wait for jobs that settled before.
HubJobs(x) ==
    /\ Open(x)
    /\ \E S \in SUBSET RowsOf(OwnerOf[x]) :
          /\ S = RowsOf(OwnerOf[x]) \/ \A j \in S : ~Running(j)
          /\ S # {} /\ ForegroundWentOn(S)
          /\ Reports(S)
    /\ UNCHANGED <<rowVars, watched, loop, sessionVars, mgr, injected, gone>>

\* cancel: stops a running job of the agent and acknowledges it.
HubCancels(x, j) ==
    /\ Open(x) /\ j \in RowsOf(OwnerOf[x]) /\ Running(j)
    /\ job' = Stopped({j})
    /\ timers' = ScheduledEviction({job[j].id})
    /\ suppressed' = suppressed \cup {job[j].id}
    /\ delivery' = WithoutQueued(suppressed' \cup watched)
    /\ UNCHANGED <<row, watched, loop, sessionVars, mgr, historyVars>>

-----------------------------------------------------------------------------
(* Delivery: the manager's loop or a drain hands a result to the sink of   *)
(* its owner, the sink formats it and puts it on the session's yield queue,*)
(* which the agent drains at a step boundary.                              *)

\* Variants: a missing sink falls back to any session; is not looked for.
HandedToAnyone(j) ==
    LET own == IF delivery[j].to = None THEN None ELSE sink[delivery[j].to]
        x   == IF own # None \/ \A y \in Sessions : ~Open(y) THEN own
               ELSE CHOOSE y \in Sessions : Open(y)
    IN
    IF x # None /\ Open(x)
    THEN [delivery EXCEPT ![j].at = "sink", ![j].via = x, ![j].epoch = session[x].epoch]
    ELSE [delivery EXCEPT ![j] = NoDelivery]
HandedBlindly(j) ==
    [delivery EXCEPT ![j].at = "sink", ![j].via = IF @ = None THEN @ ELSE sink[delivery[j].to]]

\* #deliverDelivery up to the sink's first await; no sink: a dead letter.
HandedOver(j) ==
    LET x == IF delivery[j].to = None THEN None ELSE sink[delivery[j].to] IN
    IF x # None /\ Open(x)
    THEN [delivery EXCEPT ![j].at = "sink", ![j].via = x, ![j].epoch = session[x].epoch]
    ELSE [delivery EXCEPT ![j] = NoDelivery]

HandsOver(j) ==
    /\ delivery[j].at = "queued" /\ ~Muted(job[j].id)
    /\ delivery' = HandedOver(j)
    /\ gone' = IF delivery'[j] = NoDelivery /\ delivery[j].to # None
               THEN gone \cup {j} ELSE gone

LoopDelivers(j) ==
    /\ loop = None
    /\ HandsOver(j)
    /\ loop' = IF delivery'[j].at = "sink" THEN j ELSE None
    /\ UNCHANGED <<rowVars, mutingVars, sessionVars, mgr, told, injected>>

\* drainDeliveries of a session that settles its async work.
DrainDelivers(j) ==
    /\ HandsOver(j)
    /\ UNCHANGED <<rowVars, mutingVars, loop, sessionVars, mgr, told, injected>>

\* The loop skips a delivery that was suppressed while queued.
LoopDrops(j) ==
    /\ loop = None
    /\ delivery[j].at = "queued" /\ Muted(job[j].id)
    /\ delivery' = [delivery EXCEPT ![j] = NoDelivery]
    /\ UNCHANGED <<rowVars, mutingVars, loop, sessionVars, mgr, historyVars>>

\* Variant: the loop waits for a delivery that is over.
LoopStays(j) == loop' = loop

\* The delivery the loop awaits is over.
LoopGoesOn(j) == loop' = IF loop = j THEN None ELSE loop

\* The session generation the delivery began in, and nobody showed it since.
Fresh(j) ==
    /\ delivery[j].epoch = session[delivery[j].via].epoch
    /\ ~Muted(job[j].id)

\* Given up on purpose; a muted result is shown by whoever muted it.
Expired(j) == ~Fresh(j) /\ ~Muted(job[j].id)

\* The formatting is over: the entry goes on the yield queue if it is fresh.
SinkAccepts(j) ==
    /\ delivery[j].at = "sink"
    /\ delivery' = [delivery EXCEPT ![j] =
          IF Open(@.via) /\ Fresh(j) THEN [@ EXCEPT !.at = "yield"] ELSE NoDelivery]
    /\ gone' = IF Expired(j) THEN gone \cup {j} ELSE gone
    /\ LoopGoesOn(j)
    /\ UNCHANGED <<rowVars, mutingVars, sessionVars, mgr, told, injected>>

\* The sink throws: the delivery is queued again, unless suppressed by now.
SinkFails(j) ==
    /\ "fails" \in Happenings
    /\ delivery[j].at = "sink"
    /\ delivery' = [delivery EXCEPT ![j] =
          IF Muted(job[j].id) THEN NoDelivery ELSE [NoDelivery EXCEPT !.at = "queued", !.to = delivery[j].to]]
    /\ LoopGoesOn(j)
    /\ UNCHANGED <<rowVars, mutingVars, sessionVars, mgr, historyVars>>

Entries(x, at) == {j \in Jobs : delivery[j].at = at /\ delivery[j].via = x}

\* A step boundary of the agent loop, or the idle flush: the queued entries are
\* taken off and injected, those that are stale by now (isStale) left out.
Injects(x) ==
    /\ Entries(x, "yield") # {}
    /\ delivery' = [j \in Jobs |-> IF j \in Entries(x, "yield") THEN NoDelivery ELSE delivery[j]]
    /\ injected' = injected \cup {j \in Entries(x, "yield") : Fresh(j)}
    /\ gone' = gone \cup {j \in Entries(x, "yield") : Expired(j)}
    /\ UNCHANGED <<rowVars, mutingVars, loop, sessionVars, mgr, told>>

-----------------------------------------------------------------------------
(* Sessions                                                                *)

\* A session registers its sink; its predecessor may still be closing.
Opens(x) ==
    /\ session[x].phase = "unborn"
    /\ \A y \in Sessions : OwnerOf[y] = OwnerOf[x] => ~Open(y)
    /\ session' = [session EXCEPT ![x].phase = "open"]
    /\ sink' = [sink EXCEPT ![OwnerOf[x]] = x]
    /\ UNCHANGED <<rowVars, mutingVars, deliveryVars, hubWait, mgr, historyVars>>

\* Variant: cancelled rows are evicted as well.
SettledRows(agent) == RowsOf(agent)

\* The rows evictCompletedJobs removes at a session boundary.
CompletedRows(agent) == {j \in RowsOf(agent) : job[j].st = "finished"}

(***************************************************************************)
(* #cancelOwnAsyncJobs: cancel what runs, evict what finished with its     *)
(* queued deliveries, clear the yield queue; the callers bump the epoch.   *)
(* By then a foreground call whose job is over went on: it needs nothing   *)
(* but microtasks, a boundary or a disposal comes with an event or I/O.    *)
(***************************************************************************)
CancelsOwnJobs(x) ==
    LET agent == OwnerOf[x]
        over  == IdsOf(CompletedRows(agent))
    IN
    /\ ForegroundWentOn(RowsOf(agent))
    /\ job' = Stopped(RowsOf(agent))
    /\ row' = EvictedRows(over)
    /\ timers' = ScheduledEviction(IdsOf({j \in RowsOf(agent) : Running(j)})) \ over
    /\ suppressed' = suppressed \ over
    /\ watched' = watched \ over
    /\ delivery' = LET muted == IF over = {} THEN {} ELSE over \cup suppressed \cup watched IN
          [j \in Jobs |-> IF j \in Entries(x, "yield") THEN NoDelivery
                          ELSE WithoutQueued(muted)[j]]
    /\ gone' = gone \cup {j \in Jobs : job[j].st # "unborn" /\ Owner(j) = agent}

\* No tool call of the session is waiting: the turn was aborted before.
BetweenTurns(x) ==
    /\ Open(x) /\ hubWait[x] = NoWait
    /\ \A j \in Jobs : job[j].front => job[j].by # x

\* Variant: a new transcript under the old delivery generation.
SameEpoch(x) == [session EXCEPT ![x].transcript = @ + 1]

NextEpoch(x) == [session EXCEPT ![x].transcript = @ + 1, ![x].epoch = @ + 1]

\* newSession, branch, resetSessionContext: a new transcript.
NewTranscript(x) ==
    /\ BetweenTurns(x)
    /\ session[x].transcript < MaxTranscript
    /\ session' = NextEpoch(x)
    /\ CancelsOwnJobs(x)
    /\ UNCHANGED <<loop, sink, hubWait, mgr, told, injected>>

\* switchSession: another transcript, the jobs are left alone.
SwitchSession(x) ==
    /\ "switch" \in Happenings
    /\ BetweenTurns(x)
    /\ session[x].transcript < MaxTranscript
    /\ session' = [session EXCEPT ![x].transcript = @ + 1]
    /\ UNCHANGED <<rowVars, mutingVars, deliveryVars, sink, hubWait, mgr, historyVars>>

\* beginDispose: nothing enters the session any more.
BeginDispose(x) ==
    /\ Open(x)
    /\ session' = [session EXCEPT ![x].phase = "closing"]
    /\ delivery' = [j \in Jobs |-> IF j \in Entries(x, "yield") THEN NoDelivery ELSE delivery[j]]
    /\ gone' = gone \cup {j \in Jobs : job[j].st # "unborn" /\ Owner(j) = OwnerOf[x]}
    /\ UNCHANGED <<rowVars, mutingVars, loop, sink, hubWait, mgr, told, injected>>

\* Variant: the late cleanup removes whoever is registered.
SinkRemoved(x) == [sink EXCEPT ![OwnerOf[x]] = None]

\* The unregister closure of registerDeliverySink.
SinkReleased(x) == [sink EXCEPT ![OwnerOf[x]] = IF @ = x THEN None ELSE @]

\* #disposeOwnedAsyncJobs, later in the same disposal.
DisposeJobs(x) ==
    /\ session[x].phase = "closing"
    /\ session' = [session EXCEPT ![x].phase = "closed", ![x].epoch = @ + 1]
    /\ sink' = SinkReleased(x)
    /\ CancelsOwnJobs(x)
    /\ UNCHANGED <<loop, hubWait, mgr, told, injected>>

\* The session that owns the manager disposes it: everything is cancelled,
\* and forgotten once it settled or the deadline passed.
DisposeManager ==
    /\ mgr = "open"
    /\ \E x \in Sessions : session[x].phase = "closed"
    /\ mgr' = "disposing"
    /\ timers' = {}
    /\ job' = Stopped({j \in Jobs : Filed(j)})
    /\ gone' = gone \cup {j \in Jobs : job[j].st # "unborn"}
    /\ UNCHANGED <<row, mutingVars, deliveryVars, sessionVars, told, injected>>

ManagerCloses ==
    /\ mgr = "disposing"
    /\ mgr' = "closed"
    /\ row' = [i \in Ids |-> None]
    /\ delivery' = WithoutQueued(Ids)
    /\ suppressed' = {} /\ watched' = {}
    /\ sink' = [a \in Agents |-> None]
    /\ UNCHANGED <<job, timers, loop, session, hubWait, historyVars>>

-----------------------------------------------------------------------------
Next ==
    \/ \E x \in Sessions, j \in Jobs, i \in Ids : Register(x, j, i)
    \/ \E j \in Jobs :
          \/ MarkRunning(j) \/ Settles(j)
          \/ ForegroundReturns(j) \/ ForegroundAborts(j) \/ ForegroundBackgrounds(j)
          \/ LoopDelivers(j) \/ DrainDelivers(j) \/ LoopDrops(j)
          \/ SinkAccepts(j) \/ SinkFails(j)
    \/ \E i \in Ids : EvictionFires(i)
    \/ \E x \in Sessions :
          \/ HubWaitStarts(x) \/ HubWaitEnds(x) \/ HubWaitReports(x)
          \/ HubWaitGetsMessage(x) \/ HubJobs(x)
          \/ \E j \in Jobs : HubCancels(x, j)
          \/ Injects(x)
          \/ Opens(x) \/ NewTranscript(x) \/ SwitchSession(x)
          \/ BeginDispose(x) \/ DisposeJobs(x)
    \/ DisposeManager \/ ManagerCloses

Spec == Init /\ [][Next]_vars

(***************************************************************************)
(* Timers fire and promise continuations run: the waits of the tools end,  *)
(* the agent loop reaches a step boundary, a sink call ends.  Strong       *)
(* fairness: the loop serves the delivery that is due first and a retry is *)
(* due later every time, so each delivery has its turn; and a sink does    *)
(* not throw for ever (the code retries without a limit on attempts).      *)
(***************************************************************************)
Fairness ==
    /\ \A j \in Jobs :
          /\ WF_vars(LoopDrops(j)) /\ SF_vars(LoopDelivers(j)) /\ SF_vars(SinkAccepts(j))
          /\ WF_vars(ForegroundBackgrounds(j))
    /\ \A x \in Sessions :
          WF_vars(Injects(x)) /\ WF_vars(HubWaitEnds(x)) /\ WF_vars(HubWaitReports(x))

FairSpec == Spec /\ Fairness

-----------------------------------------------------------------------------
JobStatus == {"unborn", "queued", "running", "finished", "stopping", "stopped"}

\* Types of the manager's and the sessions' state; a delivery in a sink or on
\* a yield queue has a session.
JobsTypeOK ==
    /\ job \in [Jobs -> [st : JobStatus, id : Ids \cup {None}, by : Sessions \cup {None},
                         born : Nat, front : BOOLEAN]]
    /\ row \in [Ids -> Jobs \cup {None}]
    /\ timers \subseteq Ids /\ suppressed \subseteq Ids /\ watched \subseteq Ids
    /\ delivery \in [Jobs -> [at : {"none", "queued"}, to : Agents \cup {None},
                              via : {None}, epoch : Nat]
                           \cup [at : {"sink", "yield"}, to : Agents \cup {None},
                                 via : Sessions, epoch : Nat]]
    /\ loop \in Jobs \cup {None}
    /\ sink \in [Agents -> Sessions \cup {None}]
    /\ session \in [Sessions -> [phase : {"unborn", "open", "closing", "closed"},
                                 epoch : Nat, transcript : Nat]]
    /\ hubWait \in [Sessions -> [jobs : SUBSET Jobs, on : BOOLEAN]]
    /\ mgr \in {"open", "disposing", "closed"}
    /\ told \subseteq Jobs /\ injected \subseteq Jobs /\ gone \subseteq Jobs

Undelivered(j) == delivery[j].at = "none" /\ j \notin told \cup injected \cup gone

(***************************************************************************)
(* No result is lost: a finished job was shown to the model, is on its way *)
(* there, is about to be shown by a tool call that is waiting for it, or   *)
(* was given up on purpose (no session to show it to, a session boundary,  *)
(* an aborted call, retention).  "So the result is still delivered exactly *)
(* once" (resumeDeliveries), "job results re-deliver themselves" (the hub).*)
(***************************************************************************)
NoLostResult ==
    \A j \in Jobs : job[j].st = "finished" /\ Undelivered(j) =>
        job[j].front \/ \E x \in Sessions : j \in hubWait[x].jobs

InjectedInto(j, x) == delivery[j].via = x /\ j \in injected' \ injected

\* A result the model was shown by a tool call is not injected again while
\* the manager still has the row of the job (and its acknowledgement).
NeverShownTwice ==
    [][\A j \in injected' \ injected : Filed(j) => j \notin told]_vars

(***************************************************************************)
(* "A prior session's result can never be injected into a later            *)
(* transcript", whatever the order in which a boundary, the formatting and *)
(* the agent loop's drain happen.                                          *)
(***************************************************************************)
NoCrossTranscript ==
    [][\A j \in Jobs, x \in Sessions : InjectedInto(j, x) =>
          (job[j].by = x => job[j].born = session[x].transcript)]_vars

\* One agent's result is never routed to another agent's session.
OwnerRouting ==
    [][\A j \in Jobs, x \in Sessions : InjectedInto(j, x) => Owner(j) = OwnerOf[x]]_vars

\* A job that runs stays filed under its id until it settles: it can be found,
\* cancelled, waited for, and its result has an owner.
RunningIsFiled ==
    mgr # "closed" => \A j \in Jobs : Running(j) => Filed(j)

\* The session that is open keeps the sink of its agent, whatever its
\* predecessor still cleans up.
OpenSessionHasSink ==
    mgr # "closed" => \A x \in Sessions : Open(x) => sink[OwnerOf[x]] = x

(***************************************************************************)
(* The result of every job that finishes reaches the model by a tool call  *)
(* or by itself, or is given up on purpose, whatever waits, retries and    *)
(* cancellations do meanwhile.                                             *)
(***************************************************************************)
ResultArrives ==
    \A j \in Jobs : job[j].st = "finished" ~> j \in told \cup injected \cup gone
=============================================================================
