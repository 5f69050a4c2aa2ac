# oh-my-pi: TLA+ models of the agent runtime

oh-my-pi is a coding agent. One process holds a *main* agent and the subagents
it spawns. Agents outlive their runs (they are *parked* to disk and revived on
demand), shell commands, evaluations and subagents run as background jobs whose
results come back into the transcript by themselves, and everything happens on
one JavaScript event loop. So there are no data races, and all the trouble lies
between two `await`s: state read before and used after, promises shared by
several callers, timers that fire late, ids used again by somebody else. Beside
it, `robomp` (`python/robomp`) is a service that runs such agents for the issues
of a GitHub repository: webhooks fill a durable queue, a pool of workers drains
it, and a scheduler closes answered questions.

This directory holds TLA+ models of that runtime, the TLC configurations that
check them, and proofs checked by TLAPS. Paths below are relative to the
repository's `packages/coding-agent/src` unless they start with `packages/`,
`python/` or `crates/`.

    tlc -workers 2 -config MC_AsyncJobs_session.cfg MC_AsyncJobs
    tlapm AsyncJobs_proofs.tla

## 1. Inventory

### Components that are modelled

**Agent registry** (`registry/agent-registry.ts`).
State: the map from ids to `AgentRef` objects; each ref has a status (running,
idle, parked, aborted), a session or null, a transcript file. Operations:
`register`, `unregister`, `setStatus`, `attachSession`, `detachSession`,
`setActivity`. An id may be registered again: the ref object is the
*generation*, and every mutator takes the ref it expects to find.
Hard: closures keep refs for minutes (finalizers, parks, revivals) while the id
changes hands. Correct when a killed generation stays killed and a generation
that lost its id never acts on it again.

**Agent lifecycle manager** (`registry/agent-lifecycle.ts`).
State: `#adopted`, `#parks`, `#revivals`, idle timers. Operations: `adopt`,
`park`, `ensureLive`, `release`, `reclaimDeadCorpse`, `dispose`, the listener of
registry events. Called by the executor, by the IRC bus and hub (`ensureLive`),
by kills (`release`), by timers. Hard: parks, revivals, releases and respawns
all suspend in the middle and all touch one id. Correct when no session leaks,
a transcript has one writer, a session taken out of service is never handed
out, concurrent callers share one revival, every `ensureLive` ends, and the
whole looks to the rest of the program like one slot that changes in single
steps.

**Executor, reviver and dispose wrapper** (`task/executor.ts`, `sdk.ts`,
`task/persisted-revive.ts`, `registry/persisted-agents.ts`).
They create the sessions, register refs, finalize runs (keep alive, isolate,
drop) and rebuild sessions from transcripts. Only their steps on registry,
sessions and manager are modelled.

**Async job manager** (`async/job-manager.ts`).
State: `#jobs`, eviction timers, suppressed and watched ids, the delivery queue
and its loop, the sinks of agents. Operations: `register`, `markRunning`,
settlement, `cancel`, `cancelAll`, `acknowledgeDeliveries`,
`suppressDeliveries`/`resumeDeliveries`, `watchJobs`/`unwatchJobs`,
`registerDeliverySink` and its release, `drainDeliveries`,
`evictCompletedJobs`, eviction, `dispose`. Everything is keyed by job id, and
ids are reused. Hard: results in three places (queue, sink, yield queue) while
foreground waits, hub waits, session boundaries, cancellations and retention
act on the same id. Correct when no result is lost, shown twice, shown in a
later transcript or to another agent, and every result arrives.

**Session delivery** (`session/agent-session.ts`, `session/yield-queue.ts`).
The sink of a session (formats the result, checks the delivery epoch, enqueues)
and the `async-result` entries of its yield queue, drained at step boundaries;
`newSession`, `switchSession`, `beginDispose`, `dispose`.

**Foreground wait and hub** (`async/auto-background.ts`, `tools/bash.ts`,
`tools/eval.ts`, `tools/hub/index.ts`, `tools/hub/jobs.ts`).
bash and eval wait for their own job and either return the result or let it
become a background job; the hub waits for jobs or for a message, shows jobs,
cancels them.

**IRC bus and agent messaging** (`irc/bus.ts`, `session/irc-bridge.ts`,
`tools/hub/messaging.ts`).
State: per agent a mailbox and a list of waiters in the bus; per session a queue
of interrupts, a queue of asides, and the steering queue of its agent.
Operations: `send` (through `ensureLive` for adopted and parked agents), `wait`,
`inbox`, `deliver`, the ephemeral auto-reply, `drainPending`, `flushPending`.
Hard: a message may meet its recipient idle, in the set-up of a prompt, in a
step, after the last poll of its turn, leaving a mode, being disposed or parked,
or in a call that waits. Correct when a message is in one place at a time, what
a receipt calls delivered is shown, a wait never sleeps beside its message, and
a sender that waits for an agent blocked on it gets an answer.

**Turns and the agent loop** (`packages/agent/src/agent-loop.ts`,
`session/agent-session.ts`, `task/index.ts`), as far as messages depend on them.
State: whether a prompt is set up, a step runs or the loop has polled for the
last time; the depth of mode-exit teardowns; a scheduled continuation; the child
a synchronous task call waits for. Operations: prompt, boundaries, commit,
settle with its drain, continuation, abort, teardown, disposal.

**Robomp queue** (`python/robomp/src/queue.py`, `slot_pool.py`,
`cancellation.py`, `manual_triage.py`, the events of `db.py`).
State: the `events` table (durable); in memory the keys in flight, the tasks,
the slots, the cancel hooks and marks; outside, the agents it spawned.
Operations: record, claim, put back, run, retry, cancel, replay, trigger,
`start`, `stop`, crash. Hard: tasks, threads and processes end separately, a
cancel may meet an event at any point, and only the table survives. Correct when
a workspace has one user, an issue one agent over restarts too, no cancel is
forgotten or hits the wrong run, slots do not leak, every event settles.

**Robomp auto-close** (`autoclose.py`, the closures of `db.py`, hooks in
`server.py` and `host_tools.py`).
State: the `pending_closures` table and the rows of the running tick. Operations:
schedule, cancel, claim, finalize, requeue. Hard: a tick claims many rows in one
transaction and settles them over many GitHub calls, while webhooks and agents
write the same rows. Correct when a cancelled row is never closed, a verdict
stands, every row is settled.

Interactions: the executor registers refs and adopts them; the manager listens
to registry events and arms timers; parks and releases dispose sessions, whose
dispose wrapper unregisters the ref and whose own disposal cancels its jobs and
releases its sink in the job manager; a revival opens a new session under the
same agent id, which registers its sink while the old session may still be
closing. The bus asks the manager for a session before it delivers, and a
session drains its message queues at the same step boundaries at which it drains
the results of jobs. In the service, a delivery writes both tables, an agent run
by the queue schedules closures, and start, shutdown and death reach both parts.

### Components that are not modelled (yet)

| component | where | hard behaviour, and why it waits |
|---|---|---|
| rest of the core loop | `packages/agent/src` | model calls, tool batches, follow-ups, deadlines, pause gate |
| session persistence | `session/session-manager.ts` | append, rewrite by rename, crash between them; planned |
| tool choice queue | `session/tool-choice-queue.ts` | directives in flight, rejected and queued again; planned |
| eval kernels | `eval/kernel-session-registry.ts` | ownership, idle eviction, shared kernels; planned |
| rest of robomp | `python/robomp/src/tasks.py`, `sandbox.py`, `github_client.py`, ... | prompts, git, GitHub: I/O around single calls |
| credential refresh | `packages/ai/src/auth-storage.ts` | rotating tokens, several processes; planned |
| rest of turns, subagent runs, session assembly, recovery | the rest of `session/agent-session.ts`, `task/executor.ts`, `sdk.ts`; `session/turn-recovery.ts`, ... | driven by model output, model errors and token counts |
| vibe workers, broker, LSP, MCP, collab | `vibe/`, `launch/`, `lsp/`, `mcp/`, `collab/` | protocols with external processes; candidates |
| file lock | `packages/utils/src/file-lock.ts` | a wrapper of a native lock |
| providers, TUI, native crates, other tools, satellites | | parsing, rendering, I/O: no protocol of their own |

`PROJECT.json` lists all of them with their status, and the hazards of the code
at the lines where they bite.

## 2. Modules

| module | what it is |
|---|---|
| `AgentRegistry` | the registry of one id: operators (`Registered`, `StatusSet`, ...) and, for checking it alone, `RegistrySpec` |
| `AgentSlot` | the abstract promise of the lifecycle: generations that are absent, starting, live, parked or killed, and one holder of the id |
| `AgentLifecycle` | manager, executor, revivers and dispose wrapper around the registry; implements `AgentSlot` |
| `AsyncJobs` | job manager, sinks, yield queues, foreground waits, hub |
| `IrcBus` | bus, bridge, hub messages and the turns that empty the queues, over the agent life `AgentSlot` promises |
| `RobompQueue` | events table, dispatcher, worker pool, slots, cancel, stop, crash, start |
| `Autoclose` | closures table and scheduler |
| `RobompService` | both in one process: the composition of `RobompQueue` and `Autoclose` |
| `AgentRegistry_proofs`, `AgentLifecycle_proofs`, `AgentSlot_proofs`, `AgentSessions_proofs`, `AsyncJobs_proofs`, `IrcBus_proofs`, `RobompQueue_proofs`, `RobompService_proofs` | theorems |
| `MC_*` | instances for TLC |

An action is the code between two `await`s; promise continuations are actions
of their own. A field keeps the name of the field or map it stands for.

### AgentRegistry and AgentLifecycle

One agent id is followed. The manager's maps are keyed by id and no operation
relates two ids, so `adopted`, `parkEntry` and `revivalEntry` are the entries of
that id. `Refs` are the generations, `Sessions` the session objects, `Parks` the
`ParkInFlight` objects, `Adoptions` the `AdoptedAgent` objects (both used again
once nothing refers to them), `Callers` and `Releasers` the concurrent calls.

Continuations of settled promises are microtasks: timers and I/O completions
wait until none is pending (`Quiet`), calls from other code do not. `park`
yields once (`ParkCommits`, the microtask after `await Promise.resolve()`) and
then detaches and disposes; `ensureLive` is `EnsureLive` up to its first await,
then `KeepResumes`, `WaitResumes` or `RevivedResumes` according to what it
awaits; a cold revival is `FactoryAnswers`, the reviver's steps
(`ReviverClaims`, `ReviverAttaches`, `ReviverFinishes`) and `ReviveReturns` or
`RevivalRejects`. `release` with a tombstone waits for the write, which may
fail or pass a deadline. `SessionDisposed` is the completion of a session's
disposal, with what the dispose wrapper does then.

Left out: roster text and telemetry (`setActivity`, `setHistory`), which no
guard reads. `FinishKeptAlive` requires a manager that is not disposed: after
`dispose` the process-wide accessor hands out a fresh manager.

### AsyncJobs

`Jobs` are job objects and `Ids` the strings they are filed under; the gap
between the two is what the module is about. `job[j].st` is the job's status,
with `front` while the tool call that started it still waits for it. `delivery`
says where a result is: queued, in a sink that formats it, or on a yield queue.
`loop` is the delivery the loop awaits. `told`, `injected` and `gone` are
history: shown by a tool call, entered a transcript by itself, given up on
purpose.

Abstractions: the order of the delivery queue is by due time, and due times are
not modelled, so any queued delivery may be next. The poll-wait ladder of the
hub influences only how long a wait lasts. `NewTranscript` is `newSession` from
the cancellation of the jobs to the change of epoch, with no step in between:
the cancelled jobs settle later, and results that reach a sink in between carry
the old epoch. An entry drained from the yield queue counts as injected; whether
the agent loop commits it belongs to the module of that loop. Calls of a session
come only while it is open, calls already under way go on while it closes. A
boundary or a disposal cancels the jobs of an agent after each foreground call
whose job has settled has gone on: only microtasks lie between the two.

### IrcBus

An agent is `live`, `closing` (its session is disposed and still attached),
`parked` or `gone`: the states of `AgentSlot` a sender can meet. `turn` folds the
streaming flag of the agent and the count of prompts in flight: `setup` before
the turn begins, `step` while a model call or tools run, `ending` after the last
poll or an abort, until the session settles. `msg[m].at` is how far `send` has
come: `gate` is the await of `ensureLive`, `bounced` the microtask in which the
rejection of a hand-off comes back. `seen` is what the recipient was given;
`discarded` and `forfeited` are the two ways the code gives a message up (the
reply an awaiting sender took before its own send failed; what a disposed
session had taken in).

Abstractions: the steering queue holds messages of the parent only, and no
follow-up; a disposal and a park are single steps of the life `AgentSlot`
promises; a broadcast is several sends; a wait that watches jobs too is in
`AsyncJobs`; `Boundary` leaves open whether the step goes on or is about to
stop, which decides if the asides are taken together with a steer; deadlines of
a run, failing model calls and failing ephemeral turns are left out; messages
are used up in one order and a reply always finds one left
(`RoomForReplies`). An auto-reply's own record waits
on the same queue as asides in the code; here it is in a set of its own
(`notes`), since no wait and no `inbox` looks at them and they leave only together.

### RobompQueue, Autoclose and RobompService

`row` is the table and outlives the process; everything else dies with it but
`orphans`, the agents a crash leaves running. An event has a task (`phase`) and,
once its workspace is set up, a thread (`thread`): a cancelled task leaves its
thread alone. `disp` is the dispatcher: it holds the lock of the keys from the
claim to the end of a put-back's sleep, which is why `Release` waits for it.
`attempts` saturates above `MaxRetries`, beyond which the code tells nothing
apart. `later` is a retry whose backoff runs.

A tick of `Autoclose` is `Tick` (the claiming transaction), then for each row
`TakeRow`, `ReadReactions`, and `CloseIssue`, `AlreadyGone` or `GitHubFails`,
with the world between any two. `Abandon` is what every end of a tick in the
middle does: the rows stay claimed in the table and nobody has them (`lost`).
`RobompService` joins the steps that reach both: a delivery cancels the closure
before it stores the event, an agent that drives a turn may schedule a closure.

Left out: the semaphore mode of the pool (the mode without slots), the sweeps of
caches beyond their place in the order of an event, database errors, routing.

## 3. Runs

Twelve runs. Passing ones:

| run | instance | question |
|---|---|---|
| `generations` | 2 generations, 2 sessions, a park, a caller, a releaser | one writer per transcript, no leaked session, a parked session never handed out, kills and removals are final, and the refinement `ImplementsSlot` |
| `ensure_live` | 1 generation, 1 session, 2 callers, fair | callers share one revival, an adopted idle agent always has its timer, every `ensureLive` ends |
| `session` | 3 jobs, 2 ids, 2 running, two transcript changes | no result is lost, shown twice, or carried into a later transcript |
| `agents` | 2 jobs, 1 id, 2 agents, a successor session, limit 1, sinks that throw, ids reused early, a message | running jobs stay filed; a late clean-up never takes the successor's sink; no result goes to another agent |
| `arrives` | 2 jobs, sinks that throw, a session switch, fair | every result arrives |
| `irc` | a main agent in plan mode and its adopted subagent, 2 messages, synchronous spawns, fair | one place per message, no wait beside its message, delivered means shown, blocked senders are answered |
| `queue` | 2 events of one issue, 1 slot, 1 retry, 1 replay, 2 starts, fair | one workspace user, one agent over a crash, slots and cancel marks, every event settles |
| `service` | 2 events (a comment and a close) of one issue, 1 slot, 2 starts, outages and interrupts, fair | claims belong to the tick, cancelled rows are not closed, verdicts stand, closures settle |

### Bounds

Two generations are enough for "stale against current"; two callers for
coalescing, and a third would only join them. Two sessions allow a park and a
revival with one session of each generation, or both of one. One park object
suffices in every instance because the manager never starts a second park of an
id while one is in flight and an object is free again once settled; the same
holds for adoptions, where three are enough for an entry, its replacement and
one that a timer or a revival still holds. `MaxRunning` is reached in `agents`
(1) and in `session` (2 with three jobs). `MaxTranscript` bounds session changes;
two of them in `session` let a delivery be two epochs late.

In `irc` two messages are a question and its answer, or two messages that
compete for a queue, a waiter or the one place of the mailbox (`MailboxCap` 1
stands for 100); `MaxCalls` 1 is a tool batch with one hub call. The subagent is
adopted and has a parent, the main agent is not and is in plan mode, so each
message takes another path; `SyncOnly` enables the auto-reply. With three
messages the safety properties were checked too (1.1 million states), too many
for the fair run. In `queue` two events of one issue are what the keys in flight
are about, one retry is the boundary of the retry count, one replay meets a
cancel mark, and two starts allow one crash or one stop.

The passing runs fire every action and every disjunct of the next-state
relations. Deadlock is not checked because every one of these models really may
stop: everything disposed, all objects, messages, events and starts used up.

`Happenings` says what the environment does in a run; with none of them the
retention of a row (5 minutes) outlasts the settling of a cancelled job, the
delivery of a result and a hub wait:

- `fails`: a sink throws, the manager retries;
- `message`: a peer message ends a hub wait;
- `switch`: the user switches to another session file;
- `reuse`: the id of an evicted row is given to a new job while a delivery of the
  old one is still in its sink;
- `stuck`: a cancelled job outlives the retention of its row.

`Overrun` lets the disposal of an isolated run outlast its clean-up deadline.

In `Autoclose` and `RobompService`: `outages` (the transport fails for good),
`interrupts` (the scheduler ends in the middle of a tick), `reschedules` (an
agent answers an issue whose row a tick holds).

### Fairness

`AgentLifecycle`: promise continuations run (weak fairness: once enabled they
stay enabled until they run); timers and I/O wait for the microtask queue, which
other calls may refill, yet the event loop comes back to them (strong fairness).
That a disposal and each step of a reviver ends is an assumption: the code
bounds neither. Nothing is assumed of the calls themselves.

`AsyncJobs`: waits of tools end and the agent loop reaches a step boundary (weak
fairness). The delivery loop serves the delivery that is due first and every
retry is due later than the one before, so each has its turn, and a sink does
not throw for ever (the code retries without a limit): strong fairness of
`LoopDelivers` and `SinkAccepts`.

`IrcBus`: microtasks, set-ups and disposals run (weak). A step comes to its end,
a scheduled continuation runs and a synchronous call returns although new turns
keep disabling them for a while (strong: they are checked again at the end of
each of those turns). A waiting call times out, unless an auto-reply is being
written for it: the default timeout is two minutes, an ephemeral turn is one
model call. Nothing is assumed of prompts, interrupts, calls, parks.

`RobompQueue`: the event loop runs what is ready, threads end (the RPC driver has
a hard timeout), timers fire, the supervisor starts a dead process again (weak);
the lock of the keys and the queue of free slots serve first come, first served
(strong). `Autoclose`: windows end, ticks come, calls are answered, and answered
well if made often enough (strong for the two calls).

## 4. Findings

Each is a run that must fail, with the comment or doc it contradicts quoted in
`PROJECT.json`:

- `message`: a job settles while a hub wait watches it; its delivery is skipped
  because it is watched. If the wait returns a message instead, `unwatchJobs`
  does not queue the result again and it is never delivered.
- `stuck`: a cancelled job whose process ignores the abort for longer than its
  row is kept re-arms, when it settles, the eviction timer of its *id*. That
  evicts a newer job while it runs; a third job of another agent may take the
  id, and the newer job's result goes to that agent.
- `overrun`: an isolated run is parked and, when its disposal passes the
  deadline, detached while it still disposes. Nothing marks the ref as not
  resumable, so `ensureLive` reopens the transcript beside the first writer.
- `outage`: when the transport is down for longer than the GitHub client
  retries, the client raises httpx's own exception, which no handler of a row
  catches. The tick ends, and its rows stay claimed: nothing ever takes a claimed
  row again, so these issues are never closed.

### Known restrictions

Met while modelling; the properties are stated so that they hold beside them:

- a plain `release` and the disposal of a helper dispose a session that is still
  attached, and `ensureLive` returns it in that window
  (`agent-lifecycle.ts:449`). `ParkedNeverHandedOut` is about sessions that a
  park took out of service;
- a cold revival stores its adoption after the factory's I/O before it checks
  that the id still is its ref's (`agent-lifecycle.ts:381`), so it can replace the
  adoption of a newer generation, which then loses its idle timer. The replaced
  adoption's own timer is not cleared either. With a third generation that orphan
  parks by id whatever the id resolves to, and `park` does not ask for the status
  (`agent-lifecycle.ts:531`): it takes a session out of service that a revival has
  just attached, and `ensureLive` returns it although its doc says that it never
  "returns a session that is mid-dispose". `ParkedNeverHandedOut` holds with the
  two generations of the run; with three TLC finds it violated by these steps;
- a park of an older generation in flight keeps the timer of the newer one from
  being armed (`agent-lifecycle.ts:555`): `IdleIsTimed` is checked and proved within one
  generation;
- `switchSession` neither cancels jobs nor changes the epoch, although the doc of
  `#cancelOwnAsyncJobs` lists it: results of the old file reach the new one.
  `NoCrossTranscript` is about the boundaries of `newSession`, in runs without
  `switch`;
- `resumeDeliveries` matches deliveries by id alone (`job-manager.ts:413`): with
  `reuse`, an old delivery that is still in its sink hides a new result;
- with `fails`, a delivery whose sink throws across a `newSession` is queued again
  and gets the new epoch. The sink of a session catches the failures of its own
  formatting, so `session` leaves `fails` out;
- IRC: an awaited send that fails drops the reply its waiter had taken
  (`tools/hub/messaging.ts:269`, against `tools/hub/index.ts:471` for waits); an
  `inbox` that only peeks still consumes what lies in the session's queues
  (`messaging.ts:324`); two waits without a timeout on each other never end, for
  a blocked peer counts as running (`bus.ts:272`); messages a loop took are lost
  when its deadline passes before the commit (`packages/agent/src/agent-loop.ts:1056`);
  a wake turn whose prompt fails loses its messages (`agent-session.ts:865`); a
  failed continuation blocks the drain of steers, and messages beside them wait
  for the next prompt (`agent-session.ts:803`, `6179`); when the ephemeral turn
  of an auto-reply fails the sender waits until its timeout
  (`session/irc-bridge.ts:204`); a mailbox outlives its agent and is read by the
  next one of that id;
- robomp queue: `stop()` cancels the task of an event without a hook, not its
  thread, which may still spawn an agent under a slot that was reaped and
  returned, although the comment at `queue.py:136` excludes that; put-backs,
  shutdowns and crashes use up attempts; an operator's cancel is forgotten when
  `stop()` interrupts or the process dies, and the event runs again; an exception
  of the database ends the dispatcher for good (`queue.py:213`);
- robomp closures: a reply that comes while the row is claimed does not stop the
  close (`db.py:1341`, by design of the code); an answer in that window sets the
  row pending and the tick then overwrites it (`db.py:1303`), which is why the
  passing run leaves `reschedules` out.

## 5. Proofs

For any number of refs, sessions, parks, callers, jobs, ids, agents, events,
issues and slots. The assumptions on the constants are the named `ASSUME`s of the
modules (sets that leave out the value that stands for none, bounds that are
natural numbers and the like).

`AgentRegistry_proofs`: `RegistryTyped`, `AbortedTerminal` and
`RetiredStaysRetired`. The type invariant is inductive; the two action
properties follow from the guards of each operation given the types, with no
further strengthening.

`AgentLifecycle_proofs` and `AgentSlot_proofs`:

| theorem | property | needs |
|---|---|---|
| `LifecycleTyped` | `LifecycleTypeOK` | `TypedInv`: with types, a well-formed registry; a revival under way has its ref and, from `attached` on, its session; a release under way has its ref |
| `KilledStaysDown` | `AbortedIsTerminal` | `TypedInv` and `RegistryMoves`: every action does to the registry a sequence of its operations, each of which `Follows` |
| `OldGenerationIsFrozen` | `RetiredNeverReturns` | the same |
| `RevivalIsShared` | `OneRevivalPerRef` | `SlotInv` |
| `ManagerImplementsSlot` | `ImplementsSlot` | `SlotInv`, then one simulation lemma per group of actions |
| `DetachedIsParked` | `DetachedExactlyWhenParked` | `BaseInv` |
| `TranscriptHasOneWriter` | `SingleWriter` | `SessionInv`, `~Overrun` |
| `NoSessionLeaks` | `NoLeakedSession` | `LeakInv`, `~Overrun` |
| `ParkedStaysParked` | `ParkedNeverHandedOut` | `HandInv`, and `NoOrphanTimer` in every state |
| `OneGenerationStaysParked` | `ParkedNeverHandedOut` | `IdleInv`, `OneGeneration`, which give `NoOrphanTimer` |
| `IdleAgentIsTimed` | `IdleIsTimed` | `IdleInv`, `OneGeneration` |

`SlotInv` says who may act on a generation: an attached session was built for
that ref (`HomeInv`); a ref whose executor run is under way is not parked, but
for the clean-up of an isolated run (`SpawnInv`), not adopted (`AdoptInv`), not revived (`FlightInv`); a revival in
flight is the entry of `#revivals`, or its ref lost the id (`EntryInv`). No guard
of the manager asks for the second to fourth: they hold because the executor
adopts last. Without them a revival could attach a session to a generation that
is still starting, which the slot forbids.

`AgentSessions_proofs` adds who holds a session. `BaseInv` is `SlotInv` with: the
run of a ref builds its first session (`RunInv`), the holder of the id has a
session while it is up (`StateInv`), a park in flight is in the map and has a
session of its ref (`ParkInv`), a ref under revival has no session but the
revival's (`AwaitInv`). `SessionInv` says that a session which is not disposed is
attached, with a park, or with a revival (`HeldInv`), so that a revival, which
starts only when none of the first two is there, is alone (`AloneInv`).
`LeakInv` adds what a release and a revival that gives up have already disposed.
Both need `~Overrun`; `overrun` violates `SingleWriter` without it. `HandInv` adds
that a session a park took stays away from every revival (`PutAwayInv`) and that
no park yields beside a revival about to return (`YieldInv`). `NoOrphanTimer` says
that the only timer armed is the one of the current adoption. For any number of
generations it is a hypothesis and not an invariant: see the cold revival above.

With one generation (`OneGeneration`: `Refs` has at most one member) it is an
invariant, and `IdleInv` adds to `HandInv` what keeps it so. An armed timer
excludes parks and revivals (`TimerInv`); a session its revival takes back is not
idle, so no turn that ends can arm a timer beside that revival (`BackOutInv`); a
park takes the session that is attached (`TakesAttached`). `TimedInv` is
`IdleIsTimed` between the settled states: when the timer is not armed, a park is
about to commit, or the caller that cancelled it has not resumed yet and will arm
the timer again. It has to cover an agent that is not idle while a park is in
flight, because a turn that ends then arms nothing. The assumption is needed: a
park of an older generation stands in the way of the newer one's timer.

`AsyncJobs_proofs`:

| theorem | property | needs |
|---|---|---|
| `JobsTyped` | `JobsTypeOK` | `TypedInv`: a registered job has an id and a session, a row holds a job of its id, a hub waits for registered jobs. A sink call takes the session from `sink`, so without them the types are not inductive |
| `RunningFiled` | `RunningIsFiled` | `FilingInv`: an unsettled job (running, queued or stopping) is the row of its id; a pending timer is for a row that is over; a closed manager has no unsettled job |
| `SinkKept` | `OpenSessionHasSink` | `SinkInv`: with types; the release of a sink compares the session it holds |
| `ResultsStayHome` | `OwnerRouting` | `RouteInv` over `FilingInv`: deliveries in a sink or yield queue are with a session of their owner; sinks are registered under their own agent's id |
| `ShownOnce` | `NeverShownTwice` | `ShownInv`: a job a call waits for is filed and suppressed, what was shown stays suppressed while its row is there |
| `ResultsKeepTheirTranscript` | `NoCrossTranscript` | `CrossInv`: a running or filed job is of the transcript its session has now; the epoch of a delivery in a session tells whether it is |
| `NoResultIsLost` | `NoLostResult` | `LostInv` over all of the above: what is finished and undelivered is with its foreground call or in a hub wait, a watched id is the one waited for, a muted or orphaned delivery is accounted for |

All but `JobsTyped` and `SinkKept` assume `"stuck" \notin Happenings`. The
assumption is needed: the run `stuck` violates `OwnerRouting` without it.
`ResultsKeepTheirTranscript` leaves out `switch` and `fails`, `NoResultIsLost`
leaves out `message` (the run `message` violates it) and `reuse`: the restrictions
named above. Sinks that throw and switches of the session file lose nothing.
`LostInv` is stated over movements: lemmas say, once for all actions, how a job,
a row, a suppression, a delivery, a session and a hub wait may change in a step,
and each part of the invariant is proved from those.
`FilingInv` is what the code relies on without saying so: it looks jobs up by id
and never asks whether the row it finds is the row it means.

`IrcBus_proofs`:

| theorem | property | needs |
|---|---|---|
| `IrcTyped` | `IrcTypeOK` | `MessagesInv`: what a queue, a call or a wait refers to has been sent |
| `MessagesAreOnce` | `EachMessageOnce` | `IrcInv` |
| `WaitsSeeMail` | `WaitSeesMail` | `HeardInv` over `IrcInv` |

`Placed` counts the places of one message by its receipt. The count is not
inductive alone: the three further parts of `IrcInv` say that a queue holds only
messages to its agent, each once, and `notes` only the agent's own records
(`QueuesInv`), and that a waiter of a send is its sender's, the only one of that
send, and has taken nothing (`WaitersInv`). Without the last, one message could
end two waits. `HeardInv` says that no wait is parked beside a message it would
take, and also not beside a rejection on its way back: the rejection will put
the message in the mailbox without asking the waiters, which is harmless only
because it is a microtask and no call parks a wait before it has run (`Settled`). The steps are of two kinds, and each part is
proved once per kind: a post puts one message somewhere (`Lands`), every other
step moves messages of one agent on (`Yields`, `Goes`).

`RobompQueue_proofs`:

| theorem | property | needs |
|---|---|---|
| `QueueTyped` | `QueueTypeOK` | the types are inductive |
| `OneUserOfWorkspace` | `WorkspaceExclusive` | `KeysInv`: a task holds the key of its issue, and the issue has no other task |
| `SlotsAreShared` | `SlotsExclusive` | `PoolInv`: an event has a slot exactly in `setup` and `run`, and the pool has the others |
| `OneLiveAgent` | `OneAgentPerIssue` | `LifeInv`: nothing is dispatched unless the process is up; a thread is without its task only while `stop()` interrupts; there are orphans only while the process is down |
| `MarksAreFresh` | `NoStaleCancel` | types: a mark is set on active rows and cleared by whatever settles one |
| `CancelsFail` | `CancelFailsTheRow` | `LifeInv`: until `stop()` interrupts it has cancelled nothing |

`RobompService_proofs`: `ServiceRunsQueue` and `ServiceRunsScheduler` show that
the composition gives neither part a step it has not alone, so what is proved
of `QueueSpec` holds of the service (`ServiceKeepsQueue`).
`ClosuresTyped` is the type invariant of the scheduler in it. `ClaimsAreOwned`,
`ClosesOnlyClaims` and `VerdictsStand` (`TickOwnsClaims`, `NeverClosesCancelled`,
`VerdictIsFinal`) rest on `OwnedInv`: the row a tick works on is not in its batch
too (`Stages`), claimed rows are the tick's or lost, a row that says closed
belongs to a closed issue. They assume `"reschedules" \notin Happenings`, the
restriction named above.

Only model-checked: liveness, which the prover cannot express under fairness.
No module uses recursion.

## 6. Plan

Written so far: the modules and proofs above. Next, in order:

1. `SessionLog`: append and rewrite with a crash in between; refinement to a tree
   of entries that only grows.
2. `ToolChoiceQueue`, `KernelSessions`, `TokenRefresh`.
3. The executor's barrier `waitForOwnerJobs` with `AgentLifecycle` and `AsyncJobs`
   in one module (a parked session's late cleanup cancels its successor's jobs).

### Not modelled

The repository is a product of many parts, and most of its lines are not a
protocol: providers and the model catalogue map wire formats, the terminal
interface renders, the native crates search and parse, the settings schema and
the prompts are data. Specifying those would restate them. What has concurrency,
durable state or a shared id and is still open is the plan above; the servers
and protocols with external processes (LSP, MCP, collab relay, broker, vibe
workers) depend on programs that are not in the repository and come after it.
