-------------------------------- MODULE IrcBus --------------------------------
(***************************************************************************)
(* Messages between agents: the bus with its mailboxes and waiters         *)
(* (irc/bus.ts), the queues of a recipient's session (session/irc-bridge), *)
(* the turns that empty them (agent-loop.ts, agent-session.ts) and the hub *)
(* calls that send, wait and read (tools/hub).                             *)
(*                                                                         *)
(* The life of an agent is the one AgentSlot promises: it is live, parked  *)
(* (without a session; ensureLive revives it) or gone.  "closing" is the   *)
(* stretch in which its session is disposed and still attached.            *)
(***************************************************************************)
EXTENDS Naturals, Sequences, FiniteSets, SequencesExt

CONSTANTS
    Agents, Msgs, None,
    Parent,      \* [Agents -> Agents \cup {None}]
    Adopted,     \* agents with a lifecycle: sending to them goes through ensureLive
    Planning,    \* agents in plan mode: nothing wakes them
    SyncOnly,    \* async execution is disabled
    MailboxCap,  \* MAILBOX_CAP, 100 in the code
    MaxCalls     \* hub calls of one agent at a time

ASSUME IrcAssumption ==
    /\ None \notin Agents /\ None \notin Msgs
    /\ Parent \in [Agents -> Agents \cup {None}]
    /\ Adopted \subseteq Agents /\ Planning \subseteq Agents
    /\ SyncOnly \in BOOLEAN
    /\ MailboxCap \in Nat \ {0} /\ MaxCalls \in Nat \ {0}

VARIABLES
    life,       \* [Agents -> {"live", "closing", "parked", "gone"}]
    turn,       \* [Agents -> TurnPhase]
    loop,       \* messages the agent loop took and has not committed yet
    interrupts, \* IrcBridge.#interrupts
    asides,     \* IrcBridge.#asides: messages that wait for the end of a teardown
    notes,      \* ... and the records of the agent's own auto-replies
    steer,      \* messages of the parent in the steering queue
    resume,     \* agents whose queue drain is scheduled
    leaving,    \* agents in a mode-exit teardown
    batch,      \* the subagent a synchronous task call of the agent waits for
    box,        \* the mailboxes of the bus
    waiters,    \* the waiters of the bus, oldest first
    msg,        \* every message, see NoMessage
    replying,   \* messages an ephemeral auto-reply is written for
    seen,       \* messages their recipient was given: context, transcript, tool result
    discarded,  \* messages a failing send took from its waiter and dropped
    forfeited   \* messages a disposed session had taken in and not shown

queueVars   == <<interrupts, asides, notes, steer>>
turnVars    == <<turn, loop, resume, leaving, batch>>
busVars     == <<box, waiters, msg, replying>>
historyVars == <<seen, discarded, forfeited>>
vars == <<life, queueVars, turnVars, busVars, historyVars>>

\* "setup": a prompt is in flight, its turn has not begun.  "ending": the loop
\* polled its queues for the last time or was aborted.  All but "idle" count as
\* streaming.
TurnPhase == {"idle", "setup", "step", "ending"}

NoMessage == [from |-> None, to |-> None, asks |-> FALSE, answers |-> None,
              at |-> "unsent", receipt |-> "none", got |-> None]

Init ==
    /\ life = [a \in Agents |-> "live"]
    /\ turn = [a \in Agents |-> "idle"]
    /\ loop = [a \in Agents |-> {}]
    /\ interrupts = [a \in Agents |-> <<>>]
    /\ asides = [a \in Agents |-> <<>>]
    /\ notes = [a \in Agents |-> {}]
    /\ steer = [a \in Agents |-> {}]
    /\ resume = {} /\ leaving = {}
    /\ batch = [a \in Agents |-> None]
    /\ box = [a \in Agents |-> <<>>]
    /\ waiters = [a \in Agents |-> <<>>]
    /\ msg = [m \in Msgs |-> NoMessage]
    /\ replying = {} /\ seen = {} /\ discarded = {} /\ forfeited = {}

\* Messages are names that are used up in one order.
Fresh(m) == msg[m].at = "unsent" /\ m = CHOOSE x \in Msgs : msg[x].at = "unsent"

Streaming(a) == turn[a] # "idle"
Incoming(a)  == ToSet(interrupts[a]) \cup ToSet(asides[a])
Queued(a)    == Incoming(a) \cup notes[a]

AcceptsOpenly(w, from) == w.from = None
Accepts(w, from) == w.from \in {None, from}

-----------------------------------------------------------------------------
(***************************************************************************)
(* IrcBus.send.  e is the message as its sender knows it, w the waiters    *)
(* with the one an awaiting sender parked before it sent.                  *)
(***************************************************************************)
Delivered(e) == [e EXCEPT !.at = "sent", !.receipt = "delivered", !.got = None]
Failed(e)    == [e EXCEPT !.at = "sent", !.receipt = "failed", !.got = None]

\* What the waiter of a send took before the receipt came.
Taken(e) == {e.got} \ {None}

\* The waiter of a send that failed is cancelled, if it is still there.
CancelsAwait(m, e, w) ==
    \/ \E i \in DOMAIN w[e.from] :
          w[e.from][i].send = m /\ waiters' = [w EXCEPT ![e.from] = RemoveAt(@, i)]
    \/ (\A i \in DOMAIN w[e.from] : w[e.from][i].send # m) /\ waiters' = w

\* Nobody received, and a message the waiter took is dropped.
Refused(m, e, w) ==
    /\ msg' = [msg EXCEPT ![m] = Failed(e)]
    /\ CancelsAwait(m, e, w)
    /\ discarded' = discarded \cup Taken(e)
    /\ UNCHANGED <<turn, interrupts, asides, steer, replying, seen>>

IsFirstAccepting(ws, from, i) ==
    Accepts(ws[i], from) /\ \A j \in 1 .. i - 1 : ~Accepts(ws[j], from)

\* A parked call consumes the message.  A send whose own receipt is not there
\* yet holds it until then.
WaiterTakes(m, e, w) ==
    \E i \in DOMAIN w[e.to] :
       LET s == w[e.to][i].send
           held == s # None /\ msg[s].receipt = "none"
       IN /\ IsFirstAccepting(w[e.to], e.from, i)
          /\ waiters' = [w EXCEPT ![e.to] = RemoveAt(@, i)]
          /\ msg' = [x \in Msgs |-> IF x = m THEN Delivered(e)
                                    ELSE IF x = s /\ held THEN [msg[x] EXCEPT !.got = m] ELSE msg[x]]
          /\ seen' = seen \cup Taken(e) \cup (IF held THEN {} ELSE {m})
          /\ UNCHANGED <<turn, interrupts, asides, steer, replying, discarded>>

\* The recipient cannot run a real reply turn in time.
AutoReplies(e) ==
    e.asks /\ IF Streaming(e.to) THEN SyncOnly ELSE e.to \in Planning

\* IrcBridge.deliver: the parent steers, a peer interrupts, plan mode only
\* notes, and an idle agent is woken, after the teardown if it leaves a mode.
Accepted(m, e, w) ==
    LET b == e.to
        shown == seen \cup Taken(e)
    IN /\ msg' = [msg EXCEPT ![m] = Delivered(e)]
       /\ waiters' = w
       /\ replying' = IF AutoReplies(e) THEN replying \cup {m} ELSE replying
       /\ \/ /\ Streaming(b) /\ Parent[b] = e.from
             /\ steer' = [steer EXCEPT ![b] = @ \cup {m}]
             /\ seen' = shown /\ UNCHANGED <<turn, interrupts, asides>>
          \/ /\ Streaming(b) /\ Parent[b] # e.from
             /\ interrupts' = [interrupts EXCEPT ![b] = Append(@, m)]
             /\ seen' = shown /\ UNCHANGED <<turn, asides, steer>>
          \/ /\ ~Streaming(b) /\ b \in Planning
             /\ seen' = shown \cup {m}
             /\ UNCHANGED <<turn, interrupts, asides, steer>>
          \/ /\ ~Streaming(b) /\ b \notin Planning /\ b \in leaving
             /\ asides' = [asides EXCEPT ![b] = Append(@, m)]
             /\ seen' = shown /\ UNCHANGED <<turn, interrupts, steer>>
          \/ /\ ~Streaming(b) /\ b \notin Planning /\ b \notin leaving
             /\ turn' = [turn EXCEPT ![b] = "step"]
             /\ seen' = shown \cup {m}
             /\ UNCHANGED <<interrupts, asides, steer>>
       /\ UNCHANGED discarded

\* A disposed session throws; the rejection comes back in a later microtask.
Throws(m, e, w) ==
    /\ msg' = [msg EXCEPT ![m] = [e EXCEPT !.at = "bounced"]]
    /\ waiters' = w
    /\ UNCHANGED <<turn, interrupts, asides, steer, replying, seen, discarded>>

HandOverPastWaiters(m, e, w) ==
    CASE life[e.to] = "live"    -> Accepted(m, e, w)
      [] life[e.to] = "closing" -> Throws(m, e, w)
      [] OTHER                  -> Refused(m, e, w)
HandOver(m, e, w) ==
    IF \E i \in DOMAIN w[e.to] : Accepts(w[e.to][i], e.from) THEN WaiterTakes(m, e, w)
    ELSE CASE life[e.to] = "live"    -> Accepted(m, e, w)
           [] life[e.to] = "closing" -> Throws(m, e, w)
           [] OTHER                  -> Refused(m, e, w)

\* The synchronous part of send.
Posts(m, e, w) ==
    IF life[e.to] = "gone" THEN Refused(m, e, w)
    ELSE IF e.to \in Adopted \/ life[e.to] = "parked"
    THEN /\ msg' = [msg EXCEPT ![m] = [e EXCEPT !.at = "gate"]]
         /\ waiters' = w
         /\ UNCHANGED <<turn, interrupts, asides, steer, replying, seen, discarded>>
    ELSE HandOver(m, e, w)

\* ensureLive brings the recipient back.
Revives(b) ==
    /\ life[b] = "parked"
    /\ \E m \in Msgs : msg[m].at = "gate" /\ msg[m].to = b
    /\ life' = [life EXCEPT ![b] = "live"]
    /\ UNCHANGED <<queueVars, turnVars, busVars, historyVars>>

\* ... and the send goes on, or gives up with an agent that is gone or cannot
\* be revived.
GateOpens(m) ==
    /\ msg[m].at = "gate" /\ life[msg[m].to] \in {"live", "closing"}
    /\ HandOver(m, msg[m], waiters)
    /\ UNCHANGED <<life, notes, loop, resume, leaving, batch, box, forfeited>>

GateFails(m) ==
    /\ msg[m].at = "gate"
    /\ life[msg[m].to] \in {"gone", "parked"}
    /\ Refused(m, msg[m], waiters)
    /\ UNCHANGED <<life, notes, loop, resume, leaving, batch, box, forfeited>>

\* Microtasks run before anything else may happen to a session.
Settled == \A m \in Msgs : msg[m].at # "bounced"

\* The failed hand-off is buffered; the oldest message leaves a full mailbox.
BufferedAlways(mail, m) == Append(mail, m)
Buffered(mail, m) ==
    IF Len(mail) < MailboxCap THEN Append(mail, m) ELSE Append(Tail(mail), m)

Bounces(m) ==
    /\ msg[m].at = "bounced"
    /\ box' = [box EXCEPT ![msg[m].to] = Buffered(@, m)]
    /\ Refused(m, msg[m], waiters)
    /\ UNCHANGED <<life, notes, loop, resume, leaving, batch, forfeited>>

-----------------------------------------------------------------------------
(***************************************************************************)
(* The hub calls of an agent in a turn.                                    *)
(***************************************************************************)
InFlight(a) == {m \in Msgs : msg[m].from = a /\ msg[m].answers = None /\ msg[m].at \in {"gate", "bounced"}}

\* Calls under way: a send until its receipt and its reply, a wait.
Calls(a) ==
    InFlight(a) \cup {waiters[a][i].send : i \in DOMAIN waiters[a]}

AtWork(a) == turn[a] = "step" /\ loop[a] = {} /\ batch[a] = None
CanCall(a) == Settled /\ AtWork(a) /\ Cardinality(Calls(a)) < MaxCalls

\* A bound of the model: there stays a message for every reply.
RoomForReplies(asks) ==
    Cardinality({m \in Msgs : msg[m].at = "unsent"})
        > Cardinality({m \in Msgs : msg[m].asks /\ \A r \in Msgs : msg[r].answers # m})
          + (IF asks THEN 1 ELSE 0)

\* executeSend: an awaiting sender parks its waiter first, past what is pending.
Send(m, a, b, asks) ==
    LET e == [NoMessage EXCEPT !.from = a, !.to = b, !.asks = asks]
        parked == [waiters EXCEPT ![a] = Append(@, [from |-> b, send |-> m])]
    IN /\ CanCall(a) /\ a # b
       /\ Fresh(m) /\ RoomForReplies(asks)
       /\ Posts(m, e, IF asks THEN parked ELSE waiters)
       /\ UNCHANGED <<life, notes, loop, resume, leaving, batch, box, forfeited>>

Matches(f, m) == f = None \/ msg[m].from = f
QueuedFrom(a, f) == {m \in Incoming(a) : Matches(f, m)}
MailFrom(a, f)   == {m \in ToSet(box[a]) : Matches(f, m)}
IsOldest(q, f, i) == Matches(f, q[i]) /\ \A j \in 1 .. i - 1 : ~Matches(f, q[j])

\* A wait is first served from the queues of the session, interrupts first ...
WaitQueued(a, f) ==
    /\ CanCall(a)
    /\ \/ \E i \in DOMAIN interrupts[a] :
             /\ IsOldest(interrupts[a], f, i)
             /\ interrupts' = [interrupts EXCEPT ![a] = RemoveAt(@, i)]
             /\ seen' = seen \cup {interrupts[a][i]}
             /\ UNCHANGED asides
       \/ /\ \A m \in ToSet(interrupts[a]) : ~Matches(f, m)
          /\ \E i \in DOMAIN asides[a] :
                /\ IsOldest(asides[a], f, i)
                /\ asides' = [asides EXCEPT ![a] = RemoveAt(@, i)]
                /\ seen' = seen \cup {asides[a][i]}
          /\ UNCHANGED interrupts
    /\ UNCHANGED <<life, notes, steer, turnVars, busVars, discarded, forfeited>>

\* ... then from the mailbox ...
WaitMailed(a, f) ==
    /\ CanCall(a) /\ QueuedFrom(a, f) = {}
    /\ \E i \in DOMAIN box[a] :
          /\ IsOldest(box[a], f, i)
          /\ box' = [box EXCEPT ![a] = RemoveAt(@, i)]
          /\ seen' = seen \cup {box[a][i]}
    /\ UNCHANGED <<life, queueVars, turnVars, waiters, msg, replying, discarded, forfeited>>

\* ... and parks while a peer it may hear from runs.
PeerRuns(a, f) ==
    \E b \in Agents \ {a} : (f = None \/ f = b) /\ life[b] \in {"live", "closing"} /\ Streaming(b)

WaitParks(a, f) ==
    /\ CanCall(a) /\ QueuedFrom(a, f) = {} /\ MailFrom(a, f) = {}
    /\ PeerRuns(a, f)
    /\ waiters' = [waiters EXCEPT ![a] = Append(@, [from |-> f, send |-> None])]
    /\ UNCHANGED <<life, queueVars, turnVars, box, msg, replying, historyVars>>

EndsCall(a, i) ==
    /\ waiters' = [waiters EXCEPT ![a] = RemoveAt(@, i)]
    /\ UNCHANGED <<life, queueVars, turnVars, box, msg, replying, historyVars>>

\* A wait ends with its last running peer, or when a message or a steer
\* interrupts it; an awaiting send only when it times out.
WaitDeserted(a, i) == waiters[a][i].send = None /\ ~PeerRuns(a, waiters[a][i].from) /\ EndsCall(a, i)
WaitInterrupted(a, i) ==
    waiters[a][i].send = None /\ (interrupts[a] # <<>> \/ steer[a] # {}) /\ EndsCall(a, i)
TimesOut(a, i) == EndsCall(a, i)

\* inbox: a peek leaves the mailbox alone, not the queues of the session.
Inbox(a, peek) ==
    /\ CanCall(a)
    /\ Incoming(a) # {} \/ box[a] # <<>>
    /\ box' = IF peek THEN box ELSE [box EXCEPT ![a] = <<>>]
    /\ seen' = seen \cup Incoming(a) \cup (IF peek THEN {} ELSE ToSet(box[a]))
    /\ interrupts' = [interrupts EXCEPT ![a] = <<>>]
    /\ asides' = [asides EXCEPT ![a] = <<>>]
    /\ UNCHANGED <<life, notes, steer, turnVars, waiters, msg, replying, discarded, forfeited>>

\* A synchronous task call: the parent blocks until the turn of its child ends.
Spawns(a, b) ==
    /\ SyncOnly /\ AtWork(a) /\ Calls(a) = {}
    /\ Parent[b] = a /\ life[b] = "live" /\ ~Streaming(b) /\ b \notin leaving
    /\ batch' = [batch EXCEPT ![a] = b]
    /\ turn' = [turn EXCEPT ![b] = "setup"]
    /\ UNCHANGED <<life, queueVars, loop, resume, leaving, busVars, historyVars>>

BatchEnds(a) ==
    /\ batch[a] # None
    /\ ~Streaming(batch[a]) \/ life[batch[a]] # "live"
    /\ batch' = [batch EXCEPT ![a] = None]
    /\ UNCHANGED <<life, queueVars, turn, loop, resume, leaving, busVars, historyVars>>

\* The ephemeral turn is over: the reply is noted and sent, never awaited.
Unanswered(m) == m \in replying /\ \A r \in Msgs : msg[r].answers # m

ReplySent(m, r) ==
    LET a == msg[m].to
        e == [NoMessage EXCEPT !.from = a, !.to = msg[m].from, !.answers = m]
    IN /\ Unanswered(m) /\ life[a] = "live"
       /\ Fresh(r)
       /\ notes' = [notes EXCEPT ![a] = @ \cup {r}]
       /\ Posts(r, e, waiters)
       /\ UNCHANGED <<life, loop, resume, leaving, batch, box, forfeited>>

\* ... or came out empty, and nothing is sent.
ReplyEmpty(m) ==
    /\ Unanswered(m)
    /\ replying' = replying \ {m}
    /\ UNCHANGED <<life, queueVars, turnVars, box, waiters, msg, historyVars>>

-----------------------------------------------------------------------------
(***************************************************************************)
(* The turns of a session.                                                 *)
(***************************************************************************)
\* A prompt begins; its set-up flushes what is pending into the transcript,
\* or it is dropped before it reaches the agent.
Prompt(a) ==
    /\ life[a] = "live" /\ ~Streaming(a) /\ a \notin leaving
    /\ turn' = [turn EXCEPT ![a] = "setup"]
    /\ UNCHANGED <<life, queueVars, loop, resume, leaving, batch, busVars, historyVars>>

FlushesCopies(a) ==
    /\ seen' = seen \cup Incoming(a)
    /\ UNCHANGED <<interrupts, asides, notes>>
Flushes(a) ==
    /\ seen' = seen \cup Incoming(a)
    /\ interrupts' = [interrupts EXCEPT ![a] = <<>>]
    /\ asides' = [asides EXCEPT ![a] = <<>>]
    /\ notes' = [notes EXCEPT ![a] = {}]

PromptStarts(a) ==
    /\ turn[a] = "setup"
    /\ Flushes(a)
    /\ turn' = [turn EXCEPT ![a] = "step"]
    /\ UNCHANGED <<life, steer, loop, resume, leaving, batch, busVars, discarded, forfeited>>

PromptDropped(a) ==
    /\ turn[a] = "setup"
    /\ turn' = [turn EXCEPT ![a] = "ending"]
    /\ UNCHANGED <<life, queueVars, loop, resume, leaving, batch, busVars, historyVars>>

\* The tools of the step are through: the loop takes the steering queue and
\* the asides (where it is about to stop, the asides only once no steer is
\* left), and ends when there are none.
Waiting(a) == steer[a] # {} \/ Queued(a) # {}

Boundary(a) ==
    /\ AtWork(a) /\ Calls(a) = {} /\ Waiting(a)
    /\ steer' = [steer EXCEPT ![a] = {}]
    /\ \/ /\ loop' = [loop EXCEPT ![a] = steer[a] \cup Queued(a)]
          /\ interrupts' = [interrupts EXCEPT ![a] = <<>>]
          /\ asides' = [asides EXCEPT ![a] = <<>>]
          /\ notes' = [notes EXCEPT ![a] = {}]
       \/ /\ steer[a] # {}
          /\ loop' = [loop EXCEPT ![a] = steer[a]]
          /\ UNCHANGED <<interrupts, asides, notes>>
    /\ UNCHANGED <<life, turn, resume, leaving, batch, busVars, historyVars>>

Commits(a) ==
    /\ loop[a] # {}
    /\ loop' = [loop EXCEPT ![a] = {}]
    /\ seen' = seen \cup {m \in loop[a] : msg[m].to = a}
    /\ UNCHANGED <<life, queueVars, turn, resume, leaving, batch, busVars, discarded, forfeited>>

Finishes(a) ==
    /\ AtWork(a) /\ Calls(a) = {} /\ ~Waiting(a)
    /\ turn' = [turn EXCEPT ![a] = "ending"]
    /\ UNCHANGED <<life, queueVars, loop, resume, leaving, batch, busVars, historyVars>>

\* The user interrupts: the tools of the turn are aborted.
Abort(a) ==
    /\ turn[a] \in {"setup", "step"}
    /\ turn' = [turn EXCEPT ![a] = "ending"]
    /\ waiters' = [waiters EXCEPT ![a] = <<>>]
    /\ batch' = [batch EXCEPT ![a] = None]
    /\ UNCHANGED <<life, queueVars, loop, resume, leaving, box, msg, replying, historyVars>>

(***************************************************************************)
(* drainStrandedQueuedMessages: what came after the last poll resumes the  *)
(* session.  A queued steer schedules a continuation, which will poll the  *)
(* peers' messages too; otherwise these wake a turn of their own.          *)
(***************************************************************************)
ResumesSteered(a) ==
    /\ turn' = [turn EXCEPT ![a] = "idle"]
    /\ resume' = IF steer[a] # {} THEN resume \cup {a} ELSE resume
    /\ UNCHANGED <<interrupts, asides, notes, seen>>
Resumes(a) ==
    IF steer[a] # {}
    THEN /\ resume' = resume \cup {a}
         /\ turn' = [turn EXCEPT ![a] = "idle"]
         /\ UNCHANGED <<interrupts, asides, notes, seen>>
    ELSE /\ Flushes(a)
         /\ turn' = [turn EXCEPT ![a] = IF Queued(a) = {} \/ a \in Planning THEN "idle" ELSE "step"]
         /\ UNCHANGED resume

Settles(a) ==
    /\ turn[a] = "ending" /\ loop[a] = {}
    /\ IF a \in leaving \/ life[a] # "live"
       THEN turn' = [turn EXCEPT ![a] = "idle"] /\ UNCHANGED <<interrupts, asides, notes, seen, resume>>
       ELSE Resumes(a)
    /\ UNCHANGED <<life, steer, loop, leaving, batch, busVars, discarded, forfeited>>

\* The scheduled continuation: agent.continue opens the turn with the steers.
Continues(a) ==
    /\ a \in resume
    /\ resume' = resume \ {a}
    /\ IF life[a] = "live" /\ ~Streaming(a) /\ a \notin leaving /\ steer[a] # {}
       THEN /\ turn' = [turn EXCEPT ![a] = "step"]
            /\ seen' = seen \cup steer[a]
            /\ steer' = [steer EXCEPT ![a] = {}]
       ELSE UNCHANGED <<turn, seen, steer>>
    /\ UNCHANGED <<life, interrupts, asides, notes, loop, leaving, batch, busVars, discarded, forfeited>>

\* runModeExitTeardown: the turn is aborted, nothing resumes until the end.
BeginsLeaving(a) ==
    /\ life[a] = "live" /\ a \notin leaving
    /\ leaving' = leaving \cup {a}
    /\ turn' = [turn EXCEPT ![a] = IF @ = "idle" THEN @ ELSE "ending"]
    /\ waiters' = [waiters EXCEPT ![a] = <<>>]
    /\ batch' = [batch EXCEPT ![a] = None]
    /\ UNCHANGED <<life, queueVars, loop, resume, box, msg, replying, historyVars>>

EndsLeaving(a) ==
    /\ a \in leaving /\ ~Streaming(a)
    /\ leaving' = leaving \ {a}
    /\ IF life[a] = "live" THEN Resumes(a) ELSE UNCHANGED <<turn, interrupts, asides, notes, seen, resume>>
    /\ UNCHANGED <<life, steer, loop, batch, busVars, discarded, forfeited>>

-----------------------------------------------------------------------------
\* The lifecycle disposes of an idle agent's session and keeps the agent.
Parks(a) ==
    /\ a \in Adopted /\ life[a] = "live" /\ Settled
    /\ ~Streaming(a) /\ a \notin leaving /\ a \notin resume
    /\ \A m \in Msgs : ~(msg[m].at = "gate" /\ msg[m].to = a)
    /\ life' = [life EXCEPT ![a] = "parked"]
    /\ Flushes(a)
    /\ UNCHANGED <<steer, turnVars, busVars, discarded, forfeited>>

\* beginDispose: pending messages go to the transcript, nothing enters any more.
BeginDispose(a) ==
    /\ life[a] = "live" /\ Settled
    /\ life' = [life EXCEPT ![a] = "closing"]
    /\ Flushes(a)
    /\ forfeited' = forfeited \cup {m \in steer[a] \cup loop[a] : msg[m].to = a}
    /\ steer' = [steer EXCEPT ![a] = {}]
    /\ loop' = [loop EXCEPT ![a] = {}]
    /\ UNCHANGED <<turn, resume, leaving, batch, busVars, discarded>>

\* ... and the disposal aborts the turn and ends with the session detached or
\* its agent gone.
Disposed(a) ==
    /\ life[a] = "closing" /\ Settled
    /\ \E l \in {"parked", "gone"} : life' = [life EXCEPT ![a] = l]
    /\ turn' = [turn EXCEPT ![a] = "idle"]
    /\ resume' = resume \ {a} /\ leaving' = leaving \ {a}
    /\ batch' = [batch EXCEPT ![a] = None]
    /\ waiters' = [waiters EXCEPT ![a] = <<>>]
    /\ UNCHANGED <<queueVars, loop, box, msg, replying, historyVars>>

-----------------------------------------------------------------------------
Sending(m) ==
    \/ GateOpens(m) \/ GateFails(m) \/ Bounces(m)
    \/ ReplyEmpty(m)
    \/ \E r \in Msgs : ReplySent(m, r)

HubCall(a) ==
    \/ \E m \in Msgs, b \in Agents, asks \in BOOLEAN : Send(m, a, b, asks)
    \/ \E f \in (Agents \ {a}) \cup {None} : WaitQueued(a, f) \/ WaitMailed(a, f) \/ WaitParks(a, f)
    \/ \E i \in DOMAIN waiters[a] : WaitDeserted(a, i) \/ WaitInterrupted(a, i) \/ TimesOut(a, i)
    \/ \E peek \in BOOLEAN : Inbox(a, peek)

TurnStep(a) ==
    \/ Prompt(a) \/ PromptStarts(a) \/ PromptDropped(a)
    \/ Boundary(a) \/ Commits(a) \/ Finishes(a) \/ Settles(a) \/ Continues(a)
    \/ Abort(a) \/ BeginsLeaving(a) \/ EndsLeaving(a)
    \/ BatchEnds(a) \/ \E b \in Agents : Spawns(a, b)

Next ==
    \/ \E m \in Msgs : Sending(m)
    \/ \E a \in Agents : HubCall(a) \/ TurnStep(a) \/ Revives(a) \/ Parks(a) \/ BeginDispose(a) \/ Disposed(a)

Spec == Init /\ [][Next]_vars

-----------------------------------------------------------------------------
(***************************************************************************)
(* Microtasks, prompts and disposals run their course, a step comes to its *)
(* end, a scheduled continuation and the end of a batch are not put off    *)
(* for ever by new turns, and a waiting call times out, unless an          *)
(* auto-reply is being written for it.  Nothing is assumed of the calls an *)
(* agent makes, of prompts, interrupts, teardowns, parks and disposals.    *)
(***************************************************************************)
Travels(m)  == GateOpens(m) \/ GateFails(m) \/ Bounces(m) \/ \E r \in Msgs : ReplySent(m, r)
TurnRuns(a) == PromptStarts(a) \/ PromptDropped(a) \/ Commits(a) \/ Settles(a) \/ EndsLeaving(a) \/ Disposed(a)
StepRuns(a) == Boundary(a) \/ Finishes(a) \/ (Continues(a) /\ turn' # turn)
GivesUp(a)  == \E i \in DOMAIN waiters[a] : waiters[a][i].send \notin replying /\ TimesOut(a, i)

Fairness ==
    /\ \A m \in Msgs : WF_vars(Travels(m))
    /\ \A a \in Agents :
          WF_vars(TurnRuns(a)) /\ WF_vars(GivesUp(a)) /\ SF_vars(BatchEnds(a)) /\ SF_vars(StepRuns(a))

FairSpec == Spec /\ Fairness

-----------------------------------------------------------------------------
Stages == {"unsent", "gate", "bounced", "sent"}
Names  == Agents \cup {None}
Maybe  == Msgs \cup {None}

IrcTypeOK ==
    /\ life \in [Agents -> {"live", "closing", "parked", "gone"}]
    /\ turn \in [Agents -> TurnPhase]
    /\ loop \in [Agents -> SUBSET Msgs] /\ steer \in [Agents -> SUBSET Msgs]
    /\ interrupts \in [Agents -> Seq(Msgs)] /\ asides \in [Agents -> Seq(Msgs)]
    /\ notes \in [Agents -> SUBSET Msgs]
    /\ box \in [Agents -> Seq(Msgs)] /\ \A a \in Agents : Len(box[a]) <= MailboxCap
    /\ resume \subseteq Agents /\ leaving \subseteq Agents
    /\ batch \in [Agents -> Names]
    /\ waiters \in [Agents -> Seq([from : Names, send : Maybe])]
    /\ msg \in [Msgs -> [from : Names, to : Names, asks : BOOLEAN, answers : Maybe, at : Stages,
                         receipt : {"none", "delivered", "failed"}, got : Maybe]]
    /\ replying \subseteq Msgs
    /\ seen \subseteq Msgs /\ discarded \subseteq Msgs /\ forfeited \subseteq Msgs

(***************************************************************************)
(* "A successfully delivered message never lingers in the recipient's      *)
(* mailbox ... buffering it too would double-deliver": a message is in at  *)
(* most one place; a delivered one is in exactly one, on its way to the    *)
(* recipient or shown to it, until a disposal gives it up; a failed one is *)
(* nowhere but in the mailbox, until it is read there.                     *)
(***************************************************************************)
Count(q, m) == Cardinality({i \in DOMAIN q : q[i] = m})
One(b) == IF b THEN 1 ELSE 0

OnTheWay(m, b) ==
    Count(interrupts[b], m) + Count(asides[b], m) + One(m \in steer[b]) + One(m \in loop[b])
    + Cardinality({s \in Msgs : msg[s].got = m})

EachMessageOnce ==
    \A m \in Msgs : msg[m].at # "unsent" =>
        LET b == msg[m].to
            live == OnTheWay(m, b) + One(m \in discarded) + One(m \in forfeited)
        IN CASE msg[m].receipt = "delivered" -> Count(box[b], m) = 0 /\ live + One(m \in seen) = 1
             [] msg[m].receipt = "failed"    -> live = 0 /\ Count(box[b], m) + One(m \in seen) <= 1
             [] OTHER -> live + Count(box[b], m) + One(m \in seen) = 0

(***************************************************************************)
(* A wait is never parked beside a message that would have ended it,       *)
(* wherever that message was put and by whichever path it came.            *)
(***************************************************************************)
WaitSeesMail ==
    \A a \in Agents : \A i \in DOMAIN waiters[a] :
        waiters[a][i].send = None =>
            /\ QueuedFrom(a, waiters[a][i].from) = {}
            /\ MailFrom(a, waiters[a][i].from) = {}

(***************************************************************************)
(* What a receipt calls delivered reaches the model or the transcript,     *)
(* whether it came before, during or after the last poll of a turn, under  *)
(* an interrupt, a teardown, a park or a call that waits.                  *)
(***************************************************************************)
DeliveredIsSeen ==
    \A m \in Msgs : msg[m].receipt = "delivered" ~> m \in seen \cup discarded \cup forfeited

(***************************************************************************)
(* A sender that waits for an agent which cannot answer (it is blocked in  *)
(* a call that waits for the sender, or in plan mode) gets the auto-reply  *)
(* "instead of stranding the sender until timeout".                        *)
(***************************************************************************)
Stranded(m) == \E a \in Agents : \E i \in DOMAIN waiters[a] : waiters[a][i].send = m

AwaitAnswered ==
    \A m \in Msgs : m \in replying ~> ~Stranded(m) \/ life[msg[m].to] # "live"
=============================================================================
