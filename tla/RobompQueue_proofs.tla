-------------------------- MODULE RobompQueue_proofs --------------------------
(***************************************************************************)
(* Proofs about the event queue of RobompQueue.tla, for any number of      *)
(* events, issues and slots and any bound on retries, starts and replays.  *)
(*                                                                         *)
(* Three invariants carry the properties.  KeysInv: the task of an event   *)
(* holds the key of its issue, so an issue has one task.  PoolInv: the     *)
(* pool and the tasks share out the slots.  LifeInv: outside the time a    *)
(* process is up nothing is dispatched, a thread without its task exists   *)
(* only while stop() interrupts, and orphans only while the process is     *)
(* down.                                                                   *)
(***************************************************************************)
EXTENDS RobompQueue, TLAPS

-----------------------------------------------------------------------------
(* Types                                                                   *)

Row == [state : RowStates, attempts : 0..(MaxRetries + 1), later : BOOLEAN]

RowTyped == row \in [Events -> Row]

RestTyped ==
    /\ older \subseteq Events \X Events
    /\ server \in Server /\ starts \in Nat /\ replays \in Nat
    /\ disp \in {Idle, Off, Asleep} \cup {Claimed(e) : e \in Events}
    /\ inflight \subseteq Issues
    /\ phase \in [Events -> Phase]
    /\ slotOf \in [Events -> Slots \cup {NoSlot}]
    /\ available \subseteq Slots
    /\ thread \in [Events -> Thread]
    /\ hooks \subseteq Events /\ cancelled \subseteq Events
    /\ shutCancelled \subseteq Events /\ toStop \subseteq Events
    /\ orphans \subseteq Events

LEMMA TypeParts == QueueTypeOK <=> RowTyped /\ RestTyped
BY DEF QueueTypeOK, RowTyped, RestTyped, Row

USE DEF Phase, Thread, Server

LEMMA SaturatedType ==
  ASSUME NEW n \in 0 .. (MaxRetries + 1)
  PROVE  Saturated(n + 1) \in 0 .. (MaxRetries + 1)
BY QueueAssumption DEF Saturated

\* What the mark of an event does to the table.
LEMMA MarkFacts ==
  ASSUME RowTyped, NEW e \in Events, NEW s \in RowStates,
         \/ row' = [row EXCEPT ![e].state = s, ![e].later = FALSE]
         \/ row' = [row EXCEPT ![e].state = s, ![e].later = TRUE]
  PROVE  /\ RowTyped'
         /\ \A f \in Events : row'[f].state = IF f = e THEN s ELSE row[f].state
<1>1. /\ [row[e] EXCEPT !.state = s, !.later = FALSE] \in Row
      /\ [row[e] EXCEPT !.state = s, !.later = FALSE].state = s
      /\ [row[e] EXCEPT !.state = s, !.later = TRUE] \in Row
      /\ [row[e] EXCEPT !.state = s, !.later = TRUE].state = s
  BY DEF Row, RowTyped
<1>2. \/ row' = [row EXCEPT ![e] = [@ EXCEPT !.state = s, !.later = FALSE]]
      \/ row' = [row EXCEPT ![e] = [@ EXCEPT !.state = s, !.later = TRUE]]
  OBVIOUS
<1> QED  BY <1>1, <1>2 DEF RowTyped

LEMMA StateFacts ==
  ASSUME RowTyped, NEW e \in Events, NEW s \in RowStates,
         row' = [row EXCEPT ![e].state = s]
  PROVE  /\ RowTyped'
         /\ \A f \in Events : row'[f].state = IF f = e THEN s ELSE row[f].state
BY DEF Row, RowTyped

LEMMA ClaimFacts ==
  ASSUME RowTyped, NEW e \in Events, Claim(e)
  PROVE  /\ RowTyped'
         /\ \A f \in Events : row'[f].state = IF f = e THEN "running" ELSE row[f].state
<1> DEFINE n == Saturated(row[e].attempts + 1)
<1>1. n \in 0 .. (MaxRetries + 1)  BY SaturatedType DEF Row, RowTyped
<1>2. row' = [row EXCEPT ![e] = [@ EXCEPT !.state = "running", !.attempts = n]]
  BY DEF Claim
<1> HIDE DEF n
<1>3. /\ [row[e] EXCEPT !.state = "running", !.attempts = n] \in Row
      /\ [row[e] EXCEPT !.state = "running", !.attempts = n].state = "running"
  BY <1>1 DEF Row, RowStates, RowTyped
<1> QED  BY <1>2, <1>3 DEF RowTyped

LEMMA ResetFacts ==
  ASSUME RowTyped, row' = ResetStuckRunning
  PROVE  /\ RowTyped'
         /\ \A f \in Events :
               row'[f].state = IF row[f].state = "running" THEN "queued" ELSE row[f].state
<1>1. ASSUME NEW e \in Events
      PROVE  /\ [row[e] EXCEPT !.state = "queued", !.later = FALSE] \in Row
             /\ [row[e] EXCEPT !.state = "queued", !.later = FALSE].state = "queued"
  BY DEF Row, RowStates, RowTyped
<1> QED  BY <1>1 DEF ResetStuckRunning, RowTyped

\* The end of an event marks its own row or leaves it; the row of one that
\* the operator cancelled is failed.
LEMMA OutcomeFacts ==
  ASSUME RowTyped, NEW e \in Events, Outcome(e)
  PROVE  /\ RowTyped'
         /\ \A f \in Events \ {e} : row'[f].state = row[f].state
         /\ e \in cancelled /\ e \notin shutCancelled => row'[e].state = "failed"
<1>1. ASSUME NEW s \in RowStates,
             \/ row' = [row EXCEPT ![e].state = s, ![e].later = FALSE]
             \/ row' = [row EXCEPT ![e].state = s, ![e].later = TRUE]
      PROVE  /\ RowTyped' /\ row'[e].state = s
             /\ \A f \in Events \ {e} : row'[f].state = row[f].state
  BY <1>1, MarkFacts
<1>2. "failed" \in RowStates /\ "done" \in RowStates /\ "queued" \in RowStates  BY DEF RowStates
<1>3. CASE e \in cancelled /\ e \notin shutCancelled
  <2>1. row' = [row EXCEPT ![e].state = "failed", ![e].later = FALSE]
    BY <1>3 DEF Outcome, Succeed, Fail, Marked
  <2> QED  BY <1>1, <1>2, <2>1
<1>4. CASE e \notin cancelled /\ e \notin shutCancelled
  <2>1. \/ row' = [row EXCEPT ![e].state = "done", ![e].later = FALSE]
        \/ row' = [row EXCEPT ![e].state = "queued", ![e].later = TRUE]
        \/ row' = [row EXCEPT ![e].state = "failed", ![e].later = FALSE]
    BY <1>4 DEF Outcome, Succeed, Fail, Marked
  <2> QED  BY <1>1, <1>2, <1>4, <2>1
<1>5. CASE e \in shutCancelled
  <2>1. \/ row' = row
        \/ row' = [row EXCEPT ![e].state = "done", ![e].later = FALSE]
        \/ row' = [row EXCEPT ![e].state = "failed", ![e].later = FALSE]
    BY <1>5 DEF Outcome, Succeed, Fail, Marked
  <2> QED  BY <1>1, <1>2, <1>5, <2>1 DEF RowTyped
<1> QED  BY <1>3, <1>4, <1>5

LEMMA RowTypeInit == QueueInit => RowTyped
<1> SUFFICES ASSUME QueueInit PROVE RowTyped  OBVIOUS
<1>1. NoRow \in Row  BY QueueAssumption DEF NoRow, Row, RowStates
<1> QED  BY <1>1 DEF QueueInit, RowTyped

LEMMA RowTypeStep == RowTyped /\ [QueueNext]_queueVars => RowTyped'
<1> SUFFICES ASSUME RowTyped, [QueueNext]_queueVars PROVE RowTyped'  OBVIOUS
<1> USE DEF RowStates
<1>1. ASSUME NEW e \in Events, Webhook(e) PROVE RowTyped'
  <2>1. PICK s \in {"queued", "skipped"} : row' = [row EXCEPT ![e].state = s]
    BY <1>1 DEF Webhook
  <2> QED  BY <2>1, StateFacts
<1>2. ASSUME NEW e \in Events, Replay(e) \/ PutBack(e) PROVE RowTyped'
  <2>1. row' = [row EXCEPT ![e].state = "queued", ![e].later = FALSE]
    BY <1>2 DEF Replay, PutBack
  <2> QED  BY <2>1, MarkFacts
<1>3. ASSUME NEW e \in Events, Retrigger(e) PROVE RowTyped'
  <2>1. NoRow \in Row  BY QueueAssumption DEF NoRow, Row
  <2>2. [NoRow EXCEPT !.state = "queued"] \in Row  BY <2>1 DEF Row
  <2> QED  BY <1>3, <2>2 DEF Retrigger, RowTyped
<1>4. ASSUME NEW e \in Events, RetryDue(e) PROVE RowTyped'
  <2>1. [row[e] EXCEPT !.later = FALSE] \in Row  BY DEF Row, RowTyped
  <2>2. row' = [row EXCEPT ![e] = [@ EXCEPT !.later = FALSE]]  BY <1>4 DEF RetryDue
  <2> QED  BY <2>1, <2>2 DEF RowTyped
<1>5. ASSUME NEW e \in Events, Claim(e) PROVE RowTyped'  BY <1>5, ClaimFacts
<1>6. ASSUME NEW e \in Events, EndSetup(e) \/ EndRun(e) PROVE RowTyped'
  <2>1. Outcome(e)  BY <1>6 DEF EndSetup, EndRun, Outcome
  <2> QED  BY <2>1, OutcomeFacts
<1>7. CASE Start  BY <1>7, ResetFacts DEF Start
<1>8. CASE UNCHANGED row  BY <1>8 DEF RowTyped
<1>9. ASSUME NEW e \in Events,
             Cancel(e) \/ Admit(e) \/ AcquireSlot(e) \/ StartThread(e) \/ Arm(e) \/ EndDetached(e)
             \/ Release(e) \/ Interrupt(e)
      PROVE UNCHANGED row
  BY <1>9 DEF dbVars, Cancel, Admit, AcquireSlot, StartThread, Arm, EndDetached, Release, Interrupt
<1>10. ASSUME Rest \/ BeginStop \/ DrainTimeout \/ StopReturns \/ Die \/ UNCHANGED queueVars
       PROVE UNCHANGED row
  BY <1>10 DEF dbVars, Rest, BeginStop, DrainTimeout, StopReturns, Die, queueVars
<1> QED
  BY <1>1, <1>2, <1>3, <1>4, <1>5, <1>6, <1>7, <1>8, <1>9, <1>10
  DEF QueueNext, Request, Dispatch, RunStep, StopStep

LEMMA RestInit == QueueInit => RestTyped
BY DEF QueueInit, RestTyped

\* What the end of an event does to the pool keeps its types.
LEMMA CleanupType ==
  ASSUME RestTyped, NEW e \in Events, NEW next \in Phase, Cleanup(e, next)
  PROVE  /\ cancelled' \subseteq Events /\ shutCancelled' \subseteq Events
         /\ hooks' \subseteq Events /\ available' \subseteq Slots
         /\ slotOf' \in [Events -> Slots \cup {NoSlot}]
         /\ phase' \in [Events -> Phase]
BY DEF RestTyped, Cleanup, Forgotten, Returned

LEMMA RestRequests ==
  ASSUME RestTyped, NEW e \in Events, Request(e) \/ Dispatch(e)
  PROVE  RestTyped'
<1> USE QueueAssumption DEF RestTyped, poolVars, cancelVars, lifeVars, dbVars
<1>1. CASE Webhook(e)
  <2>1. older' \subseteq Events \X Events  BY <1>1 DEF Webhook, Arrive
  <2> QED  BY <1>1, <2>1 DEF Webhook
<1>2. CASE Replay(e)  BY <1>2 DEF Replay
<1>3. CASE Retrigger(e)
  <2>1. older' \subseteq Events \X Events  BY <1>3 DEF Retrigger, Arrive
  <2> QED  BY <1>3, <2>1 DEF Retrigger
<1>4. CASE Cancel(e)
  <2>1. thread' \in [Events -> Thread]  BY <1>4 DEF Cancel, Fired
  <2> QED  BY <1>4, <2>1 DEF Cancel
<1>5. CASE RetryDue(e)  BY <1>5 DEF RetryDue
<1>6. CASE Claim(e)  BY <1>6 DEF Claim
<1>7. CASE Admit(e)
  <2>1. phase' \in [Events -> Phase] /\ inflight' \subseteq Issues  BY <1>7 DEF Admit
  <2> QED  BY <1>7, <2>1 DEF Admit
<1>8. CASE PutBack(e)  BY <1>8 DEF PutBack
<1> QED  BY <1>1, <1>2, <1>3, <1>4, <1>5, <1>6, <1>7, <1>8 DEF Request, Dispatch

LEMMA RestRuns ==
  ASSUME RestTyped, NEW e \in Events, RunStep(e)
  PROVE  RestTyped'
<1> USE DEF RestTyped, poolVars, cancelVars, lifeVars, dbVars
<1>1. CASE AcquireSlot(e)  BY <1>1 DEF AcquireSlot
<1>2. CASE StartThread(e)  BY <1>2 DEF StartThread
<1>3. CASE Arm(e)  BY <1>3 DEF Arm
<1>4. CASE EndSetup(e) \/ EndRun(e)
  <2>1. Cleanup(e, "reclaim")  BY <1>4 DEF EndSetup, EndRun
  <2>2. thread' \in [Events -> Thread]  BY <1>4 DEF EndSetup, EndRun
  <2> QED  BY <1>4, <2>1, <2>2, CleanupType DEF EndSetup, EndRun
<1>5. CASE EndDetached(e)  BY <1>5 DEF EndDetached
<1>6. CASE Release(e)  BY <1>6 DEF Release
<1> QED  BY <1>1, <1>2, <1>3, <1>4, <1>5, <1>6 DEF RunStep

LEMMA RestProcess ==
  ASSUME RestTyped, Rest \/ BeginStop \/ StopStep \/ Die \/ Start
  PROVE  RestTyped'
<1> USE DEF RestTyped, poolVars, cancelVars, lifeVars, dbVars, Tasks
<1>1. CASE Rest  BY <1>1 DEF Rest
<1>2. CASE BeginStop  BY <1>2 DEF BeginStop
<1>3. CASE DrainTimeout  BY <1>3 DEF DrainTimeout
<1>4. CASE StopReturns  BY <1>4 DEF StopReturns
<1>5. ASSUME NEW e \in Events, Interrupt(e) PROVE RestTyped'
  <2>1. CASE phase[e] = "none"  BY <1>5, <2>1 DEF Interrupt
  <2>2. CASE phase[e] # "none" /\ e \in hooks
    <3>1. thread' \in [Events -> Thread]  BY <1>5, <2>2 DEF Interrupt, Fired
    <3>2. /\ UNCHANGED <<inflight, phase, slotOf, available, cancelled>>
          /\ UNCHANGED <<older, replays, disp, server, starts, orphans>>
          /\ shutCancelled' = shutCancelled \cup {e} /\ hooks' = hooks \ {e}
          /\ toStop' = toStop \ {e}
      BY <1>5, <2>2 DEF Interrupt
    <3> QED  BY <3>1, <3>2
  <2>3. CASE phase[e] # "none" /\ e \notin hooks
    <3>1. Cleanup(e, "none")  BY <1>5, <2>3 DEF Interrupt
    <3>2. inflight' \subseteq Issues  BY <1>5, <2>3 DEF Interrupt
    <3>3. /\ UNCHANGED <<thread, older, replays, disp, server, starts, orphans>>
          /\ toStop' = toStop \ {e}
      BY <1>5, <2>3 DEF Interrupt
    <3>4. /\ cancelled' \subseteq Events /\ shutCancelled' \subseteq Events
          /\ hooks' \subseteq Events /\ available' \subseteq Slots
          /\ slotOf' \in [Events -> Slots \cup {NoSlot}]
          /\ phase' \in [Events -> Phase]
      BY <3>1, CleanupType
    <3> QED  BY <3>2, <3>3, <3>4
  <2> QED  BY <2>1, <2>2, <2>3
<1>6. CASE Die  BY <1>6 DEF Die
<1>7. CASE Start  BY <1>7 DEF Start, ReapAllSlots
<1> QED  BY <1>1, <1>2, <1>3, <1>4, <1>5, <1>6, <1>7 DEF StopStep

LEMMA TypeInit == QueueInit => QueueTypeOK
BY RowTypeInit, RestInit, TypeParts

LEMMA TypeStep == QueueTypeOK /\ [QueueNext]_queueVars => QueueTypeOK'
<1> SUFFICES ASSUME RowTyped, RestTyped, [QueueNext]_queueVars PROVE RestTyped'
  BY RowTypeStep, TypeParts DEF QueueTypeOK, RowTyped, RestTyped, Row
<1>1. CASE UNCHANGED queueVars  BY <1>1 DEF queueVars, RestTyped
<1>2. CASE \E e \in Events : Request(e) \/ Dispatch(e)  BY <1>2, RestRequests
<1>3. CASE \E e \in Events : RunStep(e)  BY <1>3, RestRuns
<1>4. CASE Rest \/ BeginStop \/ StopStep \/ Die \/ Start  BY <1>4, RestProcess
<1> QED  BY <1>1, <1>2, <1>3, <1>4 DEF QueueNext

(***************************************************************************)
(* Type correctness for any constants: in particular the pool only ever    *)
(* gets back slots (SlotPool.release in slot_pool.py).                     *)
(***************************************************************************)
THEOREM QueueTyped == QueueSpec => []QueueTypeOK
<1> QED  BY TypeInit, TypeStep, PTL DEF QueueSpec

-----------------------------------------------------------------------------
(* Keys and slots                                                          *)

\* A task holds the key of its issue, and the issue has no other task.
KeysInv ==
    /\ \A e \in Events : phase[e] # "none" => IssueOf[e] \in inflight
    /\ \A e, f \in Events :
          e # f /\ IssueOf[e] = IssueOf[f] => phase[e] = "none" \/ phase[f] = "none"

\* A slot is with the one event that works under it, or in the pool.
PoolInv ==
    /\ \A e \in Events : phase[e] \in {"setup", "run"} <=> slotOf[e] # NoSlot
    /\ \A e, f \in Events : e # f /\ slotOf[e] = slotOf[f] => slotOf[e] = NoSlot
    /\ available = Slots \ {slotOf[e] : e \in Events}

\* What the end of an event does to its task and its slot.
Ends(e, to) ==
    /\ phase' = [phase EXCEPT ![e] = to]
    /\ slotOf' = [slotOf EXCEPT ![e] = NoSlot]
    /\ available' = available \cup ({slotOf[e]} \ {NoSlot})

LEMMA PoolMoves ==
  ASSUME [QueueNext]_queueVars
  PROVE  \/ UNCHANGED <<phase, inflight, slotOf, available>>
         \/ Die
         \/ \E e \in Events :
              \/ Admit(e) \/ AcquireSlot(e) \/ StartThread(e) \/ Release(e)
              \/ phase[e] \in {"setup", "run"} /\ Ends(e, "reclaim") /\ inflight' = inflight
              \/ /\ server = "interrupting" /\ phase[e] # "none" /\ Ends(e, "none")
                 /\ inflight' = IF phase[e] = "reclaim" THEN inflight ELSE inflight \ {IssueOf[e]}
<1> USE DEF poolVars
<1>1. ASSUME NEW e \in Events,
             Request(e) \/ RetryDue(e) \/ Claim(e) \/ PutBack(e) \/ Arm(e) \/ EndDetached(e)
      PROVE  UNCHANGED <<phase, inflight, slotOf, available>>
  BY <1>1 DEF Request, Webhook, Replay, Retrigger, Cancel, RetryDue, Claim, PutBack, Arm, EndDetached
<1>2. ASSUME NEW e \in Events, EndSetup(e) \/ EndRun(e)
      PROVE  phase[e] \in {"setup", "run"} /\ Ends(e, "reclaim") /\ inflight' = inflight
  BY <1>2 DEF EndSetup, EndRun, Cleanup, Ends, Returned
<1>3. ASSUME NEW e \in Events, Interrupt(e)
      PROVE  \/ UNCHANGED <<phase, inflight, slotOf, available>>
             \/ /\ server = "interrupting" /\ phase[e] # "none" /\ Ends(e, "none")
                /\ inflight' = IF phase[e] = "reclaim" THEN inflight ELSE inflight \ {IssueOf[e]}
  BY <1>3 DEF Interrupt, Cleanup, Ends, Returned
<1>4. ASSUME Rest \/ BeginStop \/ DrainTimeout \/ StopReturns \/ Start \/ UNCHANGED queueVars
      PROVE  UNCHANGED <<phase, inflight, slotOf, available>>
  BY <1>4 DEF Rest, BeginStop, DrainTimeout, StopReturns, Start, queueVars
<1> QED  BY <1>1, <1>2, <1>3, <1>4 DEF QueueNext, Dispatch, RunStep, StopStep

LEMMA KeysInit == QueueInit => KeysInv
BY DEF QueueInit, KeysInv

LEMMA KeysStep == QueueTypeOK /\ KeysInv /\ [QueueNext]_queueVars => KeysInv'
<1> SUFFICES ASSUME QueueTypeOK, KeysInv, [QueueNext]_queueVars PROVE KeysInv'  OBVIOUS
<1>0. phase \in [Events -> Phase]  BY DEF QueueTypeOK
<1>1. CASE UNCHANGED <<phase, inflight, slotOf, available>>  BY <1>1 DEF KeysInv
<1>2. CASE Die  BY <1>2 DEF Die, KeysInv
<1>3. ASSUME NEW e \in Events, Admit(e) PROVE KeysInv'
  <2>1. /\ IssueOf[e] \notin inflight /\ inflight' = inflight \cup {IssueOf[e]}
        /\ phase' = [phase EXCEPT ![e] = "slot"]
    BY <1>3 DEF Admit, KeyIsFree
  <2> QED  BY <1>0, <2>1 DEF KeysInv
<1>4. ASSUME NEW e \in Events, AcquireSlot(e) \/ StartThread(e) PROVE KeysInv'
  <2>1. /\ phase[e] # "none" /\ inflight' = inflight
        /\ \E q \in Phase : phase' = [phase EXCEPT ![e] = q]
    BY <1>4 DEF AcquireSlot, StartThread
  <2> QED  BY <1>0, <2>1 DEF KeysInv
<1>5. ASSUME NEW e \in Events, Release(e) PROVE KeysInv'
  <2>1. /\ phase[e] # "none" /\ inflight' = inflight \ {IssueOf[e]}
        /\ phase' = [phase EXCEPT ![e] = "none"]
    BY <1>5 DEF Release
  <2> QED  BY <1>0, <2>1 DEF KeysInv
<1>6. ASSUME NEW e \in Events, phase[e] \in {"setup", "run"}, Ends(e, "reclaim"), inflight' = inflight
      PROVE KeysInv'
  BY <1>0, <1>6 DEF KeysInv, Ends
<1>7. ASSUME NEW e \in Events, phase[e] # "none", Ends(e, "none"),
             inflight' = inflight \/ inflight' = inflight \ {IssueOf[e]}
      PROVE KeysInv'
  BY <1>0, <1>7 DEF KeysInv, Ends
<1> QED  BY <1>1, <1>2, <1>3, <1>4, <1>5, <1>6, <1>7, PoolMoves

(***************************************************************************)
(* The workspace of an issue has one user, for any number of events,       *)
(* issues and slots, over interrupts and crashes (_inflight of queue.py).  *)
(***************************************************************************)
THEOREM OneUserOfWorkspace == QueueSpec => []WorkspaceExclusive
<1>1. KeysInv => WorkspaceExclusive
  BY DEF KeysInv, WorkspaceExclusive
<1> QED  BY <1>1, QueueTyped, KeysInit, KeysStep, PTL DEF QueueSpec

LEMMA PoolInit == QueueInit => PoolInv
BY QueueAssumption DEF QueueInit, PoolInv

LEMMA PoolStep == QueueTypeOK /\ KeysInv /\ PoolInv /\ [QueueNext]_queueVars => PoolInv'
<1> SUFFICES ASSUME QueueTypeOK, KeysInv, PoolInv, [QueueNext]_queueVars PROVE PoolInv'  OBVIOUS
<1>0. /\ phase \in [Events -> Phase] /\ slotOf \in [Events -> Slots \cup {NoSlot}]
      /\ NoSlot \notin Slots
  BY QueueAssumption DEF QueueTypeOK
<1>1. CASE UNCHANGED <<phase, inflight, slotOf, available>>  BY <1>1 DEF PoolInv
<1>2. CASE Die  BY <1>0, <1>2 DEF Die, PoolInv
<1>3. ASSUME NEW e \in Events, Admit(e) \/ StartThread(e) \/ Release(e) PROVE PoolInv'
  <2>1. /\ UNCHANGED <<slotOf, available>>
        /\ \E q \in Phase : /\ phase' = [phase EXCEPT ![e] = q]
                            /\ phase[e] \in {"setup", "run"} <=> q \in {"setup", "run"}
    <3>1. ASSUME Admit(e) PROVE phase[e] \notin {"setup", "run"}
      BY <3>1 DEF Admit, KeyIsFree, KeysInv
    <3> QED  BY <1>3, <3>1 DEF Admit, StartThread, Release
  <2> QED  BY <1>0, <2>1 DEF PoolInv
<1>4. ASSUME NEW e \in Events, AcquireSlot(e) PROVE PoolInv'
  <2>1. PICK q \in available : /\ phase[e] = "slot" /\ phase' = [phase EXCEPT ![e] = "setup"]
                               /\ slotOf' = [slotOf EXCEPT ![e] = q] /\ available' = available \ {q}
    BY <1>4 DEF AcquireSlot
  <2>2. slotOf[e] = NoSlot /\ q \in Slots /\ q # NoSlot /\ \A f \in Events : slotOf[f] # q
    BY <1>0, <2>1 DEF PoolInv
  <2>3. available' = Slots \ {slotOf'[f] : f \in Events}
    BY <1>0, <2>1, <2>2 DEF PoolInv
  <2> QED  BY <1>0, <2>1, <2>2, <2>3 DEF PoolInv
<1>5. ASSUME NEW e \in Events, NEW q \in {"reclaim", "none"}, Ends(e, q) PROVE PoolInv'
  <2>1. /\ phase' = [phase EXCEPT ![e] = q] /\ slotOf' = [slotOf EXCEPT ![e] = NoSlot]
        /\ available' = available \cup ({slotOf[e]} \ {NoSlot})
    BY <1>5 DEF Ends
  <2>2. available' = Slots \ {slotOf'[f] : f \in Events}
    BY <1>0, <2>1 DEF PoolInv
  <2> QED  BY <1>0, <2>1, <2>2 DEF PoolInv
<1> QED  BY <1>1, <1>2, <1>3, <1>4, <1>5, PoolMoves

-----------------------------------------------------------------------------
(* Threads, shutdown and orphans                                           *)

\* What a process that is up, on its way down, or down, cannot have.
LifeInv ==
    /\ server # "up" => disp = Off
    /\ server = "down" => \A e \in Events : phase[e] = "none" /\ thread[e] = "none"
    /\ server \in {"up", "draining"} =>
          \A e \in Events : thread[e] # "none" => phase[e] = "run"
    /\ server \in {"up", "draining", "down"} => shutCancelled = {}
    /\ \A e, f \in Events :
          e # f /\ IssueOf[e] = IssueOf[f] /\ thread[e] # "none"
          => phase[f] = "none" /\ thread[f] = "none"
    /\ orphans # {} => server = "down"
    /\ \A e, f \in orphans : IssueOf[e] = IssueOf[f] => e = f

LEMMA OffFacts == Off # Idle /\ Off # Asleep /\ \A e : Off # Claimed(e)
<1>1. Off.at = "off" /\ Idle.at = "idle" /\ Asleep.at = "asleep" /\ \A e : Claimed(e).at = "claimed"
  BY DEF Off, Idle, Asleep, Claimed
<1> QED  BY <1>1

LEMMA LifeInit == QueueInit => LifeInv
BY DEF QueueInit, LifeInv

\* A step that leaves the process as it is, dispatches only while it was
\* dispatching, and moves no event into a task or a thread keeps LifeInv.
LEMMA LifeQuiet ==
  ASSUME LifeInv, UNCHANGED <<server, orphans>>,
         disp = Off => disp' = Off,
         server \in {"up", "draining", "down"} => shutCancelled' = {},
         \A e \in Events : phase[e] = "none" => phase'[e] = "none",
         \A e \in Events : thread[e] = "none" => thread'[e] = "none",
         \A e \in Events : server \in {"up", "draining"} /\ phase[e] = "run"
                           => phase'[e] = "run" \/ thread'[e] = "none"
  PROVE  LifeInv'
BY DEF LifeInv

LEMMA LifeRequest ==
  ASSUME QueueTypeOK, LifeInv, NEW e \in Events,
         Request(e) \/ RetryDue(e) \/ Claim(e) \/ PutBack(e)
  PROVE  LifeInv'
<1> USE DEF poolVars, cancelVars, lifeVars
<1>0. thread \in [Events -> Thread]  BY DEF QueueTypeOK
<1>1. UNCHANGED <<server, orphans, phase, shutCancelled>>
  BY DEF Request, Webhook, Replay, Retrigger, Cancel, RetryDue, Claim, PutBack
<1>2. disp = Off => disp' = Off
  BY OffFacts DEF Request, Webhook, Replay, Retrigger, Cancel, RetryDue, Claim, PutBack
<1>3. thread' = Fired(e) \/ thread' = thread
  BY DEF Request, Webhook, Replay, Retrigger, Cancel, RetryDue, Claim, PutBack
<1>4. \A f \in Events : thread[f] = "none" => thread'[f] = "none"
  BY <1>0, <1>3 DEF Fired
<1>5. server \in {"up", "draining", "down"} => shutCancelled' = {}  BY <1>1 DEF LifeInv
<1> QED  BY <1>1, <1>2, <1>4, <1>5, LifeQuiet

LEMMA LifeRun ==
  ASSUME QueueTypeOK, KeysInv, LifeInv, NEW e \in Events, Admit(e) \/ RunStep(e)
  PROVE  LifeInv'
<1> USE DEF poolVars, cancelVars, lifeVars
<1>0. thread \in [Events -> Thread] /\ phase \in [Events -> Phase]  BY DEF QueueTypeOK
<1>1. CASE Admit(e)
  <2>1. disp # Off /\ server = "up"  BY <1>1, OffFacts DEF Admit, LifeInv
  <2>2. \A f \in Events : IssueOf[f] = IssueOf[e] => phase[f] = "none" /\ thread[f] = "none"
    BY <1>1, <2>1 DEF Admit, KeyIsFree, KeysInv, LifeInv
  <2>3. /\ UNCHANGED <<server, orphans, thread, shutCancelled>>
        /\ phase' = [phase EXCEPT ![e] = "slot"]
    BY <1>1 DEF Admit
  <2> QED  BY <1>0, <2>1, <2>2, <2>3 DEF LifeInv
<1>2. CASE StartThread(e)
  <2>1. /\ UNCHANGED <<server, orphans, disp, shutCancelled>> /\ phase[e] = "setup"
        /\ phase' = [phase EXCEPT ![e] = "run"]
        /\ thread' = [thread EXCEPT ![e] = "entering"]
    BY <1>2 DEF StartThread
  <2>2. \A f \in Events : f # e /\ IssueOf[f] = IssueOf[e] => phase[f] = "none" /\ thread[f] = "none"
    BY <2>1 DEF KeysInv, LifeInv
  <2> QED  BY <1>0, <2>1, <2>2 DEF LifeInv
<1>3. CASE AcquireSlot(e) \/ Arm(e) \/ EndDetached(e) \/ Release(e)
  <2>1. UNCHANGED <<server, orphans, disp, shutCancelled>>
    BY <1>3 DEF AcquireSlot, Arm, EndDetached, Release
  <2>2. /\ \A f \in Events : phase[f] = "none" => phase'[f] = "none"
        /\ \A f \in Events : phase[f] = "run" => phase'[f] = "run"
    BY <1>0, <1>3 DEF AcquireSlot, Arm, EndDetached, Release
  <2>3. \A f \in Events : thread[f] = "none" => thread'[f] = "none"
    BY <1>0, <1>3 DEF AcquireSlot, Arm, EndDetached, Release
  <2>4. server \in {"up", "draining", "down"} => shutCancelled' = {}  BY <2>1 DEF LifeInv
  <2> QED  BY <2>1, <2>2, <2>3, <2>4, LifeQuiet
<1>4. CASE EndSetup(e) \/ EndRun(e)
  <2>1. /\ UNCHANGED <<server, orphans, disp>> /\ shutCancelled' = shutCancelled \ {e}
        /\ phase[e] \in {"setup", "run"} /\ phase' = [phase EXCEPT ![e] = "reclaim"]
        /\ \/ phase[e] = "setup" /\ thread' = thread
           \/ thread' = [thread EXCEPT ![e] = "none"]
    BY <1>4 DEF EndSetup, EndRun, Cleanup
  <2>2. \A f \in Events : phase[f] = "none" => phase'[f] = "none"
    BY <1>0, <2>1
  <2>3. \A f \in Events : thread[f] = "none" => thread'[f] = "none"
    BY <1>0, <2>1
  <2>4. \A f \in Events : phase[f] = "run" => phase'[f] = "run" \/ thread'[f] = "none"
    BY <1>0, <2>1
  <2>5. server \in {"up", "draining", "down"} => shutCancelled' = {}  BY <2>1 DEF LifeInv
  <2> QED  BY <2>1, <2>2, <2>3, <2>4, <2>5, LifeQuiet
<1> QED  BY <1>1, <1>2, <1>3, <1>4 DEF RunStep

LEMMA LifeProcess ==
  ASSUME QueueTypeOK, LifeInv, Rest \/ BeginStop \/ StopStep \/ Die \/ Start
  PROVE  LifeInv'
<1> USE DEF poolVars, cancelVars, lifeVars
<1>0. /\ thread \in [Events -> Thread] /\ phase \in [Events -> Phase]
      /\ orphans \subseteq Events
  BY DEF QueueTypeOK
<1>1. CASE Rest
  <2>1. disp # Off /\ UNCHANGED <<server, orphans, phase, thread, shutCancelled>>
    BY <1>1, OffFacts DEF Rest
  <2> QED  BY <2>1 DEF LifeInv
<1>2. CASE BeginStop
  <2>1. /\ server = "up" /\ server' = "draining" /\ disp' = Off
        /\ UNCHANGED <<orphans, phase, thread, shutCancelled>>
    BY <1>2 DEF BeginStop
  <2> QED  BY <2>1 DEF LifeInv
<1>3. CASE DrainTimeout \/ StopReturns
  <2>1. /\ server \in {"draining", "interrupting"} /\ server' \in {"interrupting", "stopped"}
        /\ UNCHANGED <<disp, orphans, phase, thread, shutCancelled>>
    BY <1>3 DEF DrainTimeout, StopReturns
  <2> QED  BY <2>1 DEF LifeInv
<1>4. ASSUME NEW e \in Events, Interrupt(e) PROVE LifeInv'
  <2>1. server = "interrupting" /\ UNCHANGED <<server, orphans, disp>>
    BY <1>4 DEF Interrupt
  <2>2. phase' = phase \/ phase' = [phase EXCEPT ![e] = "none"]
    BY <1>4 DEF Interrupt, Cleanup
  <2>3. thread' = thread \/ thread' = Fired(e)
    BY <1>4 DEF Interrupt
  <2>4. /\ \A f \in Events : phase[f] = "none" => phase'[f] = "none"
        /\ \A f \in Events : thread[f] = "none" => thread'[f] = "none"
    BY <1>0, <2>2, <2>3 DEF Fired
  <2> QED  BY <2>1, <2>4, LifeQuiet
<1>5. CASE Die
  <2>1. /\ server # "down" /\ server' = "down" /\ disp' = Off /\ shutCancelled' = {}
        /\ phase' = [f \in Events |-> "none"] /\ thread' = [f \in Events |-> "none"]
        /\ orphans' = orphans \cup {f \in Events : thread[f] = "driving"}
    BY <1>5 DEF Die
  <2>2. orphans = {}  BY <2>1 DEF LifeInv
  <2>3. \A f, g \in orphans' : IssueOf[f] = IssueOf[g] => f = g
    BY <2>1, <2>2 DEF LifeInv
  <2> QED  BY <2>1, <2>3 DEF LifeInv
<1>6. CASE Start
  <2>1. /\ server = "down" /\ server' = "up" /\ orphans' = {}
        /\ UNCHANGED <<phase, thread, shutCancelled>>
    BY <1>6 DEF Start, ReapAllSlots
  <2> QED  BY <2>1 DEF LifeInv
<1> QED  BY <1>1, <1>2, <1>3, <1>4, <1>5, <1>6 DEF StopStep

LEMMA LifeStep == QueueTypeOK /\ KeysInv /\ LifeInv /\ [QueueNext]_queueVars => LifeInv'
<1> SUFFICES ASSUME QueueTypeOK, KeysInv, LifeInv, [QueueNext]_queueVars PROVE LifeInv'  OBVIOUS
<1>1. CASE UNCHANGED queueVars  BY <1>1 DEF queueVars, LifeInv
<1> QED  BY <1>1, LifeRequest, LifeRun, LifeProcess DEF QueueNext, Dispatch

LEMMA QueueInvariants == QueueSpec => [](QueueTypeOK /\ KeysInv /\ PoolInv /\ LifeInv)
<1>1. QueueInit => QueueTypeOK /\ KeysInv /\ PoolInv /\ LifeInv
  BY TypeInit, KeysInit, PoolInit, LifeInit
<1>2. /\ QueueTypeOK /\ KeysInv /\ PoolInv /\ LifeInv /\ [QueueNext]_queueVars
      => QueueTypeOK' /\ KeysInv' /\ PoolInv' /\ LifeInv'
  BY TypeStep, KeysStep, PoolStep, LifeStep
<1> QED  BY <1>1, <1>2, PTL DEF QueueSpec

(***************************************************************************)
(* An issue has at most one live agent over any crashes and restarts: a    *)
(* process starts only after the reaping (WorkerPool.start of queue.py),   *)
(* and a detached thread outlives its task only where nothing is admitted. *)
(***************************************************************************)
THEOREM OneLiveAgent == QueueSpec => []OneAgentPerIssue
<1>1. QueueTypeOK /\ LifeInv => OneAgentPerIssue
  BY DEF QueueTypeOK, LifeInv, OneAgentPerIssue, LiveAgents
<1> QED  BY <1>1, QueueInvariants, PTL

(***************************************************************************)
(* Slots are neither shared, lost nor invented, and a worker thread always *)
(* has one until stop() interrupts (SlotPool of slot_pool.py).             *)
(***************************************************************************)
THEOREM SlotsAreShared == QueueSpec => []SlotsExclusive
<1>1. QueueTypeOK /\ PoolInv /\ LifeInv => SlotsExclusive
  <2> SUFFICES ASSUME QueueTypeOK, PoolInv, LifeInv, server \in {"up", "draining"}
               PROVE  /\ \A e \in Events : thread[e] # "none" => slotOf[e] \in Slots
                      /\ \A e, f \in Events : slotOf[e] = slotOf[f] /\ e # f => slotOf[e] = NoSlot
                      /\ available = Slots \ {slotOf[e] : e \in Events}
    BY DEF SlotsExclusive
  <2>1. \A e \in Events : thread[e] # "none" => slotOf[e] \in Slots
    BY DEF QueueTypeOK, PoolInv, LifeInv
  <2> QED  BY <2>1 DEF PoolInv
<1> QED  BY <1>1, QueueInvariants, PTL

-----------------------------------------------------------------------------
(* Cancellation                                                            *)

\* The mark of an event goes only with the end of its task, an interrupt or
\* the process, and comes only to a row that is running.
LEMMA MarkMoves ==
  ASSUME [QueueNext]_queueVars
  PROVE  \/ cancelled' = cancelled
         \/ Die
         \/ \E e \in Events :
              \/ row[e].state = "running" /\ row' = row /\ cancelled' = cancelled \cup {e}
              \/ Outcome(e) /\ cancelled' = cancelled \ {e} /\ server' = server
              \/ server' = "interrupting" /\ row' = row /\ cancelled' = cancelled \ {e}
<1> USE DEF cancelVars, poolVars, lifeVars, dbVars
<1>1. ASSUME NEW e \in Events, Cancel(e)
      PROVE  row[e].state = "running" /\ row' = row /\ cancelled' = cancelled \cup {e}
  BY <1>1 DEF Cancel
<1>2. ASSUME NEW e \in Events, EndSetup(e) \/ EndRun(e)
      PROVE  Outcome(e) /\ cancelled' = cancelled \ {e} /\ server' = server
  BY <1>2 DEF EndSetup, EndRun, Outcome, Cleanup, Forgotten
<1>3. ASSUME NEW e \in Events, Interrupt(e)
      PROVE  \/ cancelled' = cancelled
             \/ server' = "interrupting" /\ row' = row /\ cancelled' = cancelled \ {e}
  BY <1>3 DEF Interrupt, Cleanup, Forgotten
<1>4. ASSUME NEW e \in Events,
             Webhook(e) \/ Replay(e) \/ Retrigger(e) \/ Dispatch(e) \/ AcquireSlot(e)
             \/ StartThread(e) \/ Arm(e) \/ EndDetached(e) \/ Release(e)
      PROVE  cancelled' = cancelled
  BY <1>4 DEF Webhook, Replay, Retrigger, Dispatch, RetryDue, Claim, Admit, PutBack,
              AcquireSlot, StartThread, Arm, EndDetached, Release
<1>5. ASSUME Rest \/ BeginStop \/ DrainTimeout \/ StopReturns \/ Start \/ UNCHANGED queueVars
      PROVE  cancelled' = cancelled
  BY <1>5 DEF Rest, BeginStop, DrainTimeout, StopReturns, Start, queueVars
<1> QED  BY <1>1, <1>2, <1>3, <1>4, <1>5 DEF QueueNext, Request, RunStep, StopStep

\* Only a row that rests already, or the outcome of its run, brings an event to rest.
LEMMA RestMoves ==
  ASSUME RowTyped, [QueueNext]_queueVars
  PROVE  \A e \in Events :
            \/ row'[e].state \in Inactive \cup {"none"} => row[e].state \in Inactive \cup {"none"}
            \/ e \notin cancelled'
<1> USE DEF cancelVars, poolVars, lifeVars, dbVars, Inactive
<1> SUFFICES ASSUME NEW g \in Events
             PROVE  \/ row'[g].state \in Inactive \cup {"none"} => row[g].state \in Inactive \cup {"none"}
                    \/ g \notin cancelled'
  OBVIOUS
<1>0. \A s \in {"queued", "skipped"} : s \in RowStates  BY DEF RowStates
<1>1. ASSUME NEW e \in Events, Webhook(e)
      PROVE  row'[g].state = row[g].state \/ row[g].state = "none"
  <2>1. PICK s \in {"queued", "skipped"} : row' = [row EXCEPT ![e].state = s]
    BY <1>1 DEF Webhook
  <2> QED  BY <1>0, <1>1, <2>1, StateFacts DEF Webhook
<1>2. ASSUME NEW e \in Events, Replay(e) \/ PutBack(e)
      PROVE  row'[g].state = row[g].state \/ row'[g].state = "queued"
  <2>1. row' = [row EXCEPT ![e].state = "queued", ![e].later = FALSE]
    BY <1>2 DEF Replay, PutBack
  <2>2. \A f \in Events : row'[f].state = IF f = e THEN "queued" ELSE row[f].state
    BY <1>0, <2>1, MarkFacts
  <2> QED  BY <2>2
<1>3. ASSUME NEW e \in Events, Retrigger(e)
      PROVE  row'[g].state = row[g].state \/ row'[g].state = "queued"
  <2>1. [NoRow EXCEPT !.state = "queued"].state = "queued"  BY DEF NoRow
  <2> QED  BY <1>3, <2>1 DEF Retrigger, RowTyped
<1>4. ASSUME NEW e \in Events, RetryDue(e) PROVE row'[g].state = row[g].state
  <2>1. row' = [row EXCEPT ![e] = [@ EXCEPT !.later = FALSE]]  BY <1>4 DEF RetryDue
  <2>2. [row[e] EXCEPT !.later = FALSE].state = row[e].state  BY DEF RowTyped, Row
  <2> QED  BY <2>1, <2>2 DEF RowTyped
<1>5. ASSUME NEW e \in Events, Claim(e)
      PROVE  row'[g].state = row[g].state \/ row'[g].state = "running"
  BY <1>5, ClaimFacts
<1>6. ASSUME NEW e \in Events, EndSetup(e) \/ EndRun(e)
      PROVE  row'[g].state = row[g].state \/ g \notin cancelled'
  <2>1. Outcome(e) /\ cancelled' = cancelled \ {e}
    BY <1>6 DEF EndSetup, EndRun, Outcome, Cleanup, Forgotten
  <2> QED  BY <2>1, OutcomeFacts
<1>7. ASSUME Start PROVE row'[g].state = row[g].state \/ row'[g].state = "queued"
  BY <1>7, ResetFacts DEF Start
<1>8. ASSUME NEW e \in Events,
             Cancel(e) \/ Admit(e) \/ AcquireSlot(e) \/ StartThread(e) \/ Arm(e) \/ EndDetached(e)
             \/ Release(e) \/ Interrupt(e)
      PROVE UNCHANGED row
  BY <1>8 DEF Cancel, Admit, AcquireSlot, StartThread, Arm, EndDetached, Release, Interrupt
<1>9. ASSUME Rest \/ BeginStop \/ DrainTimeout \/ StopReturns \/ Die \/ UNCHANGED queueVars
      PROVE UNCHANGED row
  BY <1>9 DEF Rest, BeginStop, DrainTimeout, StopReturns, Die, queueVars
<1> QED
  BY <1>1, <1>2, <1>3, <1>4, <1>5, <1>6, <1>7, <1>8, <1>9
  DEF QueueNext, Request, Dispatch, RunStep, StopStep

(***************************************************************************)
(* An event at rest carries no cancel mark, so no replay is killed by an   *)
(* old one (cancellation.py, the finally of _run_event in queue.py).       *)
(***************************************************************************)
THEOREM MarksAreFresh == QueueSpec => []NoStaleCancel
<1>1. QueueInit => NoStaleCancel  BY DEF QueueInit, NoStaleCancel
<1>2. QueueTypeOK /\ NoStaleCancel /\ [QueueNext]_queueVars => NoStaleCancel'
  <2> SUFFICES ASSUME RowTyped, NoStaleCancel, [QueueNext]_queueVars,
                      NEW g \in Events, row'[g].state \in Inactive \cup {"none"}
               PROVE  g \notin cancelled'
    BY TypeParts DEF NoStaleCancel
  <2>1. row[g].state \in Inactive \cup {"none"} => g \notin cancelled  BY DEF NoStaleCancel
  <2>2. CASE row[g].state \notin Inactive \cup {"none"}  BY <2>2, RestMoves
  <2>3. CASE row[g].state \in Inactive \cup {"none"}
    <3>1. "running" \notin Inactive \cup {"none"}  BY DEF Inactive
    <3>2. Die => cancelled' = {}  BY DEF Die
    <3>3. \A e \in Events : row[e].state = "running" => e # g  BY <2>3, <3>1
    <3> QED  BY <2>1, <2>3, <3>2, <3>3, MarkMoves
  <2> QED  BY <2>2, <2>3
<1> QED  BY <1>1, <1>2, QueueTyped, PTL DEF QueueSpec

(***************************************************************************)
(* Until stop() interrupts, an operator's cancel always ends in a failed   *)
(* row: never done, never retried (_dispatch_and_mark of queue.py).        *)
(***************************************************************************)
THEOREM CancelsFail == QueueSpec => CancelFailsTheRow
<1>1. QueueTypeOK /\ LifeInv /\ [QueueNext]_queueVars
      => [\A e \in Events :
             e \in cancelled /\ e \notin cancelled' /\ server' \in {"up", "draining"}
             => row'[e].state = "failed"]_queueVars
  <2> SUFFICES ASSUME RowTyped, LifeInv, [QueueNext]_queueVars, NEW g \in Events,
                      g \in cancelled, g \notin cancelled', server' \in {"up", "draining"}
               PROVE  row'[g].state = "failed"
    BY TypeParts
  <2>1. ~Die  BY DEF Die
  <2>2. PICK e \in Events : Outcome(e) /\ cancelled' = cancelled \ {e} /\ server' = server
    BY <2>1, MarkMoves
  <2>3. e = g /\ shutCancelled = {}  BY <2>2 DEF LifeInv
  <2> QED  BY <2>2, <2>3, OutcomeFacts
<1> QED  BY <1>1, QueueInvariants, PTL DEF QueueSpec, CancelFailsTheRow
=============================================================================
